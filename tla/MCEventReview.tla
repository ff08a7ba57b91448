--------------------------- MODULE MCEventReview ---------------------------
(***************************************************************************)
(* Small instances of EventReview: one trace, whose rows no operation on   *)
(* another trace touches.  The two parameter sets find one common peak and *)
(* one that only the sensitive one sees, beyond the shorter route.  Of the *)
(* three requests p1 is an analyst's, p3 a reviewer's, and p2 an admin's   *)
(* where it is in both sets.                                               *)
(***************************************************************************)
EXTENDS EventReview

CONSTANTS coarse, fine, p1, p2, p3

MCCandidates == [q \in Params |-> IF q = coarse THEN <<1>> ELSE <<1, 2>>]
============================================================================
