-------------------------- MODULE MCCaseLifecycle --------------------------
(***************************************************************************)
(* Small instances of CaseLifecycle.  One case exercises every race of its *)
(* handlers: no operation reads or writes the rows of two cases.  Two      *)
(* analysts race for the analysis (worker, late worker, recoverer), the    *)
(* admin both analyses and reviews.                                        *)
(***************************************************************************)
EXTENDS CaseLifecycle, TLC

CONSTANTS a1, a2, r1, boss

MCRoleOf == [p \in Procs |-> CASE p \in {a1, a2} -> "analyst"
                               [] p = r1 -> "reviewer"
                               [] OTHER -> "admin"]

\* The two analysts are interchangeable.
Analysts == Permutations({a1, a2})

\* t3 was captured on another route than t1 and t2.
MCRouteOf == [t \in Traces |-> IF t = 3 THEN 2 ELSE 1]
============================================================================
