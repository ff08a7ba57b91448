------------------------- MODULE MCBaselineCompare -------------------------
(***************************************************************************)
(* All pairs of lists of up to three events at three distances: three      *)
(* events are enough for a chain of stolen partners.  Two reflections of   *)
(* different confidence without loss, and a loss that is in between.       *)
(***************************************************************************)
EXTENDS BaselineCompare

MCReadings == {[loss |-> 0, confidence |-> 6], [loss |-> 0, confidence |-> 9],
               [loss |-> 1, confidence |-> 7]}
============================================================================
