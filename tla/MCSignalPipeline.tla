-------------------------- MODULE MCSignalPipeline --------------------------
(***************************************************************************)
(* Eighteen samples.  In some traces the first seven vary over three       *)
(* levels and the others keep the level of the seventh: room for four      *)
(* adjacent peaks of different heights, and for a spike in the middle.     *)
(* The others have one step, at any sample, between two of five levels:    *)
(* with the thresholds, every kind of event at every place.                *)
(***************************************************************************)
EXTENDS SignalPipeline

Levels == {0, 4, 12}

Varied == {[i \in 1 .. 18 |-> IF i <= 7 THEN t[i] ELSE t[7]] : t \in [1 .. 7 -> Levels]}

Steps == {[i \in 1 .. 18 |-> IF i <= s THEN from ELSE to] :
             s \in 1 .. 17, from \in Levels \cup {8, 32}, to \in Levels \cup {8, 32}}

MCTraces == Varied \cup Steps
=============================================================================
