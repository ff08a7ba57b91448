-------------------------- MODULE BaselineCompare --------------------------
(***************************************************************************)
(* algorithm/compare.go: the comparison of the events of two traces that   *)
(* an analysis runs, one step per baseline event and one for the rest, and *)
(* the choice of the difference it reports as the fault, one step per      *)
(* difference.  Both lists of events come sorted by distance               *)
(* (EventRepository.ForTrace) and compareEvents has refused empty ones.    *)
(* Distances and losses are small integers; an event's confidence is in    *)
(* tenths, a difference's in hundredths, so that a tenth off is exact and  *)
(* rounding has nothing to do.                                             *)
(***************************************************************************)
EXTENDS Integers, Sequences, FiniteSets

CONSTANTS Distances,    \* event distances
          Readings,     \* insertion losses and confidences
          MaxEvents,    \* bound: events per trace
          Tolerance,    \* distance_tolerance_m
          LossIncrease  \* loss_increase_db

ASSUME CompareAssumption ==
    /\ Distances \subseteq Int
    /\ Readings \subseteq [loss : Int, confidence : Nat]
    /\ MaxEvents \in Nat
    /\ Tolerance \in Int /\ Tolerance > 0
    /\ LossIncrease \in Int /\ LossIncrease > 0

VARIABLES baseline, current,    \* the two lists of events
          next,                 \* the baseline event to be matched next
          match,                \* the current event each one was matched with
          differences,          \* what has been found
          unseen,               \* those PrimaryDifference has not looked at
          best                  \* the one it prefers so far

lists == <<baseline, current>>
choice == <<unseen, best>>
vars == <<lists, next, match, differences, choice>>

Event == {[distance |-> d, loss |-> r.loss, confidence |-> r.confidence] :
             d \in Distances, r \in Readings}

\* No match; the code's -1.
NoMatch == 0

\* Before the first difference, the code's ok = false.  A difference has the kind
\* "disappeared", "loss_increased" or "new" and the places of its events.
Nothing == [kind |-> "none", baseline |-> NoMatch, current |-> NoMatch]

\* What ForTrace can return for a trace with events.
Sorted(events) == \A i \in 2 .. Len(events) : events[i - 1].distance <= events[i].distance
EventLists == {l \in UNION {[1 .. n -> Event] : n \in 1 .. MaxEvents} : Sorted(l)}

Init ==
    /\ baseline \in EventLists
    /\ current \in EventLists
    /\ next = 1
    /\ match = [i \in DOMAIN baseline |-> NoMatch]
    /\ differences = {}
    /\ unseen = {}
    /\ best = Nothing

Used == {match[i] : i \in DOMAIN match} \ {NoMatch}

Delta(i, j) ==
    LET d == baseline[i].distance - current[j].distance IN IF d < 0 THEN -d ELSE d

\* Mutants: an event may be matched twice; the far end of the tolerance does
\* not count.
CandidatesReused(i) == {j \in DOMAIN current : Delta(i, j) <= Tolerance}
CandidatesOpen(i) == {j \in DOMAIN current \ Used : Delta(i, j) < Tolerance}

\* The current events baseline event i may still be matched with.
Candidates(i) == {j \in DOMAIN current \ Used : Delta(i, j) <= Tolerance}

\* Mutant: of equally near events the last one is taken.
NearestLast(i) ==
    CHOOSE j \in Candidates(i) : \A k \in Candidates(i) :
        Delta(i, j) < Delta(i, k) \/ (Delta(i, j) = Delta(i, k) /\ j >= k)

\* The nearest of them, the first one if several are.
Nearest(i) ==
    CHOOSE j \in Candidates(i) : \A k \in Candidates(i) :
        Delta(i, j) < Delta(i, k) \/ (Delta(i, j) = Delta(i, k) /\ j <= k)

Disappeared ==
    /\ next \in DOMAIN baseline
    /\ Candidates(next) = {}
    /\ differences' = differences \cup
           {[kind |-> "disappeared", baseline |-> next, current |-> NoMatch]}
    /\ next' = next + 1
    /\ UNCHANGED <<lists, match, choice>>

Matched ==
    LET j == Nearest(next) IN
    /\ next \in DOMAIN baseline
    /\ Candidates(next) # {}
    /\ match' = [match EXCEPT ![next] = j]
    /\ differences' =
           IF current[j].loss - baseline[next].loss >= LossIncrease
           THEN differences \cup {[kind |-> "loss_increased", baseline |-> next, current |-> j]}
           ELSE differences
    /\ next' = next + 1
    /\ UNCHANGED <<lists, choice>>

\* What no baseline event was matched with is new.
Unmatched ==
    /\ next = Len(baseline) + 1
    /\ differences' = differences \cup
           {[kind |-> "new", baseline |-> NoMatch, current |-> j] : j \in DOMAIN current \ Used}
    /\ next' = next + 1
    /\ unseen' = differences'
    /\ UNCHANGED <<lists, match, best>>

Compared == next = Len(baseline) + 2
----------------------------------------------------------------------------
(* PrimaryDifference over the sorted differences                           *)

\* A partner stands where it is now, and is as sure as the less sure of the
\* two; what has disappeared is a tenth less sure than it was.
DistanceOf(d) ==
    IF d.kind = "disappeared" THEN baseline[d.baseline].distance ELSE current[d.current].distance

Confidence(d) ==
    CASE d.kind = "disappeared" -> 9 * baseline[d.baseline].confidence
      [] d.kind = "new" -> 10 * current[d.current].confidence
      [] OTHER -> LET a == baseline[d.baseline].confidence
                      b == current[d.current].confidence
                  IN 10 * (IF a < b THEN a ELSE b)

\* Kinds in the order of their names.
Rank(d) == CASE d.kind = "disappeared" -> 1 [] d.kind = "loss_increased" -> 2 [] OTHER -> 3

\* The sort is not stable: where both keys are equal the order is open.
Before(d, e) ==
    DistanceOf(d) < DistanceOf(e) \/ (DistanceOf(d) = DistanceOf(e) /\ Rank(d) < Rank(e))

\* Mutant: an increase of loss is never given up.
PreferredKind(d) ==
    /\ Confidence(d) > Confidence(best) \/ d.kind = "loss_increased"
    /\ best.kind # "loss_increased"

Preferred(d) ==
    \/ Confidence(d) > Confidence(best)
    \/ d.kind = "loss_increased" /\ best.kind # "loss_increased"

\* The next difference in the order of the list is looked at.
Prefer(d) ==
    /\ Compared
    /\ d \in unseen
    /\ \A e \in unseen : ~ Before(e, d)
    /\ best' = IF best = Nothing THEN d ELSE IF Preferred(d) THEN d ELSE best
    /\ unseen' = unseen \ {d}
    /\ UNCHANGED <<lists, next, match, differences>>

Next == Disappeared \/ Matched \/ Unmatched \/ \E d \in unseen : Prefer(d)

Spec == Init /\ [][Next]_vars

Done == Compared /\ unseen = {}
----------------------------------------------------------------------------
(* Properties.                                                             *)

Reported(kind, i, j) == [kind |-> kind, baseline |-> i, current |-> j] \in differences

\* Nothing is lost and nothing counted twice: in the end every baseline event
\* has disappeared or has a partner of its own within the tolerance, every
\* current event is new or is a partner, and a loss increase is reported for
\* exactly the partners whose loss grew.
EveryEventAccounted ==
    Done =>
      /\ \A i \in DOMAIN baseline : Reported("disappeared", i, NoMatch) <=> match[i] = NoMatch
      /\ \A j \in DOMAIN current : Reported("new", NoMatch, j) <=> j \notin Used
      /\ \A i, k \in DOMAIN baseline : i # k /\ match[i] # NoMatch => match[i] # match[k]
      /\ \A i \in DOMAIN baseline, j \in DOMAIN current :
            Reported("loss_increased", i, j) <=>
                /\ match[i] = j
                /\ current[j].loss - baseline[i].loss >= LossIncrease
                /\ Delta(i, j) <= Tolerance

\* The matching is maximal although it is greedy: no event is reported to
\* have disappeared while a new one is reported within the tolerance of it.
NoMissedPair ==
    Done => \A i \in DOMAIN baseline, j \in DOMAIN current :
        Reported("disappeared", i, NoMatch) /\ Reported("new", NoMatch, j)
            => Delta(i, j) > Tolerance

\* A trace compared with an equal one differs in nothing.
EqualTracesEqual == Done /\ baseline = current => differences = {}

\* What takes the lead from d before the fault comes: not before d the list has
\* one that is no loss increase and at least as sure, and behind that, not
\* behind the fault, a loss increase no surer than the fault.
Displaced(d) ==
    \E lead, loss \in differences :
        /\ lead.kind # "loss_increased" /\ loss.kind = "loss_increased"
        /\ Confidence(lead) >= Confidence(d) /\ Confidence(loss) <= Confidence(best)
        /\ ~ Before(lead, d) /\ Before(lead, loss) /\ ~ Before(best, loss)

\* What the pass of PrimaryDifference guarantees, whose condition is no order:
\* no difference behind the fault in the list, or in the same place of it, is
\* surer, or an increase of loss where the fault is none; one before it is less
\* sure or was displaced.  So without a loss increase the fault is the surest
\* difference, and a fault of another kind stands behind all loss increases.
\* But a displaced difference may beat the fault in both respects.
FaultJustified ==
    Done =>
      /\ best = Nothing <=> differences = {}
      /\ \A d \in differences :
            IF Before(d, best)
            THEN Confidence(d) < Confidence(best) \/ Displaced(d)
            ELSE /\ Confidence(d) <= Confidence(best)
                 /\ d.kind = "loss_increased" => best.kind = "loss_increased"
============================================================================
