--------------------------- MODULE SignalPipeline ---------------------------
(***************************************************************************)
(* The signal pipeline a detection runs: MovingMedian of                   *)
(* algorithm/denoise.go, then EstimateNoiseFloor, DerivativePeaks,         *)
(* MergePeaks, ClassifyPeak and the route bound of Detect in               *)
(* algorithm/detect.go.                                                    *)
(*                                                                         *)
(* Samples are multiples of four, so that the mean of two of them is exact *)
(* and so is the mean of two such means.  Sample indices count from 0 as   *)
(* in the program; the distance of a sample grows with its index, so the   *)
(* length of the route is the last index within it.  The program's lists   *)
(* of peaks and events are in the order of the index, which each of them   *)
(* has; here they are sets.  The confidence of an event is left out.       *)
(***************************************************************************)
EXTENDS Integers, Sequences, FiniteSets

CONSTANTS Traces,       \* recorded samples
          Windows,      \* denoise_window
          Thresholds,   \* peak_threshold_db
          MergeWindows, \* merge_window, in samples
          Reaches       \* the last sample within the route

ASSUME PipelineAssumption ==
    /\ \A t \in Traces : t \in Seq(Int) /\ Len(t) >= 16 /\ \A i \in DOMAIN t : t[i] % 4 = 0
    /\ Windows \subseteq 1 .. 31
    /\ Thresholds \subseteq Nat \ {0}
    /\ MergeWindows \subseteq Nat \ {0}
    /\ Reaches \subseteq Nat

VARIABLES raw,          \* the samples of the trace
          params,       \* the parameters of this detection
          stage,        \* what is done next
          points,       \* the filtered samples
          peaks,        \* the derivative peaks
          rest,         \* those still to be merged
          current,      \* the merged peak that is still open
          merged,       \* and those that are not
          events        \* what they stand for, within the route

vars == <<raw, params, stage, points, peaks, rest, current, merged, events>>

\* Direction is 1 where the signal rises and -1 where it falls.
Peak == [index : Nat, magnitude : Nat, direction : {-1, 1}]

\* Before the first one.
NoPeak == [index |-> 0, magnitude |-> 0, direction |-> 0]

Abs(n) == IF n < 0 THEN -n ELSE n

Init ==
    /\ raw \in Traces
    /\ params \in [window : Windows, threshold : Thresholds,
                   merge : MergeWindows, reach : Reaches]
    /\ stage = "denoise"
    /\ points = <<>>
    /\ peaks = {}
    /\ rest = {}
    /\ current = NoPeak
    /\ merged = {}
    /\ events = {}
----------------------------------------------------------------------------
(* MovingMedian                                                            *)

\* What stands at place k once the samples are sorted: fewer than k of them are
\* smaller, and k at least are no larger.
Sorted(bucket, k) ==
    CHOOSE v \in {bucket[i] : i \in DOMAIN bucket} :
        /\ Cardinality({i \in DOMAIN bucket : bucket[i] < v}) < k
        /\ Cardinality({i \in DOMAIN bucket : bucket[i] <= v}) >= k

\* Mutant: the largest sample is taken for the median.
MedianUpper(bucket) == Sorted(bucket, Len(bucket))

Median(bucket) ==
    LET middle == Len(bucket) \div 2 IN
    IF Len(bucket) % 2 = 0 THEN (Sorted(bucket, middle) + Sorted(bucket, middle + 1)) \div 2
    ELSE Sorted(bucket, middle + 1)

\* An even window is widened by one sample; that leaves its half as it is.
Half == params.window \div 2

\* Mutant: the window ends one sample early.
BucketShort(i) ==
    SubSeq(raw, IF i - Half < 1 THEN 1 ELSE i - Half,
                IF Half = 0 THEN i
                ELSE IF i + Half - 1 > Len(raw) THEN Len(raw) ELSE i + Half - 1)

\* The samples around one, cut off at both ends of the trace.
Bucket(i) ==
    SubSeq(raw, IF i - Half < 1 THEN 1 ELSE i - Half,
                IF i + Half > Len(raw) THEN Len(raw) ELSE i + Half)

Denoise ==
    /\ stage = "denoise"
    /\ points' = [i \in DOMAIN raw |-> Median(Bucket(i))]
    /\ stage' = "derive"
    /\ UNCHANGED <<raw, params, peaks, rest, current, merged, events>>
----------------------------------------------------------------------------
(* DerivativePeaks                                                         *)

\* The step between sample i - 1 and sample i.
Step(i) == LET delta == points[i + 1] - points[i] IN
           [index |-> i, magnitude |-> Abs(delta), direction |-> IF delta < 0 THEN -1 ELSE 1]

DerivativePeaks ==
    /\ stage = "derive"
    /\ peaks' = {step \in {Step(i) : i \in 1 .. Len(points) - 1} :
                    step.magnitude >= params.threshold}
    /\ rest' = peaks'
    /\ stage' = "merge"
    /\ UNCHANGED <<raw, params, points, current, merged, events>>
----------------------------------------------------------------------------
(* MergePeaks, one peak at a time                                          *)

\* Mutant: peaks exactly a window apart are kept apart.
NearOpen(peak) ==
    current # NoPeak /\ peak.index - current.index < params.merge

Near(peak) ==
    current # NoPeak /\ peak.index - current.index <= params.merge

First(peak) == peak \in rest /\ \A p \in rest : peak.index <= p.index

\* Mutant: a new peak replaces the one that should have been kept.
MergeLoses(peak) ==
    /\ stage = "merge" /\ First(peak)
    /\ rest' = rest \ {peak}
    /\ current' = IF Near(peak) /\ peak.magnitude <= current.magnitude THEN current ELSE peak
    /\ UNCHANGED <<raw, params, stage, points, peaks, merged, events>>

Merge(peak) ==
    /\ stage = "merge" /\ First(peak)
    /\ rest' = rest \ {peak}
    /\ \/ /\ Near(peak)
          /\ current' = IF peak.magnitude > current.magnitude THEN peak ELSE current
          /\ UNCHANGED merged
       \/ /\ ~ Near(peak)
          /\ current' = peak
          /\ merged' = merged \cup ({current} \ {NoPeak})
    /\ UNCHANGED <<raw, params, stage, points, peaks, events>>

\* What MergePeaks returns once there is nothing left to merge.
Kept == (merged \cup {current}) \ {NoPeak}
----------------------------------------------------------------------------
(* ClassifyPeak and the end of Detect                                      *)

\* EstimateNoiseFloor: the median of the last fifth.
NoiseFloor == Median(SubSeq(points, (Len(points) * 4) \div 5 + 1, Len(points)))

Least(a, b) == IF a < b THEN a ELSE b

\* Which of these conditions holds last decides.
EventType(peak) ==
    LET doubled == 2 * peak.magnitude IN
    IF peak.index >= Len(points) - 3 THEN "end"
    ELSE IF peak.direction < 0 /\ doubled < 3 * params.threshold THEN "bend"
    ELSE IF peak.direction < 0 /\ doubled >= 5 * params.threshold THEN "break"
    ELSE IF peak.direction > 0 /\ doubled >= 3 * params.threshold THEN "connector"
    ELSE "splice"

\* Mutant: the loss is what the signal gains.
ClassifyPeakGain(peak) ==
    LET before == points[peak.index]
        after == points[peak.index + 1] IN
    [ index |-> peak.index, type |-> EventType(peak),
      loss |-> IF before < after THEN after - before ELSE 0,
      reflectance |-> Least(before, after) - NoiseFloor ]

ClassifyPeak(peak) ==
    LET before == points[peak.index]
        after == points[peak.index + 1] IN
    [ index |-> peak.index, type |-> EventType(peak),
      loss |-> IF before > after THEN before - after ELSE 0,
      reflectance |-> Least(before, after) - NoiseFloor ]

ValidRouteDistance(peak) == peak.index <= params.reach

\* Detect, after the merge: candidates beyond the route are rejected.
Bound ==
    /\ stage = "merge" /\ rest = {}
    /\ events' = {ClassifyPeak(peak) : peak \in {p \in Kept : ValidRouteDistance(p)}}
    /\ stage' = "done"
    /\ UNCHANGED <<raw, params, points, peaks, rest, current, merged>>

Next == Denoise \/ DerivativePeaks \/ (\E peak \in rest : Merge(peak)) \/ Bound

Spec == Init /\ [][Next]_vars
----------------------------------------------------------------------------
(* Properties.                                                             *)

Done == stage = "done"

InReach(p, q) == Abs(p.index - q.index) <= params.merge

\* Two kept peaks are never within the merge window of each other, although
\* the peak a candidate is compared with moves as larger ones replace it.
KeptApart == \A p, q \in Kept : p # q => ~ InReach(p, q)

\* No peak vanishes for nothing: one that is not kept has a peak at least as
\* large within the merge window.  So one larger than all others in its window
\* survives the merge.
DroppedBesideLarger ==
    Done => \A p \in peaks \ Kept :
        \E q \in peaks \ {p} : InReach(p, q) /\ q.magnitude >= p.magnitude

\* A trace that falls or rises once, at sample s, and is flat otherwise.
StepAt(s) ==
    /\ \A i \in 1 .. s : raw[i] = raw[1]
    /\ \A i \in s + 1 .. Len(raw) : raw[i] = raw[Len(raw)]
    /\ Abs(raw[Len(raw)] - raw[1]) >= params.threshold

\* The event such a step stands for, told from the recorded samples.
StepEvent(s) ==
    LET rise == raw[Len(raw)] - raw[1]
        tail == SubSeq(raw, (Len(raw) * 4) \div 5 + 1, Len(raw)) IN
    [ index |-> s,
      type |-> IF s >= Len(raw) - 3 THEN "end"
               ELSE IF 2 * rise >= 3 * params.threshold THEN "connector"
               ELSE IF rise > 0 \/ 2 * rise \in -5 * params.threshold + 1 .. -3 * params.threshold
               THEN "splice"
               ELSE IF 2 * rise <= -5 * params.threshold THEN "break"
               ELSE "bend",
      loss |-> IF rise < 0 THEN -rise ELSE 0,
      reflectance |-> Least(raw[1], raw[Len(raw)]) - Median(tail) ]

\* A clean step is found where it is, with its kind, its loss and its height
\* over the noise, and nothing else is found, whatever the windows: filtering
\* neither moves it nor splits it nor lowers it.
StepFound ==
    Done => \A s \in Half + 1 .. Len(raw) - Half - 1 :
        StepAt(s) => events = IF s <= params.reach THEN {StepEvent(s)} ELSE {}

\* A single disturbed sample away from the ends of the trace is no event, if
\* there is any filtering at all.
SpikeIgnored ==
    Done /\ Half > 0 => \A j \in Half + 2 .. Len(raw) - Half - 1 :
        (\A i \in DOMAIN raw \ {j} : raw[i] = raw[1]) => events = {}
============================================================================
