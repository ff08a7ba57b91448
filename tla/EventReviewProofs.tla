------------------------- MODULE EventReviewProofs -------------------------
(***************************************************************************)
(* Theorems about EventReview, for every set of requests, parameters,      *)
(* candidates and lengths: what detections and reviews of one trace leave  *)
(* behind is what TraceEvents promises, because of the locks they take.    *)
(***************************************************************************)
EXTENDS EventReview, FiniteSetTheorems, SequenceTheorems, TLAPS

Deleting(p) == req[p].pc \in {"detect_delete", "detect_insert"}
Reviewing(p) == req[p].pc \in {"review_route", "review_update", "review_commit"}

\* The event rows a transaction has written.
Holds(p, e) ==
    \/ Deleting(p) /\ e \in req[p].doomed
    \/ req[p].pc = "review_commit" /\ e = req[p].event

\* What a handler has in its local variables once it has got so far.
LocalsOK(p) ==
    /\ req[p].pc \in {"detect_route", "detect_lock"} \/ Deleting(p) => req[p].params \in Params
    /\ req[p].pc = "detect_lock" \/ Deleting(p)
           => \E metres \in Distances : req[p].found = Within(req[p].params, metres)
    /\ ~ Deleting(p) => req[p].doomed = {}
    /\ Reviewing(p) => /\ req[p].event \in EventIds
                       /\ req[p].before \in Event
                       /\ req[p].distance \in Distances

\* The locks are held by those who have written the rows, ...
LocksOK(p) ==
    /\ traceLock = p <=> Deleting(p)
    /\ \A e \in EventIds : rowLock[e] = p <=> Holds(p, e)

\* ... and what they have written is still what they found there: a detection
\* deletes what nobody has reviewed, and in the end all of it.
WritesOK(p) ==
    /\ Deleting(p) => \A e \in req[p].doomed : Pending(e)
    /\ req[p].pc = "detect_insert" => \A e \in EventIds : Pending(e) => e \in req[p].doomed
    /\ req[p].pc = "review_commit" => Exists(req[p].event)

ReqOK(p) == LocalsOK(p) /\ LocksOK(p) /\ WritesOK(p)

\* Ids that have not been handed out stand for no event.
Unused == nextId # 0 /\ \A e \in EventIds : e >= nextId => ~ Exists(e)

RowsOK == Unused /\ PendingMatchTrace /\ ReviewsAudited

IInv == TypeOK /\ RowsOK /\ \A p \in Procs : ReqOK(p)
----------------------------------------------------------------------------
(* The operators of the model.                                             *)

\* A set of places that holds all places before each of its own is a prefix.
LEMMA Prefix ==
    ASSUME NEW n \in Nat, NEW D \in SUBSET (1 .. n),
           \A i \in D : \A j \in 1 .. i : j \in D
    PROVE  /\ Cardinality(D) \in 0 .. n
           /\ \A i \in 1 .. n : i \in D <=> i <= Cardinality(D)
<1>1. \A k \in 0 .. n : IsFiniteSet(1 .. k) /\ Cardinality(1 .. k) = k
    BY FS_Interval
<1>2. IsFiniteSet(D) /\ Cardinality(D) <= n
    <2>1. IsFiniteSet(1 .. n) /\ Cardinality(1 .. n) = n
        BY <1>1
    <2>2. IsFiniteSet(D) /\ Cardinality(D) <= Cardinality(1 .. n)
        BY <2>1, FS_Subset
    <2> QED
        BY <2>1, <2>2
<1>3. Cardinality(D) \in Nat
    BY <1>2, FS_CardinalityType
<1>4. ASSUME NEW i \in 1 .. n, i \in D PROVE i <= Cardinality(D)
    <2>1. 1 .. i \in SUBSET D
        BY <1>4
    <2>2. Cardinality(1 .. i) = i
        BY <1>1
    <2> QED
        BY <1>2, <2>1, <2>2, FS_Subset
<1>5. ASSUME NEW i \in 1 .. n, i \notin D PROVE Cardinality(D) < i
    <2>1. \A j \in D : j < i
        BY <1>5
    <2>2. D \in SUBSET (1 .. i - 1)
        BY <2>1
    <2>3. IsFiniteSet(1 .. i - 1) /\ Cardinality(1 .. i - 1) = i - 1
        BY <1>1
    <2>4. Cardinality(D) <= i - 1
        BY <2>2, <2>3, FS_Subset
    <2> QED
        BY <1>3, <2>4
<1> QED
    BY <1>2, <1>3, <1>4, <1>5

\* What is found within a length is a list of distances, the candidates within the
\* length and no others.
LEMMA WithinExact ==
    ASSUME NEW q \in Params, NEW metres \in Distances
    PROVE  /\ Within(q, metres) \in Seq(Distances)
           /\ \A i \in DOMAIN Candidates[q] :
                  i <= Len(Within(q, metres)) <=> Candidates[q][i] <= metres
<1> DEFINE c == Candidates[q]
           D == {j \in DOMAIN c : c[j] <= metres}
<1>1. c \in Seq(Distances)
    BY EventAssumption
<1>2. Len(c) \in Nat /\ DOMAIN c = 1 .. Len(c)
    BY <1>1
<1>3. \A i, j \in 1 .. Len(c) : c[i] \in Nat /\ (i <= j => c[i] <= c[j])
    <2>1. \A i, j \in DOMAIN c : i <= j => c[i] <= c[j]
        BY EventAssumption
    <2>2. Distances \subseteq Nat
        BY EventAssumption
    <2> HIDE DEF c
    <2>3. \A i \in 1 .. Len(c) : c[i] \in Distances
        BY <1>1
    <2> QED
        BY <1>2, <2>1, <2>2, <2>3
<1>4. metres \in Nat
    BY EventAssumption
<1>5. D \in SUBSET (1 .. Len(c)) /\ \A i \in D : \A j \in 1 .. i : j \in D
    <2> HIDE DEF c
    <2> QED
        BY <1>2, <1>3, <1>4
<1>6. /\ Cardinality(D) \in 0 .. Len(c)
      /\ \A i \in 1 .. Len(c) : i \in D <=> i <= Cardinality(D)
    <2> HIDE DEF c, D
    <2> QED
        BY <1>2, <1>5, Prefix
<1>7. Within(q, metres) = SubSeq(c, 1, Cardinality(D))
    BY DEF Within
<1>8. \A i \in 1 .. Len(c) : i \in D <=> c[i] <= metres
    BY <1>2
<1> HIDE DEF c, D
<1> DEFINE k == Cardinality(D)
<1>9. SubSeq(c, 1, k) \in Seq(Distances) /\ Len(SubSeq(c, 1, k)) = k
    <2>1. k \in 0 .. Len(c)
        BY <1>6
    <2> HIDE DEF k
    <2>2. \A i \in 1 .. k : c[i] \in Distances
        BY <1>1, <2>1
    <2> QED
        BY <1>1, <2>1, <2>2, SubSeqProperties
<1> QED
    BY <1>2, <1>6, <1>7, <1>8, <1>9 DEF c

\* The values an action gives to a request are requests.
LEMMA Requests ==
    /\ Idle \in Request
    /\ \A x \in Request, q \in Params : [x EXCEPT !.pc = "detect_route", !.params = q] \in Request
    /\ \A x \in Request, found \in Seq(Distances) :
           [x EXCEPT !.pc = "detect_lock", !.found = found] \in Request
    /\ \A x \in Request, pc \in {"detect_delete", "detect_insert", "review_update", "review_commit"} :
           [x EXCEPT !.pc = pc] \in Request
    /\ \A x \in Request, e \in EventIds : [x EXCEPT !.doomed = @ \cup {e}] \in Request
    /\ \A x \in Request, e \in EventIds, before \in Event, distance \in Distances :
           [x EXCEPT !.pc = "review_route", !.event = e, !.before = before,
                        !.distance = distance] \in Request
<1>1. Idle \in Request
    BY DEF Idle, Request
<1>2. ASSUME NEW x \in Request, NEW q \in Params
      PROVE  [x EXCEPT !.pc = "detect_route", !.params = q] \in Request
    BY DEF Request
<1>3. ASSUME NEW x \in Request, NEW found \in Seq(Distances)
      PROVE  [x EXCEPT !.pc = "detect_lock", !.found = found] \in Request
    BY DEF Request
<1>4. ASSUME NEW x \in Request, NEW pc \in {"detect_delete", "detect_insert", "review_update", "review_commit"}
      PROVE  [x EXCEPT !.pc = pc] \in Request
    BY DEF Request
<1>5. ASSUME NEW x \in Request, NEW e \in EventIds
      PROVE  [x EXCEPT !.doomed = @ \cup {e}] \in Request
    BY DEF Request
<1>6. ASSUME NEW x \in Request, NEW e \in EventIds, NEW before \in Event,
             NEW distance \in Distances
      PROVE  [x EXCEPT !.pc = "review_route", !.event = e, !.before = before,
                          !.distance = distance] \in Request
    BY DEF Request
<1> QED
    BY <1>1, <1>2, <1>3, <1>4, <1>5, <1>6

\* So are events what it writes.
LEMMA Events ==
    /\ NoEvent \notin Event
    /\ \A q \in Params, d \in Distances :
           [foundWith |-> q, algorithm |-> d, distance |-> d, reviewedBy |-> None] \in Event
    /\ \A x \in Event, d \in Distances, p \in Procs :
           [x EXCEPT !.distance = d, !.reviewedBy = p] \in Event
<1>1. NoEvent \notin Event
    BY EventAssumption DEF Event, NoEvent
<1>2. ASSUME NEW q \in Params, NEW d \in Distances
      PROVE  [foundWith |-> q, algorithm |-> d, distance |-> d, reviewedBy |-> None] \in Event
    BY DEF Event
<1>3. ASSUME NEW x \in Event, NEW d \in Distances, NEW p \in Procs
      PROVE  [x EXCEPT !.distance = d, !.reviewedBy = p] \in Event
    BY DEF Event
<1> QED
    BY <1>1, <1>2, <1>3
----------------------------------------------------------------------------
(* The invariant.                                                          *)

LEMMA InitIInv == Init => IInv
<1> SUFFICES ASSUME Init PROVE IInv
    OBVIOUS
<1>1. \A e \in EventIds : ~ Exists(e) /\ reviews[e] = <<>> /\ rowLock[e] = None
    BY DEF Init, Exists
<1>2. \A p \in Procs : req[p] = Idle
    BY DEF Init
<1>3. TypeOK
    <2>1. req \in [Procs -> Request]
        BY Requests DEF Init
    <2> QED
        BY <2>1 DEF Init, TypeOK
<1>4. RowsOK
    <2>1. 1 \in 1 .. nextId
        BY DEF Init
    <2> QED
        BY <1>1, <2>1 DEF RowsOK, Unused, PendingMatchTrace, ReviewsAudited, Pending, Reviewed,
                         Init
<1>5. \A p \in Procs : ReqOK(p)
    BY <1>1, <1>2, EventAssumption
    DEF Init, ReqOK, LocalsOK, LocksOK, WritesOK, Deleting, Reviewing, Holds, Idle
<1> QED
    BY <1>3, <1>4, <1>5 DEF IInv

LEMMA TypesKept ==
    ASSUME IInv, [Next]_vars
    PROVE  TypeOK'
<1> USE DEF TypeOK, tables, locks
<1>0. TypeOK /\ \A p \in Procs : ReqOK(p)
    BY DEF IInv
<1>1. ASSUME NEW p \in Procs, NEW wanted \in Params \cup {Default}, DetectRead(p, wanted)
      PROVE  TypeOK'
    <2> DEFINE used == IF wanted = Default THEN params ELSE wanted
    <2>1. used \in Params
        BY <1>0
    <2>2. Len(Candidates[used]) \in Nat
        BY <2>1, EventAssumption
    <2> HIDE DEF used
    <2>3. req' = [req EXCEPT ![p] = [Idle EXCEPT !.pc = "detect_route", !.params = used]]
        BY <1>1 DEF DetectRead, used
    <2>4. req' \in [Procs -> Request]
        BY <1>0, <2>1, <2>3, Requests
    <2>5. reserved' \in Nat
        BY <1>0, <1>1, <2>2 DEF DetectRead, used
    <2> QED
        BY <1>0, <1>1, <2>4, <2>5 DEF DetectRead
<1>2. ASSUME NEW p \in Procs, NEW e \in EventIds, NEW d \in Distances \cup {Unchanged},
             ReviewRead(p, e, d)
      PROVE  TypeOK'
    <2> DEFINE distance == IF d = Unchanged THEN events[e].distance ELSE d
    <2>1. events[e] \in Event
        BY <1>0, <1>2 DEF ReviewRead, Exists
    <2>2. distance \in Distances
        BY <2>1 DEF Event
    <2> HIDE DEF distance
    <2>3. req' = [req EXCEPT ![p] = [Idle EXCEPT !.pc = "review_route", !.event = e,
                                       !.before = events[e], !.distance = distance]]
        BY <1>2 DEF ReviewRead, distance
    <2>4. req' \in [Procs -> Request]
        BY <1>0, <2>1, <2>2, <2>3, Requests
    <2> QED
        BY <1>0, <1>2, <2>4 DEF ReviewRead
<1>3. ASSUME NEW p \in Procs, DetectCompute(p) PROVE TypeOK'
    <2>1. Within(req[p].params, length) \in Seq(Distances)
        BY <1>0, <1>3, WithinExact DEF DetectCompute, ReqOK, LocalsOK
    <2>2. req' \in [Procs -> Request]
        BY <1>0, <1>3, <2>1, Requests DEF DetectCompute
    <2> QED
        BY <1>0, <1>3, <2>2 DEF DetectCompute
<1>4. ASSUME NEW p \in Procs, DetectLock(p) PROVE TypeOK'
    <2>1. req' \in [Procs -> Request]
        BY <1>0, <1>4, Requests DEF DetectLock
    <2> QED
        BY <1>0, <1>4, <2>1 DEF DetectLock
<1>5. ASSUME NEW p \in Procs, NEW e \in EventIds, DetectDelete(p, e) PROVE TypeOK'
    <2>1. req' \in [Procs -> Request]
        BY <1>0, <1>5, Requests DEF DetectDelete
    <2> QED
        BY <1>0, <1>5, <2>1 DEF DetectDelete
<1>6. ASSUME NEW p \in Procs, DetectDeleted(p) PROVE TypeOK'
    <2>1. req' \in [Procs -> Request]
        BY <1>0, <1>6, Requests DEF DetectDeleted
    <2> QED
        BY <1>0, <1>6, <2>1 DEF DetectDeleted
<1>7. ASSUME NEW p \in Procs, DetectCommit(p) PROVE TypeOK'
    <2>1. req[p].params \in Params
        BY <1>0, <1>7 DEF DetectCommit, ReqOK, LocalsOK, Deleting
    <2>2. req[p].found \in Seq(Distances)
        BY <1>0 DEF Request
    <2>3. req' \in [Procs -> Request]
        BY <1>0, <1>7, Requests DEF DetectCommit
    <2>4. ASSUME NEW i \in DOMAIN req[p].found PROVE Detected(p, i) \in Event
        <3>1. req[p].found[i] \in Distances
            BY <2>2
        <3> QED
            BY <2>1, <3>1, Events DEF Detected
    <2>5. events' \in [EventIds -> Event \cup {NoEvent}]
        BY <1>0, <1>7, <2>4 DEF DetectCommit
    <2>6. nextId' \in Nat
        BY <1>0, <1>7, <2>2 DEF DetectCommit
    <2>7. rowLock' \in [EventIds -> Procs \cup {None}]
        BY <1>0, <1>7 DEF DetectCommit, Unlocked
    <2> QED
        BY <1>0, <1>7, <2>1, <2>3, <2>5, <2>6, <2>7 DEF DetectCommit
<1>8. ASSUME NEW p \in Procs, ReviewCheck(p) PROVE TypeOK'
    <2>1. req' \in [Procs -> Request]
        BY <1>0, <1>8, Requests DEF ReviewCheck
    <2> QED
        BY <1>0, <1>8, <2>1 DEF ReviewCheck
<1>9. ASSUME NEW p \in Procs, ReviewUpdate(p) PROVE TypeOK'
    <2>1. req' \in [Procs -> Request]
        <3>1. CASE Exists(req[p].event)
            <4>1. req' = [req EXCEPT ![p].pc = "review_commit"]
                BY <1>9, <3>1 DEF ReviewUpdate
            <4> QED
                BY <1>0, <4>1, Requests
        <3>2. CASE ~ Exists(req[p].event)
            BY <1>0, <1>9, <3>2, Requests DEF ReviewUpdate
        <3> QED
            BY <3>1, <3>2
    <2>2. rowLock' \in [EventIds -> Procs \cup {None}]
        BY <1>0, <1>9 DEF ReviewUpdate
    <2> QED
        BY <1>0, <1>9, <2>1, <2>2 DEF ReviewUpdate
<1>10. ASSUME NEW p \in Procs, ReviewCommit(p) PROVE TypeOK'
    <2>1. req[p].event \in EventIds /\ req[p].before \in Event /\ req[p].distance \in Distances
        BY <1>0, <1>10 DEF ReviewCommit, ReqOK, LocalsOK, Reviewing
    <2>2. Revised(p) \in Event
        BY <2>1, Events DEF Revised
    <2>3. req' \in [Procs -> Request]
        BY <1>0, <1>10, Requests DEF ReviewCommit
    <2>4. events' \in [EventIds -> Event \cup {NoEvent}]
        BY <1>0, <1>10, <2>1, Events DEF ReviewCommit, Exists
    <2>5. reviews' \in [EventIds -> Seq([before : Event, after : Event])]
        <3> DEFINE entry == [before |-> req[p].before, after |-> Revised(p)]
        <3>1. entry \in [before : Event, after : Event]
            BY <2>1, <2>2
        <3>2. reviews' = [reviews EXCEPT ![req[p].event] = Append(reviews[req[p].event], entry)]
            BY <1>10 DEF ReviewCommit
        <3> HIDE DEF entry
        <3>3. Append(reviews[req[p].event], entry) \in Seq([before : Event, after : Event])
            BY <1>0, <2>1, <3>1, AppendProperties
        <3> QED
            BY <1>0, <3>2, <3>3
    <2>6. rowLock' \in [EventIds -> Procs \cup {None}]
        BY <1>0, <1>10 DEF ReviewCommit, Unlocked
    <2> QED
        BY <1>0, <1>10, <2>3, <2>4, <2>5, <2>6 DEF ReviewCommit
<1>11. ASSUME NEW metres \in Distances, RouteUpdate(metres) PROVE TypeOK'
    BY <1>0, <1>11 DEF RouteUpdate
<1>12. ASSUME NEW p \in Procs, Abort(p) PROVE TypeOK'
    <2>1. req' \in [Procs -> Request]
        BY <1>0, <1>12, Requests DEF Abort
    <2>2. rowLock' \in [EventIds -> Procs \cup {None}]
        BY <1>0, <1>12 DEF Abort, Unlocked
    <2> QED
        BY <1>0, <1>12, <2>1, <2>2 DEF Abort
<1>13. CASE UNCHANGED vars
    BY <1>0, <1>13 DEF vars
<1> QED
    BY <1>1, <1>2, <1>3, <1>4, <1>5, <1>6, <1>7, <1>8, <1>9, <1>10, <1>11, <1>12, <1>13
    DEF Next, Arrives, Continues

\* A request is left alone by the steps of others that keep away from its locks, from
\* the rows it has written and, once it has deleted, from new events.
LeavesAlone(u) ==
    /\ req'[u] = req[u]
    /\ traceLock' = u <=> traceLock = u
    /\ \A e \in EventIds : rowLock'[e] = u <=> rowLock[e] = u
    /\ \A e \in EventIds : Holds(u, e) => events'[e] = events[e]
    /\ req[u].pc = "detect_insert" => \A e \in EventIds : Pending(e)' => Pending(e)

LEMMA LeftAlone ==
    ASSUME TypeOK, NEW u \in Procs, ReqOK(u), LeavesAlone(u)
    PROVE  ReqOK(u)'
<1>1. LocalsOK(u)'
    BY DEF ReqOK, LocalsOK, LeavesAlone, Deleting, Reviewing, Within
<1>2. LocksOK(u)'
    BY DEF ReqOK, LocksOK, LeavesAlone, Deleting, Holds
<1>3. \A e \in EventIds : Holds(u, e) => (Pending(e)' <=> Pending(e)) /\ (Exists(e)' <=> Exists(e))
    BY DEF LeavesAlone, Pending, Exists
<1>4. WritesOK(u)'
    <2>1. req[u].doomed \in SUBSET EventIds
        BY DEF TypeOK, Request
    <2> QED
        BY <1>3, <2>1 DEF ReqOK, WritesOK, LocalsOK, LeavesAlone, Deleting, Reviewing, Holds
<1> QED
    BY <1>1, <1>2, <1>4 DEF ReqOK

\* Whoever holds a row holds it as an event, under an id handed out before.
LEMMA HeldRows ==
    ASSUME IInv, NEW u \in Procs, NEW e \in EventIds, Holds(u, e)
    PROVE  rowLock[e] = u /\ Exists(e) /\ e < nextId
<1>1. ReqOK(u) /\ nextId \in Nat /\ e \in Nat
    BY EventAssumption DEF IInv, TypeOK, EventIds
<1>2. rowLock[e] = u /\ Exists(e)
    BY <1>1 DEF ReqOK, LocksOK, WritesOK, Holds, Pending, Deleting
<1> QED
    BY <1>1, <1>2 DEF IInv, RowsOK, Unused

\* What remains to be shown of a step by p: that it keeps what p is to have, and
\* leaves every other request alone.
LEMMA RequestsKept ==
    ASSUME IInv, [Next]_vars
    PROVE  \A u \in Procs : ReqOK(u)'
<1> DEFINE Others(p) == \A u \in Procs : u # p => LeavesAlone(u)
<1>0. TypeOK /\ \A u \in Procs : ReqOK(u)
    BY DEF IInv
<1>a. ASSUME NEW p \in Procs, ReqOK(p)', Others(p)
      PROVE  \A u \in Procs : ReqOK(u)'
    BY <1>0, <1>a, LeftAlone
<1> HIDE DEF Others
<1>1. ASSUME NEW p \in Procs, NEW wanted \in Params \cup {Default}, DetectRead(p, wanted)
      PROVE  \A u \in Procs : ReqOK(u)'
    <2> DEFINE used == IF wanted = Default THEN params ELSE wanted
    <2>1. used \in Params
        BY <1>0 DEF TypeOK
    <2> HIDE DEF used
    <2>2. /\ req[p] = Idle
          /\ req' = [req EXCEPT ![p] = [Idle EXCEPT !.pc = "detect_route", !.params = used]]
          /\ UNCHANGED <<traceLock, rowLock, events>>
        BY <1>1 DEF DetectRead, used, locks
    <2>3. /\ req'[p] = [Idle EXCEPT !.pc = "detect_route", !.params = used]
          /\ \A u \in Procs : u # p => req'[u] = req[u]
        BY <1>0, <2>2 DEF TypeOK
    <2>4. Others(p)
        BY <2>2, <2>3 DEF Others, LeavesAlone, Pending, Exists
    <2>5. ReqOK(p)
        BY <1>0
    <2>6. ReqOK(p)'
        BY <2>1, <2>2, <2>3, <2>5
        DEF ReqOK, LocalsOK, LocksOK, WritesOK, Deleting, Reviewing, Holds, Idle
    <2> QED
        BY <1>a, <2>4, <2>6
<1>2. ASSUME NEW p \in Procs, NEW e \in EventIds, NEW d \in Distances \cup {Unchanged},
             ReviewRead(p, e, d)
      PROVE  \A u \in Procs : ReqOK(u)'
    <2> DEFINE distance == IF d = Unchanged THEN events[e].distance ELSE d
    <2>1. events[e] \in Event
        BY <1>0, <1>2 DEF TypeOK, ReviewRead, Exists
    <2>2. distance \in Distances
        BY <2>1 DEF Event
    <2> HIDE DEF distance
    <2>3. /\ req[p] = Idle
          /\ req' = [req EXCEPT ![p] = [Idle EXCEPT !.pc = "review_route", !.event = e,
                                          !.before = events[e], !.distance = distance]]
          /\ UNCHANGED <<traceLock, rowLock, events>>
        BY <1>2 DEF ReviewRead, distance, locks, tables
    <2>4. /\ req'[p] = [Idle EXCEPT !.pc = "review_route", !.event = e,
                                    !.before = events[e], !.distance = distance]
          /\ \A u \in Procs : u # p => req'[u] = req[u]
        BY <1>0, <2>3 DEF TypeOK
    <2>5. Others(p)
        BY <2>3, <2>4 DEF Others, LeavesAlone, Pending, Exists
    <2>6. ReqOK(p)
        BY <1>0
    <2>7. ReqOK(p)'
        BY <2>1, <2>2, <2>3, <2>4, <2>6
        DEF ReqOK, LocalsOK, LocksOK, WritesOK, Deleting, Reviewing, Holds, Idle
    <2> QED
        BY <1>a, <2>5, <2>7
<1>3. ASSUME NEW p \in Procs, DetectCompute(p) PROVE \A u \in Procs : ReqOK(u)'
    <2> DEFINE found == Within(req[p].params, length)
    <2>1. /\ req[p].pc = "detect_route" /\ req[p].params \in Params
          /\ length \in Distances
          /\ UNCHANGED <<traceLock, rowLock, events>>
        BY <1>0, <1>3 DEF DetectCompute, ReqOK, LocalsOK, TypeOK, locks, tables
    <2>2. req[p] \in Request
        BY <1>0 DEF TypeOK
    <2>3. /\ req'[p] = [req[p] EXCEPT !.pc = "detect_lock", !.found = found]
          /\ \A u \in Procs : u # p => req'[u] = req[u]
        BY <1>0, <1>3 DEF DetectCompute, TypeOK
    <2>4. Others(p)
        BY <2>1, <2>3 DEF Others, LeavesAlone, Pending, Exists
    <2>5. ReqOK(p)
        BY <1>0
    <2>6. /\ req'[p].pc = "detect_lock" /\ req'[p].params = req[p].params
          /\ req'[p].found = found /\ req'[p].doomed = req[p].doomed
        BY <2>2, <2>3 DEF Request
    <2>7. LocalsOK(p)'
        BY <2>1, <2>5, <2>6 DEF ReqOK, LocalsOK, Deleting, Reviewing, Within
    <2>8. LocksOK(p)' /\ WritesOK(p)'
        BY <2>1, <2>5, <2>6 DEF ReqOK, LocksOK, WritesOK, Deleting, Holds
    <2> QED
        BY <1>a, <2>4, <2>7, <2>8 DEF ReqOK
<1>4. ASSUME NEW p \in Procs, DetectLock(p) PROVE \A u \in Procs : ReqOK(u)'
    <2>1. /\ req[p].pc = "detect_lock" /\ traceLock = None /\ traceLock' = p
          /\ UNCHANGED <<rowLock, events>>
        BY <1>4 DEF DetectLock, tables
    <2>2. req[p] \in Request
        BY <1>0 DEF TypeOK
    <2>3. /\ req'[p] = [req[p] EXCEPT !.pc = "detect_delete"]
          /\ \A u \in Procs : u # p => req'[u] = req[u]
        BY <1>0, <1>4 DEF DetectLock, TypeOK
    <2>4. Others(p)
        BY <2>1, <2>3, EventAssumption DEF Others, LeavesAlone, Pending, Exists
    <2>5. ReqOK(p)
        BY <1>0
    <2>6. /\ req'[p].pc = "detect_delete" /\ req'[p].params = req[p].params
          /\ req'[p].found = req[p].found /\ req'[p].doomed = req[p].doomed
        BY <2>2, <2>3 DEF Request
    <2>7. LocalsOK(p)'
        BY <2>1, <2>5, <2>6 DEF ReqOK, LocalsOK, Deleting, Reviewing, Within
    <2>8. LocksOK(p)' /\ WritesOK(p)'
        BY <2>1, <2>5, <2>6 DEF ReqOK, LocalsOK, LocksOK, WritesOK, Deleting, Holds
    <2> QED
        BY <1>a, <2>4, <2>7, <2>8 DEF ReqOK
<1>5. ASSUME NEW p \in Procs, NEW e \in EventIds, DetectDelete(p, e)
      PROVE  \A u \in Procs : ReqOK(u)'
    <2>1. /\ req[p].pc = "detect_delete" /\ Pending(e)
          /\ rowLock[e] = None /\ rowLock' = [rowLock EXCEPT ![e] = p]
          /\ UNCHANGED <<traceLock, events>>
        BY <1>5 DEF DetectDelete, tables
    <2>2. req[p] \in Request
        BY <1>0 DEF TypeOK
    <2>3. /\ req'[p] = [req[p] EXCEPT !.doomed = @ \cup {e}]
          /\ \A u \in Procs : u # p => req'[u] = req[u]
        BY <1>0, <1>5 DEF DetectDelete, TypeOK
    <2>4. \A r \in EventIds : rowLock'[r] = IF r = e THEN p ELSE rowLock[r]
        BY <1>0, <2>1 DEF TypeOK
    <2>5. Others(p)
        BY <2>1, <2>3, <2>4, EventAssumption DEF Others, LeavesAlone, Pending, Exists
    <2>6. ReqOK(p)
        BY <1>0
    <2>7. /\ req'[p].pc = "detect_delete" /\ req'[p].params = req[p].params
          /\ req'[p].found = req[p].found /\ req'[p].doomed = req[p].doomed \cup {e}
        BY <2>1, <2>2, <2>3 DEF Request
    <2>8. LocalsOK(p)'
        BY <2>1, <2>6, <2>7 DEF ReqOK, LocalsOK, Deleting, Reviewing, Within
    <2>9. LocksOK(p)'
        BY <2>1, <2>4, <2>6, <2>7 DEF ReqOK, LocksOK, Deleting, Holds
    <2>10. WritesOK(p)'
        BY <2>1, <2>6, <2>7 DEF ReqOK, WritesOK, Deleting, Pending, Exists
    <2> QED
        BY <1>a, <2>5, <2>8, <2>9, <2>10 DEF ReqOK
<1>6. ASSUME NEW p \in Procs, DetectDeleted(p) PROVE \A u \in Procs : ReqOK(u)'
    <2>1. /\ req[p].pc = "detect_delete"
          /\ \A e \in EventIds : Pending(e) => e \in req[p].doomed
          /\ UNCHANGED <<traceLock, rowLock, events>>
        BY <1>6 DEF DetectDeleted, locks, tables
    <2>2. req[p] \in Request
        BY <1>0 DEF TypeOK
    <2>3. /\ req'[p] = [req[p] EXCEPT !.pc = "detect_insert"]
          /\ \A u \in Procs : u # p => req'[u] = req[u]
        BY <1>0, <1>6 DEF DetectDeleted, TypeOK
    <2>4. Others(p)
        BY <2>1, <2>3 DEF Others, LeavesAlone, Pending, Exists
    <2>5. ReqOK(p)
        BY <1>0
    <2>6. /\ req'[p].pc = "detect_insert" /\ req'[p].params = req[p].params
          /\ req'[p].found = req[p].found /\ req'[p].doomed = req[p].doomed
        BY <2>2, <2>3 DEF Request
    <2>7. LocalsOK(p)'
        BY <2>1, <2>5, <2>6 DEF ReqOK, LocalsOK, Deleting, Reviewing, Within
    <2>8. LocksOK(p)'
        BY <2>1, <2>5, <2>6 DEF ReqOK, LocksOK, Deleting, Holds
    <2>9. WritesOK(p)'
        BY <2>1, <2>5, <2>6 DEF ReqOK, WritesOK, Deleting, Pending, Exists
    <2> QED
        BY <1>a, <2>4, <2>7, <2>8, <2>9 DEF ReqOK
<1>b. ASSUME NEW p \in Procs, req'[p] = Idle,
             traceLock' = IF traceLock = p THEN None ELSE traceLock, rowLock' = Unlocked(p)
      PROVE  /\ ReqOK(p)'
             /\ \A u \in Procs : u # p =>
                    /\ traceLock' = u <=> traceLock = u
                    /\ \A e \in EventIds : rowLock'[e] = u <=> rowLock[e] = u
    BY <1>b, EventAssumption
    DEF ReqOK, LocalsOK, LocksOK, WritesOK, Deleting, Reviewing, Holds, Idle, Unlocked
<1>7. ASSUME NEW p \in Procs, DetectCommit(p) PROVE \A u \in Procs : ReqOK(u)'
    <2>1. /\ req[p].pc = "detect_insert"
          /\ traceLock' = IF traceLock = p THEN None ELSE traceLock
          /\ rowLock' = Unlocked(p)
          /\ \A u \in Procs : req'[u] = IF u = p THEN Idle ELSE req[u]
        BY <1>0, <1>7 DEF DetectCommit, TypeOK
    <2>2. ASSUME NEW u \in Procs, u # p, NEW e \in EventIds, Holds(u, e)
          PROVE  events'[e] = events[e]
        <3>1. rowLock[e] = u /\ e < nextId
            BY <2>2, HeldRows
        <3>2. e \notin req[p].doomed
            BY <1>0, <2>1, <2>2, <3>1 DEF ReqOK, LocksOK, Holds, Deleting
        <3>3. InsertedAs(p, e) \notin DOMAIN req[p].found
            <4>1. nextId \in Nat /\ e \in Nat /\ req[p].found \in Seq(Distances)
                BY <1>0, EventAssumption DEF TypeOK, Request, EventIds
            <4>2. DOMAIN req[p].found = 1 .. Len(req[p].found)
                BY <4>1
            <4> QED
                BY <3>1, <4>1, <4>2 DEF InsertedAs
        <3> QED
            BY <1>7, <3>2, <3>3 DEF DetectCommit
    <2>3. \A u \in Procs : u # p => req[u].pc # "detect_insert"
        BY <1>0, <2>1 DEF ReqOK, LocksOK, Deleting
    <2>4. Others(p)
        BY <1>b, <2>1, <2>2, <2>3 DEF Others, LeavesAlone
    <2> QED
        BY <1>a, <1>b, <2>1, <2>4
<1>8. ASSUME NEW p \in Procs, ReviewCheck(p) PROVE \A u \in Procs : ReqOK(u)'
    <2>1. /\ req[p].pc = "review_route"
          /\ UNCHANGED <<traceLock, rowLock, events>>
        BY <1>8 DEF ReviewCheck, locks, tables
    <2>2. req[p] \in Request
        BY <1>0 DEF TypeOK
    <2>3. \A u \in Procs : u # p => req'[u] = req[u]
        BY <1>0, <1>8 DEF ReviewCheck, TypeOK
    <2>4. Others(p)
        BY <2>1, <2>3 DEF Others, LeavesAlone, Pending, Exists
    <2>5. ReqOK(p)
        BY <1>0
    <2>6. CASE req'[p] = Idle
        <3>1. ReqOK(p)'
            BY <2>1, <2>5, <2>6
            DEF ReqOK, LocalsOK, LocksOK, WritesOK, Deleting, Reviewing, Holds, Idle
        <3> QED
            BY <1>a, <2>4, <3>1
    <2>7. CASE req'[p] = [req[p] EXCEPT !.pc = "review_update"]
        <3>1. /\ req'[p].pc = "review_update" /\ req'[p].event = req[p].event
              /\ req'[p].before = req[p].before /\ req'[p].distance = req[p].distance
              /\ req'[p].doomed = req[p].doomed
            BY <2>2, <2>7 DEF Request
        <3>2. ReqOK(p)'
            BY <2>1, <2>5, <3>1
            DEF ReqOK, LocalsOK, LocksOK, WritesOK, Deleting, Reviewing, Holds
        <3> QED
            BY <1>a, <2>4, <3>2
    <2> QED
        BY <1>0, <1>8, <2>6, <2>7 DEF ReviewCheck, TypeOK
<1>9. ASSUME NEW p \in Procs, ReviewUpdate(p) PROVE \A u \in Procs : ReqOK(u)'
    <2> DEFINE e == req[p].event
    <2>1. /\ req[p].pc = "review_update" /\ rowLock[e] = None
          /\ UNCHANGED <<traceLock, events>>
        BY <1>9 DEF ReviewUpdate, tables
    <2>2. req[p] \in Request /\ ReqOK(p)
        BY <1>0 DEF TypeOK
    <2>3. e \in EventIds
        BY <2>1, <2>2 DEF ReqOK, LocalsOK, Reviewing
    <2>4. CASE Exists(e)
        <3>1. /\ rowLock' = [rowLock EXCEPT ![e] = p]
              /\ req' = [req EXCEPT ![p].pc = "review_commit"]
            BY <1>9, <2>4 DEF ReviewUpdate
        <3>2. /\ req'[p] = [req[p] EXCEPT !.pc = "review_commit"]
              /\ \A u \in Procs : u # p => req'[u] = req[u]
            BY <1>0, <3>1 DEF TypeOK
        <3>3. \A r \in EventIds : rowLock'[r] = IF r = e THEN p ELSE rowLock[r]
            BY <1>0, <3>1 DEF TypeOK
        <3>4. Others(p)
            BY <2>1, <3>2, <3>3, EventAssumption DEF Others, LeavesAlone, Pending, Exists
        <3>5. /\ req'[p].pc = "review_commit" /\ req'[p].event = e
              /\ req'[p].before = req[p].before /\ req'[p].distance = req[p].distance
              /\ req'[p].doomed = req[p].doomed
            BY <2>2, <3>2 DEF Request
        <3> HIDE DEF e
        <3>6. LocalsOK(p)'
            BY <2>1, <2>2, <3>5 DEF ReqOK, LocalsOK, Deleting, Reviewing, e
        <3>7. LocksOK(p)'
            BY <2>1, <2>2, <2>3, <3>3, <3>5 DEF ReqOK, LocksOK, Deleting, Holds
        <3>8. WritesOK(p)'
            BY <2>1, <2>4, <3>5 DEF WritesOK, Deleting, Exists
        <3> QED
            BY <1>a, <3>4, <3>6, <3>7, <3>8 DEF ReqOK
    <2>5. CASE ~ Exists(e)
        <3>1. req' = [req EXCEPT ![p] = Idle] /\ UNCHANGED rowLock
            BY <1>9, <2>5 DEF ReviewUpdate
        <3>2. req'[p] = Idle /\ \A u \in Procs : u # p => req'[u] = req[u]
            BY <1>0, <3>1 DEF TypeOK
        <3>3. Others(p)
            BY <2>1, <3>1, <3>2 DEF Others, LeavesAlone, Pending, Exists
        <3>4. ReqOK(p)'
            BY <2>1, <2>2, <3>1, <3>2
            DEF ReqOK, LocalsOK, LocksOK, WritesOK, Deleting, Reviewing, Holds, Idle
        <3> QED
            BY <1>a, <3>3, <3>4
    <2> QED
        BY <2>4, <2>5
<1>10. ASSUME NEW p \in Procs, ReviewCommit(p) PROVE \A u \in Procs : ReqOK(u)'
    <2> DEFINE e == req[p].event
    <2>1. /\ req[p].pc = "review_commit" /\ rowLock' = Unlocked(p) /\ UNCHANGED traceLock
          /\ \A u \in Procs : req'[u] = IF u = p THEN Idle ELSE req[u]
        BY <1>0, <1>10 DEF ReviewCommit, TypeOK
    <2>2. traceLock # p
        BY <1>0, <2>1 DEF ReqOK, LocksOK, Deleting
    <2>3. e \in EventIds /\ Exists(e) /\ rowLock[e] = p
        BY <1>0, <2>1 DEF ReqOK, LocalsOK, LocksOK, WritesOK, Reviewing, Holds
    <2>4. events' = [events EXCEPT ![e] = [@ EXCEPT !.distance = req[p].distance,
                                                    !.reviewedBy = p]]
        BY <1>10, <2>3 DEF ReviewCommit
    <2>5. \A r \in EventIds : r # e => events'[r] = events[r]
        BY <1>0, <2>4 DEF TypeOK
    <2>6. events'[e].reviewedBy = p
        <3>1. events'[e] = [events[e] EXCEPT !.distance = req[p].distance, !.reviewedBy = p]
            BY <1>0, <2>3, <2>4 DEF TypeOK
        <3>2. events[e] \in Event
            BY <1>0, <2>3 DEF TypeOK, Exists
        <3> QED
            BY <3>1, <3>2 DEF Event
    <2>7. ASSUME NEW u \in Procs, u # p
          PROVE  /\ \A r \in EventIds : Holds(u, r) => events'[r] = events[r]
                 /\ \A r \in EventIds : Pending(r)' => Pending(r)
        <3>1. ~ Holds(u, e)
            BY <1>0, <2>3, <2>7 DEF ReqOK, LocksOK
        <3>2. p # None
            BY EventAssumption
        <3> HIDE DEF e
        <3> QED
            BY <2>5, <2>6, <3>1, <3>2 DEF Pending, Exists
    <2>8. Others(p)
        BY <1>b, <2>1, <2>2, <2>7 DEF Others, LeavesAlone
    <2> QED
        BY <1>a, <1>b, <2>1, <2>2, <2>8
<1>11. ASSUME NEW metres \in Distances, RouteUpdate(metres) PROVE \A u \in Procs : ReqOK(u)'
    <2>1. \A u \in Procs : LeavesAlone(u)
        BY <1>11 DEF RouteUpdate, LeavesAlone, Pending, Exists, locks
    <2> QED
        BY <1>0, <2>1, LeftAlone
<1>12. ASSUME NEW p \in Procs, Abort(p) PROVE \A u \in Procs : ReqOK(u)'
    <2>1. /\ traceLock' = IF traceLock = p THEN None ELSE traceLock
          /\ rowLock' = Unlocked(p) /\ UNCHANGED events
          /\ \A u \in Procs : req'[u] = IF u = p THEN Idle ELSE req[u]
        BY <1>0, <1>12 DEF Abort, TypeOK, tables
    <2>2. Others(p)
        BY <1>b, <2>1 DEF Others, LeavesAlone, Pending, Exists
    <2> QED
        BY <1>a, <1>b, <2>1, <2>2
<1>13. CASE UNCHANGED vars
    <2>1. \A u \in Procs : LeavesAlone(u)
        BY <1>13 DEF vars, LeavesAlone, Pending, Exists
    <2> QED
        BY <1>0, <2>1, LeftAlone
<1> QED
    BY <1>1, <1>2, <1>3, <1>4, <1>5, <1>6, <1>7, <1>8, <1>9, <1>10, <1>11, <1>12, <1>13
    DEF Next, Arrives, Continues

\* A detection about to commit has deleted exactly the events nobody has reviewed, and
\* has found what lies within some length; the ids from nextId on are free for it.
LEMMA Committing ==
    ASSUME IInv, NEW p \in Procs, req[p].pc = "detect_insert"
    PROVE  /\ req[p].params \in Params
           /\ \A e \in EventIds : e \in req[p].doomed <=> Pending(e)
           /\ \E metres \in Distances : req[p].found = Within(req[p].params, metres)
           /\ req[p].found \in Seq(Distances)
           /\ \A e \in EventIds : InsertedAs(p, e) \in DOMAIN req[p].found => ~ Exists(e)
           /\ \A e \in EventIds :
                  InsertedAs(p, e) \in DOMAIN req[p].found <=> e >= nextId /\ e < nextId + Len(req[p].found)
<1>1. TypeOK /\ ReqOK(p) /\ Unused
    BY DEF IInv, RowsOK
<1>2. req[p].doomed \in SUBSET EventIds /\ req[p].found \in Seq(Distances) /\ nextId \in Nat
    BY <1>1 DEF TypeOK, Request
<1>3. \A e \in EventIds :
          InsertedAs(p, e) \in DOMAIN req[p].found <=> e >= nextId /\ e < nextId + Len(req[p].found)
    <2>1. DOMAIN req[p].found = 1 .. Len(req[p].found) /\ Len(req[p].found) \in Nat
        BY <1>2
    <2>2. EventIds \subseteq Nat
        BY EventAssumption DEF EventIds
    <2> QED
        BY <1>2, <2>1, <2>2 DEF InsertedAs
<1> QED
    BY <1>1, <1>2, <1>3 DEF ReqOK, LocalsOK, WritesOK, Deleting, Unused

\* A review about to commit writes to an event.
LEMMA Committed ==
    ASSUME IInv, NEW p \in Procs, ReviewCommit(p)
    PROVE  LET e == req[p].event IN
           /\ e \in EventIds /\ Exists(e) /\ req[p].distance \in Distances
           /\ Revised(p).distance = req[p].distance /\ Revised(p).reviewedBy = p
           /\ events' = [events EXCEPT ![e] = [@ EXCEPT !.distance = req[p].distance,
                                                        !.reviewedBy = p]]
           /\ events'[e].distance = req[p].distance /\ events'[e].reviewedBy = p
           /\ events'[e] \in Event
           /\ \A r \in EventIds : r # e => events'[r] = events[r]
<1> DEFINE e == req[p].event
<1>1. TypeOK /\ ReqOK(p) /\ req[p].pc = "review_commit"
    BY DEF IInv, ReviewCommit
<1>2. /\ e \in EventIds /\ Exists(e)
      /\ req[p].before \in Event /\ req[p].distance \in Distances
    BY <1>1 DEF ReqOK, LocalsOK, WritesOK, Reviewing
<1>3. events' = [events EXCEPT ![e] = [@ EXCEPT !.distance = req[p].distance, !.reviewedBy = p]]
    BY <1>2 DEF ReviewCommit
<1>4. events[e] \in Event
    BY <1>1, <1>2 DEF TypeOK, Exists
<1>5. /\ events'[e] = [events[e] EXCEPT !.distance = req[p].distance, !.reviewedBy = p]
      /\ \A r \in EventIds : r # e => events'[r] = events[r]
    BY <1>1, <1>2, <1>3 DEF TypeOK
<1>6. events'[e].distance = req[p].distance /\ events'[e].reviewedBy = p
    BY <1>4, <1>5 DEF Event
<1>7. events'[e] \in Event
    <2> HIDE DEF e
    <2> DEFINE x == events[e]
               d == req[p].distance
    <2>1. events'[e] = [x EXCEPT !.distance = d, !.reviewedBy = p] /\ x \in Event /\ d \in Distances
        BY <1>2, <1>4, <1>5
    <2> HIDE DEF x, d
    <2>2. [x EXCEPT !.distance = d, !.reviewedBy = p] \in Event
        BY <2>1, Events
    <2> QED
        BY <2>1, <2>2, Zenon
<1>8. Revised(p).distance = req[p].distance /\ Revised(p).reviewedBy = p
    BY <1>2 DEF Revised, Event
<1> QED
    BY <1>2, <1>3, <1>5, <1>6, <1>7, <1>8

LEMMA RowsKept ==
    ASSUME IInv, TypeOK', [Next]_vars
    PROVE  RowsOK'
<1>0. TypeOK /\ RowsOK
    BY DEF IInv
<1>1. ASSUME NEW p \in Procs, DetectCommit(p) PROVE RowsOK'
    <2> DEFINE found == req[p].found
    <2>1. /\ req[p].pc = "detect_insert" /\ params' = req[p].params
          /\ nextId' = nextId + Len(found) /\ UNCHANGED reviews
        BY <1>1 DEF DetectCommit
    <2>2. PICK metres \in Distances : found = Within(req[p].params, metres)
        BY <2>1, Committing
    <2>3. ASSUME NEW e \in EventIds
          PROVE  \/ /\ InsertedAs(p, e) \in DOMAIN found /\ ~ Exists(e)
                    /\ events'[e] = Detected(p, InsertedAs(p, e))
                 \/ /\ InsertedAs(p, e) \notin DOMAIN found /\ Pending(e)
                    /\ events'[e] = NoEvent
                 \/ /\ InsertedAs(p, e) \notin DOMAIN found /\ ~ Pending(e)
                    /\ events'[e] = events[e]
        <3>1. events'[e] = IF InsertedAs(p, e) \in DOMAIN found THEN Detected(p, InsertedAs(p, e))
                           ELSE IF e \in req[p].doomed THEN NoEvent ELSE events[e]
            BY <1>1 DEF DetectCommit
        <3> QED
            BY <2>1, <3>1, Committing
    <2>4. nextId \in Nat /\ nextId # 0 /\ Len(found) \in Nat /\ EventIds \subseteq Nat
        BY <1>0, <2>1, Committing, EventAssumption DEF RowsOK, Unused, TypeOK, EventIds
    <2>5. \A e \in EventIds : InsertedAs(p, e) \in DOMAIN found <=> e >= nextId /\ e < nextId + Len(found)
        BY <2>1, Committing
    <2>6. Unused'
        <3>1. ASSUME NEW e \in EventIds, e >= nextId' PROVE ~ Exists(e)'
            <4>1. InsertedAs(p, e) \notin DOMAIN found /\ e >= nextId
                BY <2>1, <2>4, <2>5, <3>1
            <4>2. ~ Exists(e)
                BY <1>0, <4>1 DEF RowsOK, Unused
            <4> QED
                BY <2>3, <4>1, <4>2 DEF Exists
        <3> QED
            BY <2>1, <2>4, <3>1 DEF Unused
    <2>7. PendingMatchTrace'
        <3>1. nextId \in 1 .. nextId'
            BY <2>1, <2>4
        <3>2. ASSUME NEW e \in EventIds, Pending(e)'
              PROVE  LET place == e + 1 - nextId IN
                     /\ place \in DOMAIN found
                     /\ events'[e] = [ foundWith |-> params', algorithm |-> found[place],
                                       distance |-> found[place], reviewedBy |-> None ]
            BY <2>1, <2>3, <3>2 DEF Pending, Exists, InsertedAs, Detected
        <3>3. found = Within(params, metres)'
            BY <2>1, <2>2 DEF Within
        <3> HIDE DEF found
        <3> QED
            BY <3>1, <3>2, <3>3 DEF PendingMatchTrace
    <2>8. ReviewsAudited'
        <3>1. ASSUME NEW e \in EventIds
              PROVE  Reviewed(e)' <=> Reviewed(e)
            <4>1. CASE events'[e] = Detected(p, InsertedAs(p, e)) /\ ~ Exists(e)
                <5>1. events'[e].reviewedBy = None
                    BY <4>1 DEF Detected
                <5> QED
                    BY <4>1, <5>1 DEF Reviewed, Exists
            <4>2. CASE events'[e] = NoEvent /\ Pending(e)
                BY <4>2 DEF Reviewed, Pending, Exists
            <4>3. CASE events'[e] = events[e]
                BY <4>3 DEF Reviewed, Exists
            <4> QED
                BY <2>3, <4>1, <4>2, <4>3
        <3>2. ASSUME NEW e \in EventIds, Reviewed(e)
              PROVE  events'[e] = events[e]
            BY <2>3, <3>2 DEF Reviewed, Pending, Exists
        <3> QED
            BY <1>0, <2>1, <3>1, <3>2 DEF RowsOK, ReviewsAudited
    <2> QED
        BY <2>6, <2>7, <2>8 DEF RowsOK
<1>2. ASSUME NEW p \in Procs, ReviewCommit(p) PROVE RowsOK'
    <2> DEFINE e == req[p].event
               entry == [before |-> req[p].before, after |-> Revised(p)]
    <2>1. UNCHANGED <<params, nextId>>
        BY <1>2 DEF ReviewCommit
    <2>2. /\ e \in EventIds /\ Exists(e)
          /\ Revised(p).distance = req[p].distance /\ Revised(p).reviewedBy = p
          /\ events'[e].distance = req[p].distance /\ events'[e].reviewedBy = p
          /\ events'[e] \in Event
          /\ \A r \in EventIds : r # e => events'[r] = events[r]
        BY <1>2, Committed
    <2>3. reviews' = [reviews EXCEPT ![e] = Append(reviews[e], entry)]
        BY <1>2 DEF ReviewCommit
    <2>4. /\ reviews'[e] = Append(reviews[e], entry)
          /\ \A r \in EventIds : r # e => reviews'[r] = reviews[r]
        BY <1>0, <2>2, <2>3 DEF TypeOK
    <2>5. entry.after = Revised(p)
        OBVIOUS
    <2> HIDE DEF entry
    <2>6. reviews'[e] # <<>> /\ reviews'[e][Len(reviews'[e])] = entry
        <3>1. reviews[e] \in Seq([before : Event, after : Event]) /\ reviews'[e] \in Seq([before : Event, after : Event])
            BY <1>0, <2>2 DEF TypeOK
        <3> QED
            BY <2>4, <3>1, AppendProperties
    <2>7. events'[e] # NoEvent /\ p # None
        BY <2>2, Events, EventAssumption
    <2> HIDE DEF e
    <2>8. Unused'
        BY <1>0, <2>1, <2>2 DEF RowsOK, Unused, Exists
    <2>9. PendingMatchTrace'
        <3>1. ASSUME NEW r \in EventIds, Pending(r)' PROVE Pending(r) /\ events'[r] = events[r]
            <4>1. r # e
                BY <2>2, <2>7, <3>1 DEF Pending
            <4>2. events'[r] = events[r]
                BY <2>2, <4>1
            <4> QED
                BY <3>1, <4>2 DEF Pending, Exists
        <3>2. PICK first \in 1 .. nextId, metres \in Distances :
                  \A r \in EventIds : Pending(r) =>
                      LET place == r + 1 - first
                          found == Within(params, metres) IN
                      /\ place \in DOMAIN found
                      /\ events[r] = [ foundWith |-> params, algorithm |-> found[place],
                                       distance |-> found[place], reviewedBy |-> None ]
            BY <1>0 DEF RowsOK, PendingMatchTrace
        <3>3. Within(params, metres)' = Within(params, metres)
            BY <2>1 DEF Within
        <3> QED
            BY <2>1, <3>1, <3>2, <3>3 DEF PendingMatchTrace
    <2>10. ReviewsAudited'
        <3>1. ASSUME NEW r \in EventIds, r # e
              PROVE  events'[r] = events[r] /\ reviews'[r] = reviews[r]
            BY <2>2, <2>4, <3>1
        <3>2. events'[e] # NoEvent /\ events'[e].reviewedBy # None
            BY <2>2, <2>7
        <3> QED
            BY <1>0, <2>2, <2>5, <2>6, <3>1, <3>2 DEF RowsOK, ReviewsAudited, Reviewed, Exists
    <2> QED
        BY <2>8, <2>9, <2>10 DEF RowsOK
<1>3. CASE UNCHANGED <<params, events, nextId, reviews>>
    BY <1>0, <1>3
    DEF RowsOK, Unused, PendingMatchTrace, ReviewsAudited, Pending, Reviewed, Exists, Within
<1> QED
    BY <1>1, <1>2, <1>3
    DEF Next, Arrives, Continues, vars, locks, tables, DetectRead, DetectCompute, DetectLock,
        DetectDelete, DetectDeleted, ReviewRead, ReviewCheck, ReviewUpdate, RouteUpdate, Abort

\* The invariant of every reachable state.
THEOREM Invariance == Spec => []IInv
<1>1. ASSUME IInv, [Next]_vars PROVE IInv'
    BY <1>1, TypesKept, RequestsKept, RowsKept DEF IInv
<1> QED
    BY InitIInv, <1>1, PTL DEF Spec
----------------------------------------------------------------------------
(* What follows for the committed rows.                                    *)

\* Every row, audit entry, lock and local variable of a handler has its shape.
THEOREM TypesCorrect == Spec => []TypeOK
<1>1. IInv => TypeOK
    BY DEF IInv
<1> QED
    BY Invariance, <1>1, PTL

\* However many detections run at once, the events nobody has reviewed come from one of
\* them, the one whose parameters the trace shows: the trace row is locked before the
\* events are replaced.
THEOREM DetectionsDoNotMix == Spec => []PendingMatchTrace
<1>1. IInv => PendingMatchTrace
    BY DEF IInv, RowsOK
<1> QED
    BY Invariance, <1>1, PTL

\* A reviewed event always shows the last entry of its audit trail.
THEOREM ReviewsAgree == Spec => []ReviewsAudited
<1>1. IInv => ReviewsAudited
    BY DEF IInv, RowsOK
<1> QED
    BY Invariance, <1>1, PTL

\* No step of anybody takes a review back: a detection deletes only rows it has looked at
\* again once it has them to itself.
THEOREM ReviewsAreNeverLost == Spec => ReviewsSurvive
<1>1. ASSUME IInv, [Next]_vars, NEW e \in EventIds, Reviewed(e)
      PROVE  Reviewed(e)'
    <2>1. ASSUME NEW p \in Procs, DetectCommit(p) PROVE events'[e] = events[e]
        <3>1. req[p].pc = "detect_insert" /\ Exists(e) /\ ~ Pending(e)
            BY <1>1, <2>1 DEF DetectCommit, Reviewed, Pending
        <3>2. e \notin req[p].doomed /\ InsertedAs(p, e) \notin DOMAIN req[p].found
            BY <1>1, <3>1, Committing
        <3> QED
            BY <2>1, <3>2 DEF DetectCommit
    <2>2. ASSUME NEW p \in Procs, ReviewCommit(p), e = req[p].event
          PROVE  events'[e].reviewedBy = p /\ events'[e] \in Event
        BY <1>1, <2>2, Committed
    <2>3. ASSUME NEW p \in Procs, ReviewCommit(p), e # req[p].event
          PROVE  events'[e] = events[e]
        BY <1>1, <2>3, Committed
    <2>4. CASE UNCHANGED events
        BY <1>1, <2>4 DEF Reviewed, Exists
    <2>5. (\E p \in Procs : DetectCommit(p) \/ ReviewCommit(p)) \/ UNCHANGED events
        BY <1>1
        DEF Next, Arrives, Continues, vars, locks, tables, DetectRead, DetectCompute, DetectLock,
            DetectDelete, DetectDeleted, ReviewRead, ReviewCheck, ReviewUpdate, RouteUpdate, Abort
    <2> QED
        BY <1>1, <2>1, <2>2, <2>3, <2>4, <2>5, Events, EventAssumption DEF Reviewed, Exists
<1>2. ASSUME IInv, [Next]_vars
      PROVE  [\A e \in EventIds : Reviewed(e) => Reviewed(e)']_vars
    BY <1>1, <1>2
<1> QED
    BY Invariance, <1>2, PTL DEF Spec, ReviewsSurvive

\* The promise: seen from the committed rows alone every detection and every review is
\* one step of TraceEvents, whatever the statements of the others come between its own.
THEOREM Refinement == Spec => ImplementsTraceEvents
<1>1. Init => Promise!Init
    BY DEF Init, Promise!Init, NoEvent, Promise!Blank
<1>2. ASSUME IInv, [Next]_vars PROVE [Promise!Next]_Promise!tvars
    <2>0. \A e \in EventIds : Promise!Untouched(e) <=> Pending(e)
        BY DEF Promise!Untouched, Promise!Blank, Pending, Exists, NoEvent
    <2>1. ASSUME NEW p \in Procs, DetectCommit(p) PROVE Promise!Next
        <3> DEFINE found == req[p].found
        <3>1. /\ req[p].pc = "detect_insert" /\ params' = req[p].params
              /\ nextId' = nextId + Len(found) /\ UNCHANGED length
            BY <2>1 DEF DetectCommit
        <3>2. PICK metres \in Distances : found = Within(req[p].params, metres)
            BY <1>2, <3>1, Committing
        <3>3. req[p].params \in Params /\ Promise!Found(req[p].params, metres) = found
            <4>1. req[p].params \in Params
                BY <1>2, <3>1, Committing
            <4>2. Promise!Found(req[p].params, metres) = Within(req[p].params, metres)
                BY DEF Promise!Found, Within, Cardinality, Promise!Cardinality
            <4> QED
                BY <3>2, <4>1, <4>2
        <3>4. \A e \in EventIds : InsertedAs(p, e) \in DOMAIN found => e >= nextId
            BY <1>2, <3>1, Committing
        <3>5. \A e \in EventIds : e \in req[p].doomed <=> Promise!Untouched(e)
            BY <1>2, <2>0, <3>1, Committing
        <3>6. events' = [e \in EventIds |->
                  IF e >= nextId /\ e + 1 - nextId \in DOMAIN found
                  THEN [ foundWith |-> req[p].params, algorithm |-> found[e + 1 - nextId],
                         distance |-> found[e + 1 - nextId], reviewedBy |-> None ]
                  ELSE IF Promise!Untouched(e) THEN Promise!Blank ELSE events[e]]
            BY <2>1, <3>4, <3>5
            DEF DetectCommit, Detected, InsertedAs, Promise!Blank, NoEvent
        <3>7. Promise!Detect(req[p].params, metres)
            BY <3>1, <3>3, <3>6 DEF Promise!Detect
        <3> QED
            BY <3>3, <3>7 DEF Promise!Next
    <2>2. ASSUME NEW p \in Procs, ReviewCommit(p) PROVE Promise!Next
        <3>1. Promise!Review(p, req[p].event, req[p].distance)
            BY <1>2, <2>2, Committed DEF ReviewCommit, Promise!Review, Exists, NoEvent, Promise!Blank
        <3>2. req[p].event \in EventIds /\ req[p].distance \in Distances
            BY <1>2, <2>2, Committed
        <3> QED
            BY <3>1, <3>2 DEF Promise!Next
    <2>3. ASSUME NEW metres \in Distances, RouteUpdate(metres) PROVE Promise!Next
        BY <2>3 DEF RouteUpdate, Promise!RouteUpdate, Promise!Next
    <2>4. \/ \E p \in Procs : DetectCommit(p) \/ ReviewCommit(p)
          \/ \E metres \in Distances : RouteUpdate(metres)
          \/ UNCHANGED <<params, length, events, nextId>>
        <3> DEFINE same == UNCHANGED <<params, length, events, nextId>>
        <3>1. ASSUME NEW p \in Procs, Arrives(p) PROVE same
            BY <3>1 DEF Arrives, DetectRead, ReviewRead, locks, tables
        <3>2. ASSUME NEW p \in Procs, Continues(p) PROVE DetectCommit(p) \/ ReviewCommit(p) \/ same
            BY <3>2
            DEF Continues, locks, tables, DetectCompute, DetectLock, DetectDelete, DetectDeleted,
                ReviewCheck, ReviewUpdate
        <3>3. ASSUME NEW p \in Procs, Abort(p) PROVE same
            BY <3>3 DEF Abort, tables
        <3>4. vars' = vars => same
            BY DEF vars
        <3> HIDE DEF same
        <3>5. \/ \E p \in Procs : Arrives(p) \/ Continues(p) \/ Abort(p)
              \/ \E metres \in Distances : RouteUpdate(metres)
              \/ vars' = vars
            BY <1>2 DEF Next
        <3>6. \/ \E p \in Procs : DetectCommit(p) \/ ReviewCommit(p)
              \/ \E metres \in Distances : RouteUpdate(metres)
              \/ same
            BY <3>1, <3>2, <3>3, <3>4, <3>5
        <3> QED
            BY <3>6 DEF same
    <2> QED
        BY <2>1, <2>2, <2>3, <2>4 DEF Promise!tvars
<1> QED
    BY Invariance, <1>1, <1>2, PTL DEF Spec, ImplementsTraceEvents, Promise!TraceSpec
=============================================================================
