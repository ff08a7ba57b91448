---------------------------- MODULE EventReview ----------------------------
(***************************************************************************)
(* Detection of events on one trace and their manual review:               *)
(* service/event_service.go over the rows of repository/event_repository.go*)
(* and repository/trace_repository.go.                                     *)
(*                                                                         *)
(* Unlike the transactions of a case, those of Detect write several rows   *)
(* with several statements, so they are cut into statements here.  Under   *)
(* READ COMMITTED an UPDATE or DELETE locks the rows it writes until its   *)
(* transaction ends, waits for a row somebody else has locked, and then    *)
(* looks at the row again; other readers see the committed row meanwhile.  *)
(* A request holds its uncommitted writes until it commits.                *)
(*                                                                         *)
(* Peak detection itself is the constant Candidates: the distances found   *)
(* with given parameters, in the order of the samples, before those beyond *)
(* the route are rejected.                                                 *)
(***************************************************************************)
EXTENDS Naturals, Sequences, FiniteSets, FiniteSetsExt

CONSTANTS Analysts,     \* requests in flight of people who may detect
          Reviewers,    \* and of those who may review; an admin is in both
          Params,       \* denoise window, threshold and merge window
          Default,      \* a request that leaves the parameters to the trace
          Candidates,   \* the distances detected with each of them, in order
          Distances,    \* distances along the route, route lengths
          Unchanged,    \* a review request without distance_m
          None,         \* nobody; no lock holder
          MaxEvents,    \* bound: event ids handed out
          MaxReviews    \* bound: reviews committed or in flight

EventIds == 1 .. MaxEvents
Procs == Analysts \cup Reviewers

ASSUME EventAssumption ==
    /\ Distances \subseteq Nat
    /\ Candidates \in [Params -> Seq(Distances)]
    /\ \A q \in Params : \A i, j \in DOMAIN Candidates[q] :
           i <= j => Candidates[q][i] <= Candidates[q][j]
    /\ Default \notin Params
    /\ Unchanged \notin Distances
    /\ None \notin Procs \cup Params \cup Distances
    /\ MaxEvents \in Nat /\ MaxReviews \in Nat

VARIABLES params,       \* the parameters recorded on the trace row
          length,       \* the length_m of its route
          events,       \* the event_markers table
          reserved,     \* ids the detections so far may need
          nextId,       \* the id the next inserted event gets
          traceLock,    \* the transaction that has updated the trace row
          rowLock,      \* the transaction that has written each event row
          reviews,      \* the event.reviewed audit entries of each event
          req           \* what each in-flight handler holds

vars == <<params, length, events, reserved, nextId, traceLock, rowLock, reviews, req>>
locks == <<traceLock, rowLock>>
tables == <<params, length, events, reserved, nextId, reviews>>
----------------------------------------------------------------------------
\* model.EventMarker: the columns the algorithm filled (algorithm_distance_m,
\* and the parameters it ran with, which only the trace row records) and the
\* columns a review overwrites.
Event == [ foundWith : Params, algorithm : Distances,
           distance : Distances, reviewedBy : Procs \cup {None} ]

NoEvent == [ foundWith |-> None, algorithm |-> None,
             distance |-> None, reviewedBy |-> None ]

Exists(e) == events[e] # NoEvent
Reviewed(e) == Exists(e) /\ events[e].reviewedBy # None
Pending(e) == Exists(e) /\ events[e].reviewedBy = None

\* The handlers' local variables between two database calls.
Request == [ pc : {"idle", "detect_route", "detect_lock", "detect_delete", "detect_insert",
                   "review_route", "review_update", "review_commit"},
             params : Params \cup {None}, found : Seq(Distances), doomed : SUBSET EventIds,
             event : EventIds \cup {0}, before : Event \cup {NoEvent},
             distance : Distances \cup {None} ]

Idle == [ pc |-> "idle", params |-> None, found |-> <<>>, doomed |-> {},
          event |-> 0, before |-> NoEvent, distance |-> None ]

\* TraceService.Import has recorded parameters and no event.
Init ==
    /\ params \in Params
    /\ length \in Distances
    /\ events = [e \in EventIds |-> NoEvent]
    /\ reserved = 0
    /\ nextId = 1
    /\ traceLock = None
    /\ rowLock = [e \in EventIds |-> None]
    /\ reviews = [e \in EventIds |-> <<>>]
    /\ req = [p \in Procs |-> Idle]

\* What MaxReviews bounds.
ReviewsSoFar ==
    MapThenSumSet(LAMBDA e : Len(reviews[e]), EventIds)
        + Cardinality({p \in Procs : req[p].event # 0})

\* The candidates that do not lie beyond the route.  The distance of a sample grows
\* with its index, so they are the first ones.
Within(q, metres) ==
    SubSeq(Candidates[q], 1,
           Cardinality({i \in DOMAIN Candidates[q] : Candidates[q][i] <= metres}))

Unlocked(p) == [e \in EventIds |-> IF rowLock[e] = p THEN None ELSE rowLock[e]]
----------------------------------------------------------------------------
(* POST /traces/:id/detect                                                 *)

\* The trace is read; parameters left out of the request are the recorded ones.
DetectRead(p, wanted) ==
    LET used == IF wanted = Default THEN params ELSE wanted IN
    /\ req[p] = Idle
    /\ req' = [req EXCEPT ![p] = [Idle EXCEPT !.pc = "detect_route", !.params = used]]
    /\ reserved + Len(Candidates[used]) <= MaxEvents
    /\ reserved' = reserved + Len(Candidates[used])
    /\ UNCHANGED <<params, length, events, nextId, reviews, locks>>

\* The route is read, the pipeline runs and rejects what lies beyond it.
DetectCompute(p) ==
    /\ req[p].pc = "detect_route"
    /\ req' = [req EXCEPT ![p] = [@ EXCEPT !.pc = "detect_lock",
                                           !.found = Within(req[p].params, length)]]
    /\ UNCHANGED <<tables, locks>>

\* Mutant: the trace row is not written before the events are.
DetectLockLate(p) ==
    /\ req[p].pc = "detect_lock"
    /\ req' = [req EXCEPT ![p].pc = "detect_delete"]
    /\ UNCHANGED <<tables, locks>>

\* UpdateProcessing: the first statement of the transaction.
DetectLock(p) ==
    /\ req[p].pc = "detect_lock"
    /\ traceLock = None
    /\ traceLock' = p
    /\ req' = [req EXCEPT ![p].pc = "detect_delete"]
    /\ UNCHANGED <<tables, rowLock>>

\* Mutant: the delete does not look at a row again once it has waited for it.
DetectDeleteStale(p, e) ==
    /\ req[p].pc = "detect_delete"
    /\ Pending(e) /\ e \notin req[p].doomed
    /\ req' = [req EXCEPT ![p].doomed = @ \cup {e}]
    /\ UNCHANGED <<tables, locks>>

\* ReplaceForTrace, first half: DELETE WHERE trace_id = ? AND reviewed = false
\* takes the rows one after the other, in whatever order it meets them.
DetectDelete(p, e) ==
    /\ req[p].pc = "detect_delete"
    /\ Pending(e) /\ e \notin req[p].doomed
    /\ rowLock[e] = None
    /\ rowLock' = [rowLock EXCEPT ![e] = p]
    /\ req' = [req EXCEPT ![p].doomed = @ \cup {e}]
    /\ UNCHANGED <<tables, traceLock>>

\* Every row that still matches has been deleted.
DetectDeleted(p) ==
    /\ req[p].pc = "detect_delete"
    /\ \A e \in EventIds : Pending(e) => e \in req[p].doomed
    /\ req' = [req EXCEPT ![p].pc = "detect_insert"]
    /\ UNCHANGED <<tables, locks>>

\* An event as the detection inserts it, and the id it gets.
Detected(p, i) == [ foundWith |-> req[p].params, algorithm |-> req[p].found[i],
                    distance |-> req[p].found[i], reviewedBy |-> None ]

InsertedAs(p, e) == e + 1 - nextId

\* Mutant: the trace row stays locked.
DetectCommitKeepsLock(p) ==
    /\ req[p].pc = "detect_insert"
    /\ params' = req[p].params
    /\ events' = [e \in EventIds |->
           IF InsertedAs(p, e) \in DOMAIN req[p].found THEN Detected(p, InsertedAs(p, e))
           ELSE IF e \in req[p].doomed THEN NoEvent
           ELSE events[e]]
    /\ nextId' = nextId + Len(req[p].found)
    /\ rowLock' = Unlocked(p)
    /\ req' = [req EXCEPT ![p] = Idle]
    /\ UNCHANGED <<length, reserved, reviews, traceLock>>

\* ReplaceForTrace, second half, the audit entry and the commit.
DetectCommit(p) ==
    /\ req[p].pc = "detect_insert"
    /\ params' = req[p].params
    /\ events' = [e \in EventIds |->
           IF InsertedAs(p, e) \in DOMAIN req[p].found THEN Detected(p, InsertedAs(p, e))
           ELSE IF e \in req[p].doomed THEN NoEvent
           ELSE events[e]]
    /\ nextId' = nextId + Len(req[p].found)
    /\ traceLock' = IF traceLock = p THEN None ELSE traceLock
    /\ rowLock' = Unlocked(p)
    /\ req' = [req EXCEPT ![p] = Idle]
    /\ UNCHANGED <<length, reserved, reviews>>
----------------------------------------------------------------------------
(* PATCH /events/:id/review                                                *)

\* Mutant: the absence of distance_m is taken for a distance.
ReviewReadNil(p, e, distance) ==
    /\ req[p] = Idle
    /\ Exists(e)
    /\ ReviewsSoFar < MaxReviews
    /\ req' = [req EXCEPT ![p] = [Idle EXCEPT !.pc = "review_route", !.event = e,
                                   !.before = events[e], !.distance = distance]]
    /\ UNCHANGED <<tables, locks>>

\* The event is read: it becomes the before-image, and, where the request
\* says nothing, the columns that will be written back.
ReviewRead(p, e, distance) ==
    /\ req[p] = Idle
    /\ Exists(e)
    /\ ReviewsSoFar < MaxReviews
    /\ req' = [req EXCEPT ![p] = [Idle EXCEPT !.pc = "review_route", !.event = e,
                                   !.before = events[e],
                                   !.distance = IF distance = Unchanged THEN events[e].distance
                                                ELSE distance]]
    /\ UNCHANGED <<tables, locks>>

\* The trace and the route are read; a distance beyond the route is rejected.
ReviewCheck(p) ==
    /\ req[p].pc = "review_route"
    /\ req' = [req EXCEPT ![p] = IF req[p].distance > length THEN Idle
                                 ELSE [@ EXCEPT !.pc = "review_update"]]
    /\ UNCHANGED <<tables, locks>>

\* Mutant: zero affected rows are not an error.
ReviewUpdateUnchecked(p) ==
    LET e == req[p].event IN
    /\ req[p].pc = "review_update"
    /\ rowLock[e] = None
    /\ rowLock' = [rowLock EXCEPT ![e] = p]
    /\ req' = [req EXCEPT ![p].pc = "review_commit"]
    /\ UNCHANGED <<tables, traceLock>>

\* UPDATE WHERE id = ?; a row that is gone ends the request with an error.
ReviewUpdate(p) ==
    LET e == req[p].event IN
    /\ req[p].pc = "review_update"
    /\ rowLock[e] = None
    /\ IF Exists(e)
       THEN /\ rowLock' = [rowLock EXCEPT ![e] = p]
            /\ req' = [req EXCEPT ![p].pc = "review_commit"]
       ELSE /\ req' = [req EXCEPT ![p] = Idle]
            /\ UNCHANGED rowLock
    /\ UNCHANGED <<tables, traceLock>>

\* The row as this review leaves it, and its audit entry.
Revised(p) == [ req[p].before EXCEPT !.distance = req[p].distance, !.reviewedBy = p ]

\* Mutant: the revision replaces the algorithm's own value.
ReviewOverwritesAlgorithm(p) ==
    LET e == req[p].event IN
    /\ req[p].pc = "review_commit"
    /\ events' = [events EXCEPT ![e].distance = req[p].distance, ![e].reviewedBy = p,
                                ![e].algorithm = req[p].distance]
    /\ reviews' = [reviews EXCEPT ![e] =
                       Append(@, [before |-> req[p].before, after |-> Revised(p)])]
    /\ rowLock' = Unlocked(p)
    /\ req' = [req EXCEPT ![p] = Idle]
    /\ UNCHANGED <<params, length, reserved, nextId, traceLock>>

\* The written columns of the row with this id, the audit entry and the commit.
ReviewCommit(p) ==
    LET e == req[p].event IN
    /\ req[p].pc = "review_commit"
    /\ events' = IF Exists(e)
                 THEN [events EXCEPT ![e] = [@ EXCEPT !.distance = req[p].distance,
                                                      !.reviewedBy = p]]
                 ELSE events
    /\ reviews' = [reviews EXCEPT ![e] =
                       Append(@, [before |-> req[p].before, after |-> Revised(p)])]
    /\ rowLock' = Unlocked(p)
    /\ req' = [req EXCEPT ![p] = Idle]
    /\ UNCHANGED <<params, length, reserved, nextId, traceLock>>
----------------------------------------------------------------------------
\* PATCH /routes/:id may change the length of the route at any time.
RouteUpdate(metres) ==
    /\ length' = metres
    /\ UNCHANGED <<params, events, reserved, nextId, reviews, locks, req>>

\* The handler stops before its commit: the input is rejected, a call fails,
\* it panics, the process dies.  Its transaction is rolled back.
Abort(p) ==
    /\ req[p] # Idle
    /\ traceLock' = IF traceLock = p THEN None ELSE traceLock
    /\ rowLock' = Unlocked(p)
    /\ req' = [req EXCEPT ![p] = Idle]
    /\ UNCHANGED tables

Continues(p) ==
    \/ DetectCompute(p) \/ DetectLock(p) \/ DetectDeleted(p) \/ DetectCommit(p)
    \/ \E e \in EventIds : DetectDelete(p, e)
    \/ ReviewCheck(p) \/ ReviewUpdate(p) \/ ReviewCommit(p)

\* A request arrives; its body and the sender's role have passed.
Arrives(p) ==
    \/ /\ p \in Analysts
       /\ \E wanted \in Params \cup {Default} : DetectRead(p, wanted)
    \/ /\ p \in Reviewers
       /\ \E e \in EventIds, d \in Distances \cup {Unchanged} : ReviewRead(p, e, d)

Next ==
    \/ \E p \in Procs : Arrives(p) \/ Continues(p) \/ Abort(p)
    \/ \E metres \in Distances : RouteUpdate(metres)

Spec == Init /\ [][Next]_vars

\* Every handler goroutine is scheduled, and Postgres hands a released lock
\* to a waiter, each of them in its turn.
FairSpec == Spec /\ \A p \in Procs : SF_vars(Continues(p))
----------------------------------------------------------------------------
(* Properties.                                                             *)

\* Every column, local variable and audit entry has its shape.
TypeOK ==
    /\ params \in Params
    /\ length \in Distances
    /\ events \in [EventIds -> Event \cup {NoEvent}]
    /\ reserved \in Nat /\ nextId \in Nat
    /\ traceLock \in Procs \cup {None}
    /\ rowLock \in [EventIds -> Procs \cup {None}]
    /\ reviews \in [EventIds -> Seq([before : Event, after : Event])]
    /\ req \in [Procs -> Request]

\* The events nobody has reviewed are those of one detection, the last one
\* committed: each stands for another of the peaks found with the parameters
\* recorded on the trace, on a route of one length.  Two detections at once must
\* not mix their results (UpdateProcessing before ReplaceForTrace).
PendingMatchTrace ==
    \E first \in 1 .. nextId, metres \in Distances :
        \A e \in EventIds : Pending(e) =>
            LET place == e + 1 - first
                found == Within(params, metres) IN
            /\ place \in DOMAIN found
            /\ events[e] = [ foundWith |-> params, algorithm |-> found[place],
                            distance |-> found[place], reviewedBy |-> None ]

\* A reviewed event shows what the last entry of its audit trail says, and a
\* review is logged for no event that a detection has deleted.
ReviewsAudited ==
    \A e \in EventIds :
        /\ Reviewed(e) <=> reviews[e] # <<>>
        /\ reviews[e] # <<>> =>
              LET last == reviews[e][Len(reviews[e])].after IN
              /\ events[e].distance = last.distance
              /\ events[e].reviewedBy = last.reviewedBy

\* No detection, however it races with the review, removes or resets an event
\* somebody has reviewed.
ReviewsSurvive ==
    [][\A e \in EventIds : Reviewed(e) => Reviewed(e)']_vars

\* Whatever the statements of concurrent transactions are interleaved with,
\* the committed rows change as if every detection and every review were one
\* step: a detection replaces exactly the events nobody has reviewed, with one
\* run's events, a review writes the reviewed columns of one event and leaves
\* the algorithm's own values beside them, and an id never comes to mean
\* another event.
Promise == INSTANCE TraceEvents WITH People <- Procs
ImplementsTraceEvents == Promise!TraceSpec

\* No request waits for ever on the rows another one has written: the two
\* transactions take their locks in an order that cannot close a cycle.
RequestsEnd == \A p \in Procs : req[p] # Idle ~> req[p] = Idle

\* The before-image of a review is the event as the previous review left it.
\* The handler reads it before its transaction, so two reviews of one event
\* may log the same before-image, and the later one writes back a distance it
\* has read before the earlier one was committed.
BeforeImagesChain ==
    \A e \in EventIds : \A i \in 2 .. Len(reviews[e]) :
        reviews[e][i].before = reviews[e][i - 1].after

\* No review marks an event valid beyond the end of the route.  The length is
\* read before the transaction and the route may be shortened in between.
ReviewedWithinRoute ==
    [][\A e \in EventIds : Reviewed(e)' /\ events'[e] # events[e]
          => events'[e].distance <= length]_vars
============================================================================
