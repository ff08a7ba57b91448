---------------------------- MODULE TraceEvents ----------------------------
(***************************************************************************)
(* What detection and review of the events of one trace promise, with no   *)
(* requests, locks or statements: a detection replaces, in one step, the   *)
(* events nobody has reviewed by those of one run of the pipeline with     *)
(* the parameters it records; a review gives one event its reviewed        *)
(* distance and leaves what the algorithm found beside it; nothing else    *)
(* ever changes an event, and no id is handed out twice.                   *)
(***************************************************************************)
EXTENDS Naturals, Sequences, FiniteSets

CONSTANTS Params,       \* what a detection may be run with
          Candidates,   \* the distances it then detects, in order
          Distances,    \* distances along the route, route lengths
          People,       \* who may review
          None,         \* nobody
          EventIds      \* the ids that may be handed out, from 1 on

VARIABLES params,       \* the parameters recorded with the last detection
          length,       \* the length of the route
          events,       \* the event of each id
          nextId        \* the id the next event gets

tvars == <<params, length, events, nextId>>

\* The entry of an id that stands for no event.
Blank == [ foundWith |-> None, algorithm |-> None,
           distance |-> None, reviewedBy |-> None ]

Untouched(e) == events[e] # Blank /\ events[e].reviewedBy = None

Init ==
    /\ params \in Params
    /\ length \in Distances
    /\ events = [e \in EventIds |-> Blank]
    /\ nextId = 1

\* What a run with parameters q finds on a route of this length: the first of the
\* candidates, which come in order.
Found(q, metres) ==
    SubSeq(Candidates[q], 1,
           Cardinality({i \in DOMAIN Candidates[q] : Candidates[q][i] <= metres}))

\* One detection.  It goes by the length of the route at some moment before.
Detect(q, metres) ==
    LET found == Found(q, metres)
        place(e) == e + 1 - nextId
    IN  /\ params' = q
        /\ nextId' = nextId + Len(found)
        /\ events' = [e \in EventIds |->
               IF e >= nextId /\ place(e) \in DOMAIN found
               THEN [ foundWith |-> q, algorithm |-> found[place(e)],
                      distance |-> found[place(e)], reviewedBy |-> None ]
               ELSE IF Untouched(e) THEN Blank ELSE events[e]]
        /\ UNCHANGED length

\* One review, confirming the distance of the event or revising it.
Review(p, e, metres) ==
    /\ events[e] # Blank
    /\ events' = [events EXCEPT ![e] = [@ EXCEPT !.distance = metres, !.reviewedBy = p]]
    /\ UNCHANGED <<params, length, nextId>>

RouteUpdate(metres) ==
    /\ length' = metres
    /\ UNCHANGED <<params, events, nextId>>

Next ==
    \/ \E q \in Params, metres \in Distances : Detect(q, metres)
    \/ \E p \in People, e \in EventIds, metres \in Distances : Review(p, e, metres)
    \/ \E metres \in Distances : RouteUpdate(metres)

TraceSpec == Init /\ [][Next]_tvars
============================================================================
