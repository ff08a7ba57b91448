---------------------------- MODULE RateLimiter ----------------------------
(***************************************************************************)
(* The in-memory rate limiter of middleware/middleware.go.  A request      *)
(* reads the clock, then waits for the limiter's mutex, and Allow runs     *)
(* under it with the clock reading from before the wait: calls are served  *)
(* in another order than their readings.  Allow as a whole is one step.    *)
(*                                                                         *)
(* A key is the scope of a limiter and a client address; the wait hint     *)
(* Allow also returns is left out.                                         *)
(***************************************************************************)
EXTENDS Integers, Sequences

CONSTANTS Procs,        \* requests in flight
          Keys,         \* scope and client address
          Limit,        \* admissions of a key per window
          Window,       \* length of a window, in ticks
          MaxDelay,     \* bound: ticks between reading the clock and the lock
          MaxTime,      \* bound: ticks
          MaxRequests,  \* bound: requests
          None          \* no entry in the map

ASSUME LimiterAssumption ==
    /\ Limit \in Nat \ {0}
    /\ Window \in Nat \ {0}
    /\ MaxDelay \in 0 .. Window
    /\ MaxTime \in Nat /\ MaxRequests \in Nat
    /\ None \notin [count : Nat, expiresAt : Int]

VARIABLES clock,        \* time.Now()
          visitors,     \* the open window of each key
          lastSweep,    \* when expired windows were last dropped
          req,          \* the requests
          requests,     \* how many have arrived
          admitted      \* history: when each key was admitted

vars == <<clock, visitors, lastSweep, req, requests, admitted>>

Visitor == [count : Nat, expiresAt : Int]

Request == [pc : {"idle", "waiting", "refused"}, key : Keys \cup {None}, now : Nat]

Init ==
    /\ clock = 0
    /\ visitors = [k \in Keys |-> None]
    /\ lastSweep = 0
    /\ req = [p \in Procs |-> [pc |-> "idle", key |-> None, now |-> 0]]
    /\ requests = 0
    /\ admitted = [k \in Keys |-> <<>>]

\* RateLimitMiddleware calls time.Now() as an argument of Allow.
Arrive(p, k) ==
    /\ req[p].pc # "waiting"
    /\ requests < MaxRequests
    /\ requests' = requests + 1
    /\ req' = [req EXCEPT ![p] = [pc |-> "waiting", key |-> k, now |-> clock]]
    /\ UNCHANGED <<clock, visitors, lastSweep, admitted>>
----------------------------------------------------------------------------
(* Allow(key, now), under the mutex.                                       *)

\* Mutant: the reading and the last sweep are swapped, and no sweep is ever made.
SweptSwapped(now) ==
    IF lastSweep - now > Window
    THEN [k \in Keys |-> IF visitors[k] # None /\ now > visitors[k].expiresAt
                         THEN None ELSE visitors[k]]
    ELSE visitors

\* Once a window has passed since the last sweep, expired ones are dropped.
Swept(now) ==
    IF now - lastSweep > Window
    THEN [k \in Keys |-> IF visitors[k] # None /\ now > visitors[k].expiresAt
                         THEN None ELSE visitors[k]]
    ELSE visitors

\* Mutant: a new window inherits the count of the old one.
CurrentKeepsCount(k, now) ==
    LET v == Swept(now)[k] IN
    IF v = None THEN [count |-> 0, expiresAt |-> now + Window]
    ELSE IF now > v.expiresAt THEN [count |-> v.count, expiresAt |-> now + Window]
    ELSE v

\* The window this request counts in, a new one if there is none.
Current(k, now) ==
    LET v == Swept(now)[k] IN
    IF v = None \/ now > v.expiresAt THEN [count |-> 0, expiresAt |-> now + Window]
    ELSE v

\* Mutant: every call moves the sweep to the start of its own window.
SweepEarly(now) == lastSweep' = now - Window

Sweep(now) == lastSweep' = IF now - lastSweep > Window THEN now ELSE lastSweep

\* Mutant: the count is increased in the copy and not stored.
AdmitUnstored(p) ==
    LET k == req[p].key  now == req[p].now IN
    /\ req[p].pc = "waiting"
    /\ Current(k, now).count < Limit
    /\ visitors' = Swept(now)
    /\ Sweep(now)
    /\ req' = [req EXCEPT ![p].pc = "idle"]
    /\ admitted' = [admitted EXCEPT ![k] = Append(@, clock)]
    /\ UNCHANGED <<clock, requests>>

\* One more request in a window.
Counting(v) == [count |-> v.count + 1, expiresAt |-> v.expiresAt]

Admit(p) ==
    LET k == req[p].key  now == req[p].now IN
    /\ req[p].pc = "waiting"
    /\ Current(k, now).count < Limit
    /\ visitors' = [Swept(now) EXCEPT ![k] = Counting(Current(k, now))]
    /\ Sweep(now)
    /\ req' = [req EXCEPT ![p].pc = "idle"]
    /\ admitted' = [admitted EXCEPT ![k] = Append(@, clock)]
    /\ UNCHANGED <<clock, requests>>

Refuse(p) ==
    LET k == req[p].key  now == req[p].now IN
    /\ req[p].pc = "waiting"
    /\ Current(k, now).count >= Limit
    /\ visitors' = Swept(now)
    /\ Sweep(now)
    /\ req' = [req EXCEPT ![p].pc = "refused"]
    /\ UNCHANGED <<clock, requests, admitted>>
----------------------------------------------------------------------------
\* Time passes; nobody waits for the mutex longer than MaxDelay.
Tick ==
    /\ clock < MaxTime
    /\ \A p \in Procs : req[p].pc = "waiting" => clock - req[p].now < MaxDelay
    /\ clock' = clock + 1
    /\ UNCHANGED <<visitors, lastSweep, req, requests, admitted>>

Next ==
    \/ \E p \in Procs : Admit(p) \/ Refuse(p)
    \/ \E p \in Procs, k \in Keys : Arrive(p, k)
    \/ Tick

Spec == Init /\ [][Next]_vars
----------------------------------------------------------------------------
(* Properties.                                                             *)

\* The map, the requests and the history have their shapes.
TypeOK ==
    /\ clock \in Nat
    /\ visitors \in [Keys -> Visitor \cup {None}]
    /\ lastSweep \in Nat
    /\ req \in [Procs -> Request]
    /\ requests \in Nat
    /\ admitted \in [Keys -> Seq(Nat)]

\* A request is refused only for what its own key was given: Limit admissions,
\* none of them decided more than a window before the request read the clock.
\* So a client that pauses for a window is served, whoever else is refused and
\* in whatever order delayed requests reach the mutex.
RefusalEarned ==
    [][\A p \in Procs : req[p].pc = "waiting" /\ req'[p].pc = "refused" =>
          LET log == admitted[req[p].key] IN
          /\ Len(log) >= Limit
          /\ \A i \in Len(log) - Limit + 1 .. Len(log) : log[i] >= req[p].now - Window]_vars

\* In no span as long as a window is a key admitted more than three times the
\* limit, if requests wait less than about a quarter of a window for the
\* mutex: a span meets at most three windows of the key, also when a late
\* request reopens a window that a sweep has dropped.  With no wait at all it
\* is twice the limit, the most a fixed window allows.
AdmissionsBounded ==
    LET most == (IF MaxDelay = 0 THEN 2 ELSE 3) * Limit IN
    4 * MaxDelay < Window + 3 =>
        \A k \in Keys : \A i \in DOMAIN admitted[k] :
            i + most \in DOMAIN admitted[k]
                => admitted[k][i + most] - admitted[k][i] > Window

\* The map does not grow with every client ever seen: whenever a request is
\* admitted, of any key, the windows that ended longer before than a window
\* and the wait for the mutex are gone, though a sweep is made only once per
\* window and with whatever reading comes along.
TableSwept ==
    \A k, j \in Keys : visitors[k] # None =>
        \A i \in DOMAIN admitted[j] :
            admitted[j][i] <= visitors[k].expiresAt + Window + MaxDelay
============================================================================
