------------------------- MODULE RateLimiterProofs -------------------------
(***************************************************************************)
(* For every limit, window and number of clients: windows that have ended  *)
(* are soon forgotten, a refused key has had its admissions, and no span   *)
(* of a window's length holds too many of them.                            *)
(***************************************************************************)
EXTENDS RateLimiter, TLAPS

\* A request has read the clock at most MaxDelay ago, and no sweep was made
\* with a reading from the future.
Readings ==
    /\ lastSweep <= clock
    /\ \A p \in Procs : req[p].pc = "waiting" =>
          /\ req[p].key \in Keys
          /\ req[p].now <= clock
          /\ clock - req[p].now <= MaxDelay

\* What an open window has counted are the last admissions of its key, all of
\* them decided since the window was opened.
Counted(v, log) ==
    /\ v.count <= Len(log)
    /\ \A i \in Len(log) - v.count + 1 .. Len(log) : log[i] >= v.expiresAt - Window

\* A window is opened with a reading that is not from the future.
WindowsCounted ==
    \A k \in Keys : visitors[k] # None =>
        /\ visitors[k].expiresAt - Window <= clock
        /\ visitors[k].count <= Limit
        /\ Counted(visitors[k], admitted[k])

\* No window in the map had ended when the last sweep was made, ...
NoneEnded == \A k \in Keys : visitors[k] # None => visitors[k].expiresAt >= lastSweep

\* ... which was not long before the last admission.
SweptLately ==
    \A k \in Keys : \A i \in DOMAIN admitted[k] : admitted[k][i] <= lastSweep + Window + MaxDelay

IInv == TypeOK /\ Readings /\ NoneEnded /\ SweptLately /\ WindowsCounted

----------------------------------------------------------------------------
(* What Allow computes.                                                    *)

\* The sweep only ever drops windows.
LEMMA SweptDrops ==
    ASSUME NEW now, NEW k \in Keys
    PROVE  Swept(now)[k] \in {visitors[k], None}
  BY DEF Swept

\* After the sweep, no window left had ended before it.
LEMMA SweptTable ==
    ASSUME TypeOK, NoneEnded, NEW now \in Nat, NEW k \in Keys, Swept(now)[k] # None
    PROVE  /\ Swept(now)[k] = visitors[k]
           /\ visitors[k] # None /\ visitors[k] \in Visitor
           /\ now - lastSweep > Window => visitors[k].expiresAt >= now
           /\ visitors[k].expiresAt >= lastSweep
  <1>1. Swept(now)[k] = visitors[k] /\ visitors[k] # None
    BY DEF Swept
  <1>2. visitors[k] \in Visitor
    BY <1>1 DEF TypeOK
  <1>3. visitors[k].expiresAt \in Int /\ lastSweep \in Nat
    BY <1>2 DEF TypeOK, Visitor
  <1>4. now - lastSweep > Window => visitors[k].expiresAt >= now
    BY <1>1, <1>3 DEF Swept
  <1> QED
    BY <1>1, <1>2, <1>4 DEF NoneEnded

\* The window a request counts in is open at its reading, was opened no later
\* than now, and has counted the key's last admissions.
LEMMA CurrentWindow ==
    ASSUME IInv, NEW p \in Procs, req[p].pc = "waiting"
    PROVE  LET k == req[p].key  now == req[p].now  v == Current(k, now) IN
           /\ v \in Visitor
           /\ v.count <= Limit
           /\ now <= v.expiresAt
           /\ v.expiresAt - Window <= clock
           /\ Counted(v, admitted[k])
  <1> DEFINE k == req[p].key
             now == req[p].now
             v == Current(k, now)
  <1>1. k \in Keys /\ now \in Nat /\ clock \in Nat /\ now <= clock /\ Window \in Nat /\ Limit \in Nat
    BY LimiterAssumption DEF IInv, TypeOK, Readings, Request
  <1>2. CASE v = [count |-> 0, expiresAt |-> now + Window]
    <2>1. v \in Visitor /\ v.count = 0 /\ v.expiresAt = now + Window
      BY <1>1, <1>2 DEF Visitor
    <2>2. Counted(v, admitted[k])
      <3>1. admitted[k] \in Seq(Nat)
        BY <1>1 DEF IInv, TypeOK
      <3> QED
        BY <2>1, <3>1 DEF Counted
    <2> QED
      BY <1>1, <2>1, <2>2
  <1>3. CASE v # [count |-> 0, expiresAt |-> now + Window]
    <2>1. /\ Swept(now)[k] # None
          /\ v = Swept(now)[k]
          /\ ~ (now > v.expiresAt)
      BY <1>3 DEF Current
    <2>2. v = visitors[k] /\ visitors[k] # None /\ visitors[k] \in Visitor
      BY <1>1, <2>1, SweptTable DEF IInv
    <2>3. /\ v.expiresAt - Window <= clock /\ v.count <= Limit
          /\ Counted(v, admitted[k])
      BY <1>1, <2>2 DEF IInv, WindowsCounted
    <2>4. v.expiresAt \in Int
      BY <2>2 DEF Visitor
    <2> QED
      BY <1>1, <2>1, <2>2, <2>3, <2>4
  <1> QED
    BY <1>2, <1>3

----------------------------------------------------------------------------
(* The invariant.                                                          *)

LEMMA InitInv == Init => IInv
  <1> SUFFICES ASSUME Init PROVE IInv
    OBVIOUS
  <1>1. TypeOK
    BY DEF Init, TypeOK, Request, Visitor
  <1>2. Readings /\ NoneEnded /\ SweptLately /\ WindowsCounted
    BY DEF Init, Readings, NoneEnded, SweptLately, WindowsCounted
  <1> QED
    BY <1>1, <1>2 DEF IInv

\* Admissions and refusals alike: what the mutex holder writes but for the
\* window of its own key.
LEMMA SweepStep ==
    ASSUME IInv, NEW p \in Procs, req[p].pc = "waiting", Sweep(req[p].now)
    PROVE  /\ lastSweep' \in Nat /\ lastSweep' <= clock /\ lastSweep <= lastSweep'
           /\ req[p].now + Window >= lastSweep'
           /\ clock <= lastSweep' + Window + MaxDelay
           /\ \A k \in Keys : Swept(req[p].now)[k] # None =>
                 /\ Swept(req[p].now)[k] = visitors[k]
                 /\ visitors[k] \in Visitor
                 /\ visitors[k].expiresAt >= lastSweep'
                 /\ visitors[k].expiresAt - Window <= clock
                 /\ visitors[k].count <= Limit
                 /\ Counted(visitors[k], admitted[k])
  <1> DEFINE now == req[p].now
  <1>1. /\ now \in Nat /\ clock \in Nat /\ lastSweep \in Nat
        /\ now <= clock /\ lastSweep <= clock /\ clock - now <= MaxDelay
        /\ Window \in Nat /\ MaxDelay <= Window /\ MaxDelay \in Nat
    BY LimiterAssumption DEF IInv, TypeOK, Readings, Request
  <1>2. \/ now - lastSweep > Window /\ lastSweep' = now
        \/ ~ (now - lastSweep > Window) /\ lastSweep' = lastSweep
    BY DEF Sweep
  <1>3. ASSUME NEW k \in Keys, Swept(now)[k] # None
        PROVE  /\ Swept(now)[k] = visitors[k]
               /\ visitors[k] \in Visitor
               /\ visitors[k].expiresAt >= lastSweep'
               /\ visitors[k].expiresAt - Window <= clock
               /\ visitors[k].count <= Limit
               /\ Counted(visitors[k], admitted[k])
    <2>1. /\ Swept(now)[k] = visitors[k]
          /\ visitors[k] # None /\ visitors[k] \in Visitor
          /\ now - lastSweep > Window => visitors[k].expiresAt >= now
          /\ visitors[k].expiresAt >= lastSweep
      BY <1>1, <1>3, SweptTable DEF IInv
    <2> QED
      BY <1>2, <2>1 DEF IInv, WindowsCounted
  <1> QED
    BY <1>1, <1>2, <1>3

\* The sweep only moves on, and far enough for an admission to follow.
LEMMA LaterSweep ==
    ASSUME IInv, NEW p \in Procs, req[p].pc = "waiting", Sweep(req[p].now),
           \/ admitted' = admitted
           \/ \E k \in Keys : admitted' = [admitted EXCEPT ![k] = Append(@, clock)]
    PROVE  SweptLately'
  <1>1. /\ lastSweep' \in Nat /\ lastSweep \in Nat /\ lastSweep <= lastSweep'
        /\ clock <= lastSweep' + Window + MaxDelay
        /\ clock \in Nat /\ Window \in Nat /\ MaxDelay \in Nat
        /\ admitted \in [Keys -> Seq(Nat)]
    BY SweepStep, LimiterAssumption DEF IInv, TypeOK
  <1>2. ASSUME NEW j \in Keys, NEW i \in DOMAIN admitted[j]
        PROVE  admitted[j][i] <= lastSweep' + Window + MaxDelay
    <2>1. admitted[j] \in Seq(Nat)
      BY <1>1
    <2>2. admitted[j][i] \in Nat /\ admitted[j][i] <= lastSweep + Window + MaxDelay
      BY <1>2, <2>1 DEF IInv, SweptLately
    <2> QED
      BY <1>1, <2>2
  <1>3. CASE admitted' = admitted
    BY <1>2, <1>3 DEF SweptLately
  <1>4. ASSUME NEW k \in Keys, admitted' = [admitted EXCEPT ![k] = Append(@, clock)]
        PROVE  SweptLately'
    <2> SUFFICES ASSUME NEW j \in Keys, NEW i \in DOMAIN admitted'[j]
                 PROVE  admitted'[j][i] <= lastSweep' + Window + MaxDelay
      BY DEF SweptLately
    <2>1. CASE j # k
      BY <1>1, <1>2, <1>4, <2>1
    <2>2. CASE j = k
      <3> DEFINE log == admitted[k]
      <3>1. log \in Seq(Nat) /\ admitted'[j] = Append(log, clock)
        BY <1>1, <1>4, <2>2
      <3> HIDE DEF log
      <3>2. \/ i \in DOMAIN log /\ admitted'[j][i] = log[i]
            \/ admitted'[j][i] = clock
        BY <1>1, <3>1
      <3> QED
        BY <1>1, <1>2, <3>2 DEF log
    <2> QED
      BY <2>1, <2>2
  <1> QED
    BY <1>3, <1>4

LEMMA AdmitStep ==
    ASSUME IInv, NEW p \in Procs, Admit(p)
    PROVE  IInv'
  <1> DEFINE k == req[p].key
             now == req[p].now
             v == Current(k, now)
             w == Counting(v)
  <1>1. /\ req[p].pc = "waiting" /\ v.count < Limit
        /\ visitors' = [Swept(now) EXCEPT ![k] = w]
        /\ Sweep(now)
        /\ req' = [req EXCEPT ![p].pc = "idle"]
        /\ admitted' = [admitted EXCEPT ![k] = Append(@, clock)]
        /\ clock' = clock /\ requests' = requests
    BY DEF Admit
  <1>2. /\ k \in Keys /\ now \in Nat /\ clock \in Nat /\ Limit \in Nat /\ Window \in Nat
        /\ admitted \in [Keys -> Seq(Nat)]
        /\ visitors \in [Keys -> Visitor \cup {None}]
    BY <1>1, LimiterAssumption DEF IInv, TypeOK, Readings, Request
  <1>3. /\ v \in Visitor /\ now <= v.expiresAt
        /\ v.expiresAt - Window <= clock
        /\ Counted(v, admitted[k])
    BY <1>1, CurrentWindow
  <1>4. w \in Visitor /\ w.count = v.count + 1 /\ w.expiresAt = v.expiresAt
    BY <1>3 DEF Visitor, Counting
  <1>5. /\ lastSweep' \in Nat /\ lastSweep' <= clock
        /\ \A j \in Keys : Swept(now)[j] # None =>
              /\ Swept(now)[j] = visitors[j]
              /\ visitors[j] \in Visitor
              /\ visitors[j].expiresAt >= lastSweep'
              /\ visitors[j].expiresAt - Window <= clock
              /\ visitors[j].count <= Limit
              /\ Counted(visitors[j], admitted[j])
    BY <1>1, SweepStep
  <1>6. v.expiresAt >= lastSweep'
    <2>1. now + Window >= lastSweep'
      BY <1>1, SweepStep
    <2>2. CASE v = [count |-> 0, expiresAt |-> now + Window]
      BY <2>1, <2>2
    <2>3. CASE v # [count |-> 0, expiresAt |-> now + Window]
      <3>1. Swept(now)[k] # None /\ v = Swept(now)[k]
        BY <2>3 DEF Current
      <3> QED
        BY <1>2, <1>5, <3>1
    <2> QED
      BY <2>2, <2>3
  <1>7. DOMAIN Swept(now) = Keys
    BY <1>2 DEF Swept
  <1>8. \A j \in Keys : visitors'[j] = IF j = k THEN w ELSE Swept(now)[j]
    BY <1>1, <1>2, <1>7
  <1>9. /\ admitted'[k] = Append(admitted[k], clock)
        /\ \A j \in Keys : j # k => admitted'[j] = admitted[j]
    BY <1>1, <1>2
  <1>10. Counted(w, admitted'[k])
    <2> DEFINE log == admitted[k]
    <2>1. /\ log \in Seq(Nat) /\ Len(log) \in Nat
          /\ Len(admitted'[k]) = Len(log) + 1
          /\ \A i \in 1 .. Len(log) : admitted'[k][i] = log[i]
          /\ admitted'[k][Len(log) + 1] = clock
      BY <1>2, <1>9
    <2>2. /\ v.count \in Nat /\ v.expiresAt \in Int
          /\ v.count <= Len(log)
          /\ \A i \in Len(log) - v.count + 1 .. Len(log) : log[i] >= v.expiresAt - Window
      BY <1>3 DEF Visitor, Counted
    <2> HIDE DEF v, w, log
    <2>3. ASSUME NEW i \in Len(admitted'[k]) - w.count + 1 .. Len(admitted'[k])
          PROVE  admitted'[k][i] >= w.expiresAt - Window
      <3>1. CASE i = Len(log) + 1
        BY <1>2, <1>3, <1>4, <2>1, <2>2, <3>1
      <3>2. CASE i # Len(log) + 1
        <4>1. /\ i \in Int /\ i >= Len(log) + 1 - (v.count + 1) + 1 /\ i <= Len(log) + 1
              /\ i # Len(log) + 1
          BY <1>4, <2>1, <2>2, <2>3, <3>2
        <4>2. i \in Len(log) - v.count + 1 .. Len(log) /\ i \in 1 .. Len(log)
          BY <2>1, <2>2, <4>1
        <4> QED
          BY <1>4, <2>1, <2>2, <4>2
      <3> QED
        BY <3>1, <3>2
    <2> QED
      BY <1>4, <2>1, <2>2, <2>3 DEF Counted
  <1>11. TypeOK'
    <2>1. visitors' \in [Keys -> Visitor \cup {None}]
      <3>1. \A j \in Keys : visitors'[j] \in Visitor \cup {None}
        BY <1>4, <1>5, <1>8
      <3>2. visitors' = [j \in Keys |-> visitors'[j]]
        BY <1>1, <1>7
      <3> QED
        BY <3>1, <3>2
    <2>2. req' \in [Procs -> Request]
      BY <1>1 DEF IInv, TypeOK, Request
    <2>3. admitted' \in [Keys -> Seq(Nat)]
      BY <1>1, <1>2
    <2> QED
      BY <1>1, <1>2, <1>5, <2>1, <2>2, <2>3 DEF IInv, TypeOK
  <1>12. Readings'
    BY <1>1, <1>5 DEF IInv, Readings, TypeOK
  <1>13. NoneEnded' /\ SweptLately'
    <2>1. NoneEnded'
      BY <1>4, <1>5, <1>6, <1>8 DEF NoneEnded
    <2>2. SweptLately'
      BY <1>1, <1>2, <1>9, LaterSweep
    <2> QED
      BY <2>1, <2>2
  <1>14. WindowsCounted'
    <2> SUFFICES ASSUME NEW j \in Keys, visitors'[j] # None
                 PROVE  /\ visitors'[j].expiresAt - Window <= clock'
                        /\ visitors'[j].count <= Limit
                        /\ Counted(visitors'[j], admitted'[j])
      BY DEF WindowsCounted
    <2>1. CASE j = k
      <3>1. v.count \in Nat
        BY <1>3 DEF Visitor
      <3>2. visitors'[j] = w
        BY <1>8, <2>1
      <3>3. w.count <= Limit
        BY <1>1, <1>2, <1>4, <3>1
      <3> HIDE DEF w
      <3> QED
        BY <1>1, <1>3, <1>4, <1>10, <2>1, <3>2, <3>3
    <2>2. CASE j # k
      BY <1>1, <1>5, <1>8, <1>9, <2>2
    <2> QED
      BY <2>1, <2>2
  <1> QED
    BY <1>11, <1>12, <1>13, <1>14 DEF IInv

LEMMA RefuseStep ==
    ASSUME IInv, NEW p \in Procs, Refuse(p)
    PROVE  IInv'
  <1> DEFINE now == req[p].now
  <1>1. /\ req[p].pc = "waiting"
        /\ visitors' = Swept(now)
        /\ Sweep(now)
        /\ req' = [req EXCEPT ![p].pc = "refused"]
        /\ clock' = clock /\ requests' = requests /\ admitted' = admitted
    BY DEF Refuse
  <1>2. /\ lastSweep' \in Nat /\ lastSweep' <= clock
        /\ \A j \in Keys : visitors'[j] # None =>
              /\ visitors'[j] = visitors[j]
              /\ visitors[j] \in Visitor
              /\ visitors[j].expiresAt >= lastSweep'
              /\ visitors[j].expiresAt - Window <= clock
              /\ visitors[j].count <= Limit
              /\ Counted(visitors[j], admitted[j])
    BY <1>1, SweepStep
  <1>3. TypeOK'
    <2>1. visitors' = [j \in Keys |-> visitors'[j]]
      BY <1>1 DEF Swept, IInv, TypeOK
    <2>2. visitors' \in [Keys -> Visitor \cup {None}]
      BY <1>2, <2>1
    <2>3. req' \in [Procs -> Request]
      BY <1>1 DEF IInv, TypeOK, Request
    <2> QED
      BY <1>1, <1>2, <2>2, <2>3 DEF IInv, TypeOK
  <1>4. Readings'
    BY <1>1, <1>2 DEF IInv, Readings, TypeOK
  <1>5. NoneEnded' /\ WindowsCounted'
    BY <1>1, <1>2 DEF NoneEnded, WindowsCounted
  <1>6. SweptLately'
    BY <1>1, LaterSweep
  <1> QED
    BY <1>3, <1>4, <1>5, <1>6 DEF IInv

LEMMA ArriveStep ==
    ASSUME IInv, NEW p \in Procs, NEW k \in Keys, Arrive(p, k)
    PROVE  IInv'
  <1>1. /\ req' = [req EXCEPT ![p] = [pc |-> "waiting", key |-> k, now |-> clock]]
        /\ requests' = requests + 1
        /\ UNCHANGED <<clock, visitors, lastSweep, admitted>>
    BY DEF Arrive
  <1>2. TypeOK'
    BY <1>1 DEF IInv, TypeOK, Request
  <1>3. Readings'
    <2>1. clock \in Nat /\ MaxDelay \in Nat
      BY LimiterAssumption DEF IInv, TypeOK
    <2> QED
      BY <1>1, <2>1 DEF IInv, Readings, TypeOK
  <1>4. NoneEnded' /\ SweptLately' /\ WindowsCounted'
    BY <1>1 DEF IInv, NoneEnded, SweptLately, WindowsCounted, Counted
  <1> QED
    BY <1>2, <1>3, <1>4 DEF IInv

LEMMA TickStep ==
    ASSUME IInv, Tick
    PROVE  IInv'
  <1>1. /\ clock' = clock + 1
        /\ \A p \in Procs : req[p].pc = "waiting" => clock - req[p].now < MaxDelay
        /\ UNCHANGED <<visitors, lastSweep, req, requests, admitted>>
    BY DEF Tick
  <1>2. clock \in Nat /\ lastSweep \in Nat /\ MaxDelay \in Nat /\ Window \in Nat
    BY LimiterAssumption DEF IInv, TypeOK
  <1>3. TypeOK'
    BY <1>1 DEF IInv, TypeOK
  <1>4. Readings'
    BY <1>1, <1>2 DEF IInv, Readings, TypeOK, Request
  <1>5. NoneEnded' /\ SweptLately'
    BY <1>1 DEF IInv, NoneEnded, SweptLately
  <1>6. WindowsCounted'
    <2> SUFFICES ASSUME NEW k \in Keys, visitors'[k] # None
                 PROVE  /\ visitors'[k].expiresAt - Window <= clock'
                        /\ visitors'[k].count <= Limit
                        /\ Counted(visitors'[k], admitted'[k])
      BY DEF WindowsCounted
    <2>1. /\ visitors[k] # None /\ visitors'[k] = visitors[k]
          /\ admitted'[k] = admitted[k]
          /\ visitors[k] \in Visitor
      BY <1>1 DEF IInv, TypeOK
    <2>2. /\ visitors[k].expiresAt - Window <= clock /\ visitors[k].expiresAt \in Int
          /\ visitors[k].count <= Limit
          /\ Counted(visitors[k], admitted[k])
      BY <2>1 DEF IInv, WindowsCounted, Visitor
    <2> QED
      BY <1>1, <1>2, <2>1, <2>2
  <1> QED
    BY <1>3, <1>4, <1>5, <1>6 DEF IInv

LEMMA NextInv == IInv /\ [Next]_vars => IInv'
  <1> SUFFICES ASSUME IInv, [Next]_vars PROVE IInv'
    OBVIOUS
  <1>1. ASSUME NEW p \in Procs, Admit(p) PROVE IInv'
    BY <1>1, AdmitStep
  <1>2. ASSUME NEW p \in Procs, Refuse(p) PROVE IInv'
    BY <1>2, RefuseStep
  <1>3. ASSUME NEW p \in Procs, NEW k \in Keys, Arrive(p, k) PROVE IInv'
    BY <1>3, ArriveStep
  <1>4. CASE Tick
    BY <1>4, TickStep
  <1>5. CASE UNCHANGED vars
    BY <1>5 DEF vars, IInv, TypeOK, Readings, NoneEnded, SweptLately, WindowsCounted, Counted
  <1> QED
    BY <1>1, <1>2, <1>3, <1>4, <1>5 DEF Next

THEOREM Invariance == Spec => []IInv
  BY InitInv, NextInv, PTL DEF Spec

----------------------------------------------------------------------------
(* The properties of the runs.                                             *)

\* Map, requests and history keep their shapes, whatever the limiter is set to.
THEOREM TypesCorrect == Spec => []TypeOK
  BY Invariance, PTL DEF IInv

\* A window that ended a window and a wait for the mutex before an admission
\* is no longer in the map: the last sweep was late enough to have dropped it.
THEOREM SweepsForget == Spec => []TableSwept
  <1>1. ASSUME IInv PROVE TableSwept
    <2> SUFFICES ASSUME NEW k \in Keys, NEW j \in Keys, visitors[k] # None, NEW i \in DOMAIN admitted[j]
                 PROVE  admitted[j][i] <= visitors[k].expiresAt + Window + MaxDelay
      BY DEF TableSwept
    <2>1. /\ visitors[k] \in Visitor /\ admitted[j] \in Seq(Nat) /\ lastSweep \in Nat
          /\ Window \in Nat /\ MaxDelay \in Nat
      BY <1>1, LimiterAssumption DEF IInv, TypeOK
    <2>2. visitors[k].expiresAt \in Int /\ admitted[j][i] \in Nat
      BY <2>1 DEF Visitor
    <2>3. visitors[k].expiresAt >= lastSweep /\ admitted[j][i] <= lastSweep + Window + MaxDelay
      BY <1>1 DEF IInv, NoneEnded, SweptLately
    <2> QED
      BY <2>1, <2>2, <2>3
  <1> QED
    BY <1>1, Invariance, PTL

\* A refused request pays for Limit admissions of its own key, none of them
\* more than a window old when the request read the clock.
THEOREM RefusalsEarned == Spec => RefusalEarned
  <1>1. ASSUME IInv, [Next]_vars, NEW p \in Procs,
               req[p].pc = "waiting", req'[p].pc = "refused"
        PROVE  LET log == admitted[req[p].key] IN
               /\ Len(log) >= Limit
               /\ \A i \in Len(log) - Limit + 1 .. Len(log) : log[i] >= req[p].now - Window
    <2> DEFINE k == req[p].key
               now == req[p].now
               v == Current(k, now)
               log == admitted[k]
    <2>1. Refuse(p)
      <3>1. req \in [Procs -> Request]
        BY <1>1 DEF IInv, TypeOK
      <3>2. ASSUME NEW q \in Procs, Admit(q) PROVE Refuse(p)
        BY <1>1, <3>1, <3>2 DEF Admit
      <3>3. ASSUME NEW q \in Procs, Refuse(q) PROVE Refuse(p)
        <4>1. q = p
          BY <1>1, <3>1, <3>3 DEF Refuse
        <4> QED
          BY <3>3, <4>1
      <3>4. ASSUME NEW q \in Procs, NEW j \in Keys, Arrive(q, j) PROVE Refuse(p)
        BY <1>1, <3>1, <3>4 DEF Arrive
      <3>5. CASE Tick
        BY <1>1, <3>5 DEF Tick
      <3>6. CASE UNCHANGED vars
        BY <1>1, <3>6 DEF vars
      <3> QED
        BY <1>1, <3>2, <3>3, <3>4, <3>5, <3>6 DEF Next
    <2>2. /\ v \in Visitor /\ v.count <= Limit /\ v.count >= Limit
          /\ now <= v.expiresAt /\ Counted(v, log)
      BY <1>1, <2>1, CurrentWindow DEF Refuse
    <2>3. /\ k \in Keys /\ now \in Nat /\ Limit \in Nat /\ Window \in Nat
          /\ log \in Seq(Nat)
      BY <1>1, LimiterAssumption DEF IInv, TypeOK, Readings, Request
    <2>4. v.count = Limit /\ v.expiresAt \in Int
      BY <2>2, <2>3 DEF Visitor
    <2> HIDE DEF v
    <2>5. \A i \in 1 .. Len(log) : log[i] \in Nat
      BY <2>3
    <2>6. /\ Limit <= Len(log)
          /\ \A i \in Len(log) - Limit + 1 .. Len(log) : log[i] >= v.expiresAt - Window
      BY <2>2, <2>4 DEF Counted
    <2>7. ASSUME NEW i \in Len(log) - Limit + 1 .. Len(log) PROVE log[i] >= now - Window
      <3>1. i \in 1 .. Len(log) /\ log[i] >= v.expiresAt - Window
        BY <2>3, <2>6
      <3>2. log[i] \in Nat
        BY <2>5, <3>1
      <3>3. now <= v.expiresAt
        BY <2>2
      <3> HIDE DEF log, now
      <3> QED
        BY <2>3, <2>4, <3>1, <3>2, <3>3
    <2> QED
      BY <2>3, <2>6, <2>7
  <1>2. IInv /\ [Next]_vars =>
          [\A p \in Procs : req[p].pc = "waiting" /\ req'[p].pc = "refused" =>
              LET log == admitted[req[p].key] IN
              /\ Len(log) >= Limit
              /\ \A i \in Len(log) - Limit + 1 .. Len(log) : log[i] >= req[p].now - Window]_vars
    BY <1>1
  <1> QED
    BY <1>2, Invariance, PTL DEF Spec, RefusalEarned

----------------------------------------------------------------------------
(* How often a key is admitted.                                            *)

\* Two windows of a key are opened with readings at least this far apart, even
\* when a sweep comes between them and the later request is late.
Gap == Window - MaxDelay + 1

\* Each admission of a log, with the reading that opened the window it counted
\* in: it was decided in that window or at most MaxDelay after it, and no
\* window has more than Limit of them.
Accounts(opened, log) ==
    /\ \A i \in 1 .. Len(log) : opened[i] <= log[i] /\ log[i] <= opened[i] + Window + MaxDelay
    /\ \A i, j \in 1 .. Len(log) : j >= i + Limit => opened[j] >= opened[i] + Gap
    /\ \A i, j \in 1 .. Len(log) : i < j => opened[j] = opened[i] \/ opened[j] >= opened[i] + Gap

\* The last ones are those the open window has counted.
Latest(opened, log, v) ==
    \A i \in 1 .. Len(log) :
        /\ i > Len(log) - v.count => opened[i] = v.expiresAt - Window
        /\ ~ (i > Len(log) - v.count) => opened[i] + Gap <= v.expiresAt - Window

\* The log of a key is accounted for, up to its open window or to the sweep
\* that has dropped it.
Ledger(log, v, sweep) ==
    \E opened \in [1 .. Len(log) -> Int] :
        /\ Accounts(opened, log)
        /\ v # None => Latest(opened, log, v)
        /\ v = None => \A i \in 1 .. Len(log) : opened[i] + Window < sweep

Ledgers == \A k \in Keys : Ledger(admitted[k], visitors[k], lastSweep)

LEMMA Logs ==
    ASSUME NEW log \in Seq(Nat), NEW t \in Nat, NEW opened \in [1 .. Len(log) -> Int]
    PROVE  /\ Len(log) \in Nat /\ DOMAIN log = 1 .. Len(log)
           /\ \A i \in 1 .. Len(log) : log[i] \in Nat /\ opened[i] \in Int
           /\ Len(Append(log, t)) = Len(log) + 1 /\ Append(log, t)[Len(log) + 1] = t
           /\ \A i \in 1 .. Len(log) : Append(log, t)[i] = log[i]
  OBVIOUS

\* A sweep keeps every log accounted for.
LEMMA SweptLedger ==
    ASSUME IInv, Ledgers, NEW p \in Procs, req[p].pc = "waiting", Sweep(req[p].now), NEW k \in Keys
    PROVE  Ledger(admitted[k], Swept(req[p].now)[k], lastSweep')
  <1> DEFINE now == req[p].now
             log == admitted[k]
  <1>1. /\ now \in Nat /\ lastSweep \in Nat /\ Window \in Nat /\ MaxDelay \in Nat /\ MaxDelay <= Window
        /\ log \in Seq(Nat) /\ visitors[k] \in Visitor \cup {None}
    BY LimiterAssumption DEF IInv, TypeOK, Request
  <1>2. lastSweep' = IF now - lastSweep > Window THEN now ELSE lastSweep
    BY DEF Sweep
  <1>3. PICK opened \in [1 .. Len(log) -> Int] :
            /\ Accounts(opened, log)
            /\ visitors[k] # None => Latest(opened, log, visitors[k])
            /\ visitors[k] = None => \A i \in 1 .. Len(log) : opened[i] + Window < lastSweep
    BY DEF Ledgers, Ledger
  <1>4. Len(log) \in Nat /\ \A i \in 1 .. Len(log) : opened[i] \in Int
    <2> HIDE DEF now, log
    <2> QED
      BY <1>1, <1>3
  <1>5. CASE Swept(now)[k] # None
    <2>1. Swept(now)[k] = visitors[k]
      BY <1>5, SweptDrops
    <2> QED
      BY <1>3, <1>5, <2>1 DEF Ledger
  <1>6. CASE Swept(now)[k] = None
    <2> HIDE DEF now, log
    <2>1. CASE visitors[k] = None
      <3>1. \A i \in 1 .. Len(log) : opened[i] + Window < lastSweep'
        BY <1>1, <1>2, <1>3, <1>4, <2>1
      <3> QED
        BY <1>3, <1>6, <3>1 DEF Ledger, log, now
    <2>2. CASE visitors[k] # None
      <3>1. now - lastSweep > Window /\ now > visitors[k].expiresAt
        BY <1>6, <2>2 DEF Swept, now
      <3>2. visitors[k].expiresAt \in Int /\ visitors[k].count \in Nat
        BY <1>1, <2>2 DEF Visitor
      <3>3. Latest(opened, log, visitors[k])
        BY <1>3, <2>2
      <3>4. \A i \in 1 .. Len(log) : opened[i] + Window < lastSweep'
        <4> TAKE i \in 1 .. Len(log)
        <4>1. \/ opened[i] = visitors[k].expiresAt - Window
              \/ opened[i] + Gap <= visitors[k].expiresAt - Window
          BY <3>3 DEF Latest
        <4>2. opened[i] <= visitors[k].expiresAt - Window
          BY <1>1, <1>4, <3>2, <4>1 DEF Gap
        <4>3. lastSweep' = now
          BY <1>2, <3>1
        <4>4. opened[i] \in Int
          BY <1>4
        <4> QED
          BY <1>1, <3>1, <3>2, <4>2, <4>3, <4>4
      <3> QED
        BY <1>3, <1>6, <3>4 DEF Ledger, log, now
    <2> QED
      BY <2>1, <2>2
  <1> QED
    BY <1>5, <1>6

\* The window a request counts in continues the log of its key.
LEMMA CurrentLedger ==
    ASSUME IInv, Ledgers, NEW p \in Procs, req[p].pc = "waiting"
    PROVE  LET k == req[p].key  log == admitted[k] IN
           \E opened \in [1 .. Len(log) -> Int] :
               Accounts(opened, log) /\ Latest(opened, log, Current(k, req[p].now))
  <1> DEFINE k == req[p].key
             now == req[p].now
             log == admitted[k]
             v == Current(k, now)
  <1>1. /\ k \in Keys /\ now \in Nat /\ lastSweep \in Nat /\ clock \in Nat
        /\ Window \in Nat /\ MaxDelay \in Nat /\ MaxDelay <= Window
        /\ log \in Seq(Nat) /\ visitors[k] \in Visitor \cup {None}
        /\ now <= clock /\ clock - now <= MaxDelay /\ lastSweep <= clock
    BY LimiterAssumption DEF IInv, TypeOK, Request, Readings
  <1>2. PICK opened \in [1 .. Len(log) -> Int] :
            /\ Accounts(opened, log)
            /\ visitors[k] # None => Latest(opened, log, visitors[k])
            /\ visitors[k] = None => \A i \in 1 .. Len(log) : opened[i] + Window < lastSweep
    BY <1>1 DEF Ledgers, Ledger
  <1>3. Len(log) \in Nat /\ \A i \in 1 .. Len(log) : opened[i] \in Int
    BY <1>1, Logs
  <1> DEFINE kept == Swept(now)[k]
  <1>4. CASE ~ (kept = None \/ now > kept.expiresAt)
    <2>1. v = kept /\ kept # None
      BY <1>4 DEF Current
    <2>2. v = visitors[k] /\ visitors[k] # None
      BY <1>1, <2>1, SweptDrops
    <2> QED
      BY <1>2, <2>2
  <1>5. CASE kept = None \/ now > kept.expiresAt
    <2>1. v = [count |-> 0, expiresAt |-> now + Window]
      BY <1>5 DEF Current
    <2>2. visitors[k] # None => now > visitors[k].expiresAt
      BY <1>1, <1>5 DEF Swept
    <2> HIDE DEF v, now, log, k
    <2>3. ASSUME NEW i \in 1 .. Len(log) PROVE opened[i] + Gap <= now
      <3>1. CASE visitors[k] = None
        <4>1. opened[i] + Window < lastSweep
          BY <1>2, <3>1
        <4> QED
          BY <1>1, <1>3, <4>1 DEF Gap
      <3>2. CASE visitors[k] # None
        <4>1. visitors[k].expiresAt \in Int /\ visitors[k].count \in Nat
          BY <1>1, <3>2 DEF Visitor
        <4>2. \/ opened[i] = visitors[k].expiresAt - Window
              \/ opened[i] + Gap <= visitors[k].expiresAt - Window
          BY <1>2, <3>2 DEF Latest
        <4>3. opened[i] <= visitors[k].expiresAt - Window
          BY <1>1, <1>3, <4>1, <4>2 DEF Gap
        <4>4. opened[i] \in Int /\ visitors[k].expiresAt < now
          BY <1>1, <1>3, <2>2, <3>2, <4>1
        <4>5. Gap \in Int /\ Gap <= Window + 1
          BY <1>1 DEF Gap
        <4> QED
          BY <1>1, <4>1, <4>3, <4>4, <4>5
      <3> QED
        BY <3>1, <3>2
    <2>4. v.count = 0 /\ v.expiresAt - Window = now
      BY <1>1, <2>1
    <2>5. Latest(opened, log, v)
      BY <1>3, <2>3, <2>4 DEF Latest
    <2> QED
      BY <1>2, <2>5 DEF v, now, log, k
  <1> QED
    BY <1>4, <1>5

LEMMA AdmitLedger ==
    ASSUME IInv, Ledgers, NEW p \in Procs, Admit(p)
    PROVE  Ledgers'
  <1> DEFINE k == req[p].key
             now == req[p].now
             v == Current(k, now)
             w == Counting(v)
             log == admitted[k]
             longer == Append(log, clock)
             n == Len(log)
  <1>1. /\ req[p].pc = "waiting" /\ v.count < Limit
        /\ visitors' = [Swept(now) EXCEPT ![k] = w]
        /\ Sweep(now)
        /\ admitted' = [admitted EXCEPT ![k] = longer]
    BY DEF Admit
  <1>2. /\ k \in Keys /\ now \in Nat /\ clock \in Nat /\ Limit \in Nat \ {0}
        /\ Window \in Nat /\ MaxDelay \in Nat /\ MaxDelay <= Window
        /\ clock - now <= MaxDelay
        /\ log \in Seq(Nat) /\ admitted \in [Keys -> Seq(Nat)] /\ DOMAIN Swept(now) = Keys
    <2>1. DOMAIN Swept(now) = Keys
      BY DEF IInv, TypeOK, Swept
    <2> QED
      BY <1>1, <2>1, LimiterAssumption DEF IInv, TypeOK, Readings, Request
  <1>3. v \in Visitor /\ now <= v.expiresAt /\ v.expiresAt - Window <= clock
    BY <1>1, CurrentWindow
  <1>4. v.count \in Nat /\ v.expiresAt \in Int
    BY <1>3 DEF Visitor
  <1>5. w.count = v.count + 1 /\ w.expiresAt = v.expiresAt /\ w \in Visitor
    BY <1>3, <1>4 DEF Visitor, Counting
  <1>6. PICK opened \in [1 .. n -> Int] : Accounts(opened, log) /\ Latest(opened, log, v)
    BY <1>1, CurrentLedger
  <1>7. /\ n \in Nat /\ Len(longer) = n + 1 /\ longer[n + 1] = clock
        /\ \A i \in 1 .. n : longer[i] = log[i] /\ log[i] \in Nat
    <2>1. n = Len(log) /\ longer = Append(log, clock)
      OBVIOUS
    <2> HIDE DEF log, longer, n
    <2>2. log \in Seq(Nat) /\ clock \in Nat /\ opened \in [1 .. Len(log) -> Int]
      BY <1>2, <1>6, <2>1
    <2>3. /\ Len(log) \in Nat
          /\ \A i \in 1 .. Len(log) : log[i] \in Nat
          /\ Len(Append(log, clock)) = Len(log) + 1 /\ Append(log, clock)[Len(log) + 1] = clock
          /\ \A i \in 1 .. Len(log) : Append(log, clock)[i] = log[i]
      BY <2>2, Logs
    <2> QED
      BY <2>1, <2>3
  <1> DEFINE start == v.expiresAt - Window
             reopened == [i \in 1 .. n + 1 |-> IF i = n + 1 THEN start ELSE opened[i]]
  <1>8. start \in Int /\ start <= clock /\ clock <= start + Window + MaxDelay
    <2> HIDE DEF v, now, k, log
    <2>1. v.expiresAt \in Int /\ now <= v.expiresAt /\ v.expiresAt - Window <= clock
      BY <1>3, <1>4
    <2> QED
      BY <1>2, <2>1
  <1> HIDE DEF v, w, log, longer, n, start, k, now
  <1>9. /\ reopened \in [1 .. n + 1 -> Int]
        /\ reopened[n + 1] = start
        /\ \A i \in 1 .. n : reopened[i] = opened[i] /\ opened[i] \in Int
    BY <1>6, <1>7, <1>8
  <1>10. \A i \in 1 .. n :
           /\ i > n - v.count => opened[i] = start
           /\ ~ (i > n - v.count) => opened[i] + Gap <= start
    BY <1>6 DEF Latest, n, start
  <1> HIDE DEF reopened
  <1>11. Accounts(reopened, longer)
    <2>1. \A i \in 1 .. n + 1 :
              reopened[i] <= longer[i] /\ longer[i] <= reopened[i] + Window + MaxDelay
      <3> TAKE i \in 1 .. n + 1
      <3>1. CASE i = n + 1
        BY <1>7, <1>8, <1>9, <3>1
      <3>2. CASE i # n + 1
        <4>1. i \in 1 .. n
          BY <1>7, <3>2
        <4> QED
          BY <1>6, <1>7, <1>9, <4>1 DEF Accounts, n
      <3> QED
        BY <3>1, <3>2
    <2>2. ASSUME NEW i \in 1 .. n + 1, NEW j \in 1 .. n + 1, j >= i + Limit
          PROVE  reopened[j] >= reopened[i] + Gap
      <3>1. i \in 1 .. n
        BY <1>2, <1>7, <2>2
      <3>2. CASE j = n + 1
        <4>1. ~ (i > n - v.count)
          BY <1>1, <1>2, <1>4, <1>7, <2>2, <3>1, <3>2 DEF v, k, now
        <4>2. opened[i] + Gap <= start
          BY <1>10, <3>1, <4>1
        <4> QED
          BY <1>2, <1>8, <1>9, <3>1, <3>2, <4>2 DEF Gap
      <3>3. CASE j # n + 1
        <4>1. j \in 1 .. n
          BY <1>7, <3>3
        <4>2. opened[j] >= opened[i] + Gap
          BY <1>6, <2>2, <3>1, <4>1 DEF Accounts, n
        <4> QED
          BY <1>9, <3>1, <4>1, <4>2
      <3> QED
        BY <3>2, <3>3
    <2>3. ASSUME NEW i \in 1 .. n + 1, NEW j \in 1 .. n + 1, i < j
          PROVE  reopened[j] = reopened[i] \/ reopened[j] >= reopened[i] + Gap
      <3>1. i \in 1 .. n
        BY <1>7, <2>3
      <3>2. CASE j = n + 1
        <4>1. opened[i] = start \/ opened[i] + Gap <= start
          <5>1. CASE i > n - v.count
            BY <1>4, <1>7, <1>10, <3>1, <5>1
          <5>2. CASE ~ (i > n - v.count)
            BY <1>4, <1>7, <1>10, <3>1, <5>2
          <5> QED
            BY <5>1, <5>2
        <4> QED
          BY <1>2, <1>8, <1>9, <3>1, <3>2, <4>1 DEF Gap
      <3>3. CASE j # n + 1
        <4>1. j \in 1 .. n
          BY <1>7, <3>3
        <4>2. opened[j] = opened[i] \/ opened[j] >= opened[i] + Gap
          BY <1>6, <2>3, <3>1, <4>1 DEF Accounts, n
        <4> QED
          BY <1>9, <3>1, <4>1, <4>2
      <3> QED
        BY <3>2, <3>3
    <2> QED
      BY <1>7, <2>1, <2>2, <2>3 DEF Accounts
  <1>12. Latest(reopened, longer, w)
    <2>1. w.expiresAt - Window = start
      BY <1>5 DEF start
    <2>2. ASSUME NEW i \in 1 .. n + 1
          PROVE  /\ i > n + 1 - w.count => reopened[i] = start
                 /\ ~ (i > n + 1 - w.count) => reopened[i] + Gap <= start
      <3>1. n + 1 - w.count = n - v.count
        BY <1>4, <1>5, <1>7
      <3>2. CASE i = n + 1
        BY <1>4, <1>7, <1>9, <3>1, <3>2
      <3>3. CASE i # n + 1
        <4>1. i \in 1 .. n
          BY <1>7, <3>3
        <4>2. /\ i > n - v.count => opened[i] = start
              /\ ~ (i > n - v.count) => opened[i] + Gap <= start
          BY <1>4, <1>7, <1>10, <4>1
        <4>3. reopened[i] = opened[i]
          BY <1>9, <4>1
        <4> QED
          BY <3>1, <4>2, <4>3
      <3> QED
        BY <3>2, <3>3
    <2>3. Len(longer) = n + 1
      BY <1>7
    <2>4. w.count \in Nat /\ n \in Nat /\ start \in Int
      BY <1>4, <1>5, <1>7, <1>8
    <2> QED
      BY <2>1, <2>2, <2>3, <2>4 DEF Latest
  <1>13. Ledger(longer, w, lastSweep')
    <2>1. w # None
      BY <1>5, LimiterAssumption DEF Visitor
    <2> QED
      BY <1>7, <1>9, <1>11, <1>12, <2>1 DEF Ledger
  <1>14. ASSUME NEW j \in Keys PROVE Ledger(admitted'[j], visitors'[j], lastSweep')
    <2>1. CASE j = k
      <3>1. admitted'[j] = longer /\ visitors'[j] = w
        BY <1>1, <1>2, <2>1
      <3> QED
        BY <1>13, <3>1
    <2>2. CASE j # k
      <3>1. admitted'[j] = admitted[j] /\ visitors'[j] = Swept(now)[j]
        BY <1>1, <1>2, <2>2
      <3> QED
        BY <1>1, <3>1, SweptLedger DEF now
    <2> QED
      BY <2>1, <2>2
  <1> QED
    BY <1>14 DEF Ledgers

THEOREM LedgerInvariance == Spec => [](IInv /\ Ledgers)
  <1>1. Init => Ledgers
    <2> SUFFICES ASSUME Init, NEW k \in Keys PROVE Ledger(admitted[k], visitors[k], lastSweep)
      BY DEF Ledgers
    <2>1. admitted[k] = <<>> /\ visitors[k] = None
      BY DEF Init
    <2>2. PICK opened \in [1 .. 0 -> Int] : TRUE
      <3>1. [i \in 1 .. 0 |-> 0] \in [1 .. 0 -> Int]
        OBVIOUS
      <3> QED
        BY <3>1
    <2>3. Len(<<>>) = 0 /\ \A i \in 1 .. 0 : FALSE
      OBVIOUS
    <2>4. Accounts(opened, <<>>)
      BY <2>3 DEF Accounts
    <2> QED
      BY <2>1, <2>2, <2>3, <2>4 DEF Ledger
  <1>2. ASSUME IInv, Ledgers, [Next]_vars PROVE Ledgers'
    <2>1. ASSUME NEW p \in Procs, Admit(p) PROVE Ledgers'
      BY <1>2, <2>1, AdmitLedger
    <2>2. ASSUME NEW p \in Procs, Refuse(p) PROVE Ledgers'
      <3>1. /\ req[p].pc = "waiting" /\ Sweep(req[p].now)
            /\ visitors' = Swept(req[p].now) /\ admitted' = admitted
        BY <2>2 DEF Refuse
      <3>2. \A k \in Keys : Ledger(admitted[k], Swept(req[p].now)[k], lastSweep')
        BY <1>2, <3>1, SweptLedger
      <3> QED
        BY <3>1, <3>2 DEF Ledgers
    <2>3. ASSUME UNCHANGED <<visitors, lastSweep, admitted>> PROVE Ledgers'
      BY <1>2, <2>3 DEF Ledgers
    <2> QED
      BY <1>2, <2>1, <2>2, <2>3 DEF Next, Arrive, Tick, vars
  <1>3. IInv /\ Ledgers /\ [Next]_vars => (IInv /\ Ledgers)'
    BY <1>2, NextInv
  <1> QED
    BY <1>1, <1>3, InitInv, PTL DEF Spec

\* Readings that far apart leave no room for more admissions.
LEMMA Spans ==
    ASSUME NEW log \in Seq(Nat), NEW opened \in [1 .. Len(log) -> Int], Accounts(opened, log),
           4 * MaxDelay < Window + 3, NEW i \in 1 .. Len(log), NEW last \in 1 .. Len(log),
           last = i + (IF MaxDelay = 0 THEN 2 ELSE 3) * Limit
    PROVE  log[last] - log[i] > Window
  <1>1. Limit \in Nat \ {0} /\ Window \in Nat /\ MaxDelay \in Nat /\ MaxDelay <= Window
    BY LimiterAssumption
  <1>2. /\ Len(log) \in Nat /\ i \in Nat /\ last \in Nat
        /\ \A m \in 1 .. Len(log) : log[m] \in Nat /\ opened[m] \in Int
    BY <1>1, Logs
  <1>3. \A m, j \in 1 .. Len(log) : j >= m + Limit => opened[j] >= opened[m] + Gap
    BY DEF Accounts
  <1>4. PICK x \in Nat, y \in Nat, a \in Int, d \in Int :
            x = log[i] /\ y = log[last] /\ a = opened[i] /\ d = opened[last]
    BY <1>2
  <1>5. d <= y /\ x <= a + Window + MaxDelay
    BY <1>4 DEF Accounts
  <1>6. PICK j \in Nat : j = i + Limit
    BY <1>1, <1>2
  <1>7. CASE MaxDelay = 0
    <2>1. last = i + 2 * Limit
      BY <1>7
    <2>2. j \in 1 .. Len(log) /\ last >= j + Limit /\ j >= i + Limit
      BY <1>1, <1>2, <1>6, <2>1
    <2>3. PICK b \in Int : b = opened[j]
      BY <1>2, <2>2
    <2>4. b >= a + Gap /\ d >= b + Gap
      BY <1>3, <1>4, <2>2, <2>3
    <2>5. y - x > Window
      BY <1>1, <1>5, <1>7, <2>4 DEF Gap
    <2> QED
      BY <1>4, <2>5
  <1>8. CASE MaxDelay # 0
    <2>1. last = i + 3 * Limit
      BY <1>8
    <2>2. PICK m \in Nat : m = j + Limit
      BY <1>1
    <2>3. /\ j \in 1 .. Len(log) /\ m \in 1 .. Len(log)
          /\ j >= i + Limit /\ m >= j + Limit /\ last >= m + Limit
      BY <1>1, <1>2, <1>6, <2>1, <2>2
    <2>4. PICK b \in Int, c \in Int : b = opened[j] /\ c = opened[m]
      BY <1>2, <2>3
    <2>5. b >= a + Gap /\ c >= b + Gap /\ d >= c + Gap
      BY <1>3, <1>4, <2>3, <2>4
    <2>6. y - x > Window
      BY <1>1, <1>5, <2>5 DEF Gap
    <2> QED
      BY <1>4, <2>6
  <1> QED
    BY <1>7, <1>8

\* Whatever order delayed requests reach the mutex in, and whenever windows are
\* swept, a span as long as a window holds at most three times the limit of
\* admissions of a key; twice the limit if nothing is delayed.
THEOREM AdmissionsAreBounded == Spec => []AdmissionsBounded
  <1>1. ASSUME IInv, Ledgers, 4 * MaxDelay < Window + 3, NEW k \in Keys, NEW i \in DOMAIN admitted[k],
               NEW last \in DOMAIN admitted[k], last = i + (IF MaxDelay = 0 THEN 2 ELSE 3) * Limit
        PROVE  admitted[k][last] - admitted[k][i] > Window
    <2>1. admitted[k] \in Seq(Nat)
      BY <1>1 DEF IInv, TypeOK
    <2>2. PICK opened \in [1 .. Len(admitted[k]) -> Int] : Accounts(opened, admitted[k])
      BY <1>1 DEF Ledgers, Ledger
    <2>3. DOMAIN admitted[k] = 1 .. Len(admitted[k])
      BY <2>1
    <2> QED
      BY <1>1, <2>1, <2>2, <2>3, Spans
  <1>2. IInv /\ Ledgers => AdmissionsBounded
    BY <1>1 DEF AdmissionsBounded
  <1> QED
    BY <1>2, LedgerInvariance, PTL
=============================================================================
