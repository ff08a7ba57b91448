------------------------- MODULE RouteArchiveProofs -------------------------
(***************************************************************************)
(* Theorems about RouteArchive, for every number of requests, codes and    *)
(* routes: what holds of a route row follows from what a transaction has   *)
(* locked, and from what its handler has checked before it.                *)
(***************************************************************************)
EXTENDS RouteArchive, SequenceTheorems, TLAPS

\* The stages of the handlers of a route that exists, ...
Editing(p) == req[p].pc \in {"update_write", "update_commit",
                             "baseline_check", "baseline_write", "baseline_commit"}
\* ... those that have updated the row, ...
Holding(p) == req[p].pc \in {"update_commit", "baseline_commit"}
\* ... and those that have found the trace to belong to the route.
Checked(p) == req[p].pc \in {"baseline_write", "baseline_commit"}

\* What a handler has in its local variables once it has got so far.
LocalsOK(p) ==
    /\ req[p].pc \in {"create_insert", "create_commit"}
           => req[p].after \in Route /\ req[p].after.baseline = None
    /\ Editing(p) => /\ req[p].route \in RouteIds /\ Exists(req[p].route)
                     /\ req[p].after \in Route
    /\ Checked(p) => /\ req[p].after.baseline \in DOMAIN traces
                     /\ traces[req[p].after.baseline] = req[p].route

\* A transaction holds what it has inserted or updated, and nothing else.
LocksOK(p) ==
    /\ \A c \in Codes : codeLock[c] = p <=> req[p].pc = "create_commit" /\ c = req[p].after.code
    /\ \A r \in RouteIds : rowLock[r] = p <=> Holding(p) /\ r = req[p].route

\* An inserted row that is not committed has an id and a code of its own.
InsertOK(p) ==
    req[p].pc = "create_commit" =>
        /\ req[p].route \in RouteIds /\ req[p].route < nextId
        /\ ~ Exists(req[p].route) /\ ~ Taken(req[p].after.code)
        /\ \A q \in Procs : q # p /\ req[q].pc = "create_commit" => req[q].route # req[p].route

ReqOK(p) == LocalsOK(p) /\ LocksOK(p) /\ InsertOK(p)

\* The audit trail begins with the row; its entries of either kind say what the row holds.
Logged(r) ==
    LET edited  == LastIndex(trail[r], {"route.created", "route.updated"})
        changed == LastIndex(trail[r], {"route.baseline_changed"}) IN
    /\ edited \in DOMAIN trail[r] /\ routes[r].fields = trail[r][edited].after.fields
    /\ IF changed = 0 THEN routes[r].baseline = None
       ELSE changed \in DOMAIN trail[r] /\ routes[r].baseline = trail[r][changed].after.baseline

RowsOK ==
    /\ \A r \in RouteIds : r >= nextId => ~ Exists(r)
    /\ \A r \in RouteIds : IF Exists(r) THEN Logged(r) ELSE trail[r] = <<>>
    /\ CodesUnique
    /\ BaselineBelongs

IInv == TypeOK /\ RowsOK /\ \A p \in Procs : ReqOK(p)
----------------------------------------------------------------------------
(* The operators of the model.                                             *)

\* An entry of the kind looked for is the last one once it is appended.
LEMMA LastIndexHit ==
    ASSUME NEW entries \in Seq(Entry), NEW entry \in Entry, NEW actions, entry.action \in actions
    PROVE  LastIndex(Append(entries, entry), actions) = Len(entries) + 1
<1> DEFINE longer == Append(entries, entry)
           n == Len(entries)
           indices == {i \in DOMAIN longer : longer[i].action \in actions}
<1>1. n \in Nat /\ DOMAIN longer = 1 .. n + 1 /\ longer[n + 1] = entry
    BY AppendProperties
<1>2. LastIndex(longer, actions) = IF indices = {} THEN 0
                                   ELSE CHOOSE i \in indices : \A j \in indices : j <= i
    BY DEF LastIndex
<1> HIDE DEF longer, n
<1>3. n + 1 \in indices /\ \A j \in indices : j \in Int /\ j <= n + 1
    BY <1>1
<1> HIDE DEF indices
<1>4. ASSUME NEW i \in indices, \A j \in indices : j <= i PROVE i = n + 1
    BY <1>1, <1>3, <1>4
<1> QED
    BY <1>1, <1>2, <1>3, <1>4 DEF longer, n

\* Any other entry leaves the last one of that kind where it is.
LEMMA LastIndexMiss ==
    ASSUME NEW entries \in Seq(Entry), NEW entry \in Entry, NEW actions, entry.action \notin actions
    PROVE  LastIndex(Append(entries, entry), actions) = LastIndex(entries, actions)
<1> DEFINE longer == Append(entries, entry)
           n == Len(entries)
<1>1. /\ n \in Nat /\ DOMAIN entries = 1 .. n /\ DOMAIN longer = 1 .. n + 1
      /\ longer[n + 1] = entry /\ \A i \in 1 .. n : longer[i] = entries[i]
    BY AppendProperties
<1> DEFINE new == {i \in DOMAIN longer : longer[i].action \in actions}
           old == {i \in DOMAIN entries : entries[i].action \in actions}
<1>2. /\ LastIndex(longer, actions) = IF new = {} THEN 0 ELSE CHOOSE i \in new : \A j \in new : j <= i
      /\ LastIndex(entries, actions) = IF old = {} THEN 0 ELSE CHOOSE i \in old : \A j \in old : j <= i
    BY DEF LastIndex
<1> HIDE DEF longer, n
<1>3. new = old
    BY <1>1
<1> HIDE DEF new, old
<1> QED
    BY <1>2, <1>3 DEF longer

\* The values an action gives to a request are requests, those it writes are routes.
LEMMA Requests ==
    /\ Idle \in Request
    /\ \A x \in Request, after \in Route :
           [x EXCEPT !.pc = "create_insert", !.after = after] \in Request
    /\ \A x \in Request, r \in RouteIds : [x EXCEPT !.pc = "create_commit", !.route = r] \in Request
    /\ \A x \in Request, pc \in {"update_commit", "baseline_write", "baseline_commit"} :
           [x EXCEPT !.pc = pc] \in Request
    /\ \A x \in Request, pc \in {"update_write", "baseline_check"}, r \in RouteIds,
          before \in Route, after \in Route :
           [x EXCEPT !.pc = pc, !.route = r, !.before = before, !.after = after] \in Request
<1>1. Idle \in Request
    BY DEF Idle, Request
<1>2. ASSUME NEW x \in Request, NEW after \in Route
      PROVE  [x EXCEPT !.pc = "create_insert", !.after = after] \in Request
    BY DEF Request
<1>3. ASSUME NEW x \in Request, NEW r \in RouteIds
      PROVE  [x EXCEPT !.pc = "create_commit", !.route = r] \in Request
    BY DEF Request
<1>4. ASSUME NEW x \in Request, NEW pc \in {"update_commit", "baseline_write", "baseline_commit"}
      PROVE  [x EXCEPT !.pc = pc] \in Request
    BY DEF Request
<1>5. ASSUME NEW x \in Request, NEW pc \in {"update_write", "baseline_check"}, NEW r \in RouteIds,
             NEW before \in Route, NEW after \in Route
      PROVE  [x EXCEPT !.pc = pc, !.route = r, !.before = before, !.after = after] \in Request
    BY DEF Request
<1> QED
    BY <1>1, <1>2, <1>3, <1>4, <1>5

LEMMA Rows ==
    /\ NoRoute \notin Route
    /\ \A fields \in [Fields -> Values], patch \in Patches : Patched(fields, patch) \in [Fields -> Values]
    /\ \A x \in Route : x.fields \in [Fields -> Values] /\ x.code \in Codes
                        /\ x.baseline \in TraceIds \cup {None}
    /\ \A x \in Route, fields \in [Fields -> Values] :
           /\ [x EXCEPT !.fields = fields] \in Route
           /\ [x EXCEPT !.fields = fields].fields = fields
           /\ [x EXCEPT !.fields = fields].baseline = x.baseline
           /\ [x EXCEPT !.fields = fields].code = x.code
    /\ \A x \in Route, t \in TraceIds \cup {None} :
           /\ [x EXCEPT !.baseline = t] \in Route
           /\ [x EXCEPT !.baseline = t].fields = x.fields
           /\ [x EXCEPT !.baseline = t].baseline = t
           /\ [x EXCEPT !.baseline = t].code = x.code
<1>1. NoRoute \notin Route
    BY ArchiveAssumption DEF Route, NoRoute
<1>2. ASSUME NEW fields \in [Fields -> Values], NEW patch \in Patches
      PROVE  Patched(fields, patch) \in [Fields -> Values]
    BY DEF Patches, Patched
<1>3. ASSUME NEW x \in Route
      PROVE  x.fields \in [Fields -> Values] /\ x.code \in Codes /\ x.baseline \in TraceIds \cup {None}
    BY DEF Route
<1>4. ASSUME NEW x \in Route, NEW fields \in [Fields -> Values]
      PROVE  /\ [x EXCEPT !.fields = fields] \in Route
             /\ [x EXCEPT !.fields = fields].fields = fields
             /\ [x EXCEPT !.fields = fields].baseline = x.baseline
             /\ [x EXCEPT !.fields = fields].code = x.code
    BY DEF Route
<1>5. ASSUME NEW x \in Route, NEW t \in TraceIds \cup {None}
      PROVE  /\ [x EXCEPT !.baseline = t] \in Route
             /\ [x EXCEPT !.baseline = t].fields = x.fields
             /\ [x EXCEPT !.baseline = t].baseline = t
             /\ [x EXCEPT !.baseline = t].code = x.code
    BY DEF Route
<1> QED
    BY <1>1, <1>2, <1>3, <1>4, <1>5
----------------------------------------------------------------------------
(* The invariant.                                                          *)

LEMMA InitIInv == Init => IInv
<1> SUFFICES ASSUME Init PROVE IInv
    OBVIOUS
<1>1. /\ \A r \in RouteIds : ~ Exists(r) /\ routes[r] = NoRoute /\ trail[r] = <<>> /\ rowLock[r] = None
      /\ \A c \in Codes : codeLock[c] = None
      /\ \A p \in Procs : req[p] = Idle
    BY DEF Init, Exists
<1>2. TypeOK
    <2>1. req \in [Procs -> Request]
        BY Requests DEF Init
    <2>2. nextId \in 1 .. MaxRoutes + 1
        BY ArchiveAssumption DEF Init
    <2> QED
        BY <2>1, <2>2 DEF Init, TypeOK
<1>3. RowsOK
    BY <1>1 DEF RowsOK, CodesUnique, BaselineBelongs, NoRoute
<1>4. \A p \in Procs : ReqOK(p)
    <2>1. Idle.pc = "idle"
        BY DEF Idle
    <2>2. \A p \in Procs : req[p].pc = "idle" /\ p # None
        BY <1>1, <2>1, ArchiveAssumption
    <2> QED
        BY <1>1, <2>2 DEF ReqOK, LocalsOK, LocksOK, InsertOK, Editing, Holding, Checked
<1> QED
    BY <1>2, <1>3, <1>4 DEF IInv

\* A transaction about to commit is about to write an entry of the audit trail.
LEMMA LogKept ==
    ASSUME IInv, NEW p \in Procs, NEW action \in {"route.created", "route.updated", "route.baseline_changed"},
           req[p].route \in RouteIds, req[p].after \in Route, Log(p, action)
    PROVE  LET r == req[p].route
               entry == [action |-> action, before |-> req[p].before, after |-> req[p].after] IN
           /\ entry \in Entry
           /\ trail'[r] = Append(trail[r], entry)
           /\ trail' \in [RouteIds -> Seq(Entry)]
           /\ \A s \in RouteIds : s # r => trail'[s] = trail[s]
<1> DEFINE r == req[p].route
           entry == [action |-> action, before |-> req[p].before, after |-> req[p].after]
<1>1. TypeOK
    BY DEF IInv
<1>2. entry \in Entry
    <2>1. req[p].before \in Route \cup {NoRoute}
        BY <1>1 DEF TypeOK, Request
    <2> QED
        BY <2>1 DEF Entry
<1>3. trail' = [trail EXCEPT ![r] = Append(trail[r], entry)]
    BY DEF Log
<1> HIDE DEF entry
<1>4. Append(trail[r], entry) \in Seq(Entry)
    BY <1>1, <1>2, AppendProperties DEF TypeOK
<1> QED
    BY <1>1, <1>2, <1>3, <1>4 DEF TypeOK, entry

LEMMA TypesKept ==
    ASSUME IInv, [Next]_vars
    PROVE  TypeOK'
<1> USE DEF TypeOK, tables, locks
<1>0. TypeOK /\ \A p \in Procs : ReqOK(p)
    BY DEF IInv
<1>1. ASSUME NEW p \in Procs, NEW code \in Codes, NEW fields \in [Fields -> Values],
             CreateCheck(p, code, fields)
      PROVE  TypeOK'
    <2> DEFINE after == [code |-> code, fields |-> fields, baseline |-> None]
    <2>1. after \in Route
        BY DEF Route
    <2>2. req' = [req EXCEPT ![p] = [Idle EXCEPT !.pc = "create_insert", !.after = after]]
        BY <1>1 DEF CreateCheck
    <2> HIDE DEF after
    <2>3. req' \in [Procs -> Request]
        BY <1>0, <2>1, <2>2, Requests
    <2> QED
        BY <1>0, <1>1, <2>3 DEF CreateCheck
<1>2. ASSUME NEW p \in Procs, NEW r \in RouteIds, NEW patch \in Patches, UpdateRead(p, r, patch)
      PROVE  TypeOK'
    <2> DEFINE after == [routes[r] EXCEPT !.fields = Patched(@, patch)]
    <2>1. routes[r] \in Route
        BY <1>0, <1>2 DEF UpdateRead, Exists
    <2>2. after \in Route
        BY <2>1, Rows
    <2>3. req' = [req EXCEPT ![p] = [Idle EXCEPT !.pc = "update_write", !.route = r,
                                       !.before = routes[r], !.after = after]]
        BY <1>2 DEF UpdateRead
    <2> HIDE DEF after
    <2>4. req' \in [Procs -> Request]
        BY <1>0, <2>1, <2>2, <2>3, Requests
    <2> QED
        BY <1>0, <1>2, <2>4 DEF UpdateRead
<1>3. ASSUME NEW p \in Procs, NEW r \in RouteIds, NEW t \in TraceIds, BaselineRead(p, r, t)
      PROVE  TypeOK'
    <2> DEFINE after == [routes[r] EXCEPT !.baseline = t]
    <2>1. routes[r] \in Route
        BY <1>0, <1>3 DEF BaselineRead, Exists
    <2>2. after \in Route
        BY <2>1, Rows
    <2>3. req' = [req EXCEPT ![p] = [Idle EXCEPT !.pc = "baseline_check", !.route = r,
                                       !.before = routes[r], !.after = after]]
        BY <1>3 DEF BaselineRead
    <2> HIDE DEF after
    <2>4. req' \in [Procs -> Request]
        BY <1>0, <2>1, <2>2, <2>3, Requests
    <2> QED
        BY <1>0, <1>3, <2>4 DEF BaselineRead
<1>4. ASSUME NEW p \in Procs, CreateInsert(p) PROVE TypeOK'
    <2>1. CASE req' = [req EXCEPT ![p] = Idle] /\ UNCHANGED <<nextId, codeLock>>
        BY <1>0, <1>4, <2>1, Requests DEF CreateInsert
    <2>2. CASE /\ nextId <= MaxRoutes
               /\ codeLock' = [codeLock EXCEPT ![req[p].after.code] = p]
               /\ nextId' = nextId + 1
               /\ req' = [req EXCEPT ![p] = [@ EXCEPT !.pc = "create_commit", !.route = nextId]]
        <3>1. nextId \in RouteIds /\ nextId' \in 1 .. MaxRoutes + 1
            BY <1>0, <2>2, ArchiveAssumption DEF RouteIds
        <3>2. req' \in [Procs -> Request]
            BY <1>0, <2>2, <3>1, Requests
        <3>3. codeLock' \in [Codes -> Procs \cup {None}]
            BY <1>0, <2>2
        <3> QED
            BY <1>0, <1>4, <3>1, <3>2, <3>3 DEF CreateInsert
    <2> QED
        BY <1>4, <2>1, <2>2 DEF CreateInsert
<1>a. ASSUME NEW p \in Procs, Release(p)
      PROVE  codeLock' \in [Codes -> Procs \cup {None}] /\ rowLock' \in [RouteIds -> Procs \cup {None}]
    BY <1>0, <1>a DEF Release
<1>5. ASSUME NEW p \in Procs, CreateCommit(p) PROVE TypeOK'
    <2>1. req[p].route \in RouteIds /\ req[p].after \in Route
        BY <1>0, <1>5 DEF CreateCommit, ReqOK, LocalsOK, InsertOK
    <2>2. trail' \in [RouteIds -> Seq(Entry)]
        BY <1>5, <2>1, LogKept DEF CreateCommit
    <2>3. routes' \in [RouteIds -> Route \cup {NoRoute}]
        BY <1>0, <1>5, <2>1 DEF CreateCommit
    <2>4. req' \in [Procs -> Request]
        BY <1>0, <1>5, Requests DEF CreateCommit
    <2> QED
        BY <1>0, <1>5, <1>a, <2>2, <2>3, <2>4 DEF CreateCommit
<1>6. ASSUME NEW p \in Procs, NEW from, NEW to \in {"update_commit", "baseline_commit"},
             Write(p, from, to)
      PROVE  TypeOK'
    <2>1. req' \in [Procs -> Request]
        BY <1>0, <1>6, Requests DEF Write
    <2>2. rowLock' \in [RouteIds -> Procs \cup {None}]
        BY <1>0, <1>6 DEF Write
    <2> QED
        BY <1>0, <1>6, <2>1, <2>2 DEF Write
<1>7. ASSUME NEW p \in Procs, UpdateCommit(p) PROVE TypeOK'
    <2> DEFINE r == req[p].route
    <2>1. r \in RouteIds /\ Exists(r) /\ req[p].after \in Route
        BY <1>0, <1>7 DEF UpdateCommit, ReqOK, LocalsOK, Editing
    <2>2. trail' \in [RouteIds -> Seq(Entry)]
        BY <1>7, <2>1, LogKept DEF UpdateCommit
    <2>3. [routes[r] EXCEPT !.fields = req[p].after.fields] \in Route
        <3>1. routes[r] \in Route
            BY <1>0, <2>1 DEF Exists
        <3>2. req[p].after.fields \in [Fields -> Values]
            BY <2>1, Rows
        <3> HIDE DEF r
        <3> QED
            BY <3>1, <3>2, Rows
    <2>4. routes' \in [RouteIds -> Route \cup {NoRoute}]
        BY <1>0, <1>7, <2>1, <2>3 DEF UpdateCommit
    <2>5. req' \in [Procs -> Request]
        BY <1>0, <1>7, Requests DEF UpdateCommit
    <2> QED
        BY <1>0, <1>7, <1>a, <2>2, <2>4, <2>5 DEF UpdateCommit
<1>8. ASSUME NEW p \in Procs, BaselineCheck(p) PROVE TypeOK'
    <2>1. req' \in [Procs -> Request]
        BY <1>0, <1>8, Requests DEF BaselineCheck
    <2> QED
        BY <1>0, <1>8, <2>1 DEF BaselineCheck
<1>9. ASSUME NEW p \in Procs, BaselineCommit(p) PROVE TypeOK'
    <2> DEFINE r == req[p].route
    <2>1. r \in RouteIds /\ Exists(r) /\ req[p].after \in Route
        BY <1>0, <1>9 DEF BaselineCommit, ReqOK, LocalsOK, Editing
    <2>2. trail' \in [RouteIds -> Seq(Entry)]
        BY <1>9, <2>1, LogKept DEF BaselineCommit
    <2>3. [routes[r] EXCEPT !.baseline = req[p].after.baseline] \in Route
        <3>1. routes[r] \in Route
            BY <1>0, <2>1 DEF Exists
        <3>2. req[p].after.baseline \in TraceIds \cup {None}
            BY <2>1, Rows
        <3> HIDE DEF r
        <3> QED
            BY <3>1, <3>2, Rows
    <2>4. routes' \in [RouteIds -> Route \cup {NoRoute}]
        BY <1>0, <1>9, <2>1, <2>3 DEF BaselineCommit
    <2>5. req' \in [Procs -> Request]
        BY <1>0, <1>9, Requests DEF BaselineCommit
    <2> QED
        BY <1>0, <1>9, <1>a, <2>2, <2>4, <2>5 DEF BaselineCommit
<1>10. ASSUME NEW r \in RouteIds, Import(r) PROVE TypeOK'
    <2>1. traces' \in Seq(RouteIds)
        BY <1>0, <1>10, AppendProperties DEF Import
    <2> QED
        BY <1>0, <1>10, <2>1 DEF Import
<1>11. ASSUME NEW p \in Procs, Abort(p) PROVE TypeOK'
    <2>1. req' \in [Procs -> Request]
        BY <1>0, <1>11, Requests DEF Abort
    <2> QED
        BY <1>0, <1>11, <1>a, <2>1 DEF Abort
<1>12. CASE UNCHANGED vars
    BY <1>0, <1>12 DEF vars
<1> QED
    BY <1>1, <1>2, <1>3, <1>4, <1>5, <1>6, <1>7, <1>8, <1>9, <1>10, <1>11, <1>12
    DEF Next, Arrives, Continues, UpdateWrite, BaselineWrite

\* A request is left alone by the steps of others that keep away from its locks, from the
\* id and the code it has inserted, and take no route and no trace away.
LeavesAlone(u) ==
    /\ req'[u] = req[u]
    /\ \A c \in Codes : codeLock'[c] = u <=> codeLock[c] = u
    /\ \A r \in RouteIds : rowLock'[r] = u <=> rowLock[r] = u
    /\ nextId <= nextId'
    /\ \A r \in RouteIds : Exists(r) => routes'[r] # NoRoute
    /\ \A t \in DOMAIN traces : t \in DOMAIN traces' /\ traces'[t] = traces[t]
    /\ req[u].pc = "create_commit" =>
           /\ routes'[req[u].route] = NoRoute
           /\ \A r \in RouteIds : routes'[r].code # req[u].after.code
           /\ \A q \in Procs : q # u /\ req'[q].pc = "create_commit" => req'[q].route # req[u].route

LEMMA LeftAlone ==
    ASSUME TypeOK, TypeOK', NEW u \in Procs, ReqOK(u), LeavesAlone(u)
    PROVE  ReqOK(u)'
<1>1. LocalsOK(u)'
    BY DEF ReqOK, LocalsOK, LeavesAlone, Editing, Checked, Exists
<1>2. LocksOK(u)'
    BY DEF ReqOK, LocksOK, LeavesAlone, Holding
<1>3. nextId \in Nat /\ nextId' \in Nat /\ RouteIds \subseteq Nat
    BY ArchiveAssumption DEF TypeOK, RouteIds
<1>4. InsertOK(u)'
    <2>1. SUFFICES ASSUME req[u].pc = "create_commit" PROVE InsertOK(u)'
        BY DEF InsertOK, LeavesAlone
    <2>2. req[u].route \in RouteIds /\ req[u].route < nextId'
        <3>1. req[u].route \in RouteIds /\ req[u].route < nextId
            BY <2>1 DEF ReqOK, InsertOK
        <3>2. nextId <= nextId'
            BY DEF LeavesAlone
        <3>3. req[u].route \in Nat
            BY <1>3, <3>1
        <3>4. \A i, j, k \in Nat : i < j /\ j <= k => i < k
            OBVIOUS
        <3> QED
            BY <1>3, <3>1, <3>2, <3>3, <3>4
    <2>3. ~ Exists(req[u].route)' /\ ~ Taken(req[u].after.code)'
        BY <2>1 DEF LeavesAlone, Exists, Taken
    <2> QED
        BY <2>1, <2>2, <2>3 DEF InsertOK, LeavesAlone
<1> QED
    BY <1>1, <1>2, <1>4 DEF ReqOK

\* The steps of p that change no table, and that insert nothing, are among them.
Quiet(p) ==
    /\ UNCHANGED tables
    /\ req'[p].pc # "create_commit"
    /\ \A u \in Procs : u # p =>
           /\ req'[u] = req[u]
           /\ \A c \in Codes : codeLock'[c] = u <=> codeLock[c] = u
           /\ \A r \in RouteIds : rowLock'[r] = u <=> rowLock[r] = u

LEMMA QuietSteps ==
    ASSUME TypeOK, TypeOK', \A u \in Procs : ReqOK(u), NEW p \in Procs, Quiet(p), ReqOK(p)'
    PROVE  \A u \in Procs : ReqOK(u)'
<1>1. ASSUME NEW u \in Procs, u # p PROVE LeavesAlone(u)
    <2>1. nextId \in Nat /\ nextId' = nextId /\ routes' = routes /\ traces' = traces
        BY DEF TypeOK, Quiet, tables
    <2> QED
        BY <1>1, <2>1 DEF LeavesAlone, Quiet, ReqOK, InsertOK, Exists, Taken
<1> QED
    BY <1>1, LeftAlone

\* The request of a transaction that ends is idle and holds nothing.
LEMMA Ending ==
    ASSUME TypeOK, NEW p \in Procs, Release(p), req' = [req EXCEPT ![p] = Idle]
    PROVE  /\ ReqOK(p)'
           /\ req'[p].pc = "idle"
           /\ \A u \in Procs : u # p =>
                  /\ req'[u] = req[u]
                  /\ \A c \in Codes : codeLock'[c] = u <=> codeLock[c] = u
                  /\ \A r \in RouteIds : rowLock'[r] = u <=> rowLock[r] = u
<1>1. req'[p].pc = "idle" /\ \A u \in Procs : u # p => req'[u] = req[u]
    BY DEF TypeOK, Idle
<1>2. \A u \in Procs : u # None
    BY ArchiveAssumption
<1>3. /\ \A c \in Codes : codeLock'[c] = IF codeLock[c] = p THEN None ELSE codeLock[c]
      /\ \A r \in RouteIds : rowLock'[r] = IF rowLock[r] = p THEN None ELSE rowLock[r]
    BY DEF Release
<1>4. ReqOK(p)'
    BY <1>1, <1>2, <1>3 DEF ReqOK, LocalsOK, LocksOK, InsertOK, Editing, Holding, Checked
<1> QED
    BY <1>1, <1>2, <1>3, <1>4

\* The update of a row keeps what is there and what it is known by.
LEMMA Edits ==
    ASSUME IInv, NEW p \in Procs, UpdateCommit(p) \/ BaselineCommit(p)
    PROVE  LET r == req[p].route IN
           /\ r \in RouteIds /\ Exists(r) /\ routes[r] \in Route /\ req[p].after \in Route
           /\ routes'[r] \in Route /\ routes'[r].code = routes[r].code
           /\ UpdateCommit(p) => /\ routes'[r].fields = req[p].after.fields
                                 /\ routes'[r].baseline = routes[r].baseline
           /\ BaselineCommit(p) => /\ routes'[r].fields = routes[r].fields
                                   /\ routes'[r].baseline = req[p].after.baseline
                                   /\ req[p].after.baseline \in DOMAIN traces
                                   /\ traces[req[p].after.baseline] = r
           /\ \A s \in RouteIds : s # r => routes'[s] = routes[s]
           /\ UNCHANGED <<nextId, traces>>
<1> DEFINE r == req[p].route
<1>1. TypeOK /\ ReqOK(p)
    BY DEF IInv
<1>2. r \in RouteIds /\ Exists(r) /\ req[p].after \in Route
    BY <1>1 DEF UpdateCommit, BaselineCommit, ReqOK, LocalsOK, Editing
<1>3. routes[r] \in Route
    BY <1>1, <1>2 DEF TypeOK, Exists
<1>4. req[p].after.fields \in [Fields -> Values] /\ req[p].after.baseline \in TraceIds \cup {None}
    BY <1>2, Rows
<1>5. BaselineCommit(p) => req[p].after.baseline \in DOMAIN traces /\ traces[req[p].after.baseline] = r
    BY <1>1 DEF BaselineCommit, ReqOK, LocalsOK, Checked
<1>6. ASSUME UpdateCommit(p)
      PROVE  /\ routes'[r] = [routes[r] EXCEPT !.fields = req[p].after.fields]
             /\ \A s \in RouteIds : s # r => routes'[s] = routes[s]
    BY <1>1, <1>2, <1>6 DEF TypeOK, UpdateCommit
<1>7. ASSUME BaselineCommit(p)
      PROVE  /\ routes'[r] = [routes[r] EXCEPT !.baseline = req[p].after.baseline]
             /\ \A s \in RouteIds : s # r => routes'[s] = routes[s]
    BY <1>1, <1>2, <1>7 DEF TypeOK, BaselineCommit
<1>8. ~ (UpdateCommit(p) /\ BaselineCommit(p)) /\ UNCHANGED <<nextId, traces>>
    BY DEF UpdateCommit, BaselineCommit
<1> HIDE DEF r
<1> DEFINE x == routes[r]
           f == req[p].after.fields
           b == req[p].after.baseline
<1>9. /\ x \in Route /\ f \in [Fields -> Values] /\ b \in TraceIds \cup {None}
      /\ UpdateCommit(p) => routes'[r] = [x EXCEPT !.fields = f]
      /\ BaselineCommit(p) => routes'[r] = [x EXCEPT !.baseline = b]
    BY <1>3, <1>4, <1>6, <1>7
<1> HIDE DEF x, f, b
<1>10. CASE UpdateCommit(p)
    <2> DEFINE y == [x EXCEPT !.fields = f]
    <2>a. y \in Route /\ y.code = x.code /\ y.fields = f /\ y.baseline = x.baseline
        BY <1>9, Rows
    <2>b. routes'[r] = y
        BY <1>9, <1>10
    <2> HIDE DEF y
    <2>1. /\ routes'[r] \in Route /\ routes'[r].code = x.code
          /\ routes'[r].fields = f /\ routes'[r].baseline = x.baseline
        BY <2>a, <2>b
    <2> QED
        BY <1>2, <1>3, <1>6, <1>8, <1>10, <2>1 DEF r, x, f
<1>11. CASE BaselineCommit(p)
    <2> DEFINE y == [x EXCEPT !.baseline = b]
    <2>a. y \in Route /\ y.code = x.code /\ y.fields = x.fields /\ y.baseline = b
        BY <1>9, Rows
    <2>b. routes'[r] = y
        BY <1>9, <1>11
    <2> HIDE DEF y
    <2>1. /\ routes'[r] \in Route /\ routes'[r].code = x.code
          /\ routes'[r].fields = x.fields /\ routes'[r].baseline = b
        BY <2>a, <2>b
    <2> QED
        BY <1>2, <1>3, <1>5, <1>7, <1>8, <1>11, <2>1 DEF r, x, b
<1> QED
    BY <1>10, <1>11

LEMMA RequestsKept ==
    ASSUME IInv, TypeOK', [Next]_vars
    PROVE  \A u \in Procs : ReqOK(u)'
<1>0. TypeOK /\ TypeOK' /\ RowsOK /\ \A u \in Procs : ReqOK(u)
    BY DEF IInv
<1>a. \A u \in Procs : u # None
    BY ArchiveAssumption
<1>b. ASSUME NEW p \in Procs, NEW x \in Request, req' = [req EXCEPT ![p] = x],
             UNCHANGED <<tables, locks>>, x.pc # "create_commit"
      PROVE  Quiet(p) /\ req'[p] = x
    BY <1>0, <1>b DEF Quiet, TypeOK, locks
<1>1. ASSUME NEW p \in Procs, NEW code \in Codes, NEW fields \in [Fields -> Values],
             CreateCheck(p, code, fields)
      PROVE  \A u \in Procs : ReqOK(u)'
    <2> DEFINE after == [code |-> code, fields |-> fields, baseline |-> None]
               x == [Idle EXCEPT !.pc = "create_insert", !.after = after]
    <2>1. after \in Route /\ after.baseline = None
        BY DEF Route
    <2>2. /\ req[p] = Idle /\ req' = [req EXCEPT ![p] = x] /\ UNCHANGED <<tables, locks>>
        BY <1>1 DEF CreateCheck
    <2> HIDE DEF after
    <2>3. x \in Request /\ x.pc = "create_insert" /\ x.after = after
        BY <2>1, Requests DEF Idle
    <2> HIDE DEF x
    <2>4. Quiet(p) /\ req'[p] = x
        BY <1>b, <2>2, <2>3
    <2>5. Idle.pc = "idle"
        BY DEF Idle
    <2>6. ReqOK(p)'
        BY <1>0, <2>1, <2>2, <2>3, <2>4, <2>5
        DEF ReqOK, LocalsOK, LocksOK, InsertOK, Editing, Holding, Checked, locks
    <2> QED
        BY <1>0, <2>4, <2>6, QuietSteps
<1>2. ASSUME NEW p \in Procs, NEW r \in RouteIds, NEW after \in Route,
             NEW pc \in {"update_write", "baseline_check"},
             Exists(r), req[p] = Idle, UNCHANGED <<tables, locks>>,
             req' = [req EXCEPT ![p] = [Idle EXCEPT !.pc = pc, !.route = r,
                                          !.before = routes[r], !.after = after]]
      PROVE  \A u \in Procs : ReqOK(u)'
    <2> DEFINE x == [Idle EXCEPT !.pc = pc, !.route = r, !.before = routes[r], !.after = after]
    <2>1. routes[r] \in Route
        BY <1>0, <1>2 DEF TypeOK, Exists
    <2>2. x \in Request
        BY <2>1, Requests
    <2>3. x.pc = pc /\ x.route = r /\ x.after = after
        BY DEF Idle
    <2>4. req' = [req EXCEPT ![p] = x]
        BY <1>2
    <2> HIDE DEF x
    <2>5. Quiet(p) /\ req'[p] = x
        BY <1>b, <1>2, <2>2, <2>3, <2>4
    <2>6. Idle.pc = "idle"
        BY DEF Idle
    <2>7. ReqOK(p)'
        BY <1>0, <1>2, <2>3, <2>5, <2>6
        DEF ReqOK, LocalsOK, LocksOK, InsertOK, Editing, Holding, Checked, locks, tables, Exists
    <2> QED
        BY <1>0, <2>5, <2>7, QuietSteps
<1>3. ASSUME NEW p \in Procs, NEW r \in RouteIds, NEW patch \in Patches, UpdateRead(p, r, patch)
      PROVE  \A u \in Procs : ReqOK(u)'
    <2> DEFINE after == [routes[r] EXCEPT !.fields = Patched(@, patch)]
    <2>1. routes[r] \in Route
        BY <1>0, <1>3 DEF UpdateRead, Exists, TypeOK
    <2>2. after \in Route
        BY <2>1, Rows
    <2>3. /\ Exists(r) /\ req[p] = Idle /\ UNCHANGED <<tables, locks>>
          /\ req' = [req EXCEPT ![p] = [Idle EXCEPT !.pc = "update_write", !.route = r,
                                          !.before = routes[r], !.after = after]]
        BY <1>3 DEF UpdateRead
    <2> HIDE DEF after
    <2> QED
        BY <1>2, <2>2, <2>3
<1>4. ASSUME NEW p \in Procs, NEW r \in RouteIds, NEW t \in TraceIds, BaselineRead(p, r, t)
      PROVE  \A u \in Procs : ReqOK(u)'
    <2> DEFINE after == [routes[r] EXCEPT !.baseline = t]
    <2>1. routes[r] \in Route
        BY <1>0, <1>4 DEF BaselineRead, Exists, TypeOK
    <2>2. after \in Route
        BY <2>1, Rows
    <2>3. /\ Exists(r) /\ req[p] = Idle /\ UNCHANGED <<tables, locks>>
          /\ req' = [req EXCEPT ![p] = [Idle EXCEPT !.pc = "baseline_check", !.route = r,
                                          !.before = routes[r], !.after = after]]
        BY <1>4 DEF BaselineRead
    <2> HIDE DEF after
    <2> QED
        BY <1>2, <2>2, <2>3
<1>5. ASSUME NEW p \in Procs, CreateInsert(p) PROVE \A u \in Procs : ReqOK(u)'
    <2> DEFINE code == req[p].after.code
    <2>1. /\ req[p].pc = "create_insert" /\ codeLock[code] = None
          /\ UNCHANGED <<routes, traces, trail, rowLock>>
        BY <1>5 DEF CreateInsert
    <2>2. req[p].after \in Route /\ req[p].after.baseline = None /\ code \in Codes
        BY <1>0, <2>1, Rows DEF ReqOK, LocalsOK
    <2>3. CASE req' = [req EXCEPT ![p] = Idle] /\ UNCHANGED <<nextId, codeLock>>
        <3>1. Idle \in Request /\ Idle.pc = "idle"
            BY Requests DEF Idle
        <3>2. Quiet(p) /\ req'[p] = Idle
            BY <1>b, <2>1, <2>3, <3>1 DEF tables, locks
        <3>3. ReqOK(p)'
            BY <1>0, <2>1, <2>3, <3>1, <3>2
            DEF ReqOK, LocalsOK, LocksOK, InsertOK, Editing, Holding, Checked
        <3> QED
            BY <1>0, <3>2, <3>3, QuietSteps
    <2>4. CASE /\ ~ Taken(code) /\ nextId <= MaxRoutes
               /\ codeLock' = [codeLock EXCEPT ![code] = p]
               /\ nextId' = nextId + 1
               /\ req' = [req EXCEPT ![p] = [@ EXCEPT !.pc = "create_commit", !.route = nextId]]
        <3> DEFINE x == [req[p] EXCEPT !.pc = "create_commit", !.route = nextId]
        <3>1. req[p] \in Request
            BY <1>0 DEF TypeOK
        <3>2. x.pc = "create_commit" /\ x.route = nextId /\ x.after = req[p].after
            BY <3>1 DEF Request
        <3>3. req'[p] = x /\ \A u \in Procs : u # p => req'[u] = req[u]
            BY <1>0, <2>4 DEF TypeOK
        <3> HIDE DEF x
        <3>4. nextId \in RouteIds /\ nextId \in Nat /\ nextId' \in Nat /\ nextId < nextId'
            BY <1>0, <2>4, ArchiveAssumption DEF TypeOK, RouteIds
        <3>5. ~ Exists(nextId)
            BY <1>0, <3>4 DEF RowsOK
        <3>6. \A c \in Codes : codeLock'[c] = IF c = code THEN p ELSE codeLock[c]
            BY <1>0, <2>4 DEF TypeOK
        <3>7. ASSUME NEW u \in Procs, u # p
              PROVE  LeavesAlone(u)
            <4>1. req[u].pc = "create_commit" => req[u].route # nextId
                <5>1. req[u].pc = "create_commit" => req[u].route \in RouteIds /\ req[u].route < nextId
                    BY <1>0 DEF ReqOK, InsertOK
                <5>2. RouteIds \subseteq Nat
                    BY ArchiveAssumption DEF RouteIds
                <5> QED
                    BY <3>4, <5>1, <5>2
            <4>2. \A c \in Codes : codeLock'[c] = u <=> codeLock[c] = u
                BY <1>a, <2>1, <3>6, <3>7
            <4>3. \A q \in Procs : q # u /\ req'[q].pc = "create_commit" /\ req[u].pc = "create_commit"
                      => req'[q].route # req[u].route
                BY <1>0, <3>2, <3>3, <4>1 DEF ReqOK, InsertOK
            <4>4. req[u].pc = "create_commit" =>
                      /\ routes'[req[u].route] = NoRoute
                      /\ \A r \in RouteIds : routes'[r].code # req[u].after.code
                BY <1>0, <2>1 DEF ReqOK, InsertOK, Exists, Taken
            <4>5. /\ \A r \in RouteIds : Exists(r) => routes'[r] # NoRoute
                  /\ \A t \in DOMAIN traces : t \in DOMAIN traces' /\ traces'[t] = traces[t]
                  /\ \A r \in RouteIds : rowLock'[r] = u <=> rowLock[r] = u
                BY <2>1 DEF Exists
            <4> QED
                BY <3>3, <3>4, <3>7, <4>2, <4>3, <4>4, <4>5 DEF LeavesAlone
        <3>8. LocalsOK(p)'
            BY <2>2, <3>2, <3>3 DEF LocalsOK, Editing, Checked
        <3>9. LocksOK(p)'
            BY <1>0, <2>1, <3>2, <3>3, <3>6 DEF ReqOK, LocksOK, Holding
        <3>10. InsertOK(p)'
            <4>1. routes'[nextId] = NoRoute /\ \A r \in RouteIds : routes'[r].code # code
                BY <2>1, <2>4, <3>4, <3>5 DEF Exists, Taken
            <4>2. \A q \in Procs : q # p /\ req'[q].pc = "create_commit" => req'[q].route # nextId
                <5>1. \A q \in Procs : req[q].pc = "create_commit" => req[q].route \in RouteIds /\ req[q].route < nextId
                    BY <1>0 DEF ReqOK, InsertOK
                <5>2. RouteIds \subseteq Nat
                    BY ArchiveAssumption DEF RouteIds
                <5> QED
                    BY <3>3, <3>4, <5>1, <5>2
            <4> QED
                BY <2>1, <2>4, <3>2, <3>3, <3>4, <3>5, <4>1, <4>2 DEF InsertOK, Exists, Taken
        <3> QED
            BY <1>0, <3>7, <3>8, <3>9, <3>10, LeftAlone DEF ReqOK
    <2> QED
        BY <1>5, <2>3, <2>4 DEF CreateInsert
<1>6. ASSUME NEW p \in Procs, CreateCommit(p) PROVE \A u \in Procs : ReqOK(u)'
    <2> DEFINE r == req[p].route
               code == req[p].after.code
    <2>1. /\ req[p].pc = "create_commit" /\ Release(p) /\ req' = [req EXCEPT ![p] = Idle]
          /\ routes' = [routes EXCEPT ![r] = req[p].after] /\ UNCHANGED <<nextId, traces>>
        BY <1>6 DEF CreateCommit
    <2>2. /\ r \in RouteIds /\ ~ Exists(r) /\ req[p].after \in Route
          /\ code \in Codes /\ codeLock[code] = p
        BY <1>0, <2>1, Rows DEF ReqOK, LocalsOK, LocksOK, InsertOK
    <2>3. /\ routes'[r] = req[p].after /\ routes'[r] # NoRoute /\ routes'[r].code = code
          /\ \A s \in RouteIds : s # r => routes'[s] = routes[s]
        BY <1>0, <2>1, <2>2, Rows DEF TypeOK
    <2>4. /\ ReqOK(p)' /\ req'[p].pc = "idle"
          /\ \A u \in Procs : u # p =>
                 /\ req'[u] = req[u]
                 /\ \A c \in Codes : codeLock'[c] = u <=> codeLock[c] = u
                 /\ \A s \in RouteIds : rowLock'[s] = u <=> rowLock[s] = u
        BY <1>0, <2>1, Ending
    <2>5. nextId <= nextId'
        BY <1>0, <2>1 DEF TypeOK
    <2> HIDE DEF r, code
    <2>6. ASSUME NEW u \in Procs, u # p PROVE LeavesAlone(u)
        <3>1. ASSUME req[u].pc = "create_commit"
              PROVE  /\ req[u].route \in RouteIds /\ req[u].route # r /\ routes[req[u].route] = NoRoute
                     /\ req[u].after.code # code
                     /\ \A s \in RouteIds : routes[s].code # req[u].after.code
            <4>1. req[u].route \in RouteIds /\ routes[req[u].route] = NoRoute
                BY <1>0, <3>1 DEF ReqOK, InsertOK, Exists
            <4>2. req[u].route # r
                BY <1>0, <2>1, <2>6, <3>1 DEF ReqOK, InsertOK, r
            <4>3. req[u].after.code # code
                BY <1>0, <2>2, <2>6, <3>1 DEF ReqOK, LocksOK
            <4> QED
                BY <1>0, <3>1, <4>1, <4>2, <4>3 DEF ReqOK, InsertOK, Taken
        <3>2. req[u].pc = "create_commit" =>
                  /\ routes'[req[u].route] = NoRoute
                  /\ \A s \in RouteIds : routes'[s].code # req[u].after.code
                  /\ \A q \in Procs : q # u /\ req'[q].pc = "create_commit"
                                          => req'[q].route # req[u].route
            BY <1>0, <2>3, <2>4, <3>1 DEF ReqOK, InsertOK
        <3>3. \A s \in RouteIds : Exists(s) => routes'[s] # NoRoute
            BY <2>3 DEF Exists
        <3> QED
            BY <2>1, <2>4, <2>5, <2>6, <3>2, <3>3 DEF LeavesAlone
    <2> QED
        BY <1>0, <2>4, <2>6, LeftAlone
<1>7. ASSUME NEW p \in Procs, UpdateCommit(p) \/ BaselineCommit(p)
      PROVE  \A u \in Procs : ReqOK(u)'
    <2> DEFINE r == req[p].route
    <2>1. Release(p) /\ req' = [req EXCEPT ![p] = Idle] /\ UNCHANGED <<nextId, traces>>
        BY <1>7 DEF UpdateCommit, BaselineCommit
    <2>2. /\ r \in RouteIds /\ Exists(r) /\ routes'[r] \in Route
          /\ routes'[r].code = routes[r].code
          /\ \A s \in RouteIds : s # r => routes'[s] = routes[s]
        BY <1>7, Edits
    <2>3. routes'[r] # NoRoute
        BY <2>2, Rows
    <2>4. /\ ReqOK(p)' /\ req'[p].pc = "idle"
          /\ \A u \in Procs : u # p =>
                 /\ req'[u] = req[u]
                 /\ \A c \in Codes : codeLock'[c] = u <=> codeLock[c] = u
                 /\ \A s \in RouteIds : rowLock'[s] = u <=> rowLock[s] = u
        BY <1>0, <2>1, Ending
    <2>5. nextId <= nextId'
        BY <1>0, <2>1 DEF TypeOK
    <2> HIDE DEF r
    <2>6. ASSUME NEW u \in Procs, u # p PROVE LeavesAlone(u)
        <3>1. \A s \in RouteIds : /\ Exists(s) => routes'[s] # NoRoute
                                  /\ ~ Exists(s) => routes'[s] = NoRoute
                                  /\ routes'[s].code = routes[s].code
            BY <2>2, <2>3 DEF Exists
        <3>2. req[u].pc = "create_commit" =>
                  /\ routes'[req[u].route] = NoRoute
                  /\ \A s \in RouteIds : routes'[s].code # req[u].after.code
                  /\ \A q \in Procs : q # u /\ req'[q].pc = "create_commit"
                                          => req'[q].route # req[u].route
            BY <1>0, <2>4, <3>1 DEF ReqOK, InsertOK, Taken
        <3> QED
            BY <2>1, <2>4, <2>5, <2>6, <3>1, <3>2 DEF LeavesAlone
    <2> QED
        BY <1>0, <2>4, <2>6, LeftAlone
<1>8. ASSUME NEW p \in Procs, UpdateWrite(p) \/ BaselineWrite(p)
      PROVE  \A u \in Procs : ReqOK(u)'
    <2> DEFINE r == req[p].route
    <2>1. PICK to \in {"update_commit", "baseline_commit"} :
              /\ req[p].pc = IF to = "update_commit" THEN "update_write" ELSE "baseline_write"
              /\ rowLock[r] = None /\ rowLock' = [rowLock EXCEPT ![r] = p]
              /\ req' = [req EXCEPT ![p].pc = to]
              /\ UNCHANGED <<tables, codeLock>>
        BY <1>8 DEF UpdateWrite, BaselineWrite, Write
    <2> DEFINE x == [req[p] EXCEPT !.pc = to]
    <2>2. req[p] \in Request
        BY <1>0 DEF TypeOK
    <2>3. x.pc = to /\ x.route = r /\ x.after = req[p].after
        BY <2>2 DEF Request
    <2>4. req'[p] = x /\ \A u \in Procs : u # p => req'[u] = req[u]
        BY <1>0, <2>1 DEF TypeOK
    <2>5. r \in RouteIds /\ Exists(r) /\ req[p].after \in Route
        BY <1>0, <2>1 DEF ReqOK, LocalsOK, Editing
    <2>6. \A s \in RouteIds : rowLock'[s] = IF s = r THEN p ELSE rowLock[s]
        BY <1>0, <2>1 DEF TypeOK
    <2> HIDE DEF x
    <2>7. Quiet(p)
        BY <1>a, <2>1, <2>3, <2>4, <2>6 DEF Quiet
    <2>8. LocalsOK(p)'
        <3>1. to = "baseline_commit" => /\ req[p].after.baseline \in DOMAIN traces
                                        /\ traces[req[p].after.baseline] = r
            BY <1>0, <2>1 DEF ReqOK, LocalsOK, Checked
        <3> QED
            BY <2>1, <2>3, <2>4, <2>5, <3>1 DEF LocalsOK, Editing, Checked, Exists, tables
    <2>9. LocksOK(p)'
        BY <1>0, <2>1, <2>3, <2>4, <2>6 DEF ReqOK, LocksOK, Holding
    <2>10. InsertOK(p)'
        BY <2>1, <2>3, <2>4 DEF InsertOK
    <2> QED
        BY <1>0, <2>7, <2>8, <2>9, <2>10, QuietSteps DEF ReqOK
<1>9. ASSUME NEW p \in Procs, BaselineCheck(p) PROVE \A u \in Procs : ReqOK(u)'
    <2> DEFINE t == req[p].after.baseline
    <2>1. req[p].pc = "baseline_check" /\ UNCHANGED <<tables, locks>>
        BY <1>9 DEF BaselineCheck
    <2>2. CASE req' = [req EXCEPT ![p] = Idle]
        <3>1. Idle \in Request /\ Idle.pc = "idle"
            BY Requests DEF Idle
        <3>2. Quiet(p) /\ req'[p] = Idle
            BY <1>b, <2>1, <2>2, <3>1
        <3>3. ReqOK(p)'
            BY <1>0, <2>1, <2>2, <3>1, <3>2
            DEF ReqOK, LocalsOK, LocksOK, InsertOK, Editing, Holding, Checked, locks
        <3> QED
            BY <1>0, <3>2, <3>3, QuietSteps
    <2>3. CASE /\ t \in DOMAIN traces /\ traces[t] = req[p].route
               /\ req' = [req EXCEPT ![p] = [@ EXCEPT !.pc = "baseline_write"]]
        <3> DEFINE x == [req[p] EXCEPT !.pc = "baseline_write"]
        <3>1. req[p] \in Request
            BY <1>0 DEF TypeOK
        <3>2. /\ x \in Request /\ x.pc = "baseline_write"
              /\ x.route = req[p].route /\ x.after = req[p].after
            <4>1. x \in Request
                BY <3>1, Requests
            <4>2. x.pc = "baseline_write" /\ x.route = req[p].route /\ x.after = req[p].after
                BY <3>1 DEF Request
            <4> QED
                BY <4>1, <4>2
        <3>3. req' = [req EXCEPT ![p] = x]
            BY <2>3
        <3> HIDE DEF x
        <3>4. Quiet(p) /\ req'[p] = x
            BY <1>b, <2>1, <3>2, <3>3
        <3>5. LocalsOK(p)'
            BY <1>0, <2>1, <2>3, <3>2, <3>4 DEF ReqOK, LocalsOK, Editing, Checked, Exists, tables
        <3>6. LocksOK(p)' /\ InsertOK(p)'
            BY <1>0, <2>1, <3>2, <3>4 DEF ReqOK, LocksOK, InsertOK, Holding, locks
        <3> QED
            BY <1>0, <3>4, <3>5, <3>6, QuietSteps DEF ReqOK
    <2> QED
        BY <1>9, <2>2, <2>3 DEF BaselineCheck
<1>10. ASSUME NEW r \in RouteIds, Import(r) PROVE \A u \in Procs : ReqOK(u)'
    <2>1. /\ UNCHANGED <<routes, nextId, locks, req>> /\ traces' = Append(traces, r)
          /\ traces \in Seq(RouteIds)
        BY <1>0, <1>10 DEF Import, TypeOK
    <2>2. \A t \in DOMAIN traces : t \in DOMAIN traces' /\ traces'[t] = traces[t]
        BY <2>1, AppendProperties
    <2>3. nextId <= nextId'
        BY <1>0, <2>1 DEF TypeOK
    <2>4. ASSUME NEW u \in Procs PROVE LeavesAlone(u)
        BY <1>0, <2>1, <2>2, <2>3 DEF LeavesAlone, ReqOK, InsertOK, Exists, Taken, locks
    <2> QED
        BY <1>0, <2>4, LeftAlone
<1>11. ASSUME NEW p \in Procs, Abort(p) PROVE \A u \in Procs : ReqOK(u)'
    <2>1. Release(p) /\ req' = [req EXCEPT ![p] = Idle] /\ UNCHANGED tables
        BY <1>11 DEF Abort
    <2>2. Quiet(p) /\ ReqOK(p)'
        BY <1>0, <2>1, Ending DEF Quiet
    <2> QED
        BY <1>0, <2>2, QuietSteps
<1>12. CASE UNCHANGED vars
    <2>1. nextId <= nextId'
        BY <1>0, <1>12 DEF TypeOK, vars
    <2>2. ASSUME NEW u \in Procs PROVE LeavesAlone(u)
        BY <1>0, <1>12, <2>1 DEF LeavesAlone, ReqOK, InsertOK, Exists, Taken, vars
    <2> QED
        BY <1>0, <2>2, LeftAlone
<1> QED
    BY <1>1, <1>3, <1>4, <1>5, <1>6, <1>7, <1>8, <1>9, <1>10, <1>11, <1>12
    DEF Next, Arrives, Continues

LEMMA RowsKept ==
    ASSUME IInv, TypeOK', [Next]_vars
    PROVE  RowsOK'
<1>0. TypeOK /\ RowsOK /\ \A u \in Procs : ReqOK(u)
    BY DEF IInv
<1>b. ASSUME NEW s \in RouteIds, routes'[s] = routes[s], trail'[s] = trail[s], Logged(s)
      PROVE  Logged(s)'
    BY <1>b DEF Logged
<1>1. ASSUME NEW p \in Procs, CreateCommit(p) PROVE RowsOK'
    <2>0. req[p].route \in RouteIds
        BY <1>0, <1>1 DEF CreateCommit, ReqOK, InsertOK
    <2>a. PICK r \in RouteIds : r = req[p].route
        BY <2>0
    <2> DEFINE after == req[p].after
               entry == [action |-> "route.created", before |-> req[p].before, after |-> req[p].after]
    <2>1. /\ req[p].pc = "create_commit" /\ Log(p, "route.created")
          /\ routes' = [routes EXCEPT ![r] = after] /\ UNCHANGED <<nextId, traces>>
        BY <1>1, <2>a DEF CreateCommit
    <2>2. /\ ~ Exists(r) /\ after \in Route /\ after.baseline = None
          /\ r < nextId /\ \A s \in RouteIds : routes[s].code # after.code
        BY <1>0, <2>1, <2>a DEF ReqOK, LocalsOK, InsertOK, Taken
    <2>3. /\ entry \in Entry /\ trail'[r] = Append(trail[r], entry)
          /\ \A s \in RouteIds : s # r => trail'[s] = trail[s]
        BY <2>0, <2>1, <2>2, <2>a, LogKept
    <2>4. entry.action = "route.created" /\ entry.after = after
        OBVIOUS
    <2>5. routes'[r] = after /\ \A s \in RouteIds : s # r => routes'[s] = routes[s]
        BY <1>0, <2>1, <2>2 DEF TypeOK
    <2>6. after # NoRoute /\ after.code # None /\ routes[r] = NoRoute
        BY <2>2, Rows, ArchiveAssumption DEF Exists
    <2> HIDE DEF after, entry
    <2>7. /\ trail'[r] = <<entry>> /\ DOMAIN trail'[r] = {1} /\ trail'[r][1] = entry
          /\ LastIndex(trail'[r], {"route.created", "route.updated"}) = 1
          /\ LastIndex(trail'[r], {"route.baseline_changed"}) = 0
        <3>1. trail[r] = <<>> /\ <<>> \in Seq(Entry)
            BY <1>0, <2>2 DEF RowsOK
        <3>2. Append(<<>>, entry) = <<entry>>
            BY <2>3
        <3>3. LastIndex(Append(<<>>, entry), {"route.created", "route.updated"}) = Len(<<>>) + 1
            BY <2>3, <2>4, <3>1, LastIndexHit
        <3>4. LastIndex(Append(<<>>, entry), {"route.baseline_changed"}) = LastIndex(<<>>, {"route.baseline_changed"})
            BY <2>3, <2>4, <3>1, LastIndexMiss
        <3>5. LastIndex(<<>>, {"route.baseline_changed"}) = 0
            BY DEF LastIndex
        <3>6. trail'[r] = <<entry>>
            BY <2>3, <3>1, <3>2
        <3>7. DOMAIN <<entry>> = {1} /\ <<entry>>[1] = entry /\ Len(<<>>) + 1 = 1
            OBVIOUS
        <3> QED
            BY <3>1, <3>2, <3>3, <3>4, <3>5, <3>6, <3>7
    <2>8. Logged(r)'
        BY <2>2, <2>4, <2>5, <2>7 DEF Logged
    <2>9. \A s \in RouteIds : s >= nextId' => ~ Exists(s)'
        <3>1. r < nextId /\ r \in Nat /\ nextId \in Nat
            BY <1>0, <2>2, ArchiveAssumption DEF TypeOK, RouteIds
        <3>2. ~ (r >= nextId)
            BY <3>1
        <3> QED
            BY <1>0, <2>1, <2>5, <3>2 DEF RowsOK, Exists
    <2>10. \A s \in RouteIds : IF Exists(s)' THEN Logged(s)' ELSE trail'[s] = <<>>
        BY <1>b, <1>0, <2>3, <2>5, <2>6, <2>8 DEF RowsOK, Exists
    <2>11. CodesUnique'
        BY <1>0, <2>2, <2>5, <2>6 DEF RowsOK, CodesUnique, Exists
    <2>12. BaselineBelongs'
        BY <1>0, <2>1, <2>2, <2>5 DEF RowsOK, BaselineBelongs
    <2> QED
        BY <2>9, <2>10, <2>11, <2>12 DEF RowsOK
<1>2. ASSUME NEW p \in Procs, UpdateCommit(p) \/ BaselineCommit(p) PROVE RowsOK'
    <2>0. req[p].route \in RouteIds
        BY <1>2, Edits
    <2>a. PICK r \in RouteIds : r = req[p].route
        BY <2>0
    <2>b. PICK action \in {"route.updated", "route.baseline_changed"} :
              /\ action = IF UpdateCommit(p) THEN "route.updated" ELSE "route.baseline_changed"
              /\ Log(p, action)
        BY <1>2 DEF UpdateCommit, BaselineCommit
    <2> DEFINE after == req[p].after
               entry == [action |-> action, before |-> req[p].before, after |-> req[p].after]
               edits == {"route.created", "route.updated"}
               changes == {"route.baseline_changed"}
    <2>1. /\ Exists(r) /\ routes[r] \in Route /\ after \in Route
          /\ routes'[r] \in Route /\ routes'[r].code = routes[r].code
          /\ action = "route.updated" => /\ routes'[r].fields = after.fields
                                         /\ routes'[r].baseline = routes[r].baseline
          /\ action = "route.baseline_changed" =>
                 /\ routes'[r].fields = routes[r].fields /\ routes'[r].baseline = after.baseline
                 /\ after.baseline \in DOMAIN traces /\ traces[after.baseline] = r
          /\ \A s \in RouteIds : s # r => routes'[s] = routes[s]
          /\ UNCHANGED <<nextId, traces>>
        BY <1>2, <2>a, <2>b, Edits
    <2>2. /\ entry \in Entry /\ trail'[r] = Append(trail[r], entry)
          /\ \A s \in RouteIds : s # r => trail'[s] = trail[s]
        BY <2>0, <2>1, <2>a, <2>b, LogKept
    <2>3. entry.action = action /\ entry.after = after
        OBVIOUS
    <2>4. routes'[r] # NoRoute
        BY <2>1, Rows
    <2> HIDE DEF after, entry, edits, changes
    <2>5. Logged(r) /\ trail[r] \in Seq(Entry)
        BY <1>0, <2>1 DEF RowsOK, TypeOK
    <2> DEFINE n == Len(trail[r])
               edited == LastIndex(trail[r], edits)
               changed == LastIndex(trail[r], changes)
    <2>6. /\ n \in Nat /\ DOMAIN trail[r] = 1 .. n /\ DOMAIN trail'[r] = 1 .. n + 1
          /\ trail'[r][n + 1] = entry /\ \A i \in 1 .. n : trail'[r][i] = trail[r][i]
        BY <2>2, <2>5, AppendProperties
    <2>7. /\ edited \in 1 .. n /\ routes[r].fields = trail[r][edited].after.fields
          /\ IF changed = 0 THEN routes[r].baseline = None
             ELSE changed \in 1 .. n /\ routes[r].baseline = trail[r][changed].after.baseline
        BY <2>5, <2>6 DEF Logged, edits, changes
    <2>8. ASSUME action = "route.updated" PROVE Logged(r)'
        <3>1. action \in edits /\ action \notin changes
            BY <2>8 DEF edits, changes
        <3>2. LastIndex(trail'[r], edits) = n + 1 /\ LastIndex(trail'[r], changes) = changed
            BY <2>2, <2>3, <2>5, <3>1, LastIndexHit, LastIndexMiss
        <3> HIDE DEF n, edited, changed
        <3>3. n + 1 \in 1 .. n + 1 /\ \A i \in 1 .. n : i \in 1 .. n + 1
            BY <2>6
        <3> QED
            BY <2>1, <2>3, <2>6, <2>7, <2>8, <3>2, <3>3 DEF Logged, edits, changes
    <2>9. ASSUME action = "route.baseline_changed" PROVE Logged(r)'
        <3>1. action \notin edits /\ action \in changes
            BY <2>9 DEF edits, changes
        <3>2. LastIndex(trail'[r], edits) = edited /\ LastIndex(trail'[r], changes) = n + 1
            BY <2>2, <2>3, <2>5, <3>1, LastIndexHit, LastIndexMiss
        <3> HIDE DEF n, edited, changed
        <3>3. n + 1 \in 1 .. n + 1 /\ n + 1 # 0 /\ \A i \in 1 .. n : i \in 1 .. n + 1
            BY <2>6
        <3> QED
            BY <2>1, <2>3, <2>6, <2>7, <2>9, <3>2, <3>3 DEF Logged, edits, changes
    <2>10. Logged(r)'
        BY <2>8, <2>9
    <2>11. \A s \in RouteIds : s >= nextId' => ~ Exists(s)'
        BY <1>0, <2>1 DEF RowsOK, Exists
    <2>12. \A s \in RouteIds : IF Exists(s)' THEN Logged(s)' ELSE trail'[s] = <<>>
        BY <1>b, <1>0, <2>1, <2>2, <2>4, <2>10 DEF RowsOK, Exists
    <2>13. CodesUnique'
        BY <1>0, <2>1 DEF RowsOK, CodesUnique, Exists
    <2>14. BaselineBelongs'
        BY <1>0, <2>1 DEF RowsOK, BaselineBelongs
    <2> QED
        BY <2>11, <2>12, <2>13, <2>14 DEF RowsOK
<1>3. ASSUME NEW r \in RouteIds, Import(r) PROVE RowsOK'
    <2>1. /\ UNCHANGED <<routes, nextId, trail>> /\ traces' = Append(traces, r)
          /\ traces \in Seq(RouteIds)
        BY <1>0, <1>3 DEF Import, TypeOK
    <2>2. \A t \in DOMAIN traces : t \in DOMAIN traces' /\ traces'[t] = traces[t]
        BY <2>1, AppendProperties
    <2>3. BaselineBelongs'
        BY <1>0, <2>1, <2>2 DEF RowsOK, BaselineBelongs
    <2> QED
        BY <1>0, <2>1, <2>3 DEF RowsOK, Logged, CodesUnique, Exists
<1>4. ASSUME UNCHANGED <<routes, traces, trail>>, nextId <= nextId'
      PROVE  RowsOK'
    <2>1. \A s \in RouteIds : s >= nextId' => s >= nextId
        <3>1. \A i, j, k \in Nat : k >= j /\ i <= j => k >= i
            OBVIOUS
        <3>2. nextId \in Nat /\ nextId' \in Nat /\ RouteIds \subseteq Nat
            BY <1>0, ArchiveAssumption DEF TypeOK, RouteIds
        <3> QED
            BY <1>4, <3>1, <3>2
    <2> QED
        BY <1>0, <1>4, <2>1 DEF RowsOK, Logged, CodesUnique, BaselineBelongs, Exists
<1>5. ASSUME NEW p \in Procs, CreateInsert(p) PROVE RowsOK'
    <2>1. UNCHANGED <<routes, traces, trail>> /\ nextId <= nextId'
        BY <1>0, <1>5 DEF CreateInsert, TypeOK
    <2> QED
        BY <1>4, <2>1
<1>6. CASE UNCHANGED tables
    <2>1. UNCHANGED <<routes, traces, trail>> /\ nextId <= nextId'
        BY <1>0, <1>6 DEF tables, TypeOK
    <2> QED
        BY <1>4, <2>1
<1> QED
    BY <1>1, <1>2, <1>3, <1>5, <1>6
    DEF Next, Arrives, Continues, CreateCheck, UpdateRead, BaselineRead, UpdateWrite, BaselineWrite,
        Write, BaselineCheck, Abort, vars, tables

\* The invariant of every reachable state.
THEOREM Invariance == Spec => []IInv
<1>1. ASSUME IInv, [Next]_vars PROVE IInv'
    BY <1>1, TypesKept, RequestsKept, RowsKept DEF IInv
<1> QED
    BY InitIInv, <1>1, PTL DEF Spec
----------------------------------------------------------------------------
(* What follows for the archive.                                           *)

\* Every row, audit entry, lock and local variable of a handler has its shape.
THEOREM TypesCorrect == Spec => []TypeOK
<1>1. IInv => TypeOK
    BY DEF IInv
<1> QED
    BY Invariance, <1>1, PTL

\* No two routes have one code, however many creations pass the handler's own check at
\* once: the insert holds its entry of the index, and looks again once it has it.
THEOREM CodesAreUnique == Spec => []CodesUnique
<1>1. IInv => CodesUnique
    BY DEF IInv, RowsOK
<1> QED
    BY Invariance, <1>1, PTL

\* A route shows the fields of the last update its audit trail holds and the baseline of the
\* last change: the two write different columns, each with its entry while it holds the row.
THEOREM TrailDescribesRow == Spec => []RowAsLogged
<1>1. IInv => RowAsLogged
    <2>1. SUFFICES ASSUME IInv, NEW r \in RouteIds, Exists(r)
          PROVE  LET edited  == LastIndex(trail[r], {"route.created", "route.updated"})
                     changed == LastIndex(trail[r], {"route.baseline_changed"}) IN
                 /\ edited # 0 /\ routes[r].fields = trail[r][edited].after.fields
                 /\ routes[r].baseline = IF changed = 0 THEN None
                                         ELSE trail[r][changed].after.baseline
        BY DEF RowAsLogged
    <2>2. Logged(r) /\ trail[r] \in Seq(Entry)
        BY <2>1 DEF IInv, RowsOK, TypeOK
    <2>3. 0 \notin DOMAIN trail[r]
        BY <2>2
    <2> QED
        BY <2>2, <2>3 DEF Logged
<1> QED
    BY Invariance, <1>1, PTL

\* The baseline of a route is always a trace of that route: what the handler has found before
\* its transaction is still so after it, since no trace ever leaves its route.
THEOREM BaselinesBelong == Spec => []BaselineBelongs
<1>1. IInv => BaselineBelongs
    BY DEF IInv, RowsOK
<1> QED
    BY Invariance, <1>1, PTL
=============================================================================
