---------------------------- MODULE RouteArchive ----------------------------
(***************************************************************************)
(* The archive of fiber routes: RouteService of service/route_service.go   *)
(* over repository/fiber_route_repository.go, and the import of traces in  *)
(* service/trace_service.go as far as it makes a trace belong to a route.  *)
(*                                                                         *)
(* Handlers read before their transaction and write in it.  An UPDATE      *)
(* holds its row until the commit; an INSERT holds its entry of the unique *)
(* index on route_code, so that a second one with the same code waits for  *)
(* the first.  Routes and traces are never deleted.                        *)
(***************************************************************************)
EXTENDS Naturals, Sequences

CONSTANTS Procs,        \* in-flight requests
          Codes,        \* route_code
          Fields,       \* name, length_m, refractive_index, ...
          Values,       \* of every field
          None,         \* no lock holder, no baseline
          MaxRoutes,    \* bound: route ids handed out
          MaxTraces,    \* bound: traces imported
          MaxTrail      \* bound: no request on a route with as many audit entries

RouteIds == 1 .. MaxRoutes
TraceIds == 1 .. MaxTraces

ASSUME ArchiveAssumption ==
    /\ MaxRoutes \in Nat /\ MaxTraces \in Nat /\ MaxTrail \in Nat
    /\ None \notin Procs /\ None \notin TraceIds /\ None \notin Codes

VARIABLES routes,       \* the fiber_routes table
          nextId,       \* the id the next inserted route gets
          traces,       \* the route each trace was imported for
          trail,        \* the audit entries of each route
          codeLock,     \* the transaction that has inserted each code
          rowLock,      \* the transaction that has updated each route
          req           \* what each in-flight handler holds

vars == <<routes, nextId, traces, trail, codeLock, rowLock, req>>
tables == <<routes, nextId, traces, trail>>
locks == <<codeLock, rowLock>>
----------------------------------------------------------------------------
\* model.FiberRoute: the columns PATCH may name, and the baseline.
Route == [code : Codes, fields : [Fields -> Values], baseline : TraceIds \cup {None}]

NoRoute == [code |-> None, fields |-> <<>>, baseline |-> None]

Exists(r) == routes[r] # NoRoute
Taken(code) == \E r \in RouteIds : routes[r].code = code

Entry == [ action : {"route.created", "route.updated", "route.baseline_changed"},
           before : Route \cup {NoRoute}, after : Route ]

\* The fields a PATCH names.
Patches == UNION {[named -> Values] : named \in SUBSET Fields}

Patched(fields, patch) ==
    [f \in Fields |-> IF f \in DOMAIN patch THEN patch[f] ELSE fields[f]]

Request == [ pc : {"idle", "create_insert", "create_commit", "update_write", "update_commit",
                   "baseline_check", "baseline_write", "baseline_commit"},
             route : RouteIds \cup {0},
             before : Route \cup {NoRoute}, after : Route \cup {NoRoute} ]

Idle == [pc |-> "idle", route |-> 0, before |-> NoRoute, after |-> NoRoute]

Init ==
    /\ routes = [r \in RouteIds |-> NoRoute]
    /\ nextId = 1
    /\ traces = <<>>
    /\ trail = [r \in RouteIds |-> <<>>]
    /\ codeLock = [c \in Codes |-> None]
    /\ rowLock = [r \in RouteIds |-> None]
    /\ req = [p \in Procs |-> Idle]

\* The end of p's transaction, committed or not.
Release(p) ==
    /\ codeLock' = [c \in Codes |-> IF codeLock[c] = p THEN None ELSE codeLock[c]]
    /\ rowLock' = [r \in RouteIds |-> IF rowLock[r] = p THEN None ELSE rowLock[r]]

\* The audit entry that is committed with the row.  That of a baseline change
\* holds the baseline alone, of which its properties speak.
Log(p, action) ==
    trail' = [trail EXCEPT ![req[p].route] =
        Append(@, [action |-> action, before |-> req[p].before, after |-> req[p].after])]
----------------------------------------------------------------------------
(* POST /routes                                                            *)

\* GetByCode; a code in use is a conflict and the request is over.
CreateCheck(p, code, fields) ==
    /\ req[p] = Idle /\ nextId <= MaxRoutes
    /\ ~ Taken(code)
    /\ req' = [req EXCEPT ![p] = [Idle EXCEPT !.pc = "create_insert",
           !.after = [code |-> code, fields |-> fields, baseline |-> None]]]
    /\ UNCHANGED <<tables, locks>>

\* Mutant: there is no unique index.
CreateInsertUnindexed(p) ==
    /\ req[p].pc = "create_insert"
    /\ nextId <= MaxRoutes
    /\ nextId' = nextId + 1
    /\ req' = [req EXCEPT ![p] = [@ EXCEPT !.pc = "create_commit", !.route = nextId]]
    /\ UNCHANGED <<routes, traces, trail, locks>>

\* The INSERT waits for another one of this code, and fails if that or an
\* earlier one was committed after the check.
CreateInsert(p) ==
    LET code == req[p].after.code IN
    /\ req[p].pc = "create_insert"
    /\ codeLock[code] = None
    /\ \/ /\ Taken(code)
          /\ req' = [req EXCEPT ![p] = Idle]
          /\ UNCHANGED <<nextId, codeLock>>
       \/ /\ ~ Taken(code) /\ nextId <= MaxRoutes
          /\ codeLock' = [codeLock EXCEPT ![code] = p]
          /\ nextId' = nextId + 1
          /\ req' = [req EXCEPT ![p] = [@ EXCEPT !.pc = "create_commit", !.route = nextId]]
    /\ UNCHANGED <<routes, traces, trail, rowLock>>

CreateCommit(p) ==
    /\ req[p].pc = "create_commit"
    /\ routes' = [routes EXCEPT ![req[p].route] = req[p].after]
    /\ Log(p, "route.created")
    /\ Release(p)
    /\ req' = [req EXCEPT ![p] = Idle]
    /\ UNCHANGED <<nextId, traces>>
----------------------------------------------------------------------------
(* PATCH /routes/:id                                                       *)

\* Mutant: what the request does not name is written empty.
UpdateReadBlank(p, r, patch) ==
    /\ req[p] = Idle
    /\ Exists(r) /\ Len(trail[r]) < MaxTrail
    /\ req' = [req EXCEPT ![p] = [Idle EXCEPT !.pc = "update_write", !.route = r,
           !.before = routes[r], !.after = [routes[r] EXCEPT !.fields = patch]]]
    /\ UNCHANGED <<tables, locks>>

\* The route is read, and what the request names is put over it.
UpdateRead(p, r, patch) ==
    /\ req[p] = Idle
    /\ Exists(r) /\ Len(trail[r]) < MaxTrail
    /\ req' = [req EXCEPT ![p] = [Idle EXCEPT !.pc = "update_write", !.route = r,
           !.before = routes[r], !.after = [routes[r] EXCEPT !.fields = Patched(@, patch)]]]
    /\ UNCHANGED <<tables, locks>>

\* Both updates wait for the row; the row of an existing route is always found.
Write(p, from, to) ==
    /\ req[p].pc = from
    /\ rowLock[req[p].route] = None
    /\ rowLock' = [rowLock EXCEPT ![req[p].route] = p]
    /\ req' = [req EXCEPT ![p].pc = to]
    /\ UNCHANGED <<tables, codeLock>>

UpdateWrite(p) == Write(p, "update_write", "update_commit")

\* Mutant: the whole row is saved, not the five columns.
UpdateSaves(p) ==
    /\ req[p].pc = "update_commit"
    /\ routes' = [routes EXCEPT ![req[p].route] = req[p].after]
    /\ Log(p, "route.updated")
    /\ Release(p)
    /\ req' = [req EXCEPT ![p] = Idle]
    /\ UNCHANGED <<nextId, traces>>

\* Every column a PATCH may name is written, named or not; never the baseline.
UpdateCommit(p) ==
    /\ req[p].pc = "update_commit"
    /\ routes' = [routes EXCEPT ![req[p].route].fields = req[p].after.fields]
    /\ Log(p, "route.updated")
    /\ Release(p)
    /\ req' = [req EXCEPT ![p] = Idle]
    /\ UNCHANGED <<nextId, traces>>
----------------------------------------------------------------------------
(* POST /routes/:id/baseline                                               *)

BaselineRead(p, r, t) ==
    /\ req[p] = Idle
    /\ Exists(r) /\ Len(trail[r]) < MaxTrail
    /\ req' = [req EXCEPT ![p] = [Idle EXCEPT !.pc = "baseline_check", !.route = r,
           !.before = routes[r], !.after = [routes[r] EXCEPT !.baseline = t]]]
    /\ UNCHANGED <<tables, locks>>

\* Mutant: any trace will do.
BaselineCheckAny(p) ==
    /\ req[p].pc = "baseline_check"
    /\ req' = [req EXCEPT ![p] = IF req[p].after.baseline \in DOMAIN traces
                                 THEN [@ EXCEPT !.pc = "baseline_write"] ELSE Idle]
    /\ UNCHANGED <<tables, locks>>

\* BelongsToRoute.
BaselineCheck(p) ==
    LET t == req[p].after.baseline IN
    /\ req[p].pc = "baseline_check"
    /\ req' = [req EXCEPT ![p] = IF t \in DOMAIN traces /\ traces[t] = req[p].route
                                 THEN [@ EXCEPT !.pc = "baseline_write"] ELSE Idle]
    /\ UNCHANGED <<tables, locks>>

BaselineWrite(p) == Write(p, "baseline_write", "baseline_commit")

BaselineCommit(p) ==
    /\ req[p].pc = "baseline_commit"
    /\ routes' = [routes EXCEPT ![req[p].route].baseline = req[p].after.baseline]
    /\ Log(p, "route.baseline_changed")
    /\ Release(p)
    /\ req' = [req EXCEPT ![p] = Idle]
    /\ UNCHANGED <<nextId, traces>>
----------------------------------------------------------------------------
\* POST /traces/import: a trace is recorded for a route that exists.
Import(r) ==
    /\ Len(traces) < MaxTraces
    /\ Exists(r)
    /\ traces' = Append(traces, r)
    /\ UNCHANGED <<routes, nextId, trail, locks, req>>

\* A handler stops before its commit and its transaction is rolled back.
Abort(p) ==
    /\ req[p] # Idle
    /\ Release(p)
    /\ req' = [req EXCEPT ![p] = Idle]
    /\ UNCHANGED tables

Continues(p) ==
    \/ CreateInsert(p) \/ CreateCommit(p)
    \/ UpdateWrite(p) \/ UpdateCommit(p)
    \/ BaselineCheck(p) \/ BaselineWrite(p) \/ BaselineCommit(p)

\* A request arrives; its body has passed validation.
Arrives(p) ==
    \/ \E code \in Codes, fields \in [Fields -> Values] : CreateCheck(p, code, fields)
    \/ \E r \in RouteIds, patch \in Patches : UpdateRead(p, r, patch)
    \/ \E r \in RouteIds, t \in TraceIds : BaselineRead(p, r, t)

Next ==
    \/ \E p \in Procs : Arrives(p) \/ Continues(p) \/ Abort(p)
    \/ \E r \in RouteIds : Import(r)

Spec == Init /\ [][Next]_vars
----------------------------------------------------------------------------
(* Properties.                                                             *)

\* Rows, entries and requests have their shapes.
TypeOK ==
    /\ routes \in [RouteIds -> Route \cup {NoRoute}]
    /\ nextId \in 1 .. MaxRoutes + 1
    /\ traces \in Seq(RouteIds)
    /\ trail \in [RouteIds -> Seq(Entry)]
    /\ codeLock \in [Codes -> Procs \cup {None}]
    /\ rowLock \in [RouteIds -> Procs \cup {None}]
    /\ req \in [Procs -> Request]

\* No two routes have one code, although the handler's own check comes before
\* its insert and two of them may pass it.
CodesUnique ==
    \A r, s \in RouteIds : r # s /\ Exists(r) => routes[r].code # routes[s].code

LastIndex(entries, actions) ==
    LET indices == {i \in DOMAIN entries : entries[i].action \in actions} IN
    IF indices = {} THEN 0 ELSE CHOOSE i \in indices : \A j \in indices : j <= i

\* Whatever the interleaving of updates and baseline changes, each of which
\* logs a whole route it has read earlier, the row holds the fields of the
\* last update logged and the baseline of the last change logged.
RowAsLogged ==
    \A r \in RouteIds : Exists(r) =>
        LET edited  == LastIndex(trail[r], {"route.created", "route.updated"})
            changed == LastIndex(trail[r], {"route.baseline_changed"}) IN
        /\ edited # 0 /\ routes[r].fields = trail[r][edited].after.fields
        /\ routes[r].baseline = IF changed = 0 THEN None ELSE trail[r][changed].after.baseline

\* The baseline of a route is a trace of that route.
BaselineBelongs ==
    \A r \in RouteIds : routes[r].baseline # None =>
        /\ routes[r].baseline \in DOMAIN traces
        /\ traces[routes[r].baseline] = r
============================================================================
