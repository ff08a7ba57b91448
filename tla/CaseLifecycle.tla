--------------------------- MODULE CaseLifecycle ---------------------------
(***************************************************************************)
(* The localization cases of service/case_service.go over the rows of      *)
(* repository/case_repository.go.                                          *)
(*                                                                         *)
(* A handler reads the row outside any transaction, decides, and then      *)
(* commits one transaction that updates the row under a WHERE clause and   *)
(* inserts an audit entry.  Every read and every transaction is one step   *)
(* here, so that the steps of concurrent requests interleave between them. *)
(* Postgres re-evaluates the WHERE clause of an UPDATE on the latest       *)
(* committed row, so the single-row update and the audit insert that go    *)
(* with it take effect at one point; a failed one leaves nothing behind.   *)
(*                                                                         *)
(* The ten-minute lease on updated_at is one bit per row: `lease' says     *)
(* whether the row has been written for analysisLeaseTimeout.  What the   *)
(* comparison of events finds is a free choice among its three outcomes.   *)
(***************************************************************************)
EXTENDS Naturals, Sequences

CONSTANTS Procs,        \* in-flight request slots, each used by one person
          RoleOf,       \* the role of that person
          CaseIds,      \* the ids the case table can hand out
          NoCase,       \* a request about no case
          Traces,       \* trace ids a creation request may name
          Routes,       \* route ids a creation request may name
          RouteOf,      \* the route each trace was captured on
          None,         \* SQL NULL
          MaxVersion,   \* bound: rows at this version take no new work
          MaxFaults     \* bound: crashes and failing transactions

Roles == {"analyst", "reviewer", "admin"}

ASSUME CaseAssumption ==
    /\ RoleOf \in [Procs -> Roles]
    /\ RouteOf \in [Traces -> Routes]
    /\ NoCase \notin CaseIds
    /\ None \notin Procs /\ None \notin Nat /\ None \notin {"analysis", "reviewer"}
    /\ MaxVersion \in Nat /\ MaxFaults \in Nat

VARIABLES cases,        \* the localization_cases table
          req,          \* what each in-flight handler holds
          audits,       \* the audit entries of each case, oldest first
          faults        \* crashes and failed transactions so far

vars == <<cases, req, audits, faults>>
----------------------------------------------------------------------------
(* Rows, requests and audit entries.                                       *)

Statuses == {"absent", "draft", "analyzing", "pending_review", "confirmed", "closed"}

\* model.LocalizationCase.  `result' stands for differences_json and
\* parameters_json, which are only ever written together: it is the version
\* at which the run that produced them started.
Row == [ status   : Statuses,
         version  : Nat,
         lease    : {"fresh", "expired"},
         error    : {"none", "failed", "expired"},
         result   : Nat \cup {None},
         estimate : {None, "analysis", "reviewer"},
         reviewer : Procs \cup {None},
         closedAt : {None, "set"} ]

NoRow == [ status |-> "absent", version |-> 0, lease |-> "fresh", error |-> "none",
           result |-> None, estimate |-> None, reviewer |-> None, closedAt |-> None ]

\* A handler between two of its database calls: the version of the row it
\* read (after item.Version++ the version its own analysis runs under) and
\* the version the client sent.
Request == [ pc : {"idle", "recover", "reload", "start", "running", "confirm", "close"},
             case : CaseIds \cup {NoCase},
             item : Nat,
             version : Nat ]

Idle == [pc |-> "idle", case |-> NoCase, item |-> 0, version |-> 0]

\* An audit entry.  `run' is the version the reporting worker's analysis
\* started at (not stored by the program, kept here to tell runs apart);
\* `before' is the version of the row in the entry's before-image.
Entry == [ action : {"created", "started", "recovered", "failed", "completed",
                     "confirmed", "closed"},
           actor : Procs, run : Nat, before : Nat ]

StatusAfter(action) ==
    CASE action \in {"created", "recovered", "failed"} -> "draft"
      [] action = "started" -> "analyzing"
      [] action = "completed" -> "pending_review"
      [] action = "confirmed" -> "confirmed"
      [] action = "closed" -> "closed"

\* The RBAC lists of the case routes.
MayAnalyze(p) == RoleOf[p] \in {"analyst", "admin"}

\* Mutant: analysts may confirm as well.
AnyoneMayReview(p) == RoleOf[p] \in Roles

MayReview(p) == RoleOf[p] \in {"reviewer", "admin"}

\* Mutant: the client sends a version it has not seen yet.
GuessedVersions(c) == 1 .. cases[c].version + 1

\* The client echoes the version of a row it was served earlier.
SeenVersions(c) == 1 .. cases[c].version

Init ==
    /\ cases = [c \in CaseIds |-> NoRow]
    /\ req = [p \in Procs |-> Idle]
    /\ audits = [c \in CaseIds |-> <<>>]
    /\ faults = 0
----------------------------------------------------------------------------
(* The repository's statements, each with the audit entry its transaction  *)
(* inserts.  GORM sets updated_at on every update, which renews the lease. *)

Log(c, p, action, run, before) ==
    audits' = [audits EXCEPT ![c] =
        Append(@, [action |-> action, actor |-> p, run |-> run, before |-> before])]

\* Mutants: an update that forgets version + 1; a status literal outside the
\* check constraint of the table.
MovedNoVersion(row, to) == [row EXCEPT !.status = to, !.lease = "fresh"]

MovedTypo(row, to) ==
    [row EXCEPT !.status = IF to = "pending_review" THEN "pending" ELSE to,
                !.version = @ + 1, !.lease = "fresh"]

Moved(row, to) == [row EXCEPT !.status = to, !.version = @ + 1, !.lease = "fresh"]

\* The columns each statement sets besides.
RecoveredRow(row) == [Moved(row, "draft") EXCEPT !.error = "expired"]
StartedRow(row) == [Moved(row, "analyzing") EXCEPT !.error = "none"]
FailedRow(row) == [Moved(row, "draft") EXCEPT !.error = "failed"]
CompletedRow(row, run, found) ==
    [Moved(row, "pending_review") EXCEPT
        !.error = "none", !.result = run,
        !.estimate = IF found THEN "analysis" ELSE @]
ConfirmedRow(row, p) ==
    [Moved(row, "confirmed") EXCEPT !.estimate = "reviewer", !.reviewer = p]
ClosedRow(row) == [Moved(row, "closed") EXCEPT !.closedAt = "set"]

\* Mutant: an update conditional on the version only.
CanCommitAnyStatus(c, version, from) == cases[c].version = version

\* WHERE id = ? AND version = ? AND case_status = ?
CanCommit(c, version, from) ==
    /\ cases[c].version = version
    /\ cases[c].status = from

Transition(c, row) == cases' = [cases EXCEPT ![c] = row]

\* Mutants: a save with no status predicate, or that may be repeated.
CanSaveAlways(p, c) == cases[c].status # "absent"
CanSaveAgain(p, c) == cases[c].status \in {"analyzing", "pending_review"}

\* WHERE id = ? AND case_status = 'analyzing': the row's version is not asked.
CanSave(p, c) == cases[c].status = "analyzing"

SaveAnalysis(c, row) == cases' = [cases EXCEPT ![c] = row]

\* WHERE id = ? AND case_status = 'analyzing' AND updated_at < cutoff
LeaseExpired(c) == cases[c].status = "analyzing" /\ cases[c].lease = "expired"

\* Mutant: the recovery does not count as a new version.
RecoverKeepsVersion(c) ==
    cases' = [cases EXCEPT ![c].status = "draft", ![c].lease = "fresh",
                           ![c].error = "expired"]

RecoverStaleAnalysis(c) ==
    cases' = [cases EXCEPT ![c] = RecoveredRow(cases[c])]

Returns(p) == req' = [req EXCEPT ![p] = Idle]
----------------------------------------------------------------------------
(* POST /cases                                                             *)

Create(p, c, route, baseline, current) ==
    /\ req[p] = Idle
    /\ MayAnalyze(p)
    /\ baseline # current
    /\ RouteOf[baseline] = route /\ RouteOf[current] = route
    /\ cases[c].status = "absent"
    /\ cases' = [cases EXCEPT ![c] = [NoRow EXCEPT !.status = "draft", !.version = 1]]
    /\ Log(c, p, "created", 0, 0)
    /\ UNCHANGED <<req, faults>>
----------------------------------------------------------------------------
(* POST /cases/:id/analyze                                                 *)

\* What the handler does next with the row it has just read.
AfterGet(p, c) ==
    IF cases[c].status = "draft"
    THEN [pc |-> "start", case |-> c, item |-> cases[c].version, version |-> 0]
    ELSE Idle

\* Mutant: an analyzing case is always refused.
AnalyzeGetNoRecovery(p, c) ==
    /\ req[p] = Idle
    /\ MayAnalyze(p)
    /\ cases[c].status # "absent"
    /\ cases[c].version < MaxVersion \/ cases[c].status = "analyzing"
    /\ req' = [req EXCEPT ![p] = AfterGet(p, c)]
    /\ UNCHANGED <<cases, audits, faults>>

AnalyzeGet(p, c) ==
    /\ req[p] = Idle
    /\ MayAnalyze(p)
    /\ cases[c].status # "absent"
    /\ cases[c].version < MaxVersion \/ cases[c].status = "analyzing"
    /\ req' = [req EXCEPT ![p] =
           IF cases[c].status = "analyzing"
           THEN [pc |-> "recover", case |-> c, item |-> cases[c].version, version |-> 0]
           ELSE AfterGet(p, c)]
    /\ UNCHANGED <<cases, audits, faults>>

\* The lease of the previous worker has run out: the row goes back to draft.
Recover(p) ==
    LET c == req[p].case IN
    /\ req[p].pc = "recover"
    /\ LeaseExpired(c)
    /\ RecoverStaleAnalysis(c)
    /\ Log(c, p, "recovered", 0, 0)
    /\ req' = [req EXCEPT ![p].pc = "reload"]
    /\ UNCHANGED faults

\* Mutant: the handler waits for the lease instead of refusing.
NotRecoveredWaits(p) ==
    /\ req[p].pc = "recover"
    /\ ~ LeaseExpired(req[p].case)
    /\ UNCHANGED vars

\* It has not, or the row has moved on: the request ends in a conflict.
NotRecovered(p) ==
    /\ req[p].pc = "recover"
    /\ ~ LeaseExpired(req[p].case)
    /\ Returns(p)
    /\ UNCHANGED <<cases, audits, faults>>

Reload(p) ==
    /\ req[p].pc = "reload"
    /\ req' = [req EXCEPT ![p] = AfterGet(p, req[p].case)]
    /\ UNCHANGED <<cases, audits, faults>>

\* Mutant: the error of the previous run is left in place.
StartKeepsError(p) ==
    LET c == req[p].case IN
    /\ req[p].pc = "start"
    /\ CanCommit(c, req[p].item, "draft")
    /\ Transition(c, Moved(cases[c], "analyzing"))
    /\ Log(c, p, "started", 0, 0)
    /\ req' = [req EXCEPT ![p] = [pc |-> "running", case |-> c,
                                   item |-> req[p].item + 1, version |-> 0]]
    /\ UNCHANGED faults

StartAnalysis(p) ==
    LET c == req[p].case IN
    /\ req[p].pc = "start"
    /\ CanCommit(c, req[p].item, "draft")
    /\ Transition(c, StartedRow(cases[c]))
    /\ Log(c, p, "started", 0, 0)
    /\ req' = [req EXCEPT ![p] = [pc |-> "running", case |-> c,
                                   item |-> req[p].item + 1, version |-> 0]]
    /\ UNCHANGED faults

StartConflict(p) ==
    /\ req[p].pc = "start"
    /\ ~ CanCommit(req[p].case, req[p].item, "draft")
    /\ Returns(p)
    /\ UNCHANGED <<cases, audits, faults>>

\* Mutants: the handler goes on after the error is saved; the error is
\* returned to the client and not saved.
AnalysisFailedGoesOn(p) ==
    LET c == req[p].case IN
    /\ req[p].pc = "running"
    /\ CanSave(p, c)
    /\ SaveAnalysis(c, FailedRow(cases[c]))
    /\ Log(c, p, "failed", req[p].item, 0)
    /\ UNCHANGED <<req, faults>>

AnalysisFailedUnsaved(p) ==
    /\ req[p].pc = "running"
    /\ Returns(p)
    /\ UNCHANGED <<cases, audits, faults>>

\* compareEvents failed: back to draft with the error.
AnalysisFailed(p) ==
    LET c == req[p].case IN
    /\ req[p].pc = "running"
    /\ CanSave(p, c)
    /\ SaveAnalysis(c, FailedRow(cases[c]))
    /\ Log(c, p, "failed", req[p].item, 0)
    /\ Returns(p)
    /\ UNCHANGED faults

\* It succeeded; the estimate is written only if a primary difference exists.
AnalysisCompleted(p, found) ==
    LET c == req[p].case IN
    /\ req[p].pc = "running"
    /\ CanSave(p, c)
    /\ SaveAnalysis(c, CompletedRow(cases[c], req[p].item, found))
    /\ Log(c, p, "completed", req[p].item, 0)
    /\ Returns(p)
    /\ UNCHANGED faults

\* Either outcome, when the row is no longer analyzing.
SaveConflict(p) ==
    /\ req[p].pc = "running"
    /\ ~ CanSave(p, req[p].case)
    /\ Returns(p)
    /\ UNCHANGED <<cases, audits, faults>>
----------------------------------------------------------------------------
(* POST /cases/:id/confirm and /cases/:id/close                            *)

ConfirmGet(p, c, version) ==
    /\ req[p] = Idle
    /\ MayReview(p)
    /\ cases[c].status \notin {"absent", "closed"}
    /\ req' = [req EXCEPT ![p] = [pc |-> "confirm", case |-> c,
                                  item |-> cases[c].version, version |-> version]]
    /\ UNCHANGED <<cases, audits, faults>>

Confirm(p) ==
    LET c == req[p].case IN
    /\ req[p].pc = "confirm"
    /\ CanCommit(c, req[p].version, "pending_review")
    /\ Transition(c, ConfirmedRow(cases[c], p))
    /\ Log(c, p, "confirmed", 0, req[p].item)
    /\ Returns(p)
    /\ UNCHANGED faults

ConfirmConflict(p) ==
    /\ req[p].pc = "confirm"
    /\ ~ CanCommit(req[p].case, req[p].version, "pending_review")
    /\ Returns(p)
    /\ UNCHANGED <<cases, audits, faults>>

CloseGet(p, c, version) ==
    /\ req[p] = Idle
    /\ MayReview(p)
    /\ cases[c].status # "absent"
    /\ req' = [req EXCEPT ![p] = [pc |-> "close", case |-> c,
                                  item |-> cases[c].version, version |-> version]]
    /\ UNCHANGED <<cases, audits, faults>>

Close(p) ==
    LET c == req[p].case IN
    /\ req[p].pc = "close"
    /\ CanCommit(c, req[p].version, "confirmed")
    /\ Transition(c, ClosedRow(cases[c]))
    /\ Log(c, p, "closed", 0, req[p].item)
    /\ Returns(p)
    /\ UNCHANGED faults

CloseConflict(p) ==
    /\ req[p].pc = "close"
    /\ ~ CanCommit(req[p].case, req[p].version, "confirmed")
    /\ Returns(p)
    /\ UNCHANGED <<cases, audits, faults>>
----------------------------------------------------------------------------
(* The environment.                                                        *)

\* A database call fails or the handler panics: its transaction is rolled
\* back and the request ends.
RequestFails(p) ==
    /\ req[p].pc # "idle"
    /\ faults < MaxFaults
    /\ faults' = faults + 1
    /\ Returns(p)
    /\ UNCHANGED <<cases, audits>>

\* The server process dies with every request in it.
Crash ==
    /\ faults < MaxFaults
    /\ \E p \in Procs : req[p].pc # "idle"
    /\ faults' = faults + 1
    /\ req' = [p \in Procs |-> Idle]
    /\ UNCHANGED <<cases, audits>>

Orphaned(c) == \A p \in Procs : ~ (req[p].pc = "running" /\ req[p].case = c)

\* Ten minutes pass with no write to an analyzing row.  Past MaxVersion only
\* a row that no worker is left for is allowed to wait that long.
LeaseExpires(c) ==
    /\ cases[c].status = "analyzing"
    /\ cases[c].lease = "fresh"
    /\ cases[c].version < MaxVersion \/ Orphaned(c)
    /\ cases' = [cases EXCEPT ![c].lease = "expired"]
    /\ UNCHANGED <<req, audits, faults>>
----------------------------------------------------------------------------
\* A step of a handler that has started.
Continues(p) ==
    \/ Recover(p) \/ NotRecovered(p) \/ Reload(p)
    \/ StartAnalysis(p) \/ StartConflict(p)
    \/ AnalysisFailed(p) \/ (\E found \in BOOLEAN : AnalysisCompleted(p, found))
    \/ SaveConflict(p)
    \/ Confirm(p) \/ ConfirmConflict(p) \/ Close(p) \/ CloseConflict(p)

\* A request arrives.
Arrives(p, c) ==
    \/ \E r \in Routes, b, t \in Traces : Create(p, c, r, b, t)
    \/ AnalyzeGet(p, c)
    \/ \E v \in SeenVersions(c) : ConfirmGet(p, c, v) \/ CloseGet(p, c, v)

Next ==
    \/ \E p \in Procs : Continues(p)
    \/ \E p \in Procs, c \in CaseIds : Arrives(p, c)
    \/ \E p \in Procs : RequestFails(p)
    \/ Crash
    \/ \E c \in CaseIds : LeaseExpires(c)

Spec == Init /\ [][Next]_vars

\* net/http runs every accepted request's goroutine to its end.
HandlerFairness == \A p \in Procs : WF_vars(Continues(p))

FairSpec == Spec /\ HandlerFairness

\* Time passes, and somebody keeps asking for the analysis of a case that is
\* still analyzing, as the message of the recovered row tells them to.
Retried ==
    \A c \in CaseIds :
        /\ WF_vars(LeaseExpires(c))
        /\ WF_vars(\E p \in Procs : cases[c].status = "analyzing" /\ AnalyzeGet(p, c))
----------------------------------------------------------------------------
(* Properties.                                                             *)

\* Every row, request and audit entry has its shape.
TypeOK ==
    /\ cases \in [CaseIds -> Row]
    /\ req \in [Procs -> Request]
    /\ audits \in [CaseIds -> Seq(Entry)]
    /\ faults \in Nat

\* Every update of a case, whichever handler made it and whatever ran beside
\* it, left exactly one audit entry, and the last entry tells the status the
\* row is in (Transition, SaveAnalysis and RecoverStaleAnalysis with the audit
\* inserts of their transactions).
AuditComplete ==
    \A c \in CaseIds :
        /\ cases[c].version = Len(audits[c])
        /\ cases[c].status = IF audits[c] = <<>> THEN "absent"
                             ELSE StatusAfter(audits[c][Len(audits[c])].action)

\* The actions that may follow an action in the trail of a case.
Follows(action) ==
    CASE action \in {"created", "recovered", "failed"} -> {"started"}
      [] action = "started" -> {"recovered", "failed", "completed"}
      [] action = "completed" -> {"confirmed"}
      [] action = "confirmed" -> {"closed"}
      [] action = "closed" -> {}

\* The trail of a case reads as a path through the workflow from its creation:
\* no start without a draft, one outcome per start, one confirmation, one
\* closing, nothing after it, however the requests interleave.
TrailLegal ==
    \A c \in CaseIds : \A i \in DOMAIN audits[c] :
        IF i = 1 THEN audits[c][i].action = "created"
        ELSE audits[c][i].action \in Follows(audits[c][i - 1].action)

Running(p, c) == req[p].pc = "running" /\ req[p].case = c

\* Two workers on one case never believe they run under the same version: a
\* start is won by one request only (StartAnalysis), also after a recovery.
LeaseUnique ==
    \A p, q \in Procs, c \in CaseIds :
        Running(p, c) /\ Running(q, c) /\ p # q => req[p].item # req[q].item

Outcome(action) == action \in {"failed", "completed"}

\* A run reports at most one outcome, and reports what it itself started: an
\* outcome in the trail names an earlier start by the same actor.
RunReportsOnce ==
    \A c \in CaseIds : \A i \in DOMAIN audits[c] :
        Outcome(audits[c][i].action) =>
            /\ audits[c][i].run \in 1 .. (i - 1)
            /\ audits[c][audits[c][i].run].action = "started"
            /\ audits[c][audits[c][i].run].actor = audits[c][i].actor
            /\ \A j \in DOMAIN audits[c] :
                  Outcome(audits[c][j].action) /\ j # i
                    => audits[c][j].run # audits[c][i].run

\* The before-image of a confirmation or a closing is the row it replaced,
\* although it is read before the transaction: the version the client echoes
\* is never newer than the row the handler reads.
BeforeImageAccurate ==
    \A c \in CaseIds : \A i \in DOMAIN audits[c] :
        audits[c][i].action \in {"confirmed", "closed"} => audits[c][i].before = i - 1

\* A case carries an analysis result and an estimate only from the one
\* completed entry of its trail, and a reviewer's name only from its
\* confirmation, made by somebody with the reviewer or admin role.
ResultFromTrail ==
    \A c \in CaseIds :
        /\ cases[c].result # None <=>
              \E i \in DOMAIN audits[c] : audits[c][i].action = "completed"
                                       /\ audits[c][i].run = cases[c].result
        /\ cases[c].estimate = "analysis" => cases[c].status = "pending_review"
        /\ cases[c].estimate = "reviewer" <=> cases[c].status \in {"confirmed", "closed"}
        /\ cases[c].reviewer # None <=>
              \E i \in DOMAIN audits[c] : audits[c][i].action = "confirmed"
                                       /\ audits[c][i].actor = cases[c].reviewer
                                       /\ RoleOf[cases[c].reviewer] # "analyst"

\* A case that fell back to draft says why, and carries no error once it is
\* analyzed again: the error column is written by three statements that race.
ErrorMatchesStatus ==
    \A c \in CaseIds :
        cases[c].error # "none" <=> cases[c].status = "draft" /\ cases[c].version > 1

\* What a reviewer signs is what they were shown: from pending_review on the
\* result never changes, and a closed case never changes at all.  A worker
\* that was given up long ago may still be running.
ReviewedIsFrozen ==
    [][\A c \in CaseIds :
          /\ cases[c].status \in {"pending_review", "confirmed", "closed"}
                => cases'[c].result = cases[c].result
          /\ cases[c].status = "closed" => cases'[c] = cases[c]]_vars

\* Each saved outcome replaces the very version its run started under, as
\* the optimistic lock of the workflow would have it.  SaveAnalysis does not
\* ask for the version: a worker that outlived its lease overwrites its
\* successor's.
SaveReplacesOwnVersion ==
    \A c \in CaseIds : \A i \in DOMAIN audits[c] :
        Outcome(audits[c][i].action) => audits[c][i].run = i - 1

\* The workflow of CaseWorkflow is what these handlers implement: the audit
\* trail is the history of statuses, whatever interleaving produced it.
Workflow == INSTANCE CaseWorkflow WITH
    Reviewers <- {p \in Procs : RoleOf[p] # "analyst"},
    status <- [c \in CaseIds |-> cases[c].status],
    history <- [c \in CaseIds |->
                   [i \in DOMAIN audits[c] |-> StatusAfter(audits[c][i].action)]],
    result <- [c \in CaseIds |-> cases[c].result],
    reviewer <- [c \in CaseIds |-> cases[c].reviewer]

\* Every behaviour of the handlers is a behaviour of the abstract workflow.
ImplementsWorkflow == Workflow!WorkflowSpec

\* Every request is answered (HandlerFairness).
RequestsEnd == \A p \in Procs : req[p].pc # "idle" ~> req[p].pc = "idle"

\* Without a fault an analysis ends by itself: the worker that started it, or
\* a stale one, moves the row on.
AnalysisEndsUnlessFault ==
    \A c \in CaseIds :
        cases[c].status = "analyzing" ~> cases[c].status # "analyzing" \/ faults > 0

\* With crashes and failed saves a case is still never stuck in analyzing, if
\* the lease runs out and somebody asks for the analysis again.
AnalysisEnds ==
    Retried =>
        \A c \in CaseIds : cases[c].status = "analyzing" ~> cases[c].status # "analyzing"
============================================================================
