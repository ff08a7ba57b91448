------------------------ MODULE CaseLifecycleProofs ------------------------
(***************************************************************************)
(* Proofs, for any number of cases, requests, versions and faults, that    *)
(* the handlers of CaseLifecycle keep the row and the audit trail of a     *)
(* case in step.                                                           *)
(***************************************************************************)
EXTENDS CaseLifecycle, SequenceTheorems, TLAPS

----------------------------------------------------------------------------
(* Type correctness.                                                       *)

\* Everything between arrivals of requests: every handler that is under way
\* works on a case of the table.
ReqOK == \A p \in Procs : req[p].pc # "idle" => req[p].case \in CaseIds

\* The initial tables are well typed.
LEMMA InitType == Init => TypeOK /\ ReqOK
  <1> SUFFICES ASSUME Init PROVE TypeOK /\ ReqOK
    OBVIOUS
  <1>1. NoRow \in Row
    BY DEF NoRow, Row, Statuses
  <1>2. Idle \in Request
    BY DEF Idle, Request
  <1>3. <<>> \in Seq(Entry)
    OBVIOUS
  <1>4. ReqOK
    BY DEF ReqOK, Init, Idle
  <1> QED
    BY <1>1, <1>2, <1>3, <1>4 DEF Init, TypeOK

\* Updating the row of a case and logging the update keeps the tables typed.
LEMMA CommitType ==
    ASSUME TypeOK, NEW c \in CaseIds, NEW p \in Procs, NEW row \in Row,
           NEW action \in {"created", "started", "recovered", "failed", "completed",
                           "confirmed", "closed"},
           NEW run \in Nat, NEW before \in Nat,
           cases' = [cases EXCEPT ![c] = row], Log(c, p, action, run, before)
    PROVE  /\ cases' \in [CaseIds -> Row]
           /\ audits' \in [CaseIds -> Seq(Entry)]
  <1>1. [action |-> action, actor |-> p, run |-> run, before |-> before] \in Entry
    BY DEF Entry
  <1>2. audits[c] \in Seq(Entry)
    BY DEF TypeOK
  <1>3. Append(audits[c], [action |-> action, actor |-> p, run |-> run, before |-> before])
            \in Seq(Entry)
    BY <1>1, <1>2, AppendProperties
  <1> QED
    BY <1>3 DEF TypeOK, Log

\* A row that moves to a status is still a row.
LEMMA MovedType ==
    ASSUME NEW row \in Row, NEW to \in Statuses
    PROVE  /\ Moved(row, to) \in Row
           /\ Moved(row, to).status = to
           /\ Moved(row, to).version = row.version + 1
           /\ Moved(row, to).error = row.error
           /\ Moved(row, to).result = row.result
           /\ Moved(row, to).estimate = row.estimate
           /\ Moved(row, to).reviewer = row.reviewer
  <1>1. row.version + 1 \in Nat
    BY DEF Row
  <1>2. Moved(row, to) \in Row
    BY <1>1, ZenonT(30) DEF Moved, Row
  <1> QED
    BY <1>2 DEF Moved, Row

\* What each statement leaves in the columns the properties speak of.
LEMMA RecoveredType ==
    ASSUME NEW row \in Row
    PROVE  /\ RecoveredRow(row) \in Row
           /\ RecoveredRow(row).status = "draft"
           /\ RecoveredRow(row).version = row.version + 1
           /\ RecoveredRow(row).error = "expired"
           /\ RecoveredRow(row).result = row.result
           /\ RecoveredRow(row).estimate = row.estimate
           /\ RecoveredRow(row).reviewer = row.reviewer
  <1>1. "draft" \in Statuses
    BY DEF Statuses
  <1> DEFINE m == Moved(row, "draft")
  <1>2. /\ m \in Row
        /\ m.status = "draft"
        /\ m.version = row.version + 1
        /\ m.error = row.error /\ m.result = row.result
        /\ m.estimate = row.estimate /\ m.reviewer = row.reviewer
    BY <1>1, MovedType
  <1> HIDE DEF m
  <1>3. RecoveredRow(row) \in Row
    BY <1>2, ZenonT(60) DEF RecoveredRow, Row, m
  <1> QED
    BY <1>2, <1>3 DEF RecoveredRow, Row, m

LEMMA StartedType ==
    ASSUME NEW row \in Row
    PROVE  /\ StartedRow(row) \in Row
           /\ StartedRow(row).status = "analyzing"
           /\ StartedRow(row).version = row.version + 1
           /\ StartedRow(row).error = "none"
           /\ StartedRow(row).result = row.result
           /\ StartedRow(row).estimate = row.estimate
           /\ StartedRow(row).reviewer = row.reviewer
  <1>1. "analyzing" \in Statuses
    BY DEF Statuses
  <1> DEFINE m == Moved(row, "analyzing")
  <1>2. /\ m \in Row
        /\ m.status = "analyzing"
        /\ m.version = row.version + 1
        /\ m.error = row.error /\ m.result = row.result
        /\ m.estimate = row.estimate /\ m.reviewer = row.reviewer
    BY <1>1, MovedType
  <1> HIDE DEF m
  <1>3. StartedRow(row) \in Row
    BY <1>2, ZenonT(60) DEF StartedRow, Row, m
  <1> QED
    BY <1>2, <1>3 DEF StartedRow, Row, m

LEMMA FailedType ==
    ASSUME NEW row \in Row
    PROVE  /\ FailedRow(row) \in Row
           /\ FailedRow(row).status = "draft"
           /\ FailedRow(row).version = row.version + 1
           /\ FailedRow(row).error = "failed"
           /\ FailedRow(row).result = row.result
           /\ FailedRow(row).estimate = row.estimate
           /\ FailedRow(row).reviewer = row.reviewer
  <1>1. "draft" \in Statuses
    BY DEF Statuses
  <1> DEFINE m == Moved(row, "draft")
  <1>2. /\ m \in Row
        /\ m.status = "draft"
        /\ m.version = row.version + 1
        /\ m.error = row.error /\ m.result = row.result
        /\ m.estimate = row.estimate /\ m.reviewer = row.reviewer
    BY <1>1, MovedType
  <1> HIDE DEF m
  <1>3. FailedRow(row) \in Row
    BY <1>2, ZenonT(60) DEF FailedRow, Row, m
  <1> QED
    BY <1>2, <1>3 DEF FailedRow, Row, m

LEMMA CompletedType ==
    ASSUME NEW row \in Row, NEW run \in Nat, NEW found \in BOOLEAN
    PROVE  /\ CompletedRow(row, run, found) \in Row
           /\ CompletedRow(row, run, found).status = "pending_review"
           /\ CompletedRow(row, run, found).version = row.version + 1
           /\ CompletedRow(row, run, found).error = "none"
           /\ CompletedRow(row, run, found).result = run
           /\ CompletedRow(row, run, found).estimate = (IF found THEN "analysis" ELSE row.estimate)
           /\ CompletedRow(row, run, found).reviewer = row.reviewer
  <1>1. "pending_review" \in Statuses
    BY DEF Statuses
  <1> DEFINE m == Moved(row, "pending_review")
  <1>2. /\ m \in Row
        /\ m.status = "pending_review"
        /\ m.version = row.version + 1
        /\ m.error = row.error /\ m.result = row.result
        /\ m.estimate = row.estimate /\ m.reviewer = row.reviewer
    BY <1>1, MovedType
  <1>e. (IF found THEN "analysis" ELSE m.estimate) \in {None, "analysis", "reviewer"}
    BY <1>2 DEF Row
  <1> HIDE DEF m
  <1>3. CompletedRow(row, run, found) \in Row
    BY <1>2, <1>e, ZenonT(60) DEF CompletedRow, Row, m
  <1> QED
    BY <1>2, <1>3 DEF CompletedRow, Row, m

LEMMA ConfirmedType ==
    ASSUME NEW row \in Row, NEW p \in Procs
    PROVE  /\ ConfirmedRow(row, p) \in Row
           /\ ConfirmedRow(row, p).status = "confirmed"
           /\ ConfirmedRow(row, p).version = row.version + 1
           /\ ConfirmedRow(row, p).error = row.error
           /\ ConfirmedRow(row, p).result = row.result
           /\ ConfirmedRow(row, p).estimate = "reviewer"
           /\ ConfirmedRow(row, p).reviewer = p
  <1>1. "confirmed" \in Statuses
    BY DEF Statuses
  <1> DEFINE m == Moved(row, "confirmed")
  <1>2. /\ m \in Row
        /\ m.status = "confirmed"
        /\ m.version = row.version + 1
        /\ m.error = row.error /\ m.result = row.result
        /\ m.estimate = row.estimate /\ m.reviewer = row.reviewer
    BY <1>1, MovedType
  <1> HIDE DEF m
  <1>3. ConfirmedRow(row, p) \in Row
    BY <1>2, ZenonT(60) DEF ConfirmedRow, Row, m
  <1> QED
    BY <1>2, <1>3 DEF ConfirmedRow, Row, m

LEMMA ClosedType ==
    ASSUME NEW row \in Row
    PROVE  /\ ClosedRow(row) \in Row
           /\ ClosedRow(row).status = "closed"
           /\ ClosedRow(row).version = row.version + 1
           /\ ClosedRow(row).error = row.error
           /\ ClosedRow(row).result = row.result
           /\ ClosedRow(row).estimate = row.estimate
           /\ ClosedRow(row).reviewer = row.reviewer
  <1>1. "closed" \in Statuses
    BY DEF Statuses
  <1> DEFINE m == Moved(row, "closed")
  <1>2. /\ m \in Row
        /\ m.status = "closed"
        /\ m.version = row.version + 1
        /\ m.error = row.error /\ m.result = row.result
        /\ m.estimate = row.estimate /\ m.reviewer = row.reviewer
    BY <1>1, MovedType
  <1> HIDE DEF m
  <1>3. ClosedRow(row) \in Row
    BY <1>2, ZenonT(60) DEF ClosedRow, Row, m
  <1> QED
    BY <1>2, <1>3 DEF ClosedRow, Row, m

\* A handler that returns leaves the requests typed.
LEMMA ReturnsType ==
    ASSUME TypeOK, ReqOK, NEW p \in Procs, Returns(p)
    PROVE  req' \in [Procs -> Request] /\ ReqOK'
  <1>1. Idle \in Request /\ Idle.pc = "idle"
    BY DEF Idle, Request
  <1> QED
    BY <1>1 DEF TypeOK, ReqOK, Returns

\* One handler's step preserves the types.
LEMMA ContinuesType ==
    ASSUME TypeOK, ReqOK, NEW p \in Procs, Continues(p)
    PROVE  TypeOK' /\ ReqOK'
  <1> DEFINE c == req[p].case
  <1>r. req[p] \in Request /\ req[p].item \in Nat
    BY DEF TypeOK, Request
  <1>1. CASE Recover(p)
    <2>1. c \in CaseIds
      BY <1>1 DEF Recover, ReqOK
    <2>2. cases[c] \in Row
      BY <2>1 DEF TypeOK
    <2>3. RecoveredRow(cases[c]) \in Row
      BY <2>2, RecoveredType
    <2>4. req' \in [Procs -> Request] /\ ReqOK'
      BY <1>1, <1>r, <2>1 DEF Recover, TypeOK, ReqOK, Request
    <2> QED
      BY <1>1, <2>1, <2>3, <2>4, CommitType, Zenon DEF Recover, RecoverStaleAnalysis, TypeOK
  <1>2. CASE NotRecovered(p)
    BY <1>2, ReturnsType DEF NotRecovered, TypeOK
  <1>3. CASE Reload(p)
    <2>1. c \in CaseIds
      BY <1>3 DEF Reload, ReqOK
    <2>2. cases[c].version \in Nat
      BY <2>1 DEF TypeOK, Row
    <2>3. AfterGet(p, c) \in Request /\ (AfterGet(p, c).pc # "idle" => AfterGet(p, c).case \in CaseIds)
      BY <2>1, <2>2 DEF AfterGet, Request, Idle
    <2> QED
      BY <1>3, <2>3 DEF Reload, TypeOK, ReqOK
  <1>4. CASE StartAnalysis(p)
    <2>1. c \in CaseIds
      BY <1>4 DEF StartAnalysis, ReqOK
    <2>2. cases[c] \in Row
      BY <2>1 DEF TypeOK
    <2>3. StartedRow(cases[c]) \in Row
      BY <2>2, StartedType
    <2>4. req' \in [Procs -> Request] /\ ReqOK'
      BY <1>4, <1>r, <2>1 DEF StartAnalysis, TypeOK, ReqOK, Request
    <2> QED
      BY <1>4, <2>1, <2>3, <2>4, CommitType DEF StartAnalysis, Transition, TypeOK
  <1>5. CASE StartConflict(p)
    BY <1>5, ReturnsType DEF StartConflict, TypeOK
  <1>6. CASE AnalysisFailed(p)
    <2>1. c \in CaseIds
      BY <1>6 DEF AnalysisFailed, ReqOK
    <2>2. cases[c] \in Row
      BY <2>1 DEF TypeOK
    <2>3. FailedRow(cases[c]) \in Row
      BY <2>2, FailedType
    <2> QED
      BY <1>6, <1>r, <2>1, <2>3, CommitType, ReturnsType DEF AnalysisFailed, SaveAnalysis, TypeOK
  <1>7. CASE \E found \in BOOLEAN : AnalysisCompleted(p, found)
    <2> PICK found \in BOOLEAN : AnalysisCompleted(p, found)
      BY <1>7
    <2>1. c \in CaseIds
      BY DEF AnalysisCompleted, ReqOK
    <2>2. cases[c] \in Row
      BY <2>1 DEF TypeOK
    <2>3. CompletedRow(cases[c], req[p].item, found) \in Row
      BY <1>r, <2>2, CompletedType
    <2> QED
      BY <1>r, <2>1, <2>3, CommitType, ReturnsType DEF AnalysisCompleted, SaveAnalysis, TypeOK
  <1>8. CASE SaveConflict(p)
    BY <1>8, ReturnsType DEF SaveConflict, TypeOK
  <1>9. CASE Confirm(p)
    <2>1. c \in CaseIds
      BY <1>9 DEF Confirm, ReqOK
    <2>2. cases[c] \in Row
      BY <2>1 DEF TypeOK
    <2>3. ConfirmedRow(cases[c], p) \in Row
      BY <2>2, ConfirmedType
    <2> QED
      BY <1>9, <1>r, <2>1, <2>3, CommitType, ReturnsType DEF Confirm, Transition, TypeOK
  <1>10. CASE ConfirmConflict(p)
    BY <1>10, ReturnsType DEF ConfirmConflict, TypeOK
  <1>11. CASE Close(p)
    <2>1. c \in CaseIds
      BY <1>11 DEF Close, ReqOK
    <2>2. cases[c] \in Row
      BY <2>1 DEF TypeOK
    <2>3. ClosedRow(cases[c]) \in Row
      BY <2>2, ClosedType
    <2> QED
      BY <1>11, <1>r, <2>1, <2>3, CommitType, ReturnsType DEF Close, Transition, TypeOK
  <1>12. CASE CloseConflict(p)
    BY <1>12, ReturnsType DEF CloseConflict, TypeOK
  <1> QED
    BY <1>1, <1>2, <1>3, <1>4, <1>5, <1>6, <1>7, <1>8, <1>9, <1>10, <1>11, <1>12
       DEF Continues

\* The arrival of a request preserves the types.
LEMMA ArrivesType ==
    ASSUME TypeOK, ReqOK, NEW p \in Procs, NEW c \in CaseIds, Arrives(p, c)
    PROVE  TypeOK' /\ ReqOK'
  <1>v. cases[c].version \in Nat
    BY DEF TypeOK, Row
  <1>1. CASE \E r \in Routes, b, t \in Traces : Create(p, c, r, b, t)
    <2> PICK r \in Routes, b \in Traces, t \in Traces : Create(p, c, r, b, t)
      BY <1>1
    <2>1. [NoRow EXCEPT !.status = "draft", !.version = 1] \in Row
      BY DEF NoRow, Row, Statuses
    <2>2. /\ cases' = [cases EXCEPT ![c] = [NoRow EXCEPT !.status = "draft", !.version = 1]]
          /\ Log(c, p, "created", 0, 0)
          /\ req' = req /\ faults' = faults
      BY DEF Create
    <2> QED
      BY <2>1, <2>2, CommitType, Zenon DEF TypeOK, ReqOK
  <1>2. CASE AnalyzeGet(p, c)
    <2>1. /\ AfterGet(p, c) \in Request
          /\ AfterGet(p, c).pc # "idle" => AfterGet(p, c).case \in CaseIds
      BY <1>v DEF AfterGet, Request, Idle
    <2>2. [pc |-> "recover", case |-> c, item |-> cases[c].version, version |-> 0] \in Request
      BY <1>v DEF Request
    <2> QED
      BY <1>2, <2>1, <2>2 DEF AnalyzeGet, TypeOK, ReqOK
  <1>3. CASE \E v \in SeenVersions(c) : ConfirmGet(p, c, v) \/ CloseGet(p, c, v)
    <2> PICK v \in SeenVersions(c) : ConfirmGet(p, c, v) \/ CloseGet(p, c, v)
      BY <1>3
    <2>1. v \in Nat
      BY <1>v DEF SeenVersions
    <2>2. \A pc \in {"confirm", "close"} :
            [pc |-> pc, case |-> c, item |-> cases[c].version, version |-> v] \in Request
      BY <1>v, <2>1 DEF Request
    <2>3. PICK pc \in {"confirm", "close"} :
            /\ req' = [req EXCEPT ![p] = [pc |-> pc, case |-> c,
                                          item |-> cases[c].version, version |-> v]]
            /\ UNCHANGED <<cases, audits, faults>>
      BY DEF ConfirmGet, CloseGet
    <2> QED
      BY <2>2, <2>3 DEF TypeOK, ReqOK
  <1> QED
    BY <1>1, <1>2, <1>3 DEF Arrives

\* So does every other step.
LEMMA NextType == TypeOK /\ ReqOK /\ [Next]_vars => TypeOK' /\ ReqOK'
  <1> SUFFICES ASSUME TypeOK, ReqOK, [Next]_vars PROVE TypeOK' /\ ReqOK'
    OBVIOUS
  <1>1. CASE \E p \in Procs : Continues(p)
    BY <1>1, ContinuesType
  <1>2. CASE \E p \in Procs, c \in CaseIds : Arrives(p, c)
    BY <1>2, ArrivesType
  <1>3. CASE \E p \in Procs : RequestFails(p)
    BY <1>3, ReturnsType DEF RequestFails, TypeOK
  <1>4. CASE Crash
    <2>1. Idle \in Request /\ Idle.pc = "idle"
      BY DEF Idle, Request
    <2> QED
      BY <1>4, <2>1 DEF Crash, TypeOK, ReqOK
  <1>5. CASE \E c \in CaseIds : LeaseExpires(c)
    <2> PICK c \in CaseIds : LeaseExpires(c)
      BY <1>5
    <2>1. [cases[c] EXCEPT !.lease = "expired"] \in Row
      BY DEF TypeOK, Row
    <2> QED
      BY <2>1 DEF LeaseExpires, TypeOK, ReqOK
  <1>6. CASE UNCHANGED vars
    BY <1>6 DEF vars, TypeOK, ReqOK
  <1> QED
    BY <1>1, <1>2, <1>3, <1>4, <1>5, <1>6 DEF Next

\* The tables, the requests and the audit trail always have their shapes, and
\* no handler works on a case that the table cannot hold.
THEOREM TypeCorrect == Spec => [](TypeOK /\ ReqOK)
  BY InitType, NextType, PTL DEF Spec
----------------------------------------------------------------------------
(* What a step can do to a case: nothing, or one update logged by one      *)
(* entry.                                                                  *)

AbsentOK == \A c \in CaseIds : cases[c].status = "absent" => cases[c] = NoRow

Actions == {"created", "started", "recovered", "failed", "completed", "confirmed", "closed"}

\* The status a logged update starts from.
From(action) ==
    CASE action = "created" -> "absent"
      [] action = "started" -> "draft"
      [] action \in {"recovered", "failed", "completed"} -> "analyzing"
      [] action = "confirmed" -> "pending_review"
      [] action = "closed" -> "confirmed"

\* What the update writes in the columns the properties speak of.
Writes(old, new, p, action, run) ==
    /\ new.status = StatusAfter(action)
    /\ new.version = old.version + 1
    /\ new.error = CASE action = "recovered" -> "expired"
                     [] action = "failed" -> "failed"
                     [] action \in {"created", "started", "completed"} -> "none"
                     [] OTHER -> old.error
    /\ new.result = IF action = "completed" THEN run ELSE old.result
    /\ new.estimate \in CASE action = "completed" -> {"analysis", old.estimate}
                          [] action = "confirmed" -> {"reviewer"}
                          [] OTHER -> {old.estimate}
    /\ new.reviewer = IF action = "confirmed" THEN p ELSE old.reviewer

Updates(c, p, action, run) ==
    /\ cases[c].status = From(action)
    /\ \E new \in Row : /\ cases' = [cases EXCEPT ![c] = new]
                        /\ Writes(cases[c], new, p, action, run)

\* What the request that commits the update holds before, and after it.
Holds(c, p, action, run, before) ==
    /\ action = "created" => req' = req
    /\ action # "created" => req[p].case = c
    /\ action = "started" =>
          /\ req[p].item = cases[c].version
          /\ req' = [req EXCEPT ![p] = [pc |-> "running", case |-> c,
                                     item |-> req[p].item + 1, version |-> 0]]
    /\ action = "recovered" => req' = [req EXCEPT ![p].pc = "reload"]
    /\ Outcome(action) => req[p].pc = "running" /\ run = req[p].item
    /\ action \in {"confirmed", "closed"} =>
          /\ req[p].pc = IF action = "confirmed" THEN "confirm" ELSE "close"
          /\ req[p].version = cases[c].version
          /\ before = req[p].item
    /\ action \notin {"created", "started", "recovered"} => Returns(p)

Commits ==
    \E c \in CaseIds, p \in Procs, action \in Actions, run, before \in Nat :
        /\ Updates(c, p, action, run)
        /\ Log(c, p, action, run, before)
        /\ Holds(c, p, action, run, before)

\* Nothing the properties speak of changes in the tables.
SameRow(old, new) ==
    /\ new.status = old.status /\ new.version = old.version /\ new.error = old.error
    /\ new.result = old.result /\ new.estimate = old.estimate
    /\ new.reviewer = old.reviewer

\* A request that goes on holds what it held, or has just read the row.
Reads(p) ==
    LET c == req'[p].case IN
    \/ req'[p] = req[p]
    \/ req'[p].pc = "idle"
    \/ req'[p].pc \in {"recover", "start"}
    \/ /\ req'[p].pc \in {"confirm", "close"}
       /\ MayReview(p)
       /\ req'[p].item = cases[c].version
       /\ req'[p].version \in 1 .. cases[c].version

Quiet ==
    /\ audits' = audits
    /\ \A c \in CaseIds : SameRow(cases[c], cases'[c])
    /\ \A c \in CaseIds : cases[c].status # "analyzing" => cases'[c] = cases[c]
    /\ \A p \in Procs : Reads(p)

\* One handler's step is one update, or changes its own request only.
LEMMA ContinuesShape ==
    ASSUME TypeOK, ReqOK, NEW p \in Procs, Continues(p)
    PROVE  Commits \/ Quiet
  <1> DEFINE c == req[p].case
  <1>r. req[p] \in Request /\ req[p].item \in Nat
    BY DEF TypeOK, Request
  <1>q. ASSUME Returns(p), UNCHANGED <<cases, audits>> PROVE Quiet
    <2>1. Idle.pc = "idle"
      BY DEF Idle
    <2> QED
      BY <1>q, <2>1 DEF Quiet, SameRow, Reads, Returns, TypeOK
  <1>1. CASE Recover(p)
    <2>1. c \in CaseIds
      BY <1>1 DEF Recover, ReqOK
    <2>2. cases[c] \in Row
      BY <2>1 DEF TypeOK
    <2>3. Updates(c, p, "recovered", 0)
      BY <1>1, <2>2, RecoveredType
         DEF Recover, LeaseExpired, RecoverStaleAnalysis, Updates, From, Writes, StatusAfter
    <2>4. Holds(c, p, "recovered", 0, 0)
      BY <1>1 DEF Recover, Holds, Outcome
    <2> QED
      BY <1>1, <2>1, <2>3, <2>4 DEF Recover, Commits, Actions
  <1>2. CASE NotRecovered(p)
    BY <1>2, <1>q DEF NotRecovered
  <1>3. CASE Reload(p)
    <2>1. AfterGet(p, c).pc \in {"start", "idle"}
      BY DEF AfterGet, Idle
    <2> QED
      BY <1>3, <2>1 DEF Reload, Quiet, SameRow, Reads, TypeOK
  <1>4. CASE StartAnalysis(p)
    <2>1. c \in CaseIds
      BY <1>4 DEF StartAnalysis, ReqOK
    <2>2. cases[c] \in Row
      BY <2>1 DEF TypeOK
    <2>3. Updates(c, p, "started", 0)
      BY <1>4, <2>2, StartedType
         DEF StartAnalysis, CanCommit, Transition, Updates, From, Writes, StatusAfter
    <2>4. Holds(c, p, "started", 0, 0)
      BY <1>4 DEF StartAnalysis, CanCommit, Holds, Outcome
    <2> QED
      BY <1>4, <2>1, <2>3, <2>4 DEF StartAnalysis, Commits, Actions
  <1>5. CASE StartConflict(p)
    BY <1>5, <1>q DEF StartConflict
  <1>6. CASE AnalysisFailed(p)
    <2>1. c \in CaseIds
      BY <1>6 DEF AnalysisFailed, ReqOK
    <2>2. cases[c] \in Row
      BY <2>1 DEF TypeOK
    <2>3. Updates(c, p, "failed", req[p].item)
      BY <1>6, <2>2, FailedType
         DEF AnalysisFailed, CanSave, SaveAnalysis, Updates, From, Writes, StatusAfter
    <2>4. Holds(c, p, "failed", req[p].item, 0)
      BY <1>6 DEF AnalysisFailed, Holds, Outcome
    <2> QED
      BY <1>6, <1>r, <2>1, <2>3, <2>4 DEF AnalysisFailed, Commits, Actions
  <1>7. CASE \E found \in BOOLEAN : AnalysisCompleted(p, found)
    <2> PICK found \in BOOLEAN : AnalysisCompleted(p, found)
      BY <1>7
    <2>1. c \in CaseIds
      BY DEF AnalysisCompleted, ReqOK
    <2>2. cases[c] \in Row
      BY <2>1 DEF TypeOK
    <2> DEFINE new == CompletedRow(cases[c], req[p].item, found)
    <2>w. new \in Row /\ Writes(cases[c], new, p, "completed", req[p].item)
      BY <1>r, <2>2, CompletedType DEF Writes, StatusAfter
    <2>3. Updates(c, p, "completed", req[p].item)
      BY <2>w DEF AnalysisCompleted, CanSave, SaveAnalysis, Updates, From
    <2>4. Holds(c, p, "completed", req[p].item, 0)
      BY DEF AnalysisCompleted, Holds, Outcome
    <2> QED
      BY <1>r, <2>1, <2>3, <2>4 DEF AnalysisCompleted, Commits, Actions
  <1>8. CASE SaveConflict(p)
    BY <1>8, <1>q DEF SaveConflict
  <1>9. CASE Confirm(p)
    <2>1. c \in CaseIds
      BY <1>9 DEF Confirm, ReqOK
    <2>2. cases[c] \in Row
      BY <2>1 DEF TypeOK
    <2>3. Updates(c, p, "confirmed", 0)
      BY <1>9, <2>2, ConfirmedType
         DEF Confirm, CanCommit, Transition, Updates, From, Writes, StatusAfter
    <2>4. Holds(c, p, "confirmed", 0, req[p].item)
      BY <1>9 DEF Confirm, CanCommit, Holds, Outcome
    <2> QED
      BY <1>9, <1>r, <2>1, <2>3, <2>4 DEF Confirm, Commits, Actions
  <1>10. CASE ConfirmConflict(p)
    BY <1>10, <1>q DEF ConfirmConflict
  <1>11. CASE Close(p)
    <2>1. c \in CaseIds
      BY <1>11 DEF Close, ReqOK
    <2>2. cases[c] \in Row
      BY <2>1 DEF TypeOK
    <2>3. Updates(c, p, "closed", 0)
      BY <1>11, <2>2, ClosedType
         DEF Close, CanCommit, Transition, Updates, From, Writes, StatusAfter
    <2>4. Holds(c, p, "closed", 0, req[p].item)
      BY <1>11 DEF Close, CanCommit, Holds, Outcome
    <2> QED
      BY <1>11, <1>r, <2>1, <2>3, <2>4 DEF Close, Commits, Actions
  <1>12. CASE CloseConflict(p)
    BY <1>12, <1>q DEF CloseConflict
  <1> QED
    BY <1>1, <1>2, <1>3, <1>4, <1>5, <1>6, <1>7, <1>8, <1>9, <1>10, <1>11, <1>12
       DEF Continues

\* So is every step of the system.
LEMMA NextShape ==
    ASSUME TypeOK, ReqOK, AbsentOK, [Next]_vars
    PROVE  Commits \/ Quiet
  <1>i. Idle.pc = "idle"
    BY DEF Idle
  <1>1. CASE \E p \in Procs : Continues(p)
    BY <1>1, ContinuesShape
  <1>2. ASSUME NEW p \in Procs, NEW c \in CaseIds, Arrives(p, c)
        PROVE  Commits \/ Quiet
    <2>v. cases[c].version \in Nat
      BY DEF TypeOK, Row
    <2>1. CASE \E r \in Routes, b, t \in Traces : Create(p, c, r, b, t)
      <3> PICK r \in Routes, b \in Traces, t \in Traces : Create(p, c, r, b, t)
        BY <2>1
      <3> DEFINE new == [NoRow EXCEPT !.status = "draft", !.version = 1]
      <3>1. cases[c] = NoRow
        BY DEF Create, AbsentOK
      <3>n. /\ new \in Row
            /\ new.status = "draft" /\ new.version = 1 /\ new.error = "none"
            /\ new.result = None /\ new.estimate = None /\ new.reviewer = None
        BY DEF NoRow, Row, Statuses
      <3>o. /\ NoRow.version = 0 /\ NoRow.result = None
            /\ NoRow.estimate = None /\ NoRow.reviewer = None
        BY DEF NoRow
      <3> HIDE DEF new
      <3>2. Writes(NoRow, new, p, "created", 0)
        BY <3>n, <3>o DEF Writes, StatusAfter
      <3>3. Updates(c, p, "created", 0)
        BY <3>1, <3>n, <3>2 DEF Create, Updates, From, new
      <3>4. Holds(c, p, "created", 0, 0)
        BY DEF Create, Holds, Outcome
      <3> QED
        BY <3>3, <3>4 DEF Create, Commits, Actions
    <2>2. CASE AnalyzeGet(p, c)
      <3>1. AfterGet(p, c).pc \in {"start", "idle"}
        BY DEF AfterGet, Idle
      <3> QED
        BY <2>2, <3>1 DEF AnalyzeGet, Quiet, SameRow, Reads, TypeOK
    <2>3. CASE \E v \in SeenVersions(c) : ConfirmGet(p, c, v) \/ CloseGet(p, c, v)
      <3> PICK v \in SeenVersions(c) : ConfirmGet(p, c, v) \/ CloseGet(p, c, v)
        BY <2>3
      <3>1. PICK pc \in {"confirm", "close"} :
            /\ req' = [req EXCEPT ![p] = [pc |-> pc, case |-> c,
                                          item |-> cases[c].version, version |-> v]]
            /\ UNCHANGED <<cases, audits, faults>>
            /\ MayReview(p)
        BY DEF ConfirmGet, CloseGet
      <3>2. Reads(p)
        BY <2>v, <3>1 DEF Reads, SeenVersions, TypeOK
      <3>3. \A q \in Procs : q # p => Reads(q)
        BY <3>1 DEF Reads, TypeOK
      <3> QED
        BY <3>1, <3>2, <3>3 DEF Quiet, SameRow
    <2> QED
      BY <1>2, <2>1, <2>2, <2>3 DEF Arrives
  <1>3. CASE \E p \in Procs : RequestFails(p)
    BY <1>3, <1>i DEF RequestFails, Returns, Quiet, SameRow, Reads, TypeOK
  <1>4. CASE Crash
    BY <1>4, <1>i DEF Crash, Quiet, SameRow, Reads
  <1>5. CASE \E c \in CaseIds : LeaseExpires(c)
    <2> PICK c \in CaseIds : LeaseExpires(c)
      BY <1>5
    <2>1. cases[c] \in Row /\ cases[c].status = "analyzing"
      BY DEF TypeOK, LeaseExpires
    <2>2. SameRow(cases[c], [cases[c] EXCEPT !.lease = "expired"])
      BY <2>1 DEF SameRow, Row
    <2>3. cases' = [cases EXCEPT ![c] = [cases[c] EXCEPT !.lease = "expired"]]
      BY DEF LeaseExpires
    <2>4. \A d \in CaseIds : SameRow(cases[d], cases'[d])
      BY <2>2, <2>3 DEF TypeOK, SameRow
    <2>5. \A d \in CaseIds : cases[d].status # "analyzing" => cases'[d] = cases[d]
      BY <2>1, <2>3 DEF TypeOK
    <2> QED
      BY <2>4, <2>5 DEF LeaseExpires, Quiet, Reads
  <1>6. CASE UNCHANGED vars
    BY <1>6 DEF vars, Quiet, SameRow, Reads
  <1> QED
    BY <1>1, <1>2, <1>3, <1>4, <1>5, <1>6 DEF Next
----------------------------------------------------------------------------
(* The inductive invariant.                                                *)

\* A worker owns an entry of the trail: the start of its run, of which no
\* outcome has been logged.
Owns(p, item, trail) ==
    /\ item \in 1 .. Len(trail)
    /\ trail[item].action = "started"
    /\ trail[item].actor = p
    /\ \A i \in 1 .. Len(trail) : Outcome(trail[i].action) => trail[i].run # item

Workers ==
    \A p \in Procs : req[p].pc = "running" => Owns(p, req[p].item, audits[req[p].case])

\* A reviewer's request holds a version no newer than the row it read, which
\* is no newer than the row.
Echoes ==
    \A p \in Procs : req[p].pc \in {"confirm", "close"} =>
        /\ MayReview(p)
        /\ req[p].version <= req[p].item
        /\ req[p].item <= cases[req[p].case].version

\* The columns filled at each stage of the workflow.
Stages ==
    \A c \in CaseIds :
        /\ cases[c].result # None <=>
              cases[c].status \in {"pending_review", "confirmed", "closed"}
        /\ cases[c].reviewer # None <=> cases[c].status \in {"confirmed", "closed"}

IInv == /\ TypeOK /\ ReqOK /\ AbsentOK
        /\ AuditComplete /\ TrailLegal /\ Workers /\ Echoes /\ Stages
        /\ RunReportsOnce /\ BeforeImageAccurate
        /\ ResultFromTrail /\ ErrorMatchesStatus

\* Appending one entry to the trail of a case.
Grown(c, p, action, run, before) ==
    LET n == Len(audits[c]) IN
    /\ n \in Nat /\ audits[c] \in Seq(Entry)
    /\ Len(audits'[c]) = n + 1
    /\ DOMAIN audits'[c] = 1 .. (n + 1) /\ DOMAIN audits[c] = 1 .. n
    /\ \A i \in 1 .. n : audits'[c][i] = audits[c][i]
    /\ audits'[c][n + 1].action = action
    /\ audits'[c][n + 1].actor = p
    /\ audits'[c][n + 1].run = run
    /\ audits'[c][n + 1].before = before
    /\ \A d \in CaseIds : d # c => audits'[d] = audits[d]
    /\ audits'[c] # <<>>

LEMMA LogFacts ==
    ASSUME TypeOK, NEW c \in CaseIds, NEW p \in Procs, NEW action \in Actions,
           NEW run \in Nat, NEW before \in Nat, Log(c, p, action, run, before)
    PROVE  Grown(c, p, action, run, before)
  <1> DEFINE e == [action |-> action, actor |-> p, run |-> run, before |-> before]
  <1>1. e \in Entry /\ audits[c] \in Seq(Entry)
    BY DEF Entry, TypeOK, Actions
  <1>2. audits'[c] = Append(audits[c], e) /\ \A d \in CaseIds : d # c => audits'[d] = audits[d]
    BY DEF Log, TypeOK
  <1>3. e.action = action /\ e.actor = p /\ e.run = run /\ e.before = before
    OBVIOUS
  <1> HIDE DEF e
  <1> QED
    BY <1>1, <1>2, <1>3, AppendProperties, LenProperties DEF Grown

\* An update keeps one entry per version and the trail legal.
LEMMA TrailStep ==
    ASSUME TypeOK, AbsentOK, AuditComplete, TrailLegal, Commits
    PROVE  AbsentOK' /\ AuditComplete' /\ TrailLegal'
  <1> PICK c \in CaseIds, p \in Procs, action \in Actions, run \in Nat, before \in Nat :
        /\ Updates(c, p, action, run)
        /\ Log(c, p, action, run, before)
    BY DEF Commits
  <1> DEFINE n == Len(audits[c])
  <1>g. Grown(c, p, action, run, before)
    BY LogFacts
  <1>l. /\ n \in Nat
        /\ Len(audits'[c]) = n + 1
        /\ DOMAIN audits'[c] = 1 .. (n + 1) /\ DOMAIN audits[c] = 1 .. n
        /\ \A i \in 1 .. n : audits'[c][i] = audits[c][i]
        /\ audits'[c][n + 1].action = action
        /\ \A d \in CaseIds : d # c => audits'[d] = audits[d]
        /\ audits'[c] # <<>>
    BY <1>g DEF Grown
  <1>u. /\ cases[c].status = From(action)
        /\ cases'[c].status = StatusAfter(action)
        /\ cases'[c].version = cases[c].version + 1
        /\ \A d \in CaseIds : d # c => cases'[d] = cases[d]
    BY DEF Updates, Writes, TypeOK
  <1>1. AbsentOK'
    <2>1. StatusAfter(action) # "absent"
      BY DEF StatusAfter, Actions
    <2> QED
      BY <1>u, <2>1 DEF AbsentOK
  <1>2. AuditComplete'
    BY <1>l, <1>u DEF AuditComplete
  <1>3. TrailLegal'
    <2>1. CASE n = 0
      <3>1. cases[c].status = "absent"
        BY <1>l, <2>1, LenProperties DEF AuditComplete, TypeOK
      <3>2. action = "created"
        BY <1>u, <3>1 DEF From, Actions
      <3> QED
        BY <1>l, <2>1, <3>2 DEF TrailLegal
    <2>2. CASE n > 0
      <3> DEFINE last == audits[c][n].action
      <3>1. last \in Actions
        <4>1. audits[c] \in Seq(Entry) /\ n \in 1 .. Len(audits[c])
          BY <1>l, <2>2 DEF TypeOK
        <4>2. audits[c][n] \in Entry
          BY <4>1, ElementOfSeq, Zenon
        <4> QED
          BY <4>2 DEF Entry, Actions
      <3>2. cases[c].status = StatusAfter(last)
        BY <1>l, <2>2 DEF AuditComplete
      <3>3. action \in Follows(last)
        BY <1>u, <3>1, <3>2 DEF From, Follows, StatusAfter, Actions
      <3>4. \A i \in 1 .. (n + 1) :
                IF i = 1 THEN audits'[c][i].action = "created"
                ELSE audits'[c][i].action \in Follows(audits'[c][i - 1].action)
        <4> TAKE i \in 1 .. (n + 1)
        <4>1. CASE i = n + 1
          BY <1>l, <2>2, <3>3, <4>1
        <4>2. CASE i # n + 1
          <5>1. i \in 1 .. n /\ audits'[c][i] = audits[c][i]
            BY <1>l, <4>2
          <5>2. i # 1 => i - 1 \in 1 .. n /\ audits'[c][i - 1] = audits[c][i - 1]
            BY <1>l, <5>1
          <5>3. IF i = 1 THEN audits[c][i].action = "created"
                ELSE audits[c][i].action \in Follows(audits[c][i - 1].action)
            BY <1>l, <5>1 DEF TrailLegal
          <5> QED
            BY <5>1, <5>2, <5>3
        <4> QED
          BY <4>1, <4>2
      <3> QED
        BY <1>l, <3>4 DEF TrailLegal
    <2> QED
      BY <1>l, <2>1, <2>2
  <1> QED
    BY <1>1, <1>2, <1>3
\* An update touches the request that commits it and no other; only a start
\* leaves a worker behind.
LEMMA HoldsFacts ==
    ASSUME TypeOK, NEW c \in CaseIds, NEW p \in Procs, NEW action \in Actions,
           NEW run \in Nat, NEW before \in Nat, Holds(c, p, action, run, before)
    PROVE  /\ \A q \in Procs : q # p => req'[q] = req[q]
           /\ action = "created" => req'[p] = req[p]
           /\ action = "started" => /\ req'[p].pc = "running"
                                    /\ req'[p].case = c
                                    /\ req'[p].item = req[p].item + 1
           /\ action \notin {"created", "started"} => req'[p].pc \in {"idle", "reload"}
  <1>1. Idle.pc = "idle"
    BY DEF Idle
  <1>2. req[p] \in Request
    BY DEF TypeOK
  <1>3. CASE action = "started"
    BY <1>2, <1>3 DEF Holds, TypeOK, Request
  <1>4. CASE action = "recovered"
    BY <1>2, <1>4 DEF Holds, TypeOK, Request
  <1>5. CASE action = "created"
    BY <1>5 DEF Holds
  <1>6. CASE action \notin {"created", "started", "recovered"}
    BY <1>1, <1>6 DEF Holds, TypeOK, Returns
  <1> QED
    BY <1>3, <1>4, <1>5, <1>6

\* Workers keep the entries they own, and no two own the same.
LEMMA WorkersStep ==
    ASSUME TypeOK, ReqOK, AuditComplete, Workers, RunReportsOnce, Commits
    PROVE  Workers'
  <1> PICK c \in CaseIds, p \in Procs, action \in Actions, run \in Nat, before \in Nat :
        /\ Updates(c, p, action, run)
        /\ Log(c, p, action, run, before)
        /\ Holds(c, p, action, run, before)
    BY DEF Commits
  <1> DEFINE n == Len(audits[c])
  <1>g. Grown(c, p, action, run, before)
    BY LogFacts
  <1>l. /\ n \in Nat
        /\ Len(audits'[c]) = n + 1
        /\ DOMAIN audits'[c] = 1 .. (n + 1) /\ DOMAIN audits[c] = 1 .. n
        /\ \A i \in 1 .. n : audits'[c][i] = audits[c][i]
        /\ audits'[c][n + 1].action = action
        /\ audits'[c][n + 1].actor = p
        /\ audits'[c][n + 1].run = run
        /\ \A d \in CaseIds : d # c => audits'[d] = audits[d]
    BY <1>g DEF Grown
  <1>h. /\ \A q \in Procs : q # p => req'[q] = req[q]
        /\ action = "created" => req'[p] = req[p]
        /\ action = "started" => /\ req'[p].pc = "running"
                                 /\ req'[p].case = c
                                 /\ req'[p].item = req[p].item + 1
        /\ action \notin {"created", "started"} => req'[p].pc \in {"idle", "reload"}
    BY HoldsFacts
  <1> SUFFICES ASSUME NEW q \in Procs, req'[q].pc = "running"
               PROVE  Owns(q, req'[q].item, audits'[req'[q].case])
    BY DEF Workers
  <1>1. CASE q = p /\ action = "started"
    <2>1. req'[q].item = n + 1 /\ req'[q].case = c
      BY <1>1, <1>h DEF Holds, AuditComplete
    <2>2. \A i \in 1 .. n : Outcome(audits[c][i].action) => audits[c][i].run \in 1 .. (i - 1)
      BY <1>l DEF RunReportsOnce
    <2>3. ~ Outcome(action)
      BY <1>1 DEF Outcome
    <2>4. ASSUME NEW i \in 1 .. (n + 1), Outcome(audits'[c][i].action)
          PROVE  audits'[c][i].run # n + 1
      <3>1. i \in 1 .. n
        BY <1>l, <2>3, <2>4
      <3>2. audits'[c][i].run \in 1 .. (i - 1)
        BY <1>l, <2>2, <2>4, <3>1
      <3> QED
        BY <1>l, <3>1, <3>2
    <2>5. n + 1 \in 1 .. (n + 1)
      BY <1>l
    <2>6. Owns(q, n + 1, audits'[c])
      BY <1>1, <1>l, <2>4, <2>5 DEF Owns
    <2> QED
      BY <2>1, <2>6
  <1>2. CASE req'[q] = req[q]
    <2> DEFINE d == req[q].case
    <2>1. d \in CaseIds
      BY <1>2 DEF ReqOK
    <2>o. Owns(q, req[q].item, audits[d])
      BY <1>2 DEF Workers
    <2>2. /\ req[q].item \in 1 .. Len(audits[d])
          /\ audits[d][req[q].item].action = "started"
          /\ audits[d][req[q].item].actor = q
          /\ \A i \in 1 .. Len(audits[d]) :
                Outcome(audits[d][i].action) => audits[d][i].run # req[q].item
      BY <2>o DEF Owns
    <2>3. CASE d # c
      BY <1>2, <1>l, <2>1, <2>o, <2>3
    <2>4. CASE d = c
      <3>1. Outcome(action) => run # req[q].item
        <4> SUFFICES ASSUME Outcome(action), run = req[q].item PROVE FALSE
          OBVIOUS
        <4>1. req[p].pc = "running" /\ req[p].case = c /\ req[p].item = req[q].item
          BY DEF Holds, Outcome
        <4>2. audits[c][req[p].item].actor = p
          BY <4>1 DEF Workers, Owns
        <4>3. p = q
          BY <2>2, <2>4, <4>1, <4>2
        <4>4. req'[p].pc \in {"idle", "reload"}
          BY <1>h DEF Outcome
        <4> QED
          BY <4>3, <4>4
      <3>2. ASSUME NEW i \in 1 .. (n + 1), Outcome(audits'[c][i].action)
            PROVE  audits'[c][i].run # req[q].item
        <4>1. CASE i = n + 1
          BY <1>l, <3>1, <3>2, <4>1
        <4>2. CASE i # n + 1
          <5>1. i \in 1 .. n
            BY <1>l, <4>2
          <5> QED
            BY <1>l, <2>2, <2>4, <3>2, <5>1
        <4> QED
          BY <4>1, <4>2
      <3>3. req'[q].item = req[q].item /\ req'[q].case = c
        BY <1>2, <2>4
      <3>4. req[q].item \in 1 .. n
        BY <2>2, <2>4
      <3> HIDE DEF d, n
      <3>5. /\ Len(audits'[c]) = n + 1 /\ req[q].item \in 1 .. (n + 1)
            /\ audits'[c][req[q].item] = audits[c][req[q].item]
        <4> DEFINE m == req[q].item
        <4>1. m \in 1 .. n
          BY <3>4
        <4> HIDE DEF m
        <4>2. m \in 1 .. (n + 1) /\ audits'[c][m] = audits[c][m]
          BY <1>l, <4>1
        <4> QED
          BY <1>l, <4>2 DEF m
      <3>6. audits'[c][req[q].item].action = "started" /\ audits'[c][req[q].item].actor = q
        BY <2>2, <2>4, <3>5
      <3>7. Owns(q, req[q].item, audits'[c])
        BY <3>2, <3>5, <3>6 DEF Owns
      <3> QED
        BY <3>3, <3>7
    <2> QED
      BY <2>3, <2>4
  <1> QED
    BY <1>1, <1>2, <1>h

\* A run's only outcome is the one its worker logs.
LEMMA ReportsStep ==
    ASSUME TypeOK, ReqOK, Workers, RunReportsOnce, Commits
    PROVE  RunReportsOnce'
  <1> PICK c \in CaseIds, p \in Procs, action \in Actions, run \in Nat, before \in Nat :
        /\ Updates(c, p, action, run)
        /\ Log(c, p, action, run, before)
        /\ Holds(c, p, action, run, before)
    BY DEF Commits
  <1> DEFINE n == Len(audits[c])
  <1>g. Grown(c, p, action, run, before)
    BY LogFacts
  <1>l. /\ n \in Nat
        /\ DOMAIN audits'[c] = 1 .. (n + 1) /\ DOMAIN audits[c] = 1 .. n
        /\ \A i \in 1 .. n : audits'[c][i] = audits[c][i]
        /\ audits'[c][n + 1].action = action
        /\ audits'[c][n + 1].actor = p
        /\ audits'[c][n + 1].run = run
        /\ \A d \in CaseIds : d # c => audits'[d] = audits[d]
    BY <1>g DEF Grown
  <1>w. Outcome(action) =>
           /\ run \in 1 .. n
           /\ audits[c][run].action = "started"
           /\ audits[c][run].actor = p
           /\ \A i \in 1 .. n : Outcome(audits[c][i].action) => audits[c][i].run # run
    BY DEF Holds, Outcome, Workers, Owns
  <1> DEFINE Reported(trail, i) ==
        /\ trail[i].run \in 1 .. (i - 1)
        /\ trail[trail[i].run].action = "started"
        /\ trail[trail[i].run].actor = trail[i].actor
        /\ \A j \in DOMAIN trail :
              Outcome(trail[j].action) /\ j # i => trail[j].run # trail[i].run
  <1>1. ASSUME NEW i \in 1 .. (n + 1), Outcome(audits'[c][i].action)
        PROVE  Reported(audits'[c], i)
    <2>1. CASE i = n + 1
      <3>1. /\ audits'[c][i].run = run /\ run \in 1 .. n
            /\ audits[c][run].action = "started" /\ audits[c][run].actor = p
            /\ audits'[c][i].actor = p
        BY <1>1, <1>l, <1>w, <2>1
      <3>2. /\ audits'[c][run].action = "started"
            /\ audits'[c][run].actor = p
            /\ run \in 1 .. (i - 1)
        BY <1>l, <2>1, <3>1
      <3>3. ASSUME NEW j \in 1 .. (n + 1), Outcome(audits'[c][j].action), j # i
            PROVE  audits'[c][j].run # run
        <4>1. j \in 1 .. n
          BY <1>l, <2>1, <3>3
        <4> QED
          BY <1>1, <1>l, <1>w, <2>1, <3>3, <4>1
      <3> QED
        BY <1>l, <3>1, <3>2, <3>3
    <2>2. CASE i # n + 1
      <3>1. i \in 1 .. n /\ audits'[c][i] = audits[c][i]
        BY <1>l, <2>2
      <3>2. Reported(audits[c], i)
        BY <1>1, <1>l, <3>1 DEF RunReportsOnce
      <3>3. audits'[c][i].run \in 1 .. (i - 1) /\ audits'[c][i].run \in 1 .. n
        BY <1>l, <3>1, <3>2
      <3>4. /\ audits'[c][audits'[c][i].run].action = "started"
            /\ audits'[c][audits'[c][i].run].actor = audits'[c][i].actor
        BY <1>l, <3>1, <3>2, <3>3
      <3>5. ASSUME NEW j \in 1 .. (n + 1), Outcome(audits'[c][j].action), j # i
            PROVE  audits'[c][j].run # audits'[c][i].run
        <4>1. CASE j = n + 1
          BY <1>1, <1>l, <1>w, <3>1, <3>5, <4>1
        <4>2. CASE j # n + 1
          <5>1. j \in 1 .. n
            BY <1>l, <4>2
          <5> QED
            BY <1>l, <3>1, <3>2, <3>5, <5>1
        <4> QED
          BY <4>1, <4>2
      <3> QED
        BY <1>l, <3>3, <3>4, <3>5
    <2> QED
      BY <2>1, <2>2
  <1>2. ASSUME NEW d \in CaseIds, NEW i \in DOMAIN audits'[d], Outcome(audits'[d][i].action)
        PROVE  Reported(audits'[d], i)
    <2>1. CASE d = c
      BY <1>1, <1>2, <1>l, <2>1
    <2>2. CASE d # c
      <3>1. audits'[d] = audits[d]
        BY <1>l, <2>2
      <3>2. Reported(audits[d], i)
        BY <1>2, <3>1 DEF RunReportsOnce
      <3> QED
        BY <3>1, <3>2
    <2> QED
      BY <2>1, <2>2
  <1> QED
    BY <1>2 DEF RunReportsOnce
\* A reviewer's request holds no newer version than the row's, and a logged
\* before-image is the version it replaced.
LEMMA EchoesStep ==
    ASSUME TypeOK, ReqOK, AuditComplete, Echoes, BeforeImageAccurate, Commits
    PROVE  Echoes' /\ BeforeImageAccurate'
  <1> PICK c \in CaseIds, p \in Procs, action \in Actions, run \in Nat, before \in Nat :
        /\ Updates(c, p, action, run)
        /\ Log(c, p, action, run, before)
        /\ Holds(c, p, action, run, before)
    BY DEF Commits
  <1> DEFINE n == Len(audits[c])
  <1>g. Grown(c, p, action, run, before)
    BY LogFacts
  <1>l. /\ n \in Nat
        /\ DOMAIN audits'[c] = 1 .. (n + 1) /\ DOMAIN audits[c] = 1 .. n
        /\ \A i \in 1 .. n : audits'[c][i] = audits[c][i]
        /\ audits'[c][n + 1].action = action
        /\ audits'[c][n + 1].before = before
        /\ \A d \in CaseIds : d # c => audits'[d] = audits[d]
    BY <1>g DEF Grown
  <1>h. /\ \A q \in Procs : q # p => req'[q] = req[q]
        /\ action = "created" => req'[p] = req[p]
        /\ action = "started" => req'[p].pc = "running"
        /\ action \notin {"created", "started"} => req'[p].pc \in {"idle", "reload"}
    BY HoldsFacts
  <1>v. /\ \A d \in CaseIds : cases[d].version \in Nat
        /\ cases'[c].version = cases[c].version + 1
        /\ \A d \in CaseIds : d # c => cases'[d] = cases[d]
    BY DEF Updates, Writes, TypeOK, Row
  <1>1. Echoes'
    <2> SUFFICES ASSUME NEW q \in Procs, req'[q].pc \in {"confirm", "close"}
                 PROVE  /\ MayReview(q)
                        /\ req'[q].version <= req'[q].item
                        /\ req'[q].item <= cases'[req'[q].case].version
      BY DEF Echoes, MayReview
    <2>1. req'[q] = req[q]
      BY <1>h
    <2>2. req[q].case \in CaseIds /\ req[q].item \in Nat
      BY <2>1 DEF ReqOK, TypeOK, Request
    <2>3. /\ MayReview(q)
          /\ req[q].version <= req[q].item
          /\ req[q].item <= cases[req[q].case].version
      BY <2>1 DEF Echoes
    <2>4. cases[req[q].case].version <= cases'[req[q].case].version
      BY <1>v, <2>2
    <2> QED
      BY <1>v, <2>1, <2>2, <2>3, <2>4
  <1>2. BeforeImageAccurate'
    <2>1. action \in {"confirmed", "closed"} => before = n
      <3> SUFFICES ASSUME action \in {"confirmed", "closed"} PROVE before = n
        OBVIOUS
      <3>1. /\ req[p].pc \in {"confirm", "close"} /\ req[p].case = c
            /\ req[p].version = cases[c].version /\ before = req[p].item
        BY DEF Holds
      <3>2. req[p].version <= req[p].item /\ req[p].item <= cases[c].version
        BY <3>1 DEF Echoes
      <3>3. cases[c].version = n
        BY DEF AuditComplete
      <3> QED
        BY <1>v, <3>1, <3>2, <3>3
    <2>2. ASSUME NEW d \in CaseIds, NEW i \in DOMAIN audits'[d],
                 audits'[d][i].action \in {"confirmed", "closed"}
          PROVE  audits'[d][i].before = i - 1
      <3>1. CASE d = c /\ i = n + 1
        BY <1>l, <2>1, <2>2, <3>1
      <3>2. CASE d = c /\ i # n + 1
        <4>1. i \in 1 .. n
          BY <1>l, <2>2, <3>2
        <4> QED
          BY <1>l, <2>2, <3>2, <4>1 DEF BeforeImageAccurate
      <3>3. CASE d # c
        BY <1>l, <2>2, <3>3 DEF BeforeImageAccurate
      <3> QED
        BY <3>1, <3>2, <3>3
    <2> QED
      BY <2>2 DEF BeforeImageAccurate
  <1> QED
    BY <1>1, <1>2

\* The columns keep to the stage of the case.
LEMMA StagesStep ==
    ASSUME TypeOK, AuditComplete, AbsentOK, Stages, ErrorMatchesStatus, Commits
    PROVE  Stages' /\ ErrorMatchesStatus'
  <1> PICK c \in CaseIds, p \in Procs, action \in Actions, run \in Nat, before \in Nat :
        Updates(c, p, action, run)
    BY DEF Commits
  <1>1. /\ cases[c].status = From(action)
        /\ Writes(cases[c], cases'[c], p, action, run)
        /\ \A d \in CaseIds : d # c => cases'[d] = cases[d]
    BY DEF Updates, TypeOK
  <1>2. cases[c].version \in Nat /\ None # run /\ None # p
    BY CaseAssumption DEF TypeOK, Row
  <1>3. cases[c].status = "absent" <=> cases[c].version = 0
    <2>1. audits[c] \in Seq(Entry)
      BY DEF TypeOK
    <2>2. audits[c] = <<>> <=> Len(audits[c]) = 0
      BY <2>1, LenProperties
    <2>3. audits[c] # <<>> => audits[c][Len(audits[c])].action \in Actions
      <3> SUFFICES ASSUME audits[c] # <<>> PROVE audits[c][Len(audits[c])].action \in Actions
        OBVIOUS
      <3>1. Len(audits[c]) \in 1 .. Len(audits[c])
        BY <2>1, <2>2, LenProperties
      <3>2. audits[c][Len(audits[c])] \in Entry
        BY <2>1, <3>1, ElementOfSeq, Zenon
      <3> QED
        BY <3>2 DEF Entry, Actions
    <2>4. \A a \in Actions : StatusAfter(a) # "absent"
      BY DEF Actions, StatusAfter
    <2> QED
      BY <2>2, <2>3, <2>4 DEF AuditComplete
  <1>4. Stages'
    <2>1. /\ cases'[c].result # None <=>
                cases'[c].status \in {"pending_review", "confirmed", "closed"}
          /\ cases'[c].reviewer # None <=> cases'[c].status \in {"confirmed", "closed"}
      BY <1>1, <1>2 DEF Stages, Writes, From, StatusAfter, Actions
    <2> QED
      BY <1>1, <2>1 DEF Stages
  <1>5. ErrorMatchesStatus'
    <2>1. cases'[c].error # "none" <=> cases'[c].status = "draft" /\ cases'[c].version > 1
      BY <1>1, <1>2, <1>3 DEF ErrorMatchesStatus, Writes, From, StatusAfter, Actions
    <2> QED
      BY <1>1, <2>1 DEF ErrorMatchesStatus
  <1> QED
    BY <1>4, <1>5

\* Results and signatures come from entries of the trail.
LEMMA ResultStep ==
    ASSUME TypeOK, Echoes, ResultFromTrail, Commits
    PROVE  ResultFromTrail'
  <1> PICK c \in CaseIds, p \in Procs, action \in Actions, run \in Nat, before \in Nat :
        /\ Updates(c, p, action, run)
        /\ Log(c, p, action, run, before)
        /\ Holds(c, p, action, run, before)
    BY DEF Commits
  <1> DEFINE n == Len(audits[c])
  <1>g. Grown(c, p, action, run, before)
    BY LogFacts
  <1>l. /\ n \in Nat
        /\ DOMAIN audits'[c] = 1 .. (n + 1) /\ DOMAIN audits[c] = 1 .. n
        /\ \A i \in 1 .. n : audits'[c][i] = audits[c][i]
        /\ audits'[c][n + 1].action = action
        /\ audits'[c][n + 1].actor = p
        /\ audits'[c][n + 1].run = run
        /\ \A d \in CaseIds : d # c => audits'[d] = audits[d]
    BY <1>g DEF Grown
  <1>1. /\ cases[c].status = From(action)
        /\ Writes(cases[c], cases'[c], p, action, run)
        /\ \A d \in CaseIds : d # c => cases'[d] = cases[d]
    BY DEF Updates, TypeOK
  <1>2. None # run /\ None # p
    BY CaseAssumption
  <1>3. action = "confirmed" => RoleOf[p] # "analyst"
    BY DEF Holds, Echoes, MayReview
  <1>4. cases'[c].result # None <=>
            \E i \in 1 .. (n + 1) : audits'[c][i].action = "completed"
                                 /\ audits'[c][i].run = cases'[c].result
    <2>1. CASE action = "completed"
      <3>1. cases'[c].result = run
        BY <1>1, <2>1 DEF Writes
      <3>2. n + 1 \in 1 .. (n + 1)
        BY <1>l
      <3> QED
        BY <1>l, <1>2, <2>1, <3>1, <3>2
    <2>2. CASE action # "completed"
      <3>1. cases'[c].result = cases[c].result
        BY <1>1, <2>2 DEF Writes
      <3>2. cases[c].result # None <=>
              \E i \in 1 .. n : audits[c][i].action = "completed"
                             /\ audits[c][i].run = cases[c].result
        BY <1>l DEF ResultFromTrail
      <3>3. \A i \in 1 .. (n + 1) : i \in 1 .. n \/ i = n + 1
        BY <1>l
      <3>4. \A i \in 1 .. n : i \in 1 .. (n + 1)
        BY <1>l
      <3> QED
        BY <1>l, <2>2, <3>1, <3>2, <3>3, <3>4
    <2> QED
      BY <2>1, <2>2
  <1>5. /\ cases'[c].estimate = "analysis" => cases'[c].status = "pending_review"
        /\ cases'[c].estimate = "reviewer" <=> cases'[c].status \in {"confirmed", "closed"}
    <2>1. /\ cases[c].estimate = "analysis" => cases[c].status = "pending_review"
          /\ cases[c].estimate = "reviewer" <=> cases[c].status \in {"confirmed", "closed"}
      BY DEF ResultFromTrail
    <2> QED
      BY <1>1, <2>1 DEF Writes, From, StatusAfter, Actions
  <1>6. cases'[c].reviewer # None <=>
            \E i \in 1 .. (n + 1) : audits'[c][i].action = "confirmed"
                                 /\ audits'[c][i].actor = cases'[c].reviewer
                                 /\ RoleOf[cases'[c].reviewer] # "analyst"
    <2>1. CASE action = "confirmed"
      <3>1. cases'[c].reviewer = p
        BY <1>1, <2>1 DEF Writes
      <3>2. n + 1 \in 1 .. (n + 1)
        BY <1>l
      <3> QED
        BY <1>l, <1>2, <1>3, <2>1, <3>1, <3>2
    <2>2. CASE action # "confirmed"
      <3>1. cases'[c].reviewer = cases[c].reviewer
        BY <1>1, <2>2 DEF Writes
      <3>2. cases[c].reviewer # None <=>
              \E i \in 1 .. n : audits[c][i].action = "confirmed"
                             /\ audits[c][i].actor = cases[c].reviewer
                             /\ RoleOf[cases[c].reviewer] # "analyst"
        BY <1>l DEF ResultFromTrail
      <3>3. \A i \in 1 .. (n + 1) : i \in 1 .. n \/ i = n + 1
        BY <1>l
      <3>4. \A i \in 1 .. n : i \in 1 .. (n + 1)
        BY <1>l
      <3> QED
        BY <1>l, <2>2, <3>1, <3>2, <3>3, <3>4
    <2> QED
      BY <2>1, <2>2
  <1>7. ASSUME NEW d \in CaseIds, d # c
        PROVE  cases'[d] = cases[d] /\ audits'[d] = audits[d]
    BY <1>1, <1>l, <1>7
  <1> DEFINE Sound(row, trail) ==
        /\ row.result # None <=>
              \E i \in DOMAIN trail : trail[i].action = "completed"
                                   /\ trail[i].run = row.result
        /\ row.estimate = "analysis" => row.status = "pending_review"
        /\ row.estimate = "reviewer" <=> row.status \in {"confirmed", "closed"}
        /\ row.reviewer # None <=>
              \E i \in DOMAIN trail : trail[i].action = "confirmed"
                                   /\ trail[i].actor = row.reviewer
                                   /\ RoleOf[row.reviewer] # "analyst"
  <1>8. Sound(cases'[c], audits'[c])
    BY <1>l, <1>4, <1>5, <1>6
  <1>9. \A d \in CaseIds : Sound(cases[d], audits[d])
    BY DEF ResultFromTrail
  <1>10. \A d \in CaseIds : Sound(cases'[d], audits'[d])
    BY <1>7, <1>8, <1>9
  <1> QED
    BY <1>10 DEF ResultFromTrail

\* A step that writes nothing the properties speak of keeps the invariant.
LEMMA QuietStep ==
    ASSUME IInv, TypeOK', ReqOK', Quiet
    PROVE  IInv'
  <1>a. audits' = audits /\ \A c \in CaseIds : SameRow(cases[c], cases'[c])
    BY DEF Quiet
  <1>1. AbsentOK'
    BY DEF IInv, AbsentOK, Quiet, SameRow
  <1>2. AuditComplete' /\ TrailLegal' /\ RunReportsOnce' /\ BeforeImageAccurate'
    BY <1>a DEF IInv, AuditComplete, TrailLegal, RunReportsOnce, BeforeImageAccurate, SameRow
  <1>3. Stages' /\ ErrorMatchesStatus' /\ ResultFromTrail'
    BY <1>a DEF IInv, Stages, ErrorMatchesStatus, ResultFromTrail, SameRow
  <1>4. Workers'
    <2>1. \A q \in Procs : req'[q].pc = "running" => req'[q] = req[q]
      BY DEF Quiet, Reads
    <2>2. Workers
      BY DEF IInv
    <2> QED
      BY <1>a, <2>1, <2>2 DEF Workers
  <1>5. Echoes'
    <2> SUFFICES ASSUME NEW q \in Procs, req'[q].pc \in {"confirm", "close"}
                 PROVE  /\ MayReview(q)
                        /\ req'[q].version <= req'[q].item
                        /\ req'[q].item <= cases'[req'[q].case].version
      BY DEF Echoes, MayReview
    <2>1. req'[q].case \in CaseIds
      BY DEF ReqOK
    <2>2. cases'[req'[q].case].version = cases[req'[q].case].version
      BY <1>a, <2>1 DEF SameRow
    <2>3. cases[req'[q].case].version \in Nat
      BY <2>1 DEF IInv, TypeOK, Row
    <2>4. Reads(q)
      BY DEF Quiet
    <2>5. CASE req'[q] = req[q]
      BY <2>2, <2>5 DEF IInv, Echoes
    <2>6. CASE /\ MayReview(q)
               /\ req'[q].item = cases[req'[q].case].version
               /\ req'[q].version \in 1 .. cases[req'[q].case].version
      BY <2>2, <2>3, <2>6
    <2> QED
      BY <2>4, <2>5, <2>6 DEF Reads
  <1> QED
    BY <1>1, <1>2, <1>3, <1>4, <1>5 DEF IInv

\* The invariant holds of the empty tables.
LEMMA InitInv == Init => IInv
  <1> SUFFICES ASSUME Init PROVE IInv
    OBVIOUS
  <1>1. TypeOK /\ ReqOK
    BY InitType
  <1>2. \A c \in CaseIds : cases[c] = NoRow /\ audits[c] = <<>>
    BY DEF Init
  <1>3. \A p \in Procs : req[p].pc = "idle"
    BY DEF Init, Idle
  <1>4. /\ NoRow.status = "absent" /\ NoRow.version = 0 /\ NoRow.error = "none"
        /\ NoRow.result = None /\ NoRow.estimate = None /\ NoRow.reviewer = None
    BY DEF NoRow
  <1>5. None \notin {"analysis", "reviewer"}
    BY CaseAssumption
  <1> QED
    BY <1>1, <1>2, <1>3, <1>4, <1>5
       DEF IInv, AbsentOK, AuditComplete, TrailLegal, Workers, Echoes, Stages,
           RunReportsOnce, BeforeImageAccurate, ResultFromTrail, ErrorMatchesStatus

\* Every step keeps it.
LEMMA NextInv == IInv /\ [Next]_vars => IInv'
  <1> SUFFICES ASSUME IInv, [Next]_vars PROVE IInv'
    OBVIOUS
  <1>1. TypeOK' /\ ReqOK'
    BY NextType DEF IInv
  <1>2. CASE Commits
    BY <1>1, <1>2, TrailStep, WorkersStep, ReportsStep, EchoesStep, StagesStep, ResultStep
       DEF IInv
  <1>3. CASE Quiet
    BY <1>1, <1>3, QuietStep
  <1> QED
    BY <1>2, <1>3, NextShape DEF IInv

\* The inductive invariant.
THEOREM Invariance == Spec => []IInv
  BY InitInv, NextInv, PTL DEF Spec
----------------------------------------------------------------------------
(* What follows from the invariant.                                        *)

\* The localization_cases rows, the requests and the audit entries always
\* have their shapes.
THEOREM TypesCorrect == Spec => []TypeOK
  BY Invariance, PTL DEF IInv

\* One audit entry per version of a case, and the last one tells its status.
THEOREM AuditTrailComplete == Spec => []AuditComplete
  BY Invariance, PTL DEF IInv

\* The audit trail of a case is a path through the workflow.
THEOREM AuditTrailLegal == Spec => []TrailLegal
  BY Invariance, PTL DEF IInv

\* No two workers on a case run under the same version.
THEOREM LeasesUnique == Spec => []LeaseUnique
  <1>1. IInv => LeaseUnique
    <2> SUFFICES ASSUME IInv, NEW p \in Procs, NEW q \in Procs, NEW c \in CaseIds,
                        Running(p, c), Running(q, c), req[p].item = req[q].item
                 PROVE  p = q
      BY DEF LeaseUnique
    <2>1. audits[c][req[p].item].actor = p
      BY DEF IInv, Workers, Owns, Running
    <2>2. audits[c][req[q].item].actor = q
      BY DEF IInv, Workers, Owns, Running
    <2> QED
      BY <2>1, <2>2
  <1> QED
    BY Invariance, <1>1, PTL

\* Every outcome in the trail is its run's only one, and its worker's own.
THEOREM OutcomesOnce == Spec => []RunReportsOnce
  BY Invariance, PTL DEF IInv

\* The before-images of confirmations and closings are the rows they replaced.
THEOREM BeforeImages == Spec => []BeforeImageAccurate
  BY Invariance, PTL DEF IInv

\* Results and signatures of a case come from its audit trail.
THEOREM ResultsFromTrail == Spec => []ResultFromTrail
  BY Invariance, PTL DEF IInv

\* A case carries an error exactly when it fell back to draft.
THEOREM ErrorsMatch == Spec => []ErrorMatchesStatus
  BY Invariance, PTL DEF IInv

\* No late worker changes a result under review, and nothing a closed case.
THEOREM ReviewedFrozen == Spec => ReviewedIsFrozen
  <1> DEFINE Frozen == \A c \in CaseIds :
          /\ cases[c].status \in {"pending_review", "confirmed", "closed"}
                => cases'[c].result = cases[c].result
          /\ cases[c].status = "closed" => cases'[c] = cases[c]
  <1>1. IInv /\ [Next]_vars => [Frozen]_vars
    <2> SUFFICES ASSUME IInv, [Next]_vars, NEW c \in CaseIds
                 PROVE  /\ cases[c].status \in {"pending_review", "confirmed", "closed"}
                              => cases'[c].result = cases[c].result
                        /\ cases[c].status = "closed" => cases'[c] = cases[c]
      OBVIOUS
    <2>1. CASE Commits
      <3> PICK d \in CaseIds, p \in Procs, action \in Actions, run \in Nat, before \in Nat :
            Updates(d, p, action, run)
        BY <2>1 DEF Commits
      <3>1. /\ cases[d].status = From(action)
            /\ Writes(cases[d], cases'[d], p, action, run)
            /\ c # d => cases'[c] = cases[c]
        BY DEF Updates, IInv, TypeOK
      <3> QED
        BY <3>1 DEF Writes, From, Actions
    <2>2. CASE Quiet
      BY <2>2 DEF Quiet, SameRow
    <2> QED
      BY <2>1, <2>2, NextShape DEF IInv
  <1> QED
    BY Invariance, <1>1, PTL DEF Spec, ReviewedIsFrozen
----------------------------------------------------------------------------
(* The handlers implement the workflow.                                    *)

Trace(trail) == [i \in DOMAIN trail |-> StatusAfter(trail[i].action)]

\* The statuses along a trail form a sequence, and logging extends it.
LEMMA TraceFacts ==
    ASSUME TypeOK, NEW c \in CaseIds, NEW p \in Procs, NEW action \in Actions,
           NEW run \in Nat, NEW before \in Nat, Log(c, p, action, run, before)
    PROVE  /\ Len(Trace(audits[c])) = Len(audits[c])
           /\ Trace(audits'[c]) = Append(Trace(audits[c]), StatusAfter(action))
  <1> DEFINE n == Len(audits[c])
             S == {StatusAfter(a) : a \in Actions}
  <1>g. Grown(c, p, action, run, before)
    BY LogFacts
  <1>l. /\ n \in Nat /\ audits[c] \in Seq(Entry)
        /\ Len(audits'[c]) = n + 1
        /\ DOMAIN audits'[c] = 1 .. (n + 1) /\ DOMAIN audits[c] = 1 .. n
        /\ \A i \in 1 .. n : audits'[c][i] = audits[c][i]
        /\ audits'[c][n + 1].action = action
    BY <1>g DEF Grown
  <1>1. \A i \in 1 .. n : StatusAfter(audits[c][i].action) \in S
    <2> TAKE i \in 1 .. n
    <2>1. audits[c][i] \in Entry
      BY <1>l, ElementOfSeq, Zenon
    <2> QED
      BY <2>1 DEF Entry, Actions
  <1>2. StatusAfter(action) \in S
    OBVIOUS
  <1> DEFINE h == Trace(audits[c])
             g == Trace(audits'[c])
  <1> HIDE DEF S
  <1>3. /\ DOMAIN h = 1 .. n
        /\ h \in [1 .. n -> S]
        /\ \A i \in 1 .. n : h[i] = StatusAfter(audits[c][i].action)
    BY <1>1, <1>l DEF Trace
  <1>4. /\ DOMAIN g = 1 .. (n + 1)
        /\ \A i \in 1 .. n : g[i] = h[i]
        /\ g[n + 1] = StatusAfter(action)
        /\ g = [i \in 1 .. (n + 1) |-> g[i]]
    BY <1>3, <1>l DEF Trace
  <1> HIDE DEF h, g
  <1>5. g \in [1 .. (n + 1) -> S]
    <2>1. ASSUME NEW i \in 1 .. (n + 1) PROVE g[i] \in S
      <3>1. CASE i = n + 1
        BY <1>2, <1>4, <3>1
      <3>2. CASE i # n + 1
        <4>1. i \in 1 .. n
          BY <1>l, <3>2
        <4> QED
          BY <1>3, <1>4, <4>1
      <3> QED
        BY <3>1, <3>2
    <2> QED
      BY <1>4, <2>1
  <1>6. h \in Seq(S) /\ Len(h) = n
    BY <1>3, <1>l
  <1>7. g \in Seq(S) /\ Len(g) = n + 1
    BY <1>5, <1>l
  <1>8. /\ Append(h, StatusAfter(action)) \in Seq(S)
        /\ Len(Append(h, StatusAfter(action))) = n + 1
        /\ \A i \in 1 .. n : Append(h, StatusAfter(action))[i] = h[i]
        /\ Append(h, StatusAfter(action))[n + 1] = StatusAfter(action)
    BY <1>2, <1>6, AppendProperties
  <1>9. ASSUME NEW i \in 1 .. (n + 1) PROVE g[i] = Append(h, StatusAfter(action))[i]
    <2>1. CASE i = n + 1
      BY <1>4, <1>8, <2>1
    <2>2. CASE i # n + 1
      <3>1. i \in 1 .. n
        BY <1>l, <2>2
      <3> QED
        BY <1>4, <1>8, <3>1
    <2> QED
      BY <2>1, <2>2
  <1>10. g = Append(h, StatusAfter(action))
    BY <1>7, <1>8, <1>9, SeqEqual
  <1> QED
    BY <1>6, <1>10 DEF h, g

\* The people the abstract workflow lets confirm a case.
Signers == {p \in Procs : RoleOf[p] # "analyst"}

\* The empty tables are the empty workflow.
LEMMA RefinesInit == Init => Workflow!Init
  <1> SUFFICES ASSUME Init PROVE Workflow!Init
    OBVIOUS
  <1>1. \A c \in CaseIds : cases[c] = NoRow /\ audits[c] = <<>>
    BY DEF Init
  <1>2. NoRow.status = "absent" /\ NoRow.result = None /\ NoRow.reviewer = None
    BY DEF NoRow
  <1>3. [i \in DOMAIN <<>> |-> StatusAfter(<<>>[i].action)] = <<>>
    OBVIOUS
  <1> QED
    BY <1>1, <1>2, <1>3 DEF Workflow!Init, Workflow!Absent

\* A logged update is one move of the workflow.
LEMMA RefinesCommit == IInv /\ IInv' /\ Commits => Workflow!Next
  <1> SUFFICES ASSUME IInv, IInv', Commits PROVE Workflow!Next
    OBVIOUS
  <1> PICK c \in CaseIds, p \in Procs, action \in Actions, run \in Nat, before \in Nat :
        /\ Updates(c, p, action, run)
        /\ Log(c, p, action, run, before)
        /\ Holds(c, p, action, run, before)
    BY DEF Commits
  <1> DEFINE status == [d \in CaseIds |-> cases[d].status]
             history == [d \in CaseIds |-> Trace(audits[d])]
             result == [d \in CaseIds |-> cases[d].result]
             reviewer == [d \in CaseIds |-> cases[d].reviewer]
             to == StatusAfter(action)
  <1>1. /\ cases[c].status = From(action)
        /\ Writes(cases[c], cases'[c], p, action, run)
        /\ \A d \in CaseIds : d # c => cases'[d] = cases[d]
    BY DEF Updates, IInv, TypeOK
  <1>g. Grown(c, p, action, run, before)
    BY LogFacts DEF IInv
  <1>2. /\ Trace(audits'[c]) = Append(Trace(audits[c]), to)
        /\ Len(Trace(audits[c])) = Len(audits[c])
        /\ \A d \in CaseIds : d # c => audits'[d] = audits[d]
    BY <1>g, TraceFacts DEF IInv, Grown
  <1>3. status' = [status EXCEPT ![c] = to]
    BY <1>1 DEF Writes
  <1>4. history' = [history EXCEPT ![c] = Append(@, to)]
    BY <1>2
  <1>5. /\ action # "completed" => result' = result
        /\ action = "completed" => result' = [result EXCEPT ![c] = run]
    BY <1>1 DEF Writes
  <1>6. /\ action # "confirmed" => reviewer' = reviewer
        /\ action = "confirmed" => reviewer' = [reviewer EXCEPT ![c] = p]
    BY <1>1 DEF Writes
  <1>7. Workflow!Goes(c, to)
    BY <1>3, <1>4 DEF Workflow!Goes, Trace
  <1> USE DEF Workflow!Absent
  <1>8. CASE action = "created"
    BY <1>1, <1>5, <1>6, <1>7, <1>8
       DEF From, StatusAfter, Workflow!Next, Workflow!Open
  <1>9. CASE action = "started"
    BY <1>1, <1>5, <1>6, <1>7, <1>9
       DEF From, StatusAfter, Workflow!Next, Workflow!Begin, Workflow!CanTransition
  <1>10. CASE action \in {"recovered", "failed"}
    BY <1>1, <1>5, <1>6, <1>7, <1>10
       DEF From, StatusAfter, Workflow!Next, Workflow!GiveUp, Workflow!CanTransition
  <1>11. CASE action = "completed"
    <2>1. /\ run \in 1 .. Len(audits[c])
          /\ audits[c][run].action = "started"
      BY <1>11 DEF Holds, Outcome, IInv, Workers, Owns
    <2>2. cases[c].status = "analyzing" /\ cases[c].result = None
      BY <1>1, <1>11 DEF From, IInv, Stages
    <2>3. DOMAIN audits[c] = 1 .. Len(audits[c])
      BY <1>g DEF Grown
    <2>4. history[c][run] = "analyzing"
      BY <2>1, <2>3 DEF Trace, StatusAfter
    <2>5. Workflow!Report(c, run)
      BY <1>5, <1>6, <1>7, <1>11, <2>2, <2>4
         DEF StatusAfter, Workflow!Report, Workflow!CanTransition, Trace
    <2>6. run \in 1 .. Len(history[c])
      BY <1>2, <2>1
    <2> QED
      BY <2>5, <2>6 DEF Workflow!Next, Trace
  <1>12. CASE action = "confirmed"
    <2>1. p \in Signers
      BY <1>12 DEF Holds, IInv, Echoes, MayReview, Signers
    <2>2. cases[c].status = "pending_review" /\ cases[c].result # None
      BY <1>1, <1>12 DEF From, IInv, Stages
    <2>3. Workflow!Sign(c, p)
      BY <1>5, <1>6, <1>7, <1>12, <2>2
         DEF StatusAfter, Workflow!Sign, Workflow!CanTransition
    <2> QED
      BY <2>1, <2>3 DEF Workflow!Next, Signers
  <1>13. CASE action = "closed"
    <2>1. cases[c].status = "confirmed" /\ cases[c].reviewer # None
      BY <1>1, <1>13 DEF From, IInv, Stages
    <2> QED
      BY <1>5, <1>6, <1>7, <1>13, <2>1
         DEF StatusAfter, Workflow!Next, Workflow!Archive, Workflow!CanTransition
  <1> QED
    BY <1>8, <1>9, <1>10, <1>11, <1>12, <1>13 DEF Actions

\* Any other step does not move it.
LEMMA RefinesQuiet == Quiet => UNCHANGED Workflow!wvars
  <1> SUFFICES ASSUME Quiet PROVE UNCHANGED Workflow!wvars
    OBVIOUS
  <1>1. audits' = audits /\ \A c \in CaseIds : SameRow(cases[c], cases'[c])
    BY DEF Quiet
  <1> QED
    BY <1>1 DEF SameRow, Workflow!wvars

\* The concurrent, crash-prone handlers implement the sequential workflow:
\* the audit trail is its history.
THEOREM HandlersImplementWorkflow == Spec => ImplementsWorkflow
  <1>1. Init => Workflow!Init
    BY RefinesInit
  <1>2. IInv /\ IInv' /\ [Next]_vars => [Workflow!Next]_(Workflow!wvars)
    BY RefinesCommit, RefinesQuiet, NextShape DEF IInv
  <1> QED
    BY Invariance, <1>1, <1>2, PTL DEF Spec, ImplementsWorkflow, Workflow!WorkflowSpec
============================================================================
