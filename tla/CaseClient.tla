----------------------------- MODULE CaseClient -----------------------------
(***************************************************************************)
(* The cases page of the web client, once per tab, against the cases the   *)
(* server keeps: stores/cases.ts, pages/CasesPage.vue, ReviewDialog.vue    *)
(* and the timeout of api/client.ts.  The server is the abstract one of    *)
(* CaseWorkflow, which its handlers implement.                             *)
(*                                                                         *)
(* A row of the page is its status.  The version that is sent back with it *)
(* adds nothing: pending_review and confirmed are entered once, so a case  *)
(* that is in the status shown is in the version shown.  Answers arrive in *)
(* any order; the client gives a request up after 30 seconds, which it     *)
(* does not tell the server.  An analysis is over before its lease is.     *)
(***************************************************************************)
EXTENDS Naturals, Sequences, FiniteSets

CONSTANTS CaseIds,
          Tabs,         \* open pages, each used by one person
          Analysts,     \* those whose user may analyze
          Reviewers,    \* and those whose user may review
          None,         \* no case, no run, no reviewer
          MaxCalls,     \* bound: requests of one tab in flight
          MaxFaults     \* bound: crashes, failing, slow or lost requests, and
                        \* pages left

ASSUME ClientAssumption ==
    /\ Analysts \subseteq Tabs /\ Reviewers \subseteq Tabs
    /\ None \notin CaseIds \cup Tabs
    /\ MaxCalls \in Nat /\ MaxFaults \in Nat

VARIABLES status, history, result, reviewer,    \* the server's, see CaseWorkflow
          rows,         \* cases.items: what each tab's table shows of each case
          busy,         \* the page's flag behind :loading of its buttons
          loading,      \* the store's flag behind v-loading of the table
          dialog,       \* the case the review dialog was opened for
          calls,        \* each tab's requests
          faults        \* so far

server == <<status, history, result, reviewer>>
vars == <<server, rows, busy, loading, dialog, calls, faults>>

Server == INSTANCE CaseWorkflow

Ops == {"list", "create", "analyze", "confirm", "close"}

\* A request that leaves a page: what it does, the case it is about, how far it
\* has got (stage), the run an analysis is, the statuses it is answered with, and
\* whether its promise is awaited by the page that made it, by the store only
\* since that page was left, or by nobody (waiter).
Sent(op, about) == [op |-> op, about |-> about, stage |-> "sent", run |-> 0,
                    answer |-> <<>>, waiter |-> "page"]

\* Sent, and then for a transaction: an analysis has begun, it has committed.
OnServer(x) == x.stage \in {"sent", "begun", "done"}

Init ==
    /\ Server!Init
    /\ rows = [t \in Tabs |-> [c \in CaseIds |-> <<>>]]
    /\ busy = [t \in Tabs |-> "no"]
    /\ loading = [t \in Tabs |-> "no"]
    /\ dialog = [t \in Tabs |-> None]
    /\ calls = [t \in Tabs |-> {}]
    /\ faults = 0

Fault == faults < MaxFaults /\ faults' = faults + 1
----------------------------------------------------------------------------
(* What a person can do on the page                                        *)

\* Some row of the case is in this status; a case has two rows when a list has
\* overtaken the answer to its creation.
Shows(t, c, s) == \E i \in DOMAIN rows[t][c] : rows[t][c][i] = s

\* The bound on requests: MaxCalls of a tab, one of each kind.
RoomFor(t, op) == Cardinality(calls[t]) < MaxCalls /\ \A x \in calls[t] : x.op # op

Send(t, op, about) ==
    /\ RoomFor(t, op)
    /\ calls' = [calls EXCEPT ![t] = @ \cup {Sent(op, about)}]

\* A dialog covers the page, the loading mask its table.
TableFree(t) == dialog[t] = None /\ loading[t] = "no"

SetsBusy(t) ==
    /\ busy[t] = "no"
    /\ busy' = [busy EXCEPT ![t] = "yes"]

Search(t) ==
    /\ dialog[t] = None
    /\ Send(t, "list", None)
    /\ loading' = [loading EXCEPT ![t] = "yes"]
    /\ UNCHANGED <<server, rows, busy, dialog, faults>>

Create(t) ==
    /\ t \in Analysts /\ dialog[t] = None
    /\ \E c \in CaseIds : status[c] = Server!Absent
    /\ SetsBusy(t)
    /\ Send(t, "create", None)
    /\ UNCHANGED <<server, rows, loading, dialog, faults>>

Analyze(t, c) ==
    /\ t \in Analysts /\ TableFree(t)
    /\ Shows(t, c, "draft")
    /\ SetsBusy(t)
    /\ Send(t, "analyze", c)
    /\ UNCHANGED <<server, rows, loading, dialog, faults>>

\* confirm: the dialog keeps the row it was opened with.
Open(t, c) ==
    /\ t \in Reviewers /\ TableFree(t)
    /\ Shows(t, c, "pending_review")
    /\ dialog' = [dialog EXCEPT ![t] = c]
    /\ UNCHANGED <<server, rows, busy, loading, calls, faults>>

SubmitReview(t) ==
    /\ dialog[t] # None
    /\ SetsBusy(t)
    /\ Send(t, "confirm", dialog[t])
    /\ UNCHANGED <<server, rows, loading, dialog, faults>>

Cancel(t) ==
    /\ dialog[t] # None
    /\ dialog' = [dialog EXCEPT ![t] = None]
    /\ UNCHANGED <<server, rows, busy, loading, calls, faults>>

\* close, with its confirmation box: it neither looks at busy nor sets it.
Close(t, c) ==
    /\ t \in Reviewers /\ TableFree(t)
    /\ Shows(t, c, "confirmed")
    /\ Send(t, "close", c)
    /\ UNCHANGED <<server, rows, busy, loading, dialog, faults>>

\* Another page and back: the page is mounted anew and searches, the store keeps
\* its rows and goes on waiting for the requests of the old page.
Leave(t) ==
    /\ Fault
    /\ RoomFor(t, "list")
    /\ calls' = [calls EXCEPT ![t] =
           {Sent("list", None)} \cup
           {[x EXCEPT !.waiter = IF @ = "page" THEN "store" ELSE @] : x \in @}]
    /\ busy' = [busy EXCEPT ![t] = "no"]
    /\ loading' = [loading EXCEPT ![t] = "yes"]
    /\ dialog' = [dialog EXCEPT ![t] = None]
    /\ UNCHANGED <<server, rows>>
----------------------------------------------------------------------------
(* What the server does with a request                                     *)

Becomes(t, x, S) == calls' = [calls EXCEPT ![t] = (@ \ {x}) \cup S]

Answers(t, x, stage, answer) ==
    Becomes(t, x, IF x.waiter = "nobody" THEN {}
                  ELSE {[x EXCEPT !.stage = stage, !.answer = answer, !.run = 0]})

Fails(t, x) == Answers(t, x, "failed", <<>>)

ServeList(t, x) ==
    /\ x.op = "list" /\ x.stage = "sent"
    /\ Answers(t, x, "answered",
               [c \in {d \in CaseIds : status[d] # Server!Absent} |-> status[c]])
    /\ UNCHANGED server

\* The route and the traces of a new case may be refused.
ServeCreate(t, x) ==
    /\ x.op = "create" /\ x.stage = "sent"
    /\ \/ \E c \in CaseIds :
              /\ Server!Open(c)
              /\ Answers(t, x, "answered", [d \in {c} |-> status'[c]])
       \/ Fails(t, x) /\ UNCHANGED server

\* Analyze, Confirm and Close answer with the row as it is after their
\* transaction.
ServeTransaction(t, x) ==
    /\ x.stage = "sent"
    /\ \/ x.op = "analyze" /\ Server!Begin(x.about)
          /\ Becomes(t, x, {[x EXCEPT !.stage = "begun", !.run = Len(history'[x.about])]})
       \/ x.op = "confirm" /\ Server!Sign(x.about, t)
          /\ Becomes(t, x, {[x EXCEPT !.stage = "done"]})
       \/ x.op = "close" /\ Server!Archive(x.about)
          /\ Becomes(t, x, {[x EXCEPT !.stage = "done"]})

ServeReport(t, x) ==
    /\ x.stage = "begun"
    /\ Server!Report(x.about, x.run)
    /\ Becomes(t, x, {[x EXCEPT !.stage = "done", !.run = 0]})

ServeRead(t, x) ==
    /\ x.stage = "done"
    /\ Answers(t, x, "answered", [d \in {x.about} |-> status[d]])
    /\ UNCHANGED server

NextStatus == [op \in {"analyze", "confirm", "close"} |->
                  CASE op = "analyze" -> "analyzing"
                    [] op = "confirm" -> "confirmed"
                    [] op = "close" -> "closed"]

\* 409: the case has moved on since the row was read.
ServeConflict(t, x) ==
    /\ x.op \in DOMAIN NextStatus /\ x.stage = "sent"
    /\ ~ Server!CanTransition(status[x.about], NextStatus[x.op])
    /\ Fails(t, x)
    /\ UNCHANGED server

Worked(c) == \E t \in Tabs : \E x \in calls[t] : x.stage = "begun" /\ x.about = c

\* The lease of an analysis whose worker is gone has expired: back to draft, and
\* the request starts over from there.
ServeRecovery(x) ==
    /\ x.op = "analyze" /\ x.stage = "sent"
    /\ ~ Worked(x.about)
    /\ status[x.about] = "analyzing" /\ Server!GiveUp(x.about)
    /\ UNCHANGED calls

Serve(t, x) ==
    /\ \/ ServeList(t, x) \/ ServeCreate(t, x) \/ ServeTransaction(t, x)
       \/ ServeReport(t, x) \/ ServeRead(t, x) \/ ServeConflict(t, x) \/ ServeRecovery(x)
    /\ UNCHANGED <<rows, busy, loading, dialog, faults>>
----------------------------------------------------------------------------
(* What becomes of the answer                                              *)

\* Mutant: fetch updates the rows it has, as the other answers do.
ShowListMerged(table, answer) ==
    [c \in CaseIds |-> IF c \in DOMAIN answer /\ table[c] # <<>> THEN <<answer[c]>> ELSE table[c]]

ShowList(table, answer) ==
    [c \in CaseIds |-> IF c \in DOMAIN answer THEN <<answer[c]>> ELSE <<>>]

Unshift(table, answer) ==
    [c \in CaseIds |-> IF c \in DOMAIN answer THEN <<answer[c]>> \o table[c] ELSE table[c]]

\* replace: the first row with the id, if there is one.
Replace(table, answer) ==
    [c \in CaseIds |-> IF c \in DOMAIN answer /\ table[c] # <<>>
                       THEN <<answer[c]>> \o Tail(table[c]) ELSE table[c]]

\* Mutant: without its finally an answer that is an error leaves the flag set.
FreesIfAnswered(t, x) ==
    /\ busy' = IF x.op \in {"create", "analyze", "confirm"} /\ x.waiter = "page"
                  /\ x.stage = "answered"
               THEN [busy EXCEPT ![t] = "no"] ELSE busy
    /\ loading' = IF x.op = "list" THEN [loading EXCEPT ![t] = "no"] ELSE loading

\* The finally of each call, whatever the outcome: the flag of the page that
\* waits, the flag of the store.
Frees(t, x) ==
    /\ busy' = IF x.op \in {"create", "analyze", "confirm"} /\ x.waiter = "page"
               THEN [busy EXCEPT ![t] = "no"] ELSE busy
    /\ loading' = IF x.op = "list" THEN [loading EXCEPT ![t] = "no"] ELSE loading

\* A reviewed case closes the dialog, whichever case that is open for by now.
Arrives(t, x) ==
    /\ x.stage = "answered"
    /\ rows' = [rows EXCEPT ![t] =
           CASE x.op = "list" -> ShowList(@, x.answer)
             [] x.op = "create" -> Unshift(@, x.answer)
             [] OTHER -> Replace(@, x.answer)]
    /\ dialog' = IF x.op = "confirm" /\ x.waiter = "page"
                 THEN [dialog EXCEPT ![t] = None] ELSE dialog
    /\ Frees(t, x)
    /\ Becomes(t, x, {})
    /\ UNCHANGED <<server, faults>>

\* An error is shown; rows and dialog stay as they are.
Errs(t, x) ==
    /\ x.stage = "failed"
    /\ Frees(t, x)
    /\ Becomes(t, x, {})
    /\ UNCHANGED <<server, rows, dialog, faults>>

\* The timeout of the client: an error as well, though the server goes on, if
\* the request ever got there.
TimesOut(t, x) ==
    /\ x.waiter # "nobody" /\ OnServer(x)
    /\ Frees(t, x)
    /\ Fault
    /\ \/ Becomes(t, x, {[x EXCEPT !.waiter = "nobody"]})
       \/ x.stage = "sent" /\ Becomes(t, x, {})
    /\ UNCHANGED <<server, rows, dialog>>
----------------------------------------------------------------------------
(* Faults                                                                  *)

\* A statement fails: an analysis that has begun is given up, unless that fails too.
RequestFails(t, x) ==
    /\ Fault /\ OnServer(x)
    /\ Fails(t, x)
    /\ \/ UNCHANGED server
       \/ x.stage = "begun" /\ Server!GiveUp(x.about)
    /\ UNCHANGED <<rows, busy, loading, dialog>>

\* The server process dies, and is started again; its clients get errors.
Crash ==
    /\ Fault
    /\ calls' = [t \in Tabs |->
           {x \in calls[t] : ~ OnServer(x)} \cup
           {[x EXCEPT !.stage = "failed", !.run = 0] :
               x \in {y \in calls[t] : OnServer(y) /\ y.waiter # "nobody"}}]
    /\ UNCHANGED <<server, rows, busy, loading, dialog>>

\* A person sends something off.
Press(t) ==
    \/ \E c \in CaseIds : Analyze(t, c) \/ Close(t, c)
    \/ SubmitReview(t)

OpenDialog(t) == \E c \in CaseIds : Open(t, c)

Next ==
    \/ \E t \in Tabs :
        \/ Search(t) \/ Create(t) \/ Press(t) \/ OpenDialog(t) \/ Cancel(t) \/ Leave(t)
        \/ \E x \in calls[t] :
              Serve(t, x) \/ Arrives(t, x) \/ Errs(t, x) \/ TimesOut(t, x)
              \/ RequestFails(t, x)
    \/ Crash

Spec == Init /\ [][Next]_vars

\* A request of this kind is served, or its answer taken.
Proceeds(t, op) ==
    \E x \in calls[t] : x.op = op /\ (Serve(t, x) \/ Arrives(t, x) \/ Errs(t, x))

FairSpec == Spec /\ \A t \in Tabs, op \in Ops : WF_vars(Proceeds(t, op))
----------------------------------------------------------------------------
(* Properties.                                                             *)

\* The buttons of the page do not stay blocked: whatever becomes of a request -
\* answered, refused, timed out, cut off by a crash, its page left - the flag is
\* taken back (the finally of every call).
BusyEnds == \A t \in Tabs : busy[t] = "yes" ~> busy[t] = "no"

\* People who do not give up: they search again and again, and use a button that
\* is offered to them again and again.
Persists ==
    \A t \in Tabs :
        /\ []<><<Search(t)>>_vars
        /\ SF_vars(Press(t))
        /\ t \in Reviewers => SF_vars(OpenDialog(t))

\* The page offers no button for a case that is being analyzed, so nobody asks
\* again for an analysis that was cut off once all tabs show it as such.
Stranded(c) == status[c] = "analyzing" /\ ~ Worked(c)

\* Stale rows, dialogs opened for a case that has moved on, answers that
\* overtake each other, timeouts, refusals and flags left set keep nobody from
\* getting a case through to its end - but for an analysis the server has lost.
CasesGetThrough ==
    Persists =>
        \A c \in CaseIds :
            status[c] # Server!Absent ~> status[c] = "closed" \/ Stranded(c)
=============================================================================
