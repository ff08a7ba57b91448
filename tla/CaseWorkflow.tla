--------------------------- MODULE CaseWorkflow ---------------------------
(***************************************************************************)
(* What the localization-case component promises, with no requests,        *)
(* versions, leases or transactions: a case moves along the workflow of    *)
(* constants/case.go, one move at a time, every move is appended to its    *)
(* history, the analysis it is reviewed on is reported once and never      *)
(* replaced, and only a person with the reviewer or admin role signs it.   *)
(***************************************************************************)
EXTENDS Naturals, Sequences

CONSTANTS CaseIds,      \* the cases that may be opened
          Reviewers,    \* the people allowed to confirm a case
          None          \* no run, no reviewer

VARIABLES status,       \* where each case is in the workflow
          history,      \* the statuses it went through, oldest first
          result,       \* the run whose differences the case carries: the place in the
                        \* history at which it began
          reviewer      \* who confirmed it

wvars == <<status, history, result, reviewer>>

\* The status of an id that no case has been created with.
Absent == "absent"

\* constants.CaseStatus and the transitions map behind CanTransition.
CaseStatuses == {"draft", "analyzing", "pending_review", "confirmed", "closed"}

CanTransition(from, to) ==
    <<from, to>> \in { <<"draft", "analyzing">>, <<"analyzing", "draft">>,
                       <<"analyzing", "pending_review">>,
                       <<"pending_review", "confirmed">>,
                       <<"confirmed", "closed">> }

Init ==
    /\ status = [c \in CaseIds |-> Absent]
    /\ history = [c \in CaseIds |-> <<>>]
    /\ result = [c \in CaseIds |-> None]
    /\ reviewer = [c \in CaseIds |-> None]

\* A move of case c to status s, recorded in its history.
Goes(c, s) ==
    /\ status' = [status EXCEPT ![c] = s]
    /\ history' = [history EXCEPT ![c] = Append(@, s)]

Open(c) ==
    /\ status[c] = Absent
    /\ Goes(c, "draft")
    /\ UNCHANGED <<result, reviewer>>

\* Analysis starts, or is given up and may be retried.
Begin(c) ==
    /\ CanTransition(status[c], "analyzing")
    /\ Goes(c, "analyzing")
    /\ UNCHANGED <<result, reviewer>>

GiveUp(c) ==
    /\ CanTransition(status[c], "draft")
    /\ Goes(c, "draft")
    /\ UNCHANGED <<result, reviewer>>

\* The differences found by a run of this case, the one that began at r,
\* become the result under review.
Report(c, r) ==
    /\ CanTransition(status[c], "pending_review")
    /\ history[c][r] = "analyzing"
    /\ result[c] = None
    /\ Goes(c, "pending_review")
    /\ result' = [result EXCEPT ![c] = r]
    /\ UNCHANGED reviewer

Sign(c, p) ==
    /\ CanTransition(status[c], "confirmed")
    /\ result[c] # None
    /\ Goes(c, "confirmed")
    /\ reviewer' = [reviewer EXCEPT ![c] = p]
    /\ UNCHANGED result

Archive(c) ==
    /\ CanTransition(status[c], "closed")
    /\ reviewer[c] # None
    /\ Goes(c, "closed")
    /\ UNCHANGED <<result, reviewer>>

Next ==
    \E c \in CaseIds :
        \/ Open(c) \/ Begin(c) \/ GiveUp(c) \/ Archive(c)
        \/ \E r \in 1 .. Len(history[c]) : Report(c, r)
        \/ \E p \in Reviewers : Sign(c, p)

WorkflowSpec == Init /\ [][Next]_wvars

===========================================================================
