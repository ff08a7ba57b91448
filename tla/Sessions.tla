------------------------------ MODULE Sessions ------------------------------
(***************************************************************************)
(* Sessions of the web client against the server process: Login and Parse  *)
(* of service/auth_service.go, AuthMiddleware and RBACMiddleware, and, in  *)
(* each browser tab, stores/auth.ts, the interceptors of api/client.ts and *)
(* the guard of router/index.ts.                                           *)
(*                                                                         *)
(* All tabs of the browser share localStorage, where the token and the     *)
(* user are set and removed together; each tab keeps a copy in its Pinia   *)
(* store, made when the page was loaded, by which the router goes, while   *)
(* requests go by localStorage.  Tokens are stateless and signed with a    *)
(* secret of the configuration, so they survive a restart.                 *)
(***************************************************************************)
EXTENDS ServerProcess

CONSTANTS Tabs,         \* the tabs of one browser
          Operations,   \* protected endpoints
          AllowedRoles, \* the roles RBACMiddleware lets through to each
          MaxTokens     \* bound: tokens issued

ASSUME SessionAssumption ==
    /\ AllowedRoles \in [Operations -> SUBSET Roles]
    /\ None \notin Accounts
    /\ MaxTokens \in Nat

VARIABLES issued,       \* the claims of each token, in the order of issue
          lapsed,       \* how many of them have expired: the oldest do first
          storage,      \* localStorage: the current token, 0 if none
          shown,        \* the account in each tab's Pinia store
          page,         \* where each tab is
          login,        \* what the tab's login request has been answered
          call,         \* its request to a protected endpoint
          entitled      \* the tabs whose request has been covered by the users
                        \* table at some moment since it arrived

cvars == <<storage, shown, page, login, call>>
vars == <<svars, issued, lapsed, cvars, entitled>>

Tokens == 1 .. MaxTokens

\* Claims: the account, and the role it had when the token was issued.
Claims == [account : Accounts, role : Roles]

\* The stages of a request: past the expiry check, past the role check, 401 on
\* its way back.  A page that is loaded anew no longer waits for an answer.
Call == [stage : {"none", "parsed", "running", "unauthorized"},
         op : Operations \cup {None}, token : {0} \cup Tokens, awaited : {"yes", "no"}]
NoCall == [stage |-> "none", op |-> None, token |-> 0, awaited |-> "no"]
Rejected == [stage |-> "unauthorized", op |-> None, token |-> 0, awaited |-> "yes"]

\* What login[t] is besides a token: no answer yet, or none asked for; a refusal.
NoLogin == 0
Refused == MaxTokens + 1

Unexpired(k) == k \in DOMAIN issued /\ k > lapsed

Init ==
    /\ ServerInit
    /\ issued = <<>>
    /\ lapsed = 0
    /\ storage = 0
    /\ shown = [t \in Tabs |-> None]
    /\ page = [t \in Tabs |-> "login"]
    /\ login = [t \in Tabs |-> NoLogin]
    /\ call = [t \in Tabs |-> NoCall]
    /\ entitled = {}

\* The user a tab finds in localStorage.
Stored == IF storage = 0 THEN None ELSE issued[storage].account
----------------------------------------------------------------------------
(* Logging in                                                              *)

\* AuthService.Login: an active account and its password earn a token.
LogIn(t, a) ==
    /\ process = "serving"
    /\ page[t] = "login" /\ login[t] = NoLogin
    /\ Found(a)
    /\ Len(issued) < MaxTokens
    /\ issued' = Append(issued, [account |-> a, role |-> users[a].role])
    /\ login' = [login EXCEPT ![t] = Len(issued')]
    /\ UNCHANGED <<svars, lapsed, storage, shown, page, call, entitled>>

\* 401 for a wrong password or an account that is not active.
LoginRefused(t) ==
    /\ process = "serving"
    /\ page[t] = "login" /\ login[t] = NoLogin
    /\ login' = [login EXCEPT ![t] = Refused]
    /\ UNCHANGED <<svars, issued, lapsed, storage, shown, page, call, entitled>>

\* login() of the store puts the answer into Pinia and localStorage; a refusal
\* goes through the interceptor, which clears localStorage.
LoginAnswered(t) ==
    /\ login[t] # NoLogin /\ shown[t] = None
    /\ IF login[t] = Refused
       THEN /\ storage' = 0
            /\ login' = [login EXCEPT ![t] = NoLogin]
            /\ UNCHANGED shown
       ELSE /\ storage' = login[t]
            /\ shown' = [shown EXCEPT ![t] = issued[login[t]].account]
            /\ UNCHANGED login
    /\ UNCHANGED <<svars, issued, lapsed, page, call, entitled>>

\* Then submit asks the router for the first page, and the guard lets it pass.
Enter(t) ==
    /\ login[t] # NoLogin /\ shown[t] # None
    /\ page' = [page EXCEPT ![t] = "app"]
    /\ login' = [login EXCEPT ![t] = NoLogin]
    /\ UNCHANGED <<svars, issued, lapsed, storage, shown, call, entitled>>
----------------------------------------------------------------------------
(* A protected request                                                     *)

\* Whether the users table lets the account of a token do this.
Permits(table, k, op) ==
    LET row == table[issued[k].account] IN
    row.active = "active" /\ row.role \in AllowedRoles[op]

\* The request interceptor takes the token from localStorage; AuthMiddleware
\* and Parse ask for a bearer token, its signature and its expiry.
SendCall(t, op) ==
    /\ process = "serving"
    /\ page[t] = "app" /\ call[t] = NoCall
    /\ IF Unexpired(storage)
       THEN /\ call' = [call EXCEPT ![t] = [stage |-> "parsed", op |-> op,
                                            token |-> storage, awaited |-> "yes"]]
            /\ entitled' = IF Permits(users, storage, op) THEN entitled \cup {t} ELSE entitled
       ELSE /\ call' = [call EXCEPT ![t] = Rejected]
            /\ UNCHANGED entitled
    /\ UNCHANGED <<svars, issued, lapsed, storage, shown, page, login>>

Up == process \in {"serving", "draining"}
Account(t) == issued[call[t].token].account

\* The request is over.  Only 401 makes a difference to the page that waits.
Ends(t) ==
    /\ call' = [call EXCEPT ![t] = NoCall]
    /\ entitled' = entitled \ {t}

EndsUnauthorized(t) ==
    /\ call' = [call EXCEPT ![t] = IF @.awaited = "yes" THEN Rejected ELSE NoCall]
    /\ entitled' = entitled \ {t}

\* Mutant: the role is the one the token was issued with.
AuthorizeByClaims(t) ==
    /\ call[t].stage = "parsed" /\ Up
    /\ Found(Account(t)) /\ issued[call[t].token].role \in AllowedRoles[call[t].op]
    /\ call' = [call EXCEPT ![t].stage = "running"]
    /\ UNCHANGED <<svars, issued, lapsed, storage, shown, page, login, entitled>>

\* Parse looks the account up, RBACMiddleware compares the role it has now; the
\* handler runs with that role to its end.
Authorize(t) ==
    /\ call[t].stage = "parsed" /\ Up
    /\ Found(Account(t)) /\ users[Account(t)].role \in AllowedRoles[call[t].op]
    /\ call' = [call EXCEPT ![t].stage = "running"]
    /\ UNCHANGED <<svars, issued, lapsed, storage, shown, page, login, entitled>>

\* 403: the page shows it.
Forbid(t) ==
    /\ call[t].stage = "parsed" /\ Up
    /\ Found(Account(t)) /\ users[Account(t)].role \notin AllowedRoles[call[t].op]
    /\ Ends(t)
    /\ UNCHANGED <<svars, issued, lapsed, storage, shown, page, login>>

\* 401: the account is inactive, or the lookup failed for whatever reason.
RejectAccount(t) ==
    /\ call[t].stage = "parsed" /\ Up
    /\ EndsUnauthorized(t)
    /\ UNCHANGED <<svars, issued, lapsed, storage, shown, page, login>>

Handle(t) ==
    /\ call[t].stage = "running" /\ Up
    /\ Ends(t)
    /\ UNCHANGED <<svars, issued, lapsed, storage, shown, page, login>>

\* Mutant: instead of loading the login page the router is asked for it, whose
\* guard sends a tab that still has its user in Pinia back to the first page.
UnauthorizedPushed(t) ==
    /\ call[t].stage = "unauthorized"
    /\ storage' = 0
    /\ page' = IF shown[t] = None THEN [page EXCEPT ![t] = "login"] ELSE page
    /\ Ends(t)
    /\ UNCHANGED <<svars, issued, lapsed, shown, login>>

\* On 401 the response interceptor clears localStorage, for all tabs, whatever
\* token is in it by now; anywhere but on the login page it loads that page
\* anew, which starts with an empty Pinia store.
Unauthorized(t) ==
    /\ call[t].stage = "unauthorized"
    /\ storage' = 0
    /\ IF page[t] = "login"
       THEN UNCHANGED <<shown, page>>
       ELSE /\ shown' = [shown EXCEPT ![t] = None]
            /\ page' = [page EXCEPT ![t] = "login"]
    /\ Ends(t)
    /\ UNCHANGED <<svars, issued, lapsed, login>>
----------------------------------------------------------------------------
(* The tab, time and the server                                            *)

\* leave of App.vue: the store forgets the user and the router follows.
Logout(t) ==
    /\ page[t] = "app"
    /\ storage' = 0
    /\ shown' = [shown EXCEPT ![t] = None]
    /\ page' = [page EXCEPT ![t] = "login"]
    /\ UNCHANGED <<svars, issued, lapsed, login, call, entitled>>

\* The page is loaded again: Pinia starts from localStorage, the guard decides
\* where the tab goes, and nobody waits for the requests of the old page.
Reload(t) ==
    /\ shown' = [shown EXCEPT ![t] = Stored]
    /\ page' = [page EXCEPT ![t] = IF storage = 0 THEN "login" ELSE "app"]
    /\ call' = [call EXCEPT ![t] = IF @.stage \in {"parsed", "running"}
                                   THEN [@ EXCEPT !.awaited = "no"] ELSE NoCall]
    /\ login' = [login EXCEPT ![t] = NoLogin]
    /\ UNCHANGED <<svars, issued, lapsed, storage, entitled>>

\* AccessTokenTTL has gone by for the oldest token still good.
Lapse ==
    /\ lapsed < Len(issued)
    /\ lapsed' = lapsed + 1
    /\ UNCHANGED <<svars, issued, cvars, entitled>>

\* What is in flight when the process ends is lost.
Cut ==
    /\ call' = [t \in Tabs |-> IF call[t].stage \in {"parsed", "running"} THEN NoCall
                               ELSE call[t]]
    /\ entitled' = {}
    /\ UNCHANGED <<issued, lapsed, storage, shown, page, login>>

Starts ==
    /\ Boot \/ SeedExisting \/ SeedCreate \/ Listen
    /\ UNCHANGED <<issued, lapsed, cvars, entitled>>

Drains == Terminate /\ UNCHANGED <<issued, lapsed, cvars, entitled>>

Stops == (Exit \/ Crash) /\ Cut

Operate(a, role, active) ==
    /\ ChangeAccount(a, role, active)
    /\ entitled' = entitled \cup
           {t \in Tabs : /\ call[t].stage = "parsed"
                         /\ Permits(users', call[t].token, call[t].op)}
    /\ UNCHANGED <<issued, lapsed, cvars>>

\* What an answer or a request in flight does next.
Continues(t) ==
    \/ LoginAnswered(t) \/ Enter(t) \/ Authorize(t) \/ Forbid(t) \/ RejectAccount(t)
    \/ Handle(t) \/ Unauthorized(t)

Next ==
    \/ \E t \in Tabs :
        \/ \E a \in Accounts : LogIn(t, a)
        \/ LoginRefused(t)
        \/ \E op \in Operations : SendCall(t, op)
        \/ Continues(t) \/ Logout(t) \/ Reload(t)
    \/ Starts \/ Drains \/ Stops \/ Lapse
    \/ \E a \in Accounts, role \in Roles, active \in {"active", "inactive"} :
           Operate(a, role, active)

Spec == Init /\ [][Next]_vars

\* The process is started again, gets on with what it is doing and ends when it
\* is told to; handlers are scheduled, answers reach a tab that waits for them.
FairSpec == Spec /\ WF_vars(Starts) /\ WF_vars(Exit /\ Cut)
                 /\ \A t \in Tabs : WF_vars(Continues(t))
----------------------------------------------------------------------------
(* Properties.                                                             *)

\* Tables, requests and tabs have their shapes, and a tab that is past the
\* login page has a user in Pinia.
TypeOK ==
    /\ process \in {"down", "seeding", "serving", "draining"}
    /\ seeding \in 1 .. Len(Seeds) + 1
    /\ users \in [Accounts -> User \cup {NoUser}]
    /\ issued \in Seq(Claims) /\ Len(issued) <= MaxTokens
    /\ lapsed \in 0 .. Len(issued)
    /\ storage \in 0 .. Len(issued)
    /\ page \in [Tabs -> {"login", "app"}]
    /\ shown \in [Tabs -> Accounts \cup {None}]
    /\ \A t \in Tabs : page[t] = "app" => shown[t] # None
    /\ login \in [Tabs -> 0 .. Len(issued) \cup {Refused}]
    /\ call \in [Tabs -> Call]
    /\ entitled \subseteq Tabs

\* Nobody listens before every account of the seed exists, however often the
\* process died while it was creating them.
ServingSeeded ==
    AutoMigrate /\ process \in {"serving", "draining"}
        => \A i \in DOMAIN Seeds : Exists(Seeds[i])

\* A handler runs only for an account that was active and had an allowed role
\* at some moment since the request arrived.  "Authorization follows the
\* current account record": what a token was issued with counts for nothing,
\* and a role taken away stops every request but those already let through.
AuthorityCurrent ==
    \A t \in Tabs : call[t].stage = "running" => t \in entitled

\* The server would let the token in localStorage through.
Accepted == Unexpired(storage) /\ Found(issued[storage].account)

\* A person who goes on using a tab, and stops reloading it.
Uses(t) ==
    /\ WF_vars(\E op \in Operations : SendCall(t, op))
    /\ <>[][~ Reload(t)]_vars

\* A tab whose session is over - expired, deactivated, logged out or replaced in
\* another tab, its Pinia store not knowing it - ends up on the login page
\* unless a valid token takes the place of the old one.
LostSessionEnds ==
    \A t \in Tabs : Uses(t) =>
        (page[t] = "app" /\ ~ Accepted ~> page[t] = "login" \/ Accepted)
=============================================================================
