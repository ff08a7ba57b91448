--------------------------- MODULE SessionsProofs ---------------------------
(***************************************************************************)
(* Theorems about Sessions, for every set of accounts, tabs, operations    *)
(* and roles: nobody is served before the accounts are there, and handlers *)
(* run only for those the users table lets through.                        *)
(***************************************************************************)
EXTENDS Sessions, TLAPS

\* The accounts the seed has already looked at exist.
SeededSoFar ==
    /\ ServingSeeded
    /\ process = "seeding" => \A i \in 1 .. Len(Seeds) : i < seeding => Exists(Seeds[i])

InFlight(t) == call[t].stage \in {"parsed", "running"}

\* No request is in flight while nobody serves; one that is carries a token that
\* was issued; one that the users table lets through now has been entitled, and
\* so has every one whose handler runs.
RequestOK(t) ==
    /\ InFlight(t) => process \in {"serving", "draining"} /\ call[t].token \in DOMAIN issued
    /\ call[t].stage = "parsed" /\ Permits(users, call[t].token, call[t].op) => t \in entitled
    /\ call[t].stage = "running" => t \in entitled

IInv == TypeOK /\ SeededSoFar /\ \A t \in Tabs : RequestOK(t)

LEMMA InitIInv == Init => IInv
<1> SUFFICES ASSUME Init PROVE IInv
    OBVIOUS
<1> USE ServerAssumption, SessionAssumption
<1>1. TypeOK
    BY SMTT(30) DEF Init, ServerInit, TypeOK, User, NoUser, Claims, NoCall, Call, Refused, NoLogin
<1>2. SeededSoFar
    BY DEF Init, ServerInit, SeededSoFar, ServingSeeded
<1>3. \A t \in Tabs : RequestOK(t)
    BY DEF Init, RequestOK, InFlight, NoCall
<1> QED
    BY <1>1, <1>2, <1>3 DEF IInv

\* The values an action gives to a call are calls.
LEMMA Calls ==
    /\ NoCall \in Call /\ Rejected \in Call
    /\ \A op \in Operations, k \in 1 .. MaxTokens :
           [stage |-> "parsed", op |-> op, token |-> k, awaited |-> "yes"] \in Call
    /\ \A x \in Call : /\ [x EXCEPT !.stage = "running"] \in Call
                      /\ [x EXCEPT !.awaited = "no"] \in Call
BY DEF NoCall, Rejected, Call, Tokens

\* The shapes are kept by every step of a tab.
LEMMA TabTypes ==
    ASSUME TypeOK, NEW t \in Tabs,
           \/ \E a \in Accounts : LogIn(t, a)
           \/ LoginRefused(t)
           \/ \E op \in Operations : SendCall(t, op)
           \/ Continues(t) \/ Logout(t) \/ Reload(t)
    PROVE  TypeOK'
<1> USE ServerAssumption, SessionAssumption DEF TypeOK, svars
<1>1. ASSUME NEW a \in Accounts, LogIn(t, a) PROVE TypeOK'
    BY <1>1, SMTT(30) DEF LogIn, Found, User, NoUser, Claims, Refused, Call, Tokens
<1>2. CASE LoginRefused(t)
    BY <1>2, SMTT(30) DEF LoginRefused, Refused
<1>3. ASSUME NEW op \in Operations, SendCall(t, op) PROVE TypeOK'
    <2>1. storage \in 1 .. MaxTokens \/ ~ Unexpired(storage)
        BY DEF Unexpired
    <2>2. call' \in [Tabs -> Call]
        <3>1. CASE Unexpired(storage)
            <4>1. storage \in 1 .. MaxTokens
                BY <3>1, <2>1
            <4> HIDE DEF TypeOK
            <4>2. [stage |-> "parsed", op |-> op, token |-> storage, awaited |-> "yes"] \in Call
                BY <4>1, Calls
            <4> DEFINE sent == [stage |-> "parsed", op |-> op, token |-> storage,
                                awaited |-> "yes"]
            <4>3. call' = [call EXCEPT ![t] = sent]
                BY <1>3, <3>1 DEF SendCall
            <4>4. call \in [Tabs -> Call]
                BY DEF TypeOK
            <4>5. sent \in Call
                BY <4>2
            <4> HIDE DEF sent
            <4> QED
                BY <4>3, <4>4, <4>5
        <3>2. CASE ~ Unexpired(storage)
            BY <1>3, <3>2, Calls DEF SendCall
        <3> QED
            BY <3>1, <3>2
    <2>3. entitled' \subseteq Tabs
        BY <1>3 DEF SendCall
    <2> QED
        BY <1>3, <2>2, <2>3 DEF SendCall
<1>4. CASE LoginAnswered(t)
    <2>1. CASE login[t] = Refused
        BY <1>4, <2>1, SMTT(30) DEF LoginAnswered, NoLogin
    <2>2. CASE login[t] # Refused
        <3>1. login[t] \in 1 .. Len(issued)
            BY <1>4, <2>2 DEF LoginAnswered, NoLogin
        <3>2. issued[login[t]] \in Claims
            BY <3>1
        <3>3. issued[login[t]].account \in Accounts
            BY <3>2 DEF Claims
        <3> QED
            BY <1>4, <2>2, <3>1, <3>3, SMTT(30) DEF LoginAnswered
    <2> QED
        BY <2>1, <2>2
<1>5. CASE Enter(t)
    BY <1>5, SMTT(30) DEF Enter, NoLogin, Refused
<1>6. CASE Authorize(t)
    <2>1. call' \in [Tabs -> Call]
        BY <1>6, Calls DEF Authorize
    <2> QED
        BY <1>6, <2>1 DEF Authorize
<1>7. CASE Forbid(t)
    <2>1. call' \in [Tabs -> Call] /\ entitled' \subseteq Tabs
        BY <1>7, Calls DEF Forbid, Ends
    <2> QED
        BY <1>7, <2>1 DEF Forbid, Ends
<1>8. CASE RejectAccount(t)
    <2>1. call' \in [Tabs -> Call]
        BY <1>8, Calls DEF RejectAccount, EndsUnauthorized
    <2> QED
        BY <1>8, <2>1 DEF RejectAccount, EndsUnauthorized
<1>9. CASE Handle(t)
    <2>1. call' \in [Tabs -> Call] /\ entitled' \subseteq Tabs
        BY <1>9, Calls DEF Handle, Ends
    <2> QED
        BY <1>9, <2>1 DEF Handle, Ends
<1>10. CASE Unauthorized(t)
    <2>1. call' \in [Tabs -> Call] /\ entitled' \subseteq Tabs
        BY <1>10, Calls DEF Unauthorized, Ends
    <2>2. /\ page' \in [Tabs -> {"login", "app"}]
          /\ shown' \in [Tabs -> Accounts \cup {None}]
          /\ \A u \in Tabs : page'[u] = "app" => shown'[u] # None
        BY <1>10 DEF Unauthorized
    <2>3. /\ UNCHANGED <<process, seeding, users, issued, lapsed, login>>
          /\ storage' = 0
        BY <1>10 DEF Unauthorized
    <2> QED
        BY <2>1, <2>2, <2>3
<1>11. CASE Logout(t)
    BY <1>11, SMTT(30) DEF Logout
<1>12. CASE Reload(t)
    <2>1. call' \in [Tabs -> Call]
        BY <1>12, Calls DEF Reload
    <2>2. storage # 0 => Stored \in Accounts
        <3>1. storage # 0 => issued[storage] \in Claims
            OBVIOUS
        <3> QED
            BY <3>1 DEF Stored, Claims
    <2>3. storage = 0 => Stored = None
        BY DEF Stored
    <2> QED
        BY <1>12, <2>1, <2>2, <2>3, SMTT(30) DEF Reload, NoLogin
<1> QED
    BY <1>1, <1>2, <1>3, <1>4, <1>5, <1>6, <1>7, <1>8, <1>9, <1>10, <1>11, <1>12 DEF Continues

\* And by every step of the server, of time and of the people at the database.
LEMMA ServerTypes ==
    ASSUME TypeOK,
           \/ Starts \/ Drains \/ Stops \/ Lapse
           \/ \E a \in Accounts, role \in Roles, active \in {"active", "inactive"} :
                  Operate(a, role, active)
    PROVE  TypeOK'
<1> USE ServerAssumption, SessionAssumption DEF TypeOK, svars, cvars
<1>1. CASE Starts
    <2>1. CASE Boot
        BY <1>1, <2>1, SMTT(30) DEF Starts, Boot
    <2>2. CASE SeedExisting
        BY <1>1, <2>2, SMTT(30) DEF Starts, SeedExisting
    <2>3. CASE SeedCreate
        <3>1. Seeds[seeding] \in Accounts
            BY <2>3 DEF SeedCreate
        <3>2. [role |-> SeedRole[Seeds[seeding]], active |-> "active"] \in User
            BY <3>1 DEF User
        <3>3. users' \in [Accounts -> User \cup {NoUser}]
            BY <2>3, <3>1, <3>2 DEF SeedCreate
        <3> QED
            BY <1>1, <2>3, <3>3, SMTT(30) DEF Starts, SeedCreate
    <2>4. CASE Listen
        BY <1>1, <2>4, SMTT(30) DEF Starts, Listen
    <2> QED
        BY <1>1, <2>1, <2>2, <2>3, <2>4 DEF Starts
<1>2. CASE Drains
    BY <1>2 DEF Drains, Terminate
<1>3. CASE Stops
    <2>1. call' \in [Tabs -> Call]
        BY <1>3, Calls DEF Stops, Cut
    <2> QED
        BY <1>3, <2>1 DEF Stops, Cut, Exit, Crash
<1>4. CASE Lapse
    BY <1>4, SMTT(30) DEF Lapse
<1>5. ASSUME NEW a \in Accounts, NEW role \in Roles, NEW active \in {"active", "inactive"},
             Operate(a, role, active)
      PROVE  TypeOK'
    <2>1. [role |-> role, active |-> active] \in User
        BY DEF User
    <2>2. users' \in [Accounts -> User \cup {NoUser}]
        BY <1>5, <2>1 DEF Operate, ChangeAccount
    <2> QED
        BY <1>5, <2>2 DEF Operate, ChangeAccount
<1> QED
    BY <1>1, <1>2, <1>3, <1>4, <1>5

LEMMA TypesKept == TypeOK /\ [Next]_vars => TypeOK'
<1> SUFFICES ASSUME TypeOK, [Next]_vars PROVE TypeOK'
    OBVIOUS
<1>1. CASE Next
    BY <1>1, TabTypes, ServerTypes DEF Next
<1>2. CASE UNCHANGED vars
    BY <1>2 DEF vars, svars, cvars, TypeOK
<1> QED
    BY <1>1, <1>2

\* Only the server's own steps have to do with the seed: SeedExisting and
\* SeedCreate leave an account behind them that exists, and an account that
\* exists is changed but never removed.
LEMMA SeedKept == IInv /\ [Next]_vars => SeededSoFar'
<1> SUFFICES ASSUME IInv, [Next]_vars PROVE SeededSoFar'
    OBVIOUS
<1> USE ServerAssumption DEF IInv, SeededSoFar, ServingSeeded
<1>1. CASE UNCHANGED svars
    BY <1>1 DEF svars, Exists
<1>2. CASE Boot
    BY <1>2 DEF Boot, Exists
<1>3. CASE SeedExisting
    BY <1>3, SMTT(30) DEF SeedExisting, Exists, TypeOK
<1>4. CASE SeedCreate
    <2>1. /\ seeding \in 1 .. Len(Seeds) /\ Seeds[seeding] \in Accounts
          /\ process = "seeding" /\ process' = process /\ seeding' = seeding + 1
        BY <1>4 DEF SeedCreate, TypeOK
    <2>2. users'[Seeds[seeding]] # NoUser
        BY <1>4, <2>1, SMTT(30) DEF SeedCreate, TypeOK, Exists, NoUser
    <2>3. \A a \in Accounts : Exists(a) => Exists(a)'
        BY <1>4, <2>1, <2>2, SMTT(30) DEF SeedCreate, TypeOK, Exists
    <2>4. \A i \in 1 .. Len(Seeds) : i < seeding + 1 => Exists(Seeds[i])'
        <3> SUFFICES ASSUME NEW i \in 1 .. Len(Seeds), i < seeding + 1
                     PROVE  Exists(Seeds[i])'
            OBVIOUS
        <3>1. CASE i = seeding
            BY <2>2, <3>1 DEF Exists
        <3>2. CASE i # seeding
            <4>1. i < seeding
                BY <3>2, <2>1
            <4>2. Exists(Seeds[i]) /\ Seeds[i] \in Accounts
                BY <4>1, <2>1
            <4> QED
                BY <4>2, <2>3
        <3> QED
            BY <3>1, <3>2
    <2> QED
        BY <2>1, <2>4 DEF Exists
<1>5. CASE Listen
    BY <1>5, SMTT(30) DEF Listen, Exists, TypeOK
<1>6. CASE Terminate \/ Exit \/ Crash
    BY <1>6 DEF Terminate, Exit, Crash, Exists
<1>7. ASSUME NEW a \in Accounts, NEW role \in Roles, NEW active \in {"active", "inactive"},
             ChangeAccount(a, role, active)
      PROVE  SeededSoFar'
    <2>1. \A b \in Accounts : Exists(b) => Exists(b)'
        BY <1>7, SMTT(30) DEF ChangeAccount, Exists, NoUser, TypeOK
    <2> QED
        BY <1>7, <2>1 DEF ChangeAccount
<1> QED
    BY <1>1, <1>2, <1>3, <1>4, <1>5, <1>6, <1>7
    DEF Next, vars, Continues, LogIn, LoginRefused, SendCall, LoginAnswered, Enter, Authorize,
        Forbid, RejectAccount, Handle, Unauthorized, Logout, Reload, Starts, Drains, Stops,
        Lapse, Operate

\* A step that leaves the request of a tab and the users table alone leaves the
\* request in order, even if it issues a token.
LEMMA Untouched ==
    ASSUME TypeOK, NEW u \in Tabs, RequestOK(u),
           call'[u] = call[u], u \in entitled => u \in entitled', users' = users,
           process' = process \/ process' \in {"serving", "draining"},
           issued' = issued \/ \E c \in Claims : issued' = Append(issued, c)
    PROVE  RequestOK(u)'
<1>1. \A k \in DOMAIN issued : k \in DOMAIN issued' /\ issued'[k] = issued[k]
    BY SMTT(30) DEF TypeOK
<1>2. InFlight(u) => call[u].token \in DOMAIN issued
    BY DEF RequestOK
<1>3. InFlight(u) => Permits(users, call[u].token, call[u].op)'
                     = Permits(users, call[u].token, call[u].op)
    BY <1>1, <1>2 DEF Permits
<1>4. InFlight(u)' = InFlight(u)
    BY DEF InFlight
<1>5. InFlight(u) => process' \in {"serving", "draining"} /\ call'[u].token \in DOMAIN issued'
    BY <1>1, <1>2 DEF RequestOK
<1> QED
    BY <1>3, <1>4, <1>5 DEF RequestOK, InFlight

\* A request that is over, or not sent yet, is in order.
LEMMA Over ==
    ASSUME NEW u \in Tabs, call'[u] = NoCall \/ call'[u] = Rejected
    PROVE  RequestOK(u)'
BY DEF RequestOK, InFlight, NoCall, Rejected

\* A tab's step concerns its own request.
LEMMA TabRequests ==
    ASSUME IInv, NEW t \in Tabs,
           \/ \E a \in Accounts : LogIn(t, a)
           \/ LoginRefused(t)
           \/ \E op \in Operations : SendCall(t, op)
           \/ Continues(t) \/ Logout(t) \/ Reload(t)
    PROVE  \A u \in Tabs : RequestOK(u)'
<1> USE DEF svars
<1>0. call \in [Tabs -> Call] /\ TypeOK /\ \A u \in Tabs : RequestOK(u)
    BY DEF IInv, TypeOK
<1> SUFFICES ASSUME NEW u \in Tabs PROVE RequestOK(u)'
    OBVIOUS
<1>1. ASSUME NEW a \in Accounts, LogIn(t, a) PROVE RequestOK(u)'
    <2>1. [account |-> a, role |-> users[a].role] \in Claims
        BY <1>1, <1>0 DEF LogIn, Found, TypeOK, User, NoUser, Claims
    <2>2. \E c \in Claims : issued' = Append(issued, c)
        BY <1>1, <2>1 DEF LogIn
    <2> QED
        BY <1>0, <1>1, <2>2, Untouched DEF LogIn
<1>2. CASE LoginRefused(t) \/ LoginAnswered(t) \/ Enter(t) \/ Logout(t)
    BY <1>0, <1>2, Untouched DEF LoginRefused, LoginAnswered, Enter, Logout
<1>3. ASSUME NEW op \in Operations, SendCall(t, op) PROVE RequestOK(u)'
    <2>1. CASE u # t
        BY <1>0, <1>3, <2>1, Untouched DEF SendCall
    <2>2. CASE u = t /\ ~ Unexpired(storage)
        BY <1>0, <1>3, <2>2, Over DEF SendCall
    <2>3. CASE u = t /\ Unexpired(storage)
        <3>1. call'[t] = [stage |-> "parsed", op |-> op, token |-> storage, awaited |-> "yes"]
            BY <1>0, <1>3, <2>3 DEF SendCall
        <3>2. Permits(users, storage, op) => t \in entitled'
            BY <1>3, <2>3 DEF SendCall
        <3>3. process' = "serving" /\ users' = users /\ issued' = issued
            BY <1>3 DEF SendCall
        <3>4. Permits(users, call[t].token, call[t].op)' = Permits(users, storage, op)
            BY <3>1, <3>3 DEF Permits
        <3>5. storage \in DOMAIN issued
            BY <2>3 DEF Unexpired
        <3> QED
            BY <2>3, <3>1, <3>2, <3>3, <3>4, <3>5 DEF RequestOK, InFlight
    <2> QED
        BY <2>1, <2>2, <2>3
<1>4. CASE Authorize(t)
    <2>1. CASE u # t
        BY <1>0, <1>4, <2>1, Untouched DEF Authorize
    <2>2. CASE u = t
        <3>1. Permits(users, call[t].token, call[t].op)
            BY <1>4 DEF Authorize, Permits, Account, Found
        <3>2. t \in entitled /\ call[t].token \in DOMAIN issued
            BY <1>0, <1>4, <3>1 DEF RequestOK, Authorize, InFlight
        <3>3. call'[t].stage = "running" /\ call'[t].token = call[t].token
            BY <1>0, <1>4 DEF Authorize, Call
        <3>4. process \in {"serving", "draining"}
            BY <1>4 DEF Authorize, Up
        <3> QED
            BY <1>4, <2>2, <3>2, <3>3, <3>4 DEF RequestOK, Authorize
    <2> QED
        BY <2>1, <2>2
<1>5. CASE Forbid(t) \/ Handle(t) \/ Unauthorized(t)
    <2>1. CASE u # t
        BY <1>0, <1>5, <2>1, Untouched DEF Forbid, Handle, Unauthorized, Ends
    <2>2. CASE u = t
        BY <1>0, <1>5, <2>2, Over DEF Forbid, Handle, Unauthorized, Ends
    <2> QED
        BY <2>1, <2>2
<1>6. CASE RejectAccount(t)
    <2>1. CASE u # t
        BY <1>0, <1>6, <2>1, Untouched DEF RejectAccount, EndsUnauthorized
    <2>2. CASE u = t
        BY <1>0, <1>6, <2>2, Over DEF RejectAccount, EndsUnauthorized
    <2> QED
        BY <2>1, <2>2
<1>7. CASE Reload(t)
    <2>1. CASE u # t
        BY <1>0, <1>7, <2>1, Untouched DEF Reload
    <2>2. CASE u = t /\ InFlight(t)
        <3>1. /\ call'[t].stage = call[t].stage
              /\ call'[t].token = call[t].token
              /\ call'[t].op = call[t].op
            BY <1>0, <1>7, <2>2 DEF Reload, InFlight, Call
        <3>2. /\ users' = users /\ issued' = issued
              /\ process' = process /\ entitled' = entitled
            BY <1>7 DEF Reload
        <3> QED
            BY <1>0, <2>2, <3>1, <3>2 DEF RequestOK, InFlight, Permits
    <2>3. CASE u = t /\ ~ InFlight(t)
        BY <1>0, <1>7, <2>3, Over DEF Reload, InFlight
    <2> QED
        BY <2>1, <2>2, <2>3
<1> QED
    BY <1>1, <1>2, <1>3, <1>4, <1>5, <1>6, <1>7 DEF Continues

\* The server's steps and time; when the users table changes, every request it
\* permits from then on is entitled by that step.
LEMMA ServerRequests ==
    ASSUME IInv,
           \/ Starts \/ Drains \/ Stops \/ Lapse
           \/ \E a \in Accounts, role \in Roles, active \in {"active", "inactive"} :
                  Operate(a, role, active)
    PROVE  \A u \in Tabs : RequestOK(u)'
<1> USE DEF svars, cvars
<1>0. call \in [Tabs -> Call] /\ TypeOK /\ \A u \in Tabs : RequestOK(u)
    BY DEF IInv, TypeOK
<1> SUFFICES ASSUME NEW u \in Tabs PROVE RequestOK(u)'
    OBVIOUS
<1>1. CASE Starts
    <2>1. ~ InFlight(u)
        BY <1>0, <1>1 DEF Starts, Boot, SeedExisting, SeedCreate, Listen, RequestOK
    <2> QED
        BY <1>1, <2>1 DEF Starts, RequestOK, InFlight
<1>2. CASE Drains
    BY <1>0, <1>2, Untouched DEF Drains, Terminate
<1>3. CASE Stops
    BY <1>0, <1>3 DEF Stops, Cut, RequestOK, InFlight, NoCall
<1>4. CASE Lapse
    BY <1>0, <1>4, Untouched DEF Lapse
<1>5. ASSUME NEW a \in Accounts, NEW role \in Roles, NEW active \in {"active", "inactive"},
             Operate(a, role, active)
      PROVE  RequestOK(u)'
    <2>1. call' = call /\ issued' = issued /\ process' = process
        BY <1>5 DEF Operate, ChangeAccount
    <2>2. call[u].stage = "parsed" /\ Permits(users', call[u].token, call[u].op)
              => u \in entitled'
        BY <1>5 DEF Operate
    <2>3. u \in entitled => u \in entitled'
        BY <1>5 DEF Operate
    <2>4. Permits(users, call[u].token, call[u].op)'
              = Permits(users', call[u].token, call[u].op)
        BY <2>1 DEF Permits
    <2> QED
        BY <1>0, <2>1, <2>2, <2>3, <2>4 DEF RequestOK, InFlight
<1> QED
    BY <1>1, <1>2, <1>3, <1>4, <1>5

LEMMA InvKept == IInv /\ [Next]_vars => IInv'
<1> SUFFICES ASSUME IInv, [Next]_vars PROVE IInv'
    OBVIOUS
<1>1. TypeOK'
    BY TypesKept DEF IInv
<1>2. SeededSoFar'
    BY SeedKept
<1>3. \A u \in Tabs : RequestOK(u)'
    <2>1. CASE Next
        BY <2>1, TabRequests, ServerRequests DEF Next
    <2>2. CASE UNCHANGED vars
        BY <2>2 DEF IInv, RequestOK, InFlight, Permits, vars, svars, cvars
    <2> QED
        BY <2>1, <2>2
<1> QED
    BY <1>1, <1>2, <1>3 DEF IInv

THEOREM Inductive == Spec => []IInv
<1> QED
    BY InitIInv, InvKept, PTL DEF Spec

\* Tables, requests and tabs keep their shapes.
THEOREM TypesCorrect == Spec => []TypeOK
<1>1. IInv => TypeOK
    BY DEF IInv
<1> QED
    BY <1>1, Inductive, PTL

\* Nobody listens before every account of the seed exists, whenever the process
\* died while it was creating them: main listens after MigrateAndSeed.
THEOREM SeededWhenServing == Spec => []ServingSeeded
<1>1. IInv => ServingSeeded
    BY DEF IInv, SeededSoFar
<1> QED
    BY <1>1, Inductive, PTL

\* A handler runs only for an account that the users table let through at some
\* moment since the request arrived: Parse and RBACMiddleware.
THEOREM AuthorityIsCurrent == Spec => []AuthorityCurrent
<1>1. IInv => AuthorityCurrent
    BY DEF IInv, RequestOK, AuthorityCurrent
<1> QED
    BY <1>1, Inductive, PTL
=============================================================================
