--------------------------- MODULE ServerProcess ---------------------------
(***************************************************************************)
(* The server process and the accounts it keeps: main of cmd/server, and   *)
(* Open and MigrateAndSeed of repository/user_repository.go.  The process  *)
(* is started again whenever it has ended (restart: unless-stopped); it    *)
(* may die between any two statements.  The users table outlives it.       *)
(***************************************************************************)
EXTENDS Naturals, Sequences

CONSTANTS Accounts,     \* usernames
          Seeds,        \* the accounts MigrateAndSeed creates, in order
          SeedRole,     \* and the role of each
          Roles,        \* analyst, reviewer, admin
          None,         \* the entry of a username nobody has
          AutoMigrate,  \* DB_AUTO_MIGRATE
          MaxFaults     \* bound: deaths of the process and changes of accounts

ASSUME ServerAssumption ==
    /\ Seeds \in Seq(Accounts)
    /\ SeedRole \in [Accounts -> Roles]
    /\ None \notin Roles
    /\ AutoMigrate \in BOOLEAN
    /\ MaxFaults \in Nat

VARIABLES process,      \* what main is doing
          seeding,      \* the account MigrateAndSeed looks at
          users,        \* the users table
          faults        \* deaths and changes of accounts so far

svars == <<process, seeding, users, faults>>

\* model.User as far as anything depends on it.
User == [role : Roles, active : {"active", "inactive"}]
NoUser == [role |-> None, active |-> "inactive"]

Exists(a) == users[a] # NoUser

\* The lookups by username and by id of UserRepository find active accounts only.
Found(a) == users[a].active = "active"

ServerInit ==
    /\ process = "down"
    /\ seeding = 1
    /\ users = [a \in Accounts |-> NoUser]
    /\ faults = 0
----------------------------------------------------------------------------
\* config.Load, Open and, unless it is switched off, the migration.
Boot ==
    /\ process = "down"
    /\ process' = IF AutoMigrate THEN "seeding" ELSE "serving"
    /\ seeding' = 1
    /\ UNCHANGED <<users, faults>>

\* Mutant: an account that exists is taken for a finished seed.
SeedSkip ==
    /\ process = "seeding" /\ seeding <= Len(Seeds)
    /\ Exists(Seeds[seeding])
    /\ seeding' = Len(Seeds) + 1
    /\ UNCHANGED <<process, users, faults>>

\* The account is there, whatever has become of it: continue.
SeedExisting ==
    /\ process = "seeding" /\ seeding <= Len(Seeds)
    /\ Exists(Seeds[seeding])
    /\ seeding' = seeding + 1
    /\ UNCHANGED <<process, users, faults>>

SeedCreate ==
    /\ process = "seeding" /\ seeding <= Len(Seeds)
    /\ ~ Exists(Seeds[seeding])
    /\ users' = [users EXCEPT ![Seeds[seeding]] =
                     [role |-> SeedRole[Seeds[seeding]], active |-> "active"]]
    /\ seeding' = seeding + 1
    /\ UNCHANGED <<process, faults>>

\* The listener is up once every account has been looked at.
Listen ==
    /\ process = "seeding" /\ seeding = Len(Seeds) + 1
    /\ process' = "serving"
    /\ UNCHANGED <<seeding, users, faults>>

\* SIGTERM: server.Shutdown takes no new request and waits for the running ones.
Terminate ==
    /\ process = "serving"
    /\ faults < MaxFaults
    /\ faults' = faults + 1
    /\ process' = "draining"
    /\ UNCHANGED <<seeding, users>>

\* The last request has been answered or ShutdownTimeout is over; the database
\* handle is closed and main returns.
Exit ==
    /\ process = "draining"
    /\ process' = "down"
    /\ UNCHANGED <<seeding, users, faults>>

\* A failed statement of the seed (os.Exit(1)), a kill, a panic outside a handler.
Crash ==
    /\ process # "down"
    /\ faults < MaxFaults
    /\ faults' = faults + 1
    /\ process' = "down"
    /\ UNCHANGED <<seeding, users>>

\* Somebody changes a role or (de)activates an account in the database.
ChangeAccount(a, role, active) ==
    /\ Exists(a) /\ faults < MaxFaults
    /\ users' = [users EXCEPT ![a] = [role |-> role, active |-> active]]
    /\ users' # users
    /\ faults' = faults + 1
    /\ UNCHANGED <<process, seeding>>
============================================================================
