---------------------------- MODULE ServerStart ----------------------------
(***************************************************************************)
(* From nothing to a server that serves: src/cmd/server/main.go, app.New   *)
(* and app.Run, the migrations runner and EnsureUser, by several replicas  *)
(* over one PostgreSQL database, each under a supervisor that starts it    *)
(* again.  The scripts of src/migrations are run by golang-migrate, which  *)
(* is modelled from how database.RunMigrations uses it: an advisory lock   *)
(* around all scripts, and a version that is marked dirty before a script  *)
(* and clean after it.  A script is one statement of the database, so its  *)
(* effect is there or not; the last one creates auth_users.                *)
(*                                                                         *)
(* A failed statement whose effect is there all the same is a statement    *)
(* that succeeds and a failure at the next.                                *)
(***************************************************************************)
EXTENDS Naturals

CONSTANTS
    Replicas,
    Nobody,         \* the holder of a lock that is free
    Scripts,        \* number of up scripts
    Admin, User,    \* AUTH_ADMIN_USERNAME and AUTH_USER_USERNAME
    MaxFaults,      \* bound on the crashes and failed statements
    MaxSignals,     \* bound on the signals to stop
    MaxDeletes      \* bound on the users that admins delete

ASSUME NobodyAssumption == Nobody \notin Replicas
ASSUME ScriptsAssumption == Scripts \in Nat \ {0}
ASSUME BoundsAssumption == MaxFaults \in Nat /\ MaxSignals \in Nat /\ MaxDeletes \in Nat

VARIABLES
    version, dirty, \* the row of schema_migrations; version 0 when there is none
    applied,        \* the scripts whose effect is in the database
    users,          \* the names in auth_users
    lock,           \* who holds the advisory lock
    pc,             \* pc[r]: what replica r does next
    told,           \* told[r]: it was sent SIGINT or SIGTERM
    faults, signals, deletes    \* so far

database == <<version, dirty, applied, users>>
counts == <<faults, signals, deletes>>
vars == <<database, lock, pc, told, counts>>

Migrating == {"version", "mark", "script", "clean"}
Places ==
    {"down", "lock", "pool", "find admin", "create admin", "find user", "create user",
     "listen", "serving"} \cup Migrating

TypeOK ==
    /\ version \in 0..Scripts /\ dirty \in BOOLEAN
    /\ applied \subseteq 1..Scripts
    /\ users \subseteq {Admin, User}
    /\ lock \in Replicas \cup {Nobody}
    /\ pc \in [Replicas -> Places]
    /\ told \in [Replicas -> BOOLEAN]
    /\ faults \in 0..MaxFaults /\ signals \in 0..MaxSignals /\ deletes \in 0..MaxDeletes

At(r, place) == pc[r] = place
Goto(r, place) == pc' = [pc EXCEPT ![r] = place]

\* The process ends: the signal it was sent is no other's, and its session, if
\* it had one, is closed.
Exit(r) ==
    /\ Goto(r, "down")
    /\ told' = [told EXCEPT ![r] = FALSE]
    /\ lock' = IF lock = r THEN Nobody ELSE lock

Start(r) ==
    /\ At(r, "down")
    /\ Goto(r, "lock")
    /\ UNCHANGED <<database, lock, told, counts>>

-----------------------------------------------------------------------------
(* The migrations.                                                         *)

\* (mutant) Nobody waits for another.
LockShared(r) ==
    /\ At(r, "lock")
    /\ lock' = r
    /\ Goto(r, "version")
    /\ UNCHANGED <<database, told, counts>>

Lock(r) ==
    /\ At(r, "lock")
    /\ lock = Nobody
    /\ lock' = r
    /\ Goto(r, "version")
    /\ UNCHANGED <<database, told, counts>>

\* The lock is waited for for a while: without it there is a warning.
LockTimesOut(r) ==
    /\ At(r, "lock")
    /\ lock # Nobody
    /\ Goto(r, "pool")
    /\ UNCHANGED <<database, lock, told, counts>>

\* Nothing is done when the version is dirty, or the last: the first is an
\* error, and all errors of the migrations are warnings.
ReadVersion(r) ==
    /\ At(r, "version")
    /\ IF dirty \/ version = Scripts
       THEN lock' = Nobody /\ Goto(r, "pool")
       ELSE UNCHANGED lock /\ Goto(r, "mark")
    /\ UNCHANGED <<database, told, counts>>

MarkDirty(r) ==
    /\ At(r, "mark")
    /\ version' = version + 1 /\ dirty' = TRUE
    /\ Goto(r, "script")
    /\ UNCHANGED <<applied, users, lock, told, counts>>

RunScript(r) ==
    /\ At(r, "script")
    /\ applied' = applied \cup {version}
    /\ Goto(r, "clean")
    /\ UNCHANGED <<version, dirty, users, lock, told, counts>>

SetClean(r) ==
    /\ At(r, "clean")
    /\ dirty' = FALSE
    /\ Goto(r, "version")
    /\ UNCHANGED <<version, applied, users, lock, told, counts>>

-----------------------------------------------------------------------------
(* The rest of app.New, and app.Run.                                       *)

NewPool(r) ==
    /\ At(r, "pool")
    /\ Goto(r, "find admin")
    /\ UNCHANGED <<database, lock, told, counts>>

HasAuthUsers == Scripts \in applied

\* (mutant) A start that cannot ask for the user warns, as it does for the
\* migrations.
FindWarns(r, name, find, create, next) ==
    /\ At(r, find)
    /\ Goto(r, IF HasAuthUsers /\ name \notin users THEN create ELSE next)
    /\ UNCHANGED <<database, lock, told, counts>>

\* (mutant) The user is created without looking whether it is there.
FindNothing(r, name, find, create, next) ==
    /\ At(r, find)
    /\ IF HasAuthUsers THEN Goto(r, create) /\ UNCHANGED <<lock, told>> ELSE Exit(r)
    /\ UNCHANGED <<database, counts>>

\* First half of EnsureUser: without the table it is an error, and the end.
FindUser(r, name, find, create, next) ==
    /\ At(r, find)
    /\ IF HasAuthUsers
       THEN Goto(r, IF name \in users THEN next ELSE create) /\ UNCHANGED <<lock, told>>
       ELSE Exit(r)
    /\ UNCHANGED <<database, counts>>

\* Second half: a user that is there by now is an error, and the end.
CreateUser(r, name, create, next) ==
    /\ At(r, create)
    /\ users' = users \cup {name}
    /\ IF name \in users THEN Exit(r) ELSE Goto(r, next) /\ UNCHANGED <<lock, told>>
    /\ UNCHANGED <<version, dirty, applied, counts>>

EnsureUser(r) ==
    \/ FindUser(r, Admin, "find admin", "create admin",
                IF User = Admin THEN "listen" ELSE "find user")
    \/ CreateUser(r, Admin, "create admin", IF User = Admin THEN "listen" ELSE "find user")
    \/ FindUser(r, User, "find user", "create user", "listen")
    \/ CreateUser(r, User, "create user", "listen")

\* The first project and stage, whose absence is a warning; then the port.
Listen(r) ==
    /\ At(r, "listen")
    /\ Goto(r, "serving")
    /\ UNCHANGED <<database, lock, told, counts>>

\* A signal that came before Run is found by it.
Shutdown(r) ==
    /\ At(r, "serving") /\ told[r]
    /\ Exit(r)
    /\ UNCHANGED <<database, counts>>

-----------------------------------------------------------------------------
(* What may happen at any time.                                            *)

Signal(r) ==
    /\ signals < MaxSignals
    /\ ~At(r, "down")
    /\ signals' = signals + 1
    /\ told' = [told EXCEPT ![r] = TRUE]
    /\ UNCHANGED <<database, lock, pc, faults, deletes>>

\* A statement fails, or a port is taken: of the migrations that is a warning.
Fail(r) ==
    /\ faults < MaxFaults
    /\ ~At(r, "down") /\ ~At(r, "serving")
    /\ faults' = faults + 1
    /\ IF pc[r] \in {"lock"} \cup Migrating
       THEN /\ Goto(r, "pool") /\ lock' = IF lock = r THEN Nobody ELSE lock
            /\ UNCHANGED told
       ELSE Exit(r)
    /\ UNCHANGED <<database, signals, deletes>>

Crash(r) ==
    /\ faults < MaxFaults
    /\ ~At(r, "down")
    /\ faults' = faults + 1
    /\ Exit(r)
    /\ UNCHANGED <<database, signals, deletes>>

\* A request of an admin to a replica that serves.
DeleteUser(r) ==
    /\ deletes < MaxDeletes
    /\ At(r, "serving")
    /\ deletes' = deletes + 1
    /\ \E name \in users : users' = users \ {name}
    /\ UNCHANGED <<version, dirty, applied, lock, pc, told, faults, signals>>

-----------------------------------------------------------------------------

\* An empty database.
Init ==
    /\ version = 0 /\ dirty = FALSE /\ applied = {} /\ users = {}
    /\ lock = Nobody
    /\ pc = [r \in Replicas |-> "down"]
    /\ told = [r \in Replicas |-> FALSE]
    /\ faults = 0 /\ signals = 0 /\ deletes = 0

Migrate(r) ==
    \/ Lock(r) \/ LockTimesOut(r) \/ ReadVersion(r)
    \/ MarkDirty(r) \/ RunScript(r) \/ SetClean(r)

Step(r) == Start(r) \/ Migrate(r) \/ NewPool(r) \/ EnsureUser(r) \/ Listen(r) \/ Shutdown(r)

Next == \E r \in Replicas : Step(r) \/ Signal(r) \/ Fail(r) \/ Crash(r) \/ DeleteUser(r)

\* The supervisor starts a process that has ended, the process goes on, and the
\* database answers or the wait for its lock times out.
Fairness == \A r \in Replicas : WF_vars(Step(r))

Spec == Init /\ [][Next]_vars /\ Fairness

-----------------------------------------------------------------------------
(* Properties.                                                             *)

\* A replica that serves has all its tables, though a migration that fails, or
\* that another replica has not finished, is only a warning (app.go:67-69): who
\* looks for a user in the table of the last script does not get past it.
ServesWholeSchema == \A r \in Replicas : At(r, "serving") => applied = 1..Scripts

\* Each script runs once, and over the effects of exactly those before it,
\* however many replicas start at the same time and crash (migrate.go:46).
ScriptsInOrder == \A r \in Replicas : At(r, "script") => applied = 1..(version - 1)

\* A version that is not dirty can be believed, after any crash.
CleanIsTrue == ~dirty => applied = 1..version

\* A migration that was cut short: nobody goes on with it.
Stuck == dirty /\ lock = Nobody /\ applied # 1..Scripts

\* A replica that is down comes up again, though replicas that start together
\* miss the same user and the second of them fails (service.go:66-81), and
\* users are deleted between two starts; unless a migration was cut short.
ComesUp == \A r \in Replicas : At(r, "down") ~> (At(r, "serving") \/ Stuck)
=============================================================================
