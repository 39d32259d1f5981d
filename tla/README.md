# funwithflags in TLA+

funwithflags is a feature-flag service: a Go server with an admin API, an
evaluation API and a React console, storing projects, stages, flags, users and
an audit trail in PostgreSQL or in memory. This directory holds TLA+ models of
it, TLC configurations that check them on small instances, and TLAPS proofs.
Paths are relative to the repository; `src/` is left out in this file.

## 1. The system

| Component | Keeps | Operations | Models |
|---|---|---|---|
| Validity ranges, `internal/flag/temporal.go` | nothing | overlap, "valid at", validation; the same overlap in SQL | `TimeRanges` |
| In-memory flag store, `internal/flag/memory_repository.go` | a map of ranges by id, the next id, behind one RWMutex | upsert, delete, activate, deactivate, get, list | `MemoryFlagRepository` implements `FlagCalendar` |
| Flag service, PostgreSQL store and audit, `internal/flag/service.go`, `postgres_repository.go`, `audit.go` | `feature_flags`, `audit_logs` | the same, each a sequence of autocommitted statements, then an audit record | `PostgresFlagService`; one request at a time it implements `FlagCalendar` |
| Validation and evaluation, `validateFlag` and `internal/flag/evaluator.go` | nothing | check a flag; conditions, targets, percentage rollouts | `RuleEngine` |
| Projects and stages, `internal/project` | `projects`, `stages`, or two maps | create, update, delete, seed the defaults | `ProjectCatalog` implements `ScopeTree` |
| Users and tokens, `internal/auth` | users; refresh tokens in the memory of one process; signed access tokens in nobody's | log in, refresh, log out, admit, manage users, seed users | `TokenManager` |
| Routing, `internal/httpserver` | nothing | admission, decoding, error answers | the decoding is in the models of what it calls, admission in `TokenManager` |
| Server life cycle, `internal/app`, `cmd/server` | configuration | migrate, seed, serve, shut down | `ServerStart`, `ServerProcess`; seeding of the catalogue in `ProjectCatalog` |
| Pool and migrations runner, `internal/database` | connections; a version in the database | migrate, open, lend a connection | `ServerStart`, `ServerProcess` |
| Migrations, `migrations/` | the schema | five scripts up and down | their order in `ServerStart`; the constraints they leave in the other models |
| Console session, `frontend/src/context/AuthContext.tsx` | a token pair per tab, one in `localStorage` | log in, refresh on a timer, log out | `ConsoleSession`, composed with `TokenManager` |
| Console data, `frontend/src/App.tsx` | lists, selection | load, create, update, delete | `AdminConsole`; what its flag forms send is in `PostgresFlagService` |
| Panels, styles, CORS, static files, deployment scripts | - | - | not modelled: wording, rendering, configuration |

How they interact. A handler of `internal/httpserver` checks the token, decodes
the body and calls a service; a service calls a repository once or several
times; a repository method takes the lock of its map for its whole length, or
sends one SQL statement after another on pooled connections. **No request runs
in a transaction.** The flag tables and the catalogue meet in the foreign keys
of `migrations/000004`; the two in-memory stores do not meet at all. Clients
keep copies of what they read and send them back changed, with the `updatedAt`
of the copy as version.

What is hard, and what makes each part correct:

* *Ranges of one flag must not overlap*, through any sequence of creates,
  moves, switches and deletes, since an evaluation at an instant must have one
  answer. Half-open ranges, missing ends and NULLs in SQL are where it can slip.
* *An edit must not overwrite one its author has not seen.* The store compares
  a time stamp; who stamps what, and when it is compared, decides.
* *Check and write are one critical section in memory and several statements
  in PostgreSQL*, where only the unique index, the foreign keys and the count
  of affected rows hold against a race.
* *The audit trail* is written by one more statement whose error is dropped,
  from values read some statements earlier.
* *Evaluation trusts validation*: it checks nothing again, and an error it
  meets is a 500 on every request for the flag.
* *Replicas seed the same rows* when they start, while others serve.
* *Tokens live in three places* with three lives: access tokens with the clients
  alone, refresh tokens in a map that a restart empties, users in the database.
  A client may send any token it ever had; the role it acts with, and the login
  it prolongs, must be those of now.
* *A start goes on over a failed migration*, with a warning, next to other
  replicas that migrate, crash and seed the same users.
* *Requests share a mutex and a pool*, and one kind of request asks the database
  with the mutex in its hands; a shutdown waits for them, but not for ever.
* *The console has several tabs over one stored login*, each with a timer, and
  acts on answers that come in any order, whatever it shows by then.

`PROJECT.json` lists the hazards at their lines with the properties that watch
them.

## 2. Modules

**TimeRanges**: `RangesOverlap`, `IsValidInRange`, `ValidateTemporalRange` and
the SQL predicate `SqlOverlap`, over instants that are naturals; 0 is the zero
time, `NoEnd` the nil end. `Owners` and `ShownOf` are how both stores map their
rows to a calendar.

**FlagCalendar** (abstract): every instant of a flag's timeline belongs to at
most one range; a range is booked, moved, released, shown and hidden as a
whole; ids are never handed out twice.

**MemoryFlagRepository**: state `flags` (the map), `nextID`, `clock` (the stamps
of `r.now()`), and, for the clients, `copy` and the `answer` of the last call.
One action per method, because each holds the lock from its first access to its
last: `InsertFlag` and `UpdateFlag` (the two halves of `UpsertFlag`), `DeleteFlag`,
`ActivateFlag`, `DeactivateFlag`, `GetFlagByID`. `UpsertError` is the checks of
`UpsertFlag` in their order; requests that are refused are one action,
`RejectUpsert`, since they change nothing and only their error shows. Bodies
range over all ids, names, valid and invalid ranges and contents, with no
version or with that of a copy. `ImplementsCalendar` maps the map to the
calendar by asking, for each instant, which range is valid in it.

**PostgresFlagService**: state `table`, `nextId` (the sequence), `clock` (NOW()
at each write), `log` and, per session, the request it serves: its program
counter, body, version token, and what it has read (`old`, `seen`). One action
per SQL statement: `GetOld`, `UpsertCheck`, `GetExisting`, `UpdateRow`/`InsertRow`,
`DeleteRow`, `GetForSwitch`, `ActivateCheck`, `SetActive`, `GetNew`, `LogAction`;
`Fail` is any statement failing, the answer to the write being lost included.
The trigger that stamps rows and the unique index are part of the statements.
Three variables or fields are there for the properties only: `effect`, which write
the session has committed (the id of the row and its stamp), `compared`, when it
compared its version, and `lost`, the writes of requests that a failing statement
has ended. `ImplementsCalendar` maps the table to the same calendar; it is meant for one
request at a time, since two creates can overlap (see the findings), and is proved
for that (section 4).

**RuleEngine**: `validateFlag` and `Evaluate` with all they call, as operators.
The state is one stored flag that `UpsertFlag` replaces. Text operators are a
given relation, the FNV hash any function from seed and value to points,
weights integers in units of which `Total` make 100 %; `Slack` is the 0.0001 by
which a sum may miss it.

**ScopeTree** (abstract): projects contain stages, flags sit on stages, nothing
is removed from under a flag. **ProjectCatalog**: state `projects`, `stages`,
`flags` and the requests of the sessions; one action per repository call, for
both stores (`store`, fixed at the start). In memory `CreateStage` looks for the
project again under its lock, in PostgreSQL the foreign key does; in PostgreSQL
`ON DELETE RESTRICT` stops a deletion that the look at the flags has let
through. A starting replica seeds with `GetProject`, `CreateProject`, `GetStage`,
`CreateStage`, and takes "exists" for success.

**TokenManager**: state `users` (the rows, or the map of the in-memory store, by
`storage`), `refreshTokens` (the map of one
server), the `pairs` of tokens issued so far, how many of them have expired
(`oldAccess`, `oldRefresh`: tokens of a kind expire in the order of issue, having
one lifetime), and the request of each session. A login is `Authenticate` then
`IssueTokens`, an admin request `Admit` (`wrapAuth` with `ParseAccessToken`) then
one action per statement. `Refresh` is one action: it holds the mutex while it
asks for the user; `RefreshFails` is that question failing, with the token gone
already. Requests carry any token ever issued. `Restart` forgets the map and the
requests, in memory the users too, and runs `EnsureUser`. `entitled`, whether a request was at some time
since it came in entitled to what it asks, is there for `OnlyEntitled` only.

**ConsoleSession** extends `TokenManager` with browsers. State: per tab the pair
in its React state (`shown`) and whether its timer is still to fire (`armed`),
the one entry of `localStorage` (`stored`), and per connection the call that is
under way, with the tab that waits for it. `Login`, `refreshSession`, `Logout`
and `Reload` are what a tab does; a call is sent, `Arrive`s at the server, is
`Serve`d by the statements of `TokenManager`, and is `Deliver`ed or lost (`Lose`)
at any point. `Settle` is what the tab then does: `saveState` of the new pair, or
of null after a refresh that failed and after every logout. A tab does not hear
of what another stores.

**AdminConsole**: the catalogue of the server, the three lists and the selection
of the page, the effects that are to run (`due`) and the calls under way. A step
that changes what an effect depends on makes it due (`Rerun`); `RunEffects` sends
the loads; a call is `Serve`d and `Answer`ed some time later, or `Fails`; an edit
(create, update or delete a project or a stage, or a change of a flag) is followed
by the load of what was selected when it was begun (`Reload`).

**ServerStart**: several replicas over one database. State: the version row of
golang-migrate and its dirty flag, the scripts whose effect is there, the names
in `auth_users`, the advisory lock, and per replica where it is in `main`,
`app.New` and `app.Run`. One action per statement or call that another replica
can come between; `Fail`, `Crash` and `Signal` at any of them. golang-migrate is
external and modelled as `RunMigrations` uses it.

**ServerProcess**: one server. A handler is the sequence of what it asks for: the
mutex of the token manager, a connection of the pool for one statement. The
process serves, drains (`Shutdown` of net/http, external), closes the pool and is
gone. The statements themselves are in the modules of the stores.

`MC*` modules give the instances: sets of instants and ranges, the catalogue of
variations, conditions, rollouts and rules, the catalogues, and the symmetries. `ServerStart`
and `ServerProcess` need none.

Definitions marked *(mutant)* are wrong versions of the definition after them.
They are used in no specification; each shows that a property fails when the
code has the bug.

## 3. Runs

Each takes from seconds to about two minutes with two workers.

| Run | Instance | Question and result |
|---|---|---|
| `memory` | 2 instants, 2 flags, 3 writes, any number of deletes and switches, one client, valid and invalid contents | Ranges stay apart, the store implements `FlagCalendar`, and an update from a copy never overwrites an edit made since. Holds. |
| `pg_concurrent` | 2 sessions, 4 requests of the console, 1 flag, 2 overlapping ranges and an invalid one, an invalid content, failing statements | What survives every interleaving. Rows are of their types, an evaluation has one answer, a deletion is logged once. Nothing is logged that was not done, and a write without a record is one whose request had a failing statement, or one to a row that was deleted since (`UnloggedIsDeleted`). Once all is answered some record shows each row as it is, or a failing statement has cost it (`TableIsLogged`). An update with a version overwrites that version or an edit made after it was compared (`VersionOrLater`). Holds. |
| `rules` | 250 flags that pass validation, out of a catalogue with one fault of every kind, 27 hashes | What validation accepts, evaluation serves, in the shares asked for; widening a rollout takes the variation from nobody. Holds. |
| `catalog` | 2 projects, 2 stages, 1 flag, 2 sessions, 4 requests, both stores, failing statements | No stage outlives its project; seedings tolerate each other and undo no rename; over PostgreSQL the catalogue implements `ScopeTree`. Holds. |
| `tokens` | both stores of users, 2 admins, 2 passwords, 2 sessions, 4 requests, 3 pairs, 1 expiry, failing statements, restarts | A login has one refresh token, once ended stays ended, and a role or password that was taken away is of no use. Holds. |
| `session` | 2 tabs, 2 connections, 2 pairs, 1 expiry, 1 reload, restarts, lost calls | No tab shows a login without a timer or a refresh that will tell its end (`NobodyStranded`). A tab whose login has ended comes to the login form, and so does who logs out. Holds, the last two under fairness. |
| `startup` | 2 replicas, 3 scripts, 3 faults, 1 signal, 2 deleted users | Scripts run once and in order, nobody serves without the last table, and who is down comes up unless a migration was cut short. Holds, the last under fairness. |
| `process` | 3 connections, a pool of 1, up to 3 statements an admin request | Whoever holds the mutex has yet to unlock it (`MutexInOrder`), and requests never all wait for each other (`SomebodyGoesOn`). Every request is answered unless the process ends; a shutdown cuts off only what outlasts it, and ends. Holds, the answers and the end under fairness. |
| `console` | 2 projects, 2 stages, 3 actions of the user, each with at most one call under way | The selected stage is a listed one, and the effects come to rest. Holds, the last under fairness. |
| `pg_race_create` | 2 sessions, 2 creates | Ranges of one flag overlap. **Violated** |
| `pg_lost_update` | 2 sessions, 3 requests, no failures | An update overwrites a version other than the one it brings. **Violated** |
| `console_stale_flags` | 2 projects, 2 stages, 1 action with up to 2 calls under way | The flags listed are those of another stage. **Violated** |

Findings, as the violated runs show them:

1. `postgres_repository.go:263`: the overlap is counted in one statement and the
   row inserted in another. Two creates that overlap without starting together
   both go through; only ranges with the same start are stopped, by the index.
2. `postgres_repository.go:280`: an update compares its version with a row read by
   an earlier statement, and its `UPDATE` has no condition on it. What another
   session writes between the two is lost, against the "optimistic locking" and
   "version checks" of `docs/feature-flag-service-plan.md:10` and `:17`. In the
   trace it is a deactivation. The old value in the record of such an update is not
   what it replaced (`service.go:101`), against "with before/after JSONB values"
   (`docs/superpowers/specs/2026-03-12-funwithflags-refinement-design.md:56`).
   `VersionOrLater` is what is left of the promise.
3. `App.tsx:103`: `loadFlags` lists the flags of the stage it asked for, whatever
   is selected when the answer comes. Two loads that overtake each other leave
   the flags of one stage under the heading of another.

Also met while modelling, without a run.

*Flags.* The overlap of an update is counted for the flag the body names, the row
written keeps its own name (`postgres_repository.go:263` and `:284`); the console
never sends another name, the API takes one. In memory the catalogue does not know the flags,
nor the flag store the catalogue, so a stage is deleted from under its flags
(`internal/project/inmemory_repository.go:200`). A switch in memory leaves
`UpdatedAt` as it is (`memory_repository.go:213`), so an update from an older copy
passes the version check and writes the old `active` back, against the
"optimistic locking" of `docs/feature-flag-service-plan.md:10`; `NoLostEdit` leaves
`active` out for that reason. In PostgreSQL the trigger stamps the row and such an
update is refused. A flag created with `active: false` is stored active
(`postgres_repository.go:319`, `memory_repository.go:166`).

*Audit.* "Audit trail captures all flag changes with before/after JSONB values"
(the design of 2026-03-12, line 56) is more than the code does. The error of the
audit insert is dropped (`service.go:80`, `:113`, `:133`, `:185`, `:211`): a change may
have no record while its caller hears of success. What a switch has written is
not recorded when another session deletes the row before it is read back
(`:204`). The old value is read some statements before the write (`:101`), so it may
be older than what was replaced. The record of a create has no flag id and says
inactive of a flag that asked for it, though it is stored active. None of this
can be seen in a run that holds, so `pg_concurrent` checks what remains: that there
are no other ways for a record to be missing, and that the trail knows every row.
A request whose connection is lost after its write, or whose row is deleted
before a switch is read back, reports an error for a change that stands; nothing
in the repository says otherwise.

*Users and tokens.* `EnsureUser` looks for the name as configured and creates the
trimmed one, so with a blank in it the second start fails
(`internal/auth/service.go:71`). A password is changed before the role of the
same request is, and stays when that fails (`internal/httpserver/user.go:81`).
Two admins may demote each other, and nothing brings one back. A refresh token
that expires unused stays in the map until the server stops (`manager.go:189`).
The health endpoints ask for a token (`router.go:44`) that the check of
`fly.toml` does not send.

*Start and end.* A crash in a migration leaves its version dirty: no later start
migrates, each logs a warning (`app.go:67`), and if the last table is missing
each ends there (`Stuck` in `ServerStart`). Replicas that create the same user at
once end in the second (`service.go:79`) and come up on the next start.
`pool.Close` waits for a statement that hangs, beyond the five seconds of the
shutdown (`app.go:237`); `Stops` assumes that statements end.

*Console.* A refresh that is answered after a logout signs the tab in again,
with the token that the logout did not revoke (`AuthContext.tsx:93`). A tab whose
refresh is refused removes the login that another tab has stored
(`AuthContext.tsx:102`), which then lasts until that tab is loaded anew or
refreshes. After a project is deleted its key stays selected
(`App.tsx:58`, `prev ?? ...`), with stages and flags listed under no project; a
flag edited before another stage was selected brings back the list of the first
(`App.tsx:311`).

### Bounds

*Two instants* and the open end give ranges that touch, nest and start together,
which is what the checks can get wrong; every other relation, and every number of
instants, is covered by the proofs. *Two flags*, in `memory`, are needed for moves between them; over PostgreSQL a row
keeps its name and one flag has all the races.
*Writes and requests* (`MaxClock`, `MaxRequests`) bound the behaviour, not the
state: three writes make two ranges and move one; four requests are a create and
three that race for its row, or two creates and two that race. An activation that
races with a move onto its range needs five, and is left to the theorem
`UniqueAnswer`. Ids and stamps are as
many as writes. In `rules` a unit is 1/6 of 100 % and the points are 0, 2 and 4:
every point is on a border of some rollout of the catalogue, and `Slack` is one
unit, one less than the distance from the last point to 100 %, as in the code
(0.0001 against 0.01). In `tokens` three pairs are a login, its successor and
another login; four requests are the longest scenario: two logins, a demotion,
and a request of the demoted; with one expiry either token can be the late one.

In `session` two tabs are the least that share a stored pair, two connections the
least that overtake each other, and two pairs a login with its successor, or two
logins; what could bring a pair is sent only while there is room for it (`Room`),
so that the bound leaves no call hanging in the server, where nothing would. A
reload makes two tabs of one login. In `startup` three scripts are a first, a
middle and a last; three faults cut a migration short, fail the start after it
and leave one for another replica; the two users are both deleted once. In
`process` one connection of the pool is the hardest limit, and three requests are
one that holds it, one that holds the mutex and waits for it, and one that waits
for the mutex; a switch of a flag has seven statements, three already let others
in between twice. In `console` the two projects have a stage of the same name and
one has a stage of its own; `MaxWaiting` bounds how fast the user is, not how
slow the server: the loads that an action starts still overtake each other.

### Fairness and deadlock

Safety properties need no fairness. The temporal ones assume:

* `session`: the timer of a tab fires (strong fairness of `refreshSession`: that
  it needs a free connection, and room for a pair, is of the model), and every
  call is served and settles, delivered or lost (weak). Nobody has to log in,
  log out or reload; nothing has to expire or restart. `LogoutLeaves` is about
  the time after the last reload: a page that is loaded anew has forgotten that
  it was to log out.
* `startup`: weak fairness of each replica's own steps: the supervisor starts it
  again (`restart: unless-stopped` of `docker-compose.yml`), the database
  answers, and who holds the lock of the migrations goes on or ends (the first wait of
  golang-migrate for it has no limit of its own; the lock of a replica that
  crashes goes with its connection). Faults, signals and deletions are
  bounded, so they stop.
* `process`: a handler goes on and a statement ends (weak); a waiter for the
  mutex or the pool gets it in the end (strong: Go hands a mutex to who has
  waited for a millisecond, and the waiters of the pool queue); the shutdown goes
  on. Clients owe nothing, and the bounds of it are none: requests go on for ever.
* `console`: effects run, and a call is answered or fails in the end (weak).

Deadlock is checked where something can always happen: a session that had no next
statement would be found, and the end of a bounded behaviour is the explicit
action `Quiet`. It is not in `startup`, `process` and `console`, where all serve,
the process is gone, or the page is at rest, and no more faults or actions are
left. In `tokens` and `session` the server can always restart, so there the
deadlock check says nothing.

## 4. Proofs

`MemoryFlagRepositoryProofs`: for every set of names, contents, instants and
clients, and every bound on the clock, the specification implies `TypeOK`,
`NoOverlap`, `AnswerIsUnique`, `ActivationNeverBlocked`, `NoResurrection`,
`NoLostEdit` and `ImplementsCalendar`. The argument:

* `SharedInstant`: comparing the ends of two validated ranges is the same as
  asking for an instant valid in both, for any set of instants, finite or not.
* `NoOverlap` alone is inductive once the type is known: lemma `Accepted` says
  what an accepted body has been checked for, `PutKeepsApart` that storing such a
  row keeps ranges apart. Switching cannot disturb it because inactive ranges are
  checked too; that is also why `ActivationNeverBlocked` follows from it.
* `NoLostEdit` needs more: the invariant `IInv` adds that stored ids and stamps
  are below `nextID` and the clock, and that a client's copy either is older than
  the row of its id or equals it but for the active flag. The stamp of a row
  changes with every edit, so the version check compares the whole row.
* `ImplementsCalendar` maps an instant to the range valid in it; lemma `OneHolder`
  makes that unique, and one lemma for each kind of write says how the owner of
  an instant changes (`OwnerAfterPut`, `OwnerAfterDelete`, `OwnerUnmoved`). That
  the instants of a range are an interval of the calendar is where `TimeRanges`
  is used.

Assumed are only what the modules declare: instants are positive naturals, the
open end is none of them, valid and invalid contents differ.

`RuleEngineProofs`: `StoredFlagsEvaluate` (a flag that passed validation is
evaluated without error, for every context and hash) and `NoFallback` (the last
bucket is never a fallback), for every catalogue, with the assumption that the
last point is below the least accepted total; and, for rollouts of any length,
`Shares` (of every rollout that validation accepts a bucket is given exactly the
points of its own share) and `GradualRollout` (widening the first bucket takes
nobody out of it). Every induction is on a least element, the first bucket above
a point or the first sum that is wrong, by the library's theorem of least
elements. The sum of the weights is a recursive function, that is, a choice
among functions that satisfy its equation: `SumsExist` shows that there is one, so
that `CumulativeSums` may use the equation. With integer weights that are not
negative the sums rise (`SumsRise`), so a point has its bucket between two of
them (`BucketIsBetweenSums`), which is what both theorems come to.

`ProjectCatalogProofs`: for all projects, stages, flags, titles, sessions and
bounds the specification implies `TypeOK`, `StagesHaveProject`, `SeedKeepsNames`,
`SeedDelivers` and `ImplementsTree`, and over PostgreSQL `FlagsHaveStage`. The
invariant is

* `TypeOK`, `StagesHaveProject` and, over PostgreSQL, `FlagsHaveStage`;
* `OnPaths`: a session that is about to create a stage carries a checked name,
  and a seeding is at one of its four calls. Without it a blank name could reach
  the table from a state that no request leads to.

Lemma `StatementMoves` says, once for all ten calls, what a call may do to the
tables (`TreeStep`): nothing, add a project, add a stage under a project, remove
what carries no flag. `TreeKept` shows that such a step keeps the invariant and
`TreeStepMaps` that it is a step of `ScopeTree`, so neither is split by calls
again. Nothing is used of a call made earlier than the one that writes but the
check of the name: the guarantees rest on the second look and the foreign keys.
For seedings `SeedMoves` finds the call that moved it, `SeedAdds` and `SeedEnds`
say what it did.

`TokenManagerProofs`: for all users, directories, sessions and bounds the
specification implies `TypeOK`, `OneLivePerLogin`, `DeadStaysDead` and
`OnlyEntitled`. The invariant of the first three is the types, which say that the login of a pair is the number of a
pair not after it (so a new login is no old one), `OneLivePerLogin`, and
`Complete`: a request that is about to write has what it writes. Lemma
`StatementMoves` reduces every statement to `TokenStep` (some tokens are dropped,
and at most one pair is added, which begins a login or replaces the token it was
asked for with), and `TokensApart` shows what such a step keeps. `OnlyEntitled` has
an invariant of its own on top, `EInv`: a request that may act is entitled, and
(`FitsStatement`) what is compared with a row is a login, what is admitted is
none; otherwise a login could be entitled by a token it does not carry. Lemma
`BecomesEntitled` covers all steps, since being entitled once is for good.

In the same module, since `ConsoleSession` is the server of `TokenManager` with
browsers: for any number of tabs and connections `SessionSpec` implies
`SessionTypeOK` and `NobodyStranded`, and what the server promises it promises
the console too (`OneLivePerLogin`, `OnlyEntitled`, `DeadStaysDead`), although its
requests now wait on the way, overtake each other and are lost. The invariant
`SInv` adds to `EInv` that a request on its way (`Travels`) is one the server may
take when it comes, and that tabs, calls and the stored entry name pairs that
were issued. `ServerKeepsEInv` is the only place where the server moves.
`NobodyStranded` is inductive with it: a call is dropped only when it settles,
and a refresh of a tab that settles arms its timer again or signs it out.

`ServerStartProofs`: for any number of replicas and scripts, any two configured
names and all bounds the specification implies `TypeOK`, `ServesWholeSchema`,
`ScriptsInOrder` and `CleanIsTrue` (a version that is not dirty says which scripts
have run). The invariant is

* `LockInv`: who is migrating holds the advisory lock, and nobody else;
* `AppliedInv`: the scripts in the database are the first ones, as many as the
  clean version says, or as the dirty one says but for the last;
* `HolderInv`: what the holder of the lock found and did is still so;
* `PastTable`: who is past the first look for a user has found the table of the
  last script. With `AppliedInv` the last script implies all (`WholeSchema`),
  which is why a start over a failed migration never serves.

The steps that touch neither scripts nor lock are one lemma (`MoveKeepsIInv`), the
ends of a process another (`ExitKeepsIInv`).

`ServerProcessProofs`: for any number of connections, a pool of any size and
admin requests of any length the specification implies `TypeOK`, `MutexInOrder`,
`SomebodyGoesOn` and `CutOnlyOverdue`. There are two invariants:

* `IInv`: a connection with a request is open, and a shutdown that was not overdue
  has left "draining" only when none was open. `CutOnlyOverdue` is what follows.
* `TInv`: what a handler has left is the rest of one of the handlers (`Left`), a
  session has the mutex exactly while its rest is one that unlocks next or after
  its question, and who has a connection is about to ask. The finitely many rests
  of a handler that locks are listed (`Holding`), so a change of the handlers,
  such as a second lock in a refresh, breaks the proof where it matters. The
  absence of a deadlock (`SomebodyGoesOn`) then is an argument about one holder: it
  unlocks, or asks, and if the pool is full others hold its connections, and give
  them back without needing the mutex.

`PostgresFlagServiceProofs`: for any number of sessions, any requests (those of
the console or any body), with failing statements or without, the specification
implies `TypeOK`, `AnswerIsUnique`, `DeleteLoggedOnce` and `LoggedIsDone`. The
invariant is

* `UniqueStart`: no two rows of a name start together. Every write asks the index
  in the step that writes, so no other session can come between; a switch keeps
  name and range;
* `Knows`: what a session found is still so where it matters. An id is never given
  twice, so what was found gone stays gone; that is why a deactivation that wrote
  nothing cannot reach the log;
* `DeletedOnce`: a deleted row has one session that is about to log it, or one
  entry, and an id below the next one.

Assumed is, besides the instants, that the nil flag is no image of a row. The
statements that read are one lemma (`ReadKeepsIInv`), those that write a row
another (`WriteKeepsIInv`); deleting and logging have their own.

For any number of sessions, with failing statements or without, it also implies

* `VersionOrLater` (`LostBetweenStatements`). The invariant `Compared` says that the version compared is still there, or the
  row has a stamp that is later than the comparison; every write is stamped with
  a new tick of the clock (`RowsAfter`), which keeps it;
* `UnloggedIsDeleted` (`OnlyDeletedUnlogged`), for any requests. The invariant `Owed`
  says that a write that is not logged yet is on its way, and that the row of a
  switch is there or its deletion is in the trail, on its way there, or lost
  (`HasFate`). `FateIsKept` says that no step of any session takes that away: a
  deletion leaves the request for the trail, or for `lost`;
* `TableIsLogged` (`TrailKnowsTable`), for the requests of the console. The
  invariant `Trail` says that each row is shown by a record, or that the write
  that has stamped it is lost, or is that of a session about to log it or to read
  it for its record (`OnItsWay`). A step that leaves the row alone keeps this
  (`KeptIsInTrail`), and the one that writes it makes it so (`WrittenIsInTrail`).
  Other bodies are left out since an update with another name than the row's is
  logged with that name, and the row keeps its own.

That ranges stay apart fails with two sessions (the run `pg_race_create`) and is
proved for one: under `Alone` (one session, requests of the console) `ApartAlone`
says so. The invariant `Serial` says that what was checked holds when the row is
written; `SqlIsGo`, that the overlap predicate of the SQL statements is that of the
Go code on all validated ranges, carries the check over. `Alone` leaves out other
bodies because an update with another name than the row's is checked against the
rows of the wrong name. Nothing of the versions or of the audit trail is proved
under `Alone`: with one session they could not go wrong.

`StoreIsCalendar` says, also under `Alone`, that the table implements
`FlagCalendar`, so both stores keep one promise. The steps that write are the
steps of the calendar, all others stutter. `OwnersAfter` says once for all writes
how the owners of instants change; that a write under the unique index is never
refused after its check (two ranges that start together overlap) makes the
sequence spend an id only when a range is booked, and `IdsLeft` that ids do not
run out.

`AdminConsoleProofs`: for any keys and catalogues the specification implies
`TypeOK` and `StageIsListed`. The invariant adds `Fits`: what a load has read is of
the kind that it asked for, and an edit names what it changes; the list of a
project's stages may come late, but it selects one of its own.

Only model-checked: the liveness properties (`ComesUp`, `AllAnswered`, `Stops`,
`Settles`, `DeadTabsLeave`, `LogoutLeaves`), which the prover does not reach, as it
does not reach ENABLED. `NoOverlap` of two sessions, `VersionChecked` and
`FlagsOfSelection` do not hold, as the runs of the findings show. Every other
property of the runs is stated by a theorem.

Only proved, in no run: the type invariants of `ServerStart`, `ServerProcess` and
`ConsoleSession`, and of `PostgresFlagService` under `Alone`, `NoOverlap` and
`ImplementsCalendar`.

## 5. Abstractions

* A flag's name stands for (project, stage, key); the stores compare it whole. Its
  content stands for everything else `validateFlag` looks at.
* Stamps of two writes differ. `time.Now()` and `NOW()` have microseconds or
  better; two writes of one row in the same microsecond would share a version.
* Statements are atomic and see all that was committed before: READ COMMITTED,
  one statement per transaction, as the pool is used. Row and foreign-key locks
  make the single statements so.
* A body with a negative id is left out, as is trimming of keys and titles.
* In `PostgresFlagService` the project and stage of a flag exist; `ProjectCatalog`
  has what happens when they do not.
* Listing, the sorting of lists and the reading of audit records change nothing
  and decide nothing, and are left out.
* `TokenManager` has one server. A statement under way when it
  stops ran before the restart or not at all; refreshing and admission ask for
  the user in one statement each. Signatures are not forged and hashes not
  guessed.
* `ProjectCatalog` lets only PostgreSQL be seeded while it serves; in memory the
  seeding is over before the listener opens (`internal/app/app.go:151`).

## 6. Not modelled, and what is left

* Several servers at once, each with its own map of refresh tokens: a token of one
  is unknown to the others, which to its client is the restart that is modelled.
* What a migration does to rows that are there already; the scripts down, which
  the program never runs.
* CORS headers, static files, JSON encoding, the health answers: no state.
* The panels of the console: forms and rendering. Of `App.tsx` the list of users,
  which depends on no selection, and the messages.
* Deployment files, apart from the restart of a server that has ended.
* Listing and audit reading, which change nothing.

Theorems left: that a tab whose login has ended leaves would need fairness; what
can be proved of it is `NobodyStranded`. Of `PostgresFlagService` with two sessions,
which pairs of requests keep the ranges apart.
