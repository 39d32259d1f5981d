------------------------ MODULE PostgresFlagService ------------------------
(***************************************************************************)
(* The admin operations of the flag service over PostgreSQL:               *)
(* src/internal/flag/service.go on postgres_repository.go and audit.go.    *)
(* No operation runs in a transaction: a request is a session that sends   *)
(* one autocommitted statement after another, so the statements of several *)
(* sessions interleave, and what one has read may be stale when it writes. *)
(* The table brings its own guards, from src/migrations: BIGSERIAL ids, a  *)
(* unique index on (project, stage, key, valid_from) and a trigger that    *)
(* stamps every updated row.                                               *)
(*                                                                         *)
(* A name stands for (project, stage, key), a content for name,            *)
(* description, enabled, default key, variations and rules.                *)
(***************************************************************************)
EXTENDS TimeRanges, FiniteSets, Sequences

CONSTANTS
    Sessions,       \* requests served at the same time
    Names,
    ValidContents,  \* contents that validateFlag accepts
    InvalidContents,
    AskedRanges,    \* the ranges requests ask for
    NoFlag,         \* no row: a nil *FeatureFlag
    ConsoleOnly,    \* only the requests that the web console makes
    Failures,       \* statements may fail: cancelled context, lost connection
    MaxRequests     \* bound on the requests of a behaviour

ASSUME AskedAssumption == AskedRanges \subseteq RequestRange
ASSUME ModeAssumption == ConsoleOnly \in BOOLEAN /\ Failures \in BOOLEAN
ASSUME RequestsAssumption == MaxRequests \in Nat

VARIABLES
    table,  \* feature_flags: row by id
    nextId, \* the sequence behind the BIGSERIAL id
    clock,  \* the last NOW() that stamped a row
    log,    \* audit_logs
    req,    \* req[s]: the request session s serves and what it knows
    begun,  \* requests begun so far
    lost    \* writes whose record a failing statement has cost

vars == <<table, nextId, clock, log, req, begun, lost>>

Image == [name : Names, active : BOOLEAN, range : RequestRange,
          content : ValidContents \cup InvalidContents]
ImageOf(row) == [name |-> row.name, active |-> row.active,
                 range |-> row.range, content |-> row.content]
MaybeImage == Image \cup {NoFlag}
ASSUME NoFlagAssumption == NoFlag \notin Image

\* What a session has committed: the id of the row and the stamp that it got, 0
\* when it was deleted.  This, lost, and compared, the time of the version check,
\* are there for the properties only.
Effect == [id : Nat, stamp : Nat]
Write(id, stamp) == [id |-> id, stamp |-> stamp]
NoEffect == Write(0, 0)

Ops == {"CREATE", "UPDATE", "DELETE", "activate", "deactivate"}
Idle(answer) ==
    [pc |-> "idle", op |-> "none", id |-> 0, token |-> ZeroTime, body |-> NoFlag,
     old |-> NoFlag, seen |-> NoFlag, compared |-> 0, effect |-> NoEffect, answer |-> answer]

Answers == {"none", "nil", "ErrFlagNotFound", "ErrInvalidFlag", "ErrInvalidTimeRange", "ErrRangeOverlap",
            "ErrActiveRangeOverlap", "ErrFlagConflict", "ErrInternal"}
RequestType ==
    [pc : {"idle", "old", "check", "existing", "get", "checkActive", "write", "new", "log"},
     op : Ops \cup {"none"}, id : Nat, token : Nat, body : MaybeImage, old : MaybeImage,
     seen : MaybeImage, compared : Nat, effect : Effect, answer : Answers]

Row == [name : Names, active : BOOLEAN, range : TimeRange,
        content : ValidContents, updatedAt : 1..clock]
Record == [action : Ops, flagId : Nat, old : MaybeImage, new : MaybeImage]

TypeOK ==
    /\ nextId \in Nat \ {0} /\ clock \in Nat /\ begun \in 0..MaxRequests
    /\ DOMAIN table \subseteq 1..(nextId - 1) /\ table \in [DOMAIN table -> Row]
    /\ log \in Seq(Record)
    /\ req \in [Sessions -> RequestType] /\ lost \subseteq Effect

-----------------------------------------------------------------------------
(* Requests.  The console creates without an id and updates a range with   *)
(* its own name and the updatedAt it has loaded; the API takes any body.   *)

Asked == [name : Names, active : BOOLEAN, range : AskedRanges,
          content : ValidContents \cup InvalidContents]

Request(op, pc, id, token, body) ==
    [Idle("none") EXCEPT !.op = op, !.pc = pc, !.id = id, !.token = token, !.body = body]

KnownIds == 1..nextId
Stamps == 1..clock

ConsoleRequests ==
    {Request("CREATE", "check", 0, ZeroTime, b) : b \in Asked} \cup
    {Request("UPDATE", "old", i, t, b) : i \in DOMAIN table, t \in Stamps, b \in Asked}
OtherRequests ==
    {Request("CREATE", "check", i, t, b) :
        i \in KnownIds \cup {0}, t \in Stamps \cup {ZeroTime}, b \in Asked} \cup
    {Request("UPDATE", "old", i, t, b) :
        i \in KnownIds, t \in Stamps \cup {ZeroTime}, b \in Asked}
SwitchRequests ==
    {Request(op, "old", i, ZeroTime, NoFlag) :
        op \in {"DELETE", "activate", "deactivate"}, i \in KnownIds}

Requests ==
    SwitchRequests \cup
    IF ConsoleOnly
    THEN {r \in ConsoleRequests : r.op = "UPDATE" => r.body.name = table[r.id].name}
    ELSE OtherRequests

Begin(s) ==
    /\ req[s].pc = "idle"
    /\ begun < MaxRequests
    /\ begun' = begun + 1
    /\ \E r \in Requests : req' = [req EXCEPT ![s] = r]
    /\ UNCHANGED <<table, nextId, clock, log, lost>>

-----------------------------------------------------------------------------
(* Statements.                                                             *)

At(s, pc) == req[s].pc = pc
Found(s) == req[s].id \in DOMAIN table
Goto(s, pc) == req' = [req EXCEPT ![s].pc = pc]
Answer(s, error) == req' = [req EXCEPT ![s] = Idle(error)]
NoWrite == UNCHANGED <<table, nextId, clock, log, begun, lost>>

OverlapAmong(ids, image) ==
    \E i \in ids : table[i].name = image.name /\ SqlOverlap(table[i].range, image.range)

CheckOverlap(image, excludeID) == OverlapAmong(DOMAIN table \ {excludeID}, image)
checkActiveOverlap(image, excludeID) ==
    OverlapAmong({i \in DOMAIN table \ {excludeID} : table[i].active}, image)

\* (mutant) The index is there, but not unique.
DuplicateNever(name, range, id) == FALSE

\* The unique index on (project, stage, key, valid_from).
Duplicate(name, range, id) ==
    \E i \in DOMAIN table \ {id} :
        table[i].name = name /\ table[i].range.from = range.from

\* service.go: GetFlagByID for the audit, before anything is written.
GetOld(s) ==
    /\ At(s, "old")
    /\ IF Found(s)
       THEN req' = [req EXCEPT
                ![s].old = ImageOf(table[req[s].id]),
                ![s].pc = CASE req[s].op = "UPDATE" -> "check"
                            [] req[s].op = "DELETE" -> "write"
                            [] OTHER -> "get"]
       ELSE Answer(s, "ErrFlagNotFound")
    /\ NoWrite

\* (mutant) The range is not validated.
UpsertCheckAnyRange(s) ==
    /\ At(s, "check")
    /\ LET b == req[s].body IN
       IF b.content \notin ValidContents THEN Answer(s, "ErrInvalidFlag")
       ELSE IF CheckOverlap(b, req[s].id) THEN Answer(s, "ErrRangeOverlap")
       ELSE Goto(s, IF req[s].id > 0 THEN "existing" ELSE "write")
    /\ NoWrite

\* UpsertFlag up to its first statement: validation, then the overlap count.
UpsertCheck(s) ==
    /\ At(s, "check")
    /\ LET b == req[s].body IN
       IF b.content \notin ValidContents THEN Answer(s, "ErrInvalidFlag")
       ELSE IF ~ValidateTemporalRange(b.range) THEN Answer(s, "ErrInvalidTimeRange")
       ELSE IF CheckOverlap(b, req[s].id) THEN Answer(s, "ErrRangeOverlap")
       ELSE Goto(s, IF req[s].id > 0 THEN "existing" ELSE "write")
    /\ NoWrite

\* (mutant) The version is not compared.
GetExistingAnyVersion(s) ==
    /\ At(s, "existing")
    /\ IF Found(s)
       THEN req' = [req EXCEPT ![s].pc = "write", ![s].compared = clock]
       ELSE Answer(s, "ErrFlagNotFound")
    /\ NoWrite

\* The row read for optimistic locking; a token of zero asks for no check.
GetExisting(s) ==
    /\ At(s, "existing")
    /\ IF ~Found(s) THEN Answer(s, "ErrFlagNotFound")
       ELSE IF req[s].token \notin {ZeroTime, table[req[s].id].updatedAt}
       THEN Answer(s, "ErrFlagConflict")
       ELSE req' = [req EXCEPT ![s].pc = "write", ![s].compared = clock]
    /\ NoWrite

\* UPDATE ... WHERE id = $1: every column but project, stage and key; the
\* trigger stamps the row.
Updated(id, image) ==
    [name |-> table[id].name, active |-> image.active, range |-> image.range,
     content |-> image.content, updatedAt |-> clock + 1]

UpdateRow(s) ==
    /\ At(s, "write") /\ req[s].op \in {"CREATE", "UPDATE"} /\ req[s].id > 0
    /\ LET id == req[s].id
           b == req[s].body
       IN  IF ~Found(s)
           THEN Answer(s, "ErrFlagNotFound") /\ UNCHANGED <<table, clock>>
           ELSE IF Duplicate(table[id].name, b.range, id)
           THEN Answer(s, "ErrInternal") /\ UNCHANGED <<table, clock>>
           ELSE /\ clock' = clock + 1
                /\ table' = [table EXCEPT ![id] = Updated(id, b)]
                /\ req' = [req EXCEPT ![s].pc = "log",
                        ![s].effect = Write(id, clock + 1)]
    /\ UNCHANGED <<nextId, log, begun, lost>>

\* INSERT: a new row is active whatever was asked for; the sequence advances
\* even when the index refuses the row.
Inserted(image) ==
    [name |-> image.name, active |-> TRUE, range |-> image.range,
     content |-> image.content, updatedAt |-> clock + 1]

InsertRow(s) ==
    /\ At(s, "write") /\ req[s].op = "CREATE" /\ req[s].id = 0
    /\ nextId' = nextId + 1
    /\ LET b == req[s].body IN
       IF Duplicate(b.name, b.range, 0)
       THEN Answer(s, "ErrInternal") /\ UNCHANGED <<table, clock>>
       ELSE /\ clock' = clock + 1
            /\ table' = [i \in DOMAIN table \cup {nextId} |->
                            IF i = nextId THEN Inserted(b) ELSE table[i]]
            /\ req' = [req EXCEPT ![s].pc = "log",
                    ![s].effect = Write(nextId, clock + 1)]
    /\ UNCHANGED <<log, begun, lost>>

\* (mutant) The number of rows affected is not looked at.
DeleteRowAnyway(s) ==
    /\ At(s, "write") /\ req[s].op = "DELETE"
    /\ req' = [req EXCEPT ![s].pc = "log",
            ![s].effect = IF Found(s) THEN Write(req[s].id, 0) ELSE NoEffect]
    /\ table' = [i \in DOMAIN table \ {req[s].id} |-> table[i]]
    /\ UNCHANGED <<nextId, clock, log, begun, lost>>

DeleteRow(s) ==
    /\ At(s, "write") /\ req[s].op = "DELETE"
    /\ IF Found(s)
       THEN req' = [req EXCEPT ![s].pc = "log",
                ![s].effect = Write(req[s].id, 0)]
       ELSE Answer(s, "ErrFlagNotFound")
    /\ table' = [i \in DOMAIN table \ {req[s].id} |-> table[i]]
    /\ UNCHANGED <<nextId, clock, log, begun, lost>>

\* ActivateFlag and DeactivateFlag of the repository: read the row first.
GetForSwitch(s) ==
    /\ At(s, "get")
    /\ IF Found(s)
       THEN req' = [req EXCEPT
                ![s].seen = ImageOf(table[req[s].id]),
                ![s].pc = IF req[s].op = "deactivate" THEN "write"
                          ELSE IF table[req[s].id].active THEN "new" ELSE "checkActive"]
       ELSE Answer(s, "ErrFlagNotFound")
    /\ NoWrite

ActivateCheck(s) ==
    /\ At(s, "checkActive")
    /\ IF checkActiveOverlap(req[s].seen, req[s].id)
       THEN Answer(s, "ErrActiveRangeOverlap") ELSE Goto(s, "write")
    /\ NoWrite

\* UPDATE ... SET active: a row that is gone is no error.
SetActive(s) ==
    /\ At(s, "write") /\ req[s].op \in {"activate", "deactivate"}
    /\ LET id == req[s].id
           row == [table[id] EXCEPT !.active = (req[s].op = "activate"),
                                    !.updatedAt = clock + 1]
       IN  IF Found(s)
           THEN /\ clock' = clock + 1
                /\ table' = [table EXCEPT ![id] = row]
                /\ req' = [req EXCEPT ![s].pc = "new",
                        ![s].effect = Write(id, clock + 1)]
           ELSE Goto(s, "new") /\ UNCHANGED <<table, clock>>
    /\ UNCHANGED <<nextId, log, begun, lost>>

\* (mutant) It is no error that the row is not found.
GetNewIfAny(s) ==
    /\ At(s, "new")
    /\ req' = [req EXCEPT ![s].pc = "log",
            ![s].seen = IF Found(s) THEN ImageOf(table[req[s].id]) ELSE req[s].seen]
    /\ NoWrite

\* service.go: GetFlagByID for the audit, after an activation or deactivation.
GetNew(s) ==
    /\ At(s, "new")
    /\ IF Found(s)
       THEN req' = [req EXCEPT ![s].pc = "log", ![s].seen = ImageOf(table[req[s].id])]
       ELSE Answer(s, "ErrFlagNotFound")
    /\ NoWrite

\* (mutant) The record of a switch shows the row as it was read first, twice.
EntryOldTwice(r) ==
    [action |-> r.op, flagId |-> r.id,
     old |-> IF r.op = "CREATE" THEN NoFlag ELSE r.old,
     new |-> CASE r.op \in {"CREATE", "UPDATE"} -> r.body
               [] r.op = "DELETE" -> NoFlag
               [] OTHER -> r.old]

\* The audit record: the old value is what was read at the start; the new one
\* is the request body, or what was read at the end of a switch.
Entry(r) ==
    [action |-> r.op, flagId |-> r.id,
     old |-> IF r.op = "CREATE" THEN NoFlag ELSE r.old,
     new |-> CASE r.op \in {"CREATE", "UPDATE"} -> r.body
               [] r.op = "DELETE" -> NoFlag
               [] OTHER -> r.seen]

\* (mutant) A change that leaves the row as it was read is not logged.
LogIfChanged(s) ==
    /\ At(s, "log")
    /\ log' = IF Entry(req[s]).old = Entry(req[s]).new THEN log ELSE Append(log, Entry(req[s]))
    /\ Answer(s, "nil")
    /\ UNCHANGED <<table, nextId, clock, begun, lost>>

LogAction(s) ==
    /\ At(s, "log")
    /\ log' = Append(log, Entry(req[s]))
    /\ Answer(s, "nil")
    /\ UNCHANGED <<table, nextId, clock, begun, lost>>

\* A statement fails and has no effect.  The error of the audit insert is
\* dropped.  At "log" it may also be the answer to the write before it that
\* was lost: the row is written, the caller is told of an error.
Fail(s) ==
    /\ Failures
    /\ ~At(s, "idle")
    /\ \/ Answer(s, "ErrInternal")
       \/ At(s, "log") /\ Answer(s, "nil")
    /\ lost' = lost \cup ({req[s].effect} \ {NoEffect})
    /\ UNCHANGED <<table, nextId, clock, log, begun>>

Init ==
    /\ table = [i \in {} |-> NoFlag]
    /\ nextId = 1
    /\ clock = 0
    /\ log = <<>>
    /\ req = [s \in Sessions |-> Idle("nil")]
    /\ begun = 0
    /\ lost = {}

Statement(s) ==
    \/ GetOld(s) \/ UpsertCheck(s) \/ GetExisting(s)
    \/ UpdateRow(s) \/ InsertRow(s) \/ DeleteRow(s)
    \/ GetForSwitch(s) \/ ActivateCheck(s) \/ SetActive(s) \/ GetNew(s)
    \/ LogAction(s)

\* No request arrives any more; a session stuck in one would be a deadlock.
Quiet == begun = MaxRequests /\ (\A s \in Sessions : At(s, "idle")) /\ UNCHANGED vars

Next == (\E s \in Sessions : Begin(s) \/ Statement(s) \/ Fail(s)) \/ Quiet

Spec == Init /\ [][Next]_vars

-----------------------------------------------------------------------------
(* Properties.                                                             *)

\* Two ranges of one flag never overlap: "UpsertFlag creates or updates a flag
\* range (validates non-overlapping ranges)", model.go:111.
NoOverlap ==
    \A i, j \in DOMAIN table :
        i # j /\ table[i].name = table[j].name =>
            ~RangesOverlap(table[i].range, table[j].range)

\* Whatever overlaps, an evaluation has one answer at any instant: no two
\* candidates of ORDER BY valid_from DESC LIMIT 1 (postgres_repository.go:100)
\* start at the same instant, because the index holds against every race.
GetFlagAt(name, at) ==
    LET found == {i \in DOMAIN table : /\ table[i].name = name
                                       /\ table[i].active
                                       /\ IsValidInRange(at, table[i].range)}
    IN  {i \in found : \A j \in found : table[j].range.from =< table[i].range.from}

AnswerIsUnique ==
    \A n \in Names, t \in Instants : Cardinality(GetFlagAt(n, t)) =< 1

\* A row is deleted, and its deletion logged, once: of two sessions that read
\* the row before either deleted it, one finds no row affected
\* (postgres_repository.go:361) and answers not found.
DeleteLoggedOnce ==
    \A k \in DOMAIN log : log[k].action = "DELETE" =>
        /\ log[k].flagId \notin DOMAIN table
        /\ \A m \in DOMAIN log :
            log[m].action = "DELETE" /\ log[m].flagId = log[k].flagId => m = k

\* The audit trail invents nothing: every record but that of an activation
\* that found the row active tells of a change its own request has committed.
\* A deactivation whose row was deleted in between commits none, and is not
\* logged either, because the read after it (service.go:204) finds no row.
LoggedIsDone ==
    [][\A s \in Sessions : At(s, "log") /\ Len(log') > Len(log) /\ req'[s].pc = "idle" =>
        req[s].effect # NoEffect \/ req[s].op = "activate"]_vars

\* The deletion of the row id is in the audit trail, about to be written there, or
\* lost to a statement that failed.
DeletionLogged(id) ==
    \/ \E k \in DOMAIN log : log[k].action = "DELETE" /\ log[k].flagId = id
    \/ \E z \in Sessions : req[z].pc = "log" /\ req[z].op = "DELETE" /\ req[z].id = id
    \/ Write(id, 0) \in lost

\* A write goes without a record in two cases only: a later statement of its own
\* request fails (its error is dropped when it is the audit insert, service.go:80),
\* or it switched a row that another session has deleted before the switch was
\* read back (service.go:204), and then the trail has that deletion.  So this is
\* what is left of "Audit trail captures all flag changes",
\* docs/superpowers/specs/2026-03-12-funwithflags-refinement-design.md:56.
UnloggedIsDeleted ==
    [][\A s \in Sessions :
        req[s].effect # NoEffect /\ req'[s].pc = "idle" /\ Len(log') = Len(log) =>
            \/ Fail(s)
            \/ req[s].effect.id \notin DOMAIN table /\ DeletionLogged(req[s].effect.id)]_vars

\* The record e shows the row id as it is; that of a create has no id and may
\* say inactive of a row that is active.
Shows(e, id) ==
    /\ e.new # NoFlag
    /\ \/ e.flagId = id /\ e.new = ImageOf(table[id])
       \/ /\ e.action = "CREATE"
          /\ e.new.name = table[id].name /\ e.new.range = table[id].range
          /\ e.new.content = table[id].content

\* The trail knows the table: when no request is under way, some record shows
\* each row as it is, unless a failing statement has cost the record of its last
\* write.  Records are not written in the order of the changes, their old values
\* may be older than what was replaced (service.go:101), and a switch logs what it
\* reads when others may have written again (service.go:165-215).
TableIsLogged ==
    (\A s \in Sessions : At(s, "idle")) =>
        \A i \in DOMAIN table :
            \/ \E k \in DOMAIN log : Shows(log[k], i)
            \/ Write(i, table[i].updatedAt) \in lost

OverwritesVersion(s) ==
    /\ At(s, "write") /\ req'[s].pc = "log"
    /\ req[s].op = "UPDATE" /\ req[s].token # ZeroTime

\* An update that brings a version overwrites that version and no other: the
\* "optimistic locking" and "version checks" of
\* docs/feature-flag-service-plan.md:10 and :17.  It overwrites a later one when
\* another session writes between the comparison (postgres_repository.go:280) and
\* the UPDATE: run pg_lost_update.  The old value in the record of such an update is
\* not what it replaced either.
VersionChecked ==
    [][\A s \in Sessions : OverwritesVersion(s) =>
        table[req[s].id].updatedAt = req[s].token]_vars

\* What is left of it: an update overwrites the version it brings, or an edit
\* that was made after the comparison, so the time in which edits can be lost is
\* that between two statements, however old the copy.  The trigger stamps rows on
\* activation too, so the version covers the active flag as well.
VersionOrLater ==
    [][\A s \in Sessions : OverwritesVersion(s) =>
        \/ table[req[s].id].updatedAt = req[s].token
        \/ table[req[s].id].updatedAt > req[s].compared]_vars

\* The calendar the table keeps.  An id is spent by an insert.
Calendar == INSTANCE FlagCalendar WITH
    owner <- Owners(table, Names), shown <- ShownOf(table), spent <- 1..(nextId - 1),
    Ids <- 1..MaxRequests, Free <- 0

\* With one request at a time from the console the statements of a request
\* together book, move, release, show or hide one range or nothing: the store
\* implements FlagCalendar, which the in-memory store implements too, however
\* the table is read before it is written (postgres_repository.go:241-415).
ImplementsCalendar == Calendar!Spec
=============================================================================
