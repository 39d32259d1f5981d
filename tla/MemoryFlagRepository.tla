------------------------ MODULE MemoryFlagRepository ------------------------
(***************************************************************************)
(* The in-memory flag store, src/internal/flag/memory_repository.go: a map *)
(* of flag ranges by id behind one RWMutex.  Every method holds the lock   *)
(* from its first access to its last, so a method is one action.  Clients  *)
(* of the admin API keep copies of ranges they have read and send them     *)
(* back, changed, in an update request.                                    *)
(*                                                                         *)
(* A flag's name stands for its (project, stage, key), which the store     *)
(* only ever compares as a whole; its content for name, description,       *)
(* enabled, default key, variations and rules, of which the store only     *)
(* asks validateFlag (detailed in RuleEngine).                             *)
(***************************************************************************)
EXTENDS TimeRanges, FiniteSets

CONSTANTS
    Names,              \* flags: (project, stage, key)
    ValidContents,      \* contents that validateFlag accepts
    InvalidContents,    \* contents that validateFlag refuses
    Clients,            \* holders of copies
    NoCopy,             \* a client that has read nothing yet
    MaxClock            \* bound on the stamps the store hands out

ASSUME ClockAssumption == MaxClock \in Nat
ASSUME ContentsAssumption == ValidContents \cap InvalidContents = {}

VARIABLES
    flags,      \* the map: range by id
    nextID,     \* the id of the next insert
    clock,      \* the last instant r.now() returned, 0 before the first
    copy,       \* copy[c]: the range client c read last
    answer      \* the error the last call returned, "nil" if none

vars == <<flags, nextID, clock, copy, answer>>

FeatureFlag ==
    [id : 1..MaxClock, name : Names, active : BOOLEAN, range : TimeRange,
     content : ValidContents, createdAt : 1..MaxClock, updatedAt : 1..MaxClock]

Errors == {"nil", "ErrInvalidFlag", "ErrInvalidTimeRange", "ErrRangeOverlap",
           "ErrFlagNotFound", "ErrFlagConflict", "ErrActiveRangeOverlap"}

TypeOK ==
    /\ DOMAIN flags \subseteq 1..MaxClock
    /\ flags \in [DOMAIN flags -> FeatureFlag]
    /\ nextID \in 1..(MaxClock + 1)
    /\ clock \in 0..MaxClock
    /\ copy \in [Clients -> FeatureFlag \cup {NoCopy}]
    /\ answer \in Errors

-----------------------------------------------------------------------------
(* Request bodies.  An update names a range by id and carries the          *)
(* updatedAt of the copy it was made from, or leaves it out (ZeroTime).    *)

Targets ==
    {[id |-> i, updatedAt |-> ZeroTime] : i \in 0..nextID} \cup
    {[id |-> copy[c].id, updatedAt |-> copy[c].updatedAt] :
        c \in {d \in Clients : copy[d] # NoCopy}}

Body(t, name, active, range, content) ==
    [id |-> t.id, name |-> name, active |-> active, range |-> range,
     content |-> content, updatedAt |-> t.updatedAt]

Bodies(targets) ==
    {Body(t, n, a, r, v) : t \in targets, n \in Names, a \in BOOLEAN,
        r \in RequestRange, v \in ValidContents \cup InvalidContents}

-----------------------------------------------------------------------------
(* The methods of the store.                                               *)

SameFlagOverlaps(ids, name, range) ==
    \E i \in ids : flags[i].name = name /\ RangesOverlap(range, flags[i].range)

checkActiveOverlapLocked(name, range, excludeID) ==
    SameFlagOverlaps({i \in DOMAIN flags \ {excludeID} : flags[i].active}, name, range)

checkOverlapLocked(name, range, excludeID) ==
    SameFlagOverlaps(DOMAIN flags \ {excludeID}, name, range)

\* What GetFlagAt may return: the map is walked in no order, so of several
\* candidates with the latest start any one may be the answer.
GetFlagAt(name, at) ==
    LET found == {i \in DOMAIN flags : /\ flags[i].name = name
                                       /\ flags[i].active
                                       /\ IsValidInRange(at, flags[i].range)}
    IN  {i \in found : \A j \in found : flags[j].range.from =< flags[i].range.from}

\* (mutants) UpsertFlag without one of its checks.
UpsertAnyRange(b) ==
    IF b.content \notin ValidContents THEN "ErrInvalidFlag"
    ELSE IF checkOverlapLocked(b.name, b.range, b.id) THEN "ErrRangeOverlap"
    ELSE IF b.id # 0 /\ b.id \notin DOMAIN flags THEN "ErrFlagNotFound"
    ELSE "nil"
UpsertUnlocked(b) ==
    IF b.content \notin ValidContents THEN "ErrInvalidFlag"
    ELSE IF ~ValidateTemporalRange(b.range) THEN "ErrInvalidTimeRange"
    ELSE IF checkOverlapLocked(b.name, b.range, b.id) THEN "ErrRangeOverlap"
    ELSE IF b.id # 0 /\ b.id \notin DOMAIN flags THEN "ErrFlagNotFound"
    ELSE "nil"

\* The checks of UpsertFlag in their order, up to the write.
UpsertError(b) ==
    IF b.content \notin ValidContents THEN "ErrInvalidFlag"
    ELSE IF ~ValidateTemporalRange(b.range) THEN "ErrInvalidTimeRange"
    ELSE IF checkOverlapLocked(b.name, b.range, b.id) THEN "ErrRangeOverlap"
    ELSE IF b.id = 0 THEN "nil"
    ELSE IF b.id \notin DOMAIN flags THEN "ErrFlagNotFound"
    ELSE IF b.updatedAt \notin {ZeroTime, flags[b.id].updatedAt} THEN "ErrFlagConflict"
    ELSE "nil"

\* The row an upsert stores; an insert is made active whatever it asked for.
Stored(b, id, createdAt, updatedAt) ==
    [id |-> id, name |-> b.name, active |-> b.active \/ b.id = 0, range |-> b.range,
     content |-> b.content, createdAt |-> createdAt, updatedAt |-> updatedAt]

Put(id, row) == flags' = [i \in DOMAIN flags \cup {id} |-> IF i = id THEN row ELSE flags[i]]

\* An upsert that is refused changes nothing; of its body only the error shows.
Refusals == {UpsertError(b) : b \in Bodies(Targets)} \ {"nil"}

RejectUpsert(error) ==
    /\ answer' = error
    /\ UNCHANGED <<flags, nextID, clock, copy>>

InsertFlag(b) ==
    /\ b.id = 0
    /\ UpsertError(b) = "nil"
    /\ clock < MaxClock
    /\ clock' = clock + 1
    /\ Put(nextID, Stored(b, nextID, clock', clock'))
    /\ nextID' = nextID + 1
    /\ answer' = "nil"
    /\ UNCHANGED copy

UpdateFlag(b) ==
    /\ b.id > 0
    /\ UpsertError(b) = "nil"
    /\ clock < MaxClock
    /\ clock' = clock + 1
    /\ Put(b.id, Stored(b, b.id, flags[b.id].createdAt, clock'))
    /\ answer' = "nil"
    /\ UNCHANGED <<nextID, copy>>

\* (mutant) The id of the last range is handed out again.
DeleteAndReuse(id) ==
    /\ answer' = IF id \in DOMAIN flags THEN "nil" ELSE "ErrFlagNotFound"
    /\ flags' = [i \in DOMAIN flags \ {id} |-> flags[i]]
    /\ nextID' = IF id \in DOMAIN flags /\ id = nextID - 1 THEN id ELSE nextID
    /\ UNCHANGED <<clock, copy>>

DeleteFlag(id) ==
    /\ answer' = IF id \in DOMAIN flags THEN "nil" ELSE "ErrFlagNotFound"
    /\ flags' = [i \in DOMAIN flags \ {id} |-> flags[i]]
    /\ UNCHANGED <<nextID, clock, copy>>

ActivateError(id) ==
    IF id \notin DOMAIN flags THEN "ErrFlagNotFound"
    ELSE IF /\ ~flags[id].active
            /\ checkActiveOverlapLocked(flags[id].name, flags[id].range, id)
    THEN "ErrActiveRangeOverlap"
    ELSE "nil"

ActivateFlag(id) ==
    /\ answer' = ActivateError(id)
    /\ flags' = IF ActivateError(id) = "nil"
                THEN [flags EXCEPT ![id].active = TRUE] ELSE flags
    /\ UNCHANGED <<nextID, clock, copy>>

DeactivateFlag(id) ==
    /\ answer' = IF id \in DOMAIN flags THEN "nil" ELSE "ErrFlagNotFound"
    /\ flags' = IF id \in DOMAIN flags
                THEN [flags EXCEPT ![id].active = FALSE] ELSE flags
    /\ UNCHANGED <<nextID, clock, copy>>

\* GetFlagByID, or the row of a list, kept by the client that asked for it.
GetFlagByID(c, id) ==
    /\ answer' = IF id \in DOMAIN flags THEN "nil" ELSE "ErrFlagNotFound"
    /\ copy' = IF id \in DOMAIN flags THEN [copy EXCEPT ![c] = flags[id]] ELSE copy
    /\ UNCHANGED <<flags, nextID, clock>>

Init ==
    /\ flags = [i \in {} |-> 0]
    /\ nextID = 1
    /\ clock = 0
    /\ copy = [c \in Clients |-> NoCopy]
    /\ answer = "nil"

Next ==
    \/ \E error \in Refusals : RejectUpsert(error)
    \/ \E b \in Bodies(Targets) : InsertFlag(b) \/ UpdateFlag(b)
    \/ \E id \in 1..nextID :
        \/ DeleteFlag(id) \/ ActivateFlag(id) \/ DeactivateFlag(id)
        \/ \E c \in Clients : GetFlagByID(c, id)

Spec == Init /\ [][Next]_vars

-----------------------------------------------------------------------------
(* Properties.                                                             *)

\* Two ranges of one flag never overlap, active or not: UpsertFlag checks the
\* new range against all the others under the lock it writes under, also when
\* an update moves a range to another flag (memory_repository.go:117).
Apart(f) ==
    \A i, j \in DOMAIN f :
        i # j /\ f[i].name = f[j].name => ~RangesOverlap(f[i].range, f[j].range)
NoOverlap == Apart(flags)

\* An evaluation has one answer at any instant: the order in which Go walks
\* the map of ranges (memory_repository.go:52) never shows.
AnswerIsUnique ==
    \A n \in Names, t \in Instants : Cardinality(GetFlagAt(n, t)) =< 1

\* A deactivated range can always be activated again: whatever was created or
\* moved meanwhile, ErrActiveRangeOverlap (memory_repository.go:208) is never
\* the answer, because inactive ranges keep their place on the timeline.
ActivationNeverBlocked ==
    \A id \in DOMAIN flags : ActivateError(id) = "nil"

\* A range that was deleted stays deleted: the only id that can come into
\* being is the next one, so an update made from a copy of a range that
\* somebody deleted does not bring it back (memory_repository.go:143).
NoResurrection ==
    [][DOMAIN flags' \ DOMAIN flags \subseteq {nextID}]_vars

\* Client c updates the range it holds a copy of, under the copy's updatedAt;
\* what it asks for is what the store then holds.
UpdateFromCopy(c) ==
    /\ copy[c] # NoCopy
    /\ copy[c].id \in DOMAIN flags'
    /\ LET asked == flags'[copy[c].id]
       IN  UpdateFlag(Body([id |-> copy[c].id, updatedAt |-> copy[c].updatedAt],
                           asked.name, asked.active, asked.range, asked.content))

\* No update overwrites an edit its author has not seen: an update made from
\* a copy goes through only if name, range and content of the range are still
\* those of the copy (the check on UpdatedAt, memory_repository.go:149).
NoLostEdit ==
    [][\A c \in Clients : UpdateFromCopy(c) =>
        flags[copy[c].id] = [copy[c] EXCEPT !.active = flags[copy[c].id].active]]_vars

\* The calendar the store keeps.
OwnerIn(f) == Owners(f, Names)
Owner == OwnerIn(flags)
Shown == ShownOf(flags)

Calendar == INSTANCE FlagCalendar WITH
    owner <- Owner, shown <- Shown, spent <- 1..(nextID - 1),
    Ids <- 1..MaxClock, Free <- 0

\* The store implements the calendar of FlagCalendar.
ImplementsCalendar == Calendar!Spec
=============================================================================
