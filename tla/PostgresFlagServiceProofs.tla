--------------------- MODULE PostgresFlagServiceProofs ---------------------
(***************************************************************************)
(* What the flag service over PostgreSQL keeps whatever runs at the same   *)
(* time, for any number of sessions, names and contents, any instants and  *)
(* ranges, with failing statements or without.  The strengthening IInv     *)
(* says what a session knows at each of its statements of which no other   *)
(* can take anything away: ids are never given twice, so a row that is     *)
(* gone stays gone, and the unique index speaks for all rows.  From what   *)
(* Compared adds, a version bounds what an update can overwrite; from what *)
(* Owed and Trail add, a write without a record is one whose request had a *)
(* failing statement, or whose row was deleted, and the audit trail shows  *)
(* every other row as it is.  That ranges stay apart, and the calendar     *)
(* that the store implements, need one request at a time and come last.    *)
(***************************************************************************)
EXTENDS PostgresFlagService, FiniteSetTheorems, TLAPS

-----------------------------------------------------------------------------
(* Ranges.                                                                 *)

\* The ends of a range that ValidateTemporalRange (temporal.go:44) lets pass.
LEMMA RangeEnds ==
    ASSUME NEW r \in TimeRange
    PROVE  /\ r.from \in Instants /\ r.from \in Nat
           /\ r.to = NoEnd \/ (r.to \in Instants /\ r.to \in Nat /\ r.from < r.to)
<1>1. /\ r.from \in Instants \cup {ZeroTime} /\ r.from # ZeroTime
      /\ r.to \in Instants \cup {NoEnd}
      /\ r.to = NoEnd \/ r.from < r.to
  BY DEF TimeRange, RequestRange, ValidateTemporalRange, BeforeEnd
<1>2. QED
  BY <1>1, InstantsAssumption

\* The order of the two arguments of RangesOverlap (temporal.go:17) is
\* irrelevant, so one check covers a pair of ranges.
LEMMA OverlapSymmetric ==
    ASSUME NEW a, NEW b
    PROVE  RangesOverlap(a, b) <=> RangesOverlap(b, a)
BY DEF RangesOverlap

\* The SQL predicate of the Postgres store (postgres_repository.go:424) says
\* the same of two validated ranges as the Go predicate of the memory store:
\* its third alternative, valid_from < $5, adds nothing to the other two.
THEOREM SqlIsGo == SqlAgreesWithGo
<1> SUFFICES ASSUME NEW row \in TimeRange, NEW asked \in TimeRange
             PROVE  SqlOverlap(row, asked) <=> RangesOverlap(asked, row)
  BY DEF SqlAgreesWithGo
<1>1. /\ row.from \in Nat
      /\ row.to = NoEnd \/ (row.to \in Nat /\ row.from < row.to)
  BY RangeEnds
<1>2. /\ asked.from \in Nat
      /\ asked.to = NoEnd \/ (asked.to \in Nat /\ asked.from < asked.to)
  BY RangeEnds
<1>3. QED
  BY <1>1, <1>2 DEF SqlOverlap, SqlLess, RangesOverlap, BeforeEnd
-----------------------------------------------------------------------------
(* The invariant.                                                          *)

Upserts == {"CREATE", "UPDATE"}

\* What the request r knows when the rows ids are there and next is the next id.
Knows(r, ids, next) ==
    /\ r.pc \in {"check", "existing"} => r.op \in Upserts
    /\ r.pc \in {"get", "checkActive", "new"} => r.op \in {"activate", "deactivate"}
    /\ r.pc = "old" => r.op \in Ops \ {"CREATE"}
    /\ r.pc = "log" => r.op \in Ops
    /\ r.op \in Upserts => r.body \in Image
    /\ r.op \in Upserts /\ r.pc \in {"existing", "write"} =>
        r.body.content \in ValidContents /\ r.body.range \in TimeRange
    /\ r.op \notin Upserts /\ r.pc \in {"get", "checkActive", "write", "new", "log"} => r.id < next
    /\ r.op = "deactivate" /\ r.pc = "new" /\ r.effect = NoEffect => r.id \notin ids
    /\ r.op = "DELETE" /\ r.pc = "log" => r.id \notin ids
    /\ r.pc = "log" => r.effect # NoEffect \/ r.op = "activate"

\* No two rows of a name start together.
UniqueStart ==
    \A i, j \in DOMAIN table :
        table[i].name = table[j].name /\ table[i].range.from = table[j].range.from => i = j

\* The sessions whose row is deleted and not yet logged, and those logged.
Deleted(r) == r.pc = "log" /\ r.op = "DELETE"
Logged(id, entries) == \E k \in DOMAIN entries : entries[k].action = "DELETE" /\ entries[k].flagId = id

\* One session has deleted a row, or one entry tells of it, and never both.
DeletedOnce ==
    /\ \A k \in DOMAIN log : log[k].action = "DELETE" =>
        log[k].flagId < nextId /\ log[k].flagId \notin DOMAIN table
    /\ \A k, m \in DOMAIN log :
        log[k].action = "DELETE" /\ log[m].action = "DELETE" /\ log[k].flagId = log[m].flagId => k = m
    /\ \A s \in Sessions : Deleted(req[s]) =>
        /\ ~Logged(req[s].id, log)
        /\ \A z \in Sessions : Deleted(req[z]) /\ req[z].id = req[s].id => z = s

IInv ==
    /\ TypeOK
    /\ UniqueStart
    /\ \A s \in Sessions : Knows(req[s], DOMAIN table, nextId)
    /\ DeletedOnce

-----------------------------------------------------------------------------
(* Requests and images.                                                    *)

LEMMA IdleType ==
    ASSUME NEW answer \in Answers, NEW ids, NEW next
    PROVE  /\ Idle(answer) \in RequestType /\ Knows(Idle(answer), ids, next)
           /\ Idle(answer).pc = "idle"
<1>1. NoEffect \in Effect /\ NoFlag \in MaybeImage
  BY DEF NoEffect, Write, Effect, MaybeImage
<1>2. Idle(answer) \in RequestType
  BY <1>1 DEF Idle, RequestType, ZeroTime
<1>3. Idle(answer).pc = "idle" /\ Idle(answer).op = "none"
  BY DEF Idle
<1>4. QED
  BY <1>2, <1>3 DEF Knows, Upserts

\* The image of a row, and its fields.
LEMMA ImageType ==
    ASSUME TypeOK, NEW i \in DOMAIN table
    PROVE  ImageOf(table[i]) \in Image /\ ImageOf(table[i]) # NoFlag
<1>1. table[i] \in Row
  BY DEF TypeOK
<1>2. ImageOf(table[i]) \in Image
  BY <1>1 DEF ImageOf, Row, Image, TimeRange
<1>3. QED
  BY <1>2, NoFlagAssumption

\* A row that is written is of its type, whatever was read before.
LEMMA WrittenRow ==
    ASSUME NEW row \in [name : Names, active : BOOLEAN, range : TimeRange,
                        content : ValidContents, updatedAt : Nat],
           TypeOK, row.updatedAt = clock + 1, clock' = clock + 1
    PROVE  row \in Row' /\ ImageOf(row) \in Image /\ ImageOf(row) # NoFlag
<1>1. row.updatedAt \in 1..clock'
  BY DEF TypeOK
<1>2. row \in Row'
  BY <1>1 DEF Row
<1>3. ImageOf(row) \in Image
  BY DEF ImageOf, Image, TimeRange
<1>4. QED
  BY <1>2, <1>3, NoFlagAssumption

\* A request that comes in is at its first statement and has a body when it needs
\* one.
LEMMA RequestHasType ==
    ASSUME TypeOK, NEW r \in Requests
    PROVE  r \in RequestType /\ r.pc \in {"check", "old"} /\ r.effect = NoEffect /\ Knows(r, DOMAIN table, nextId)
<1>1. ASSUME NEW op \in Ops, NEW pc \in {"check", "old"}, NEW i \in Nat, NEW t \in Nat,
             NEW b \in MaybeImage, op \in Upserts => b \in Image, pc = "check" => op \in Upserts,
             pc = "old" => op # "CREATE", r = Request(op, pc, i, t, b)
      PROVE  r \in RequestType /\ r.pc \in {"check", "old"} /\ r.effect = NoEffect /\ Knows(r, DOMAIN table, nextId)
  <2>1. r = [pc |-> pc, op |-> op, id |-> i, token |-> t, body |-> b, old |-> NoFlag,
             seen |-> NoFlag, compared |-> 0, effect |-> NoEffect, answer |-> "none"]
    BY <1>1 DEF Request, Idle
  <2>2. NoEffect \in Effect /\ NoFlag \in MaybeImage
    BY DEF NoEffect, Write, Effect, MaybeImage
  <2>3. r \in RequestType
    BY <2>1, <2>2 DEF RequestType, Answers
  <2>4. r.pc = pc /\ r.op = op /\ r.body = b /\ r.effect = NoEffect
    BY <2>1
  <2>5. QED
    BY <1>1, <2>3, <2>4 DEF Knows
<1>2. Asked \subseteq Image /\ Image \subseteq MaybeImage /\ NoFlag \in MaybeImage
  BY AskedAssumption DEF Asked, Image, MaybeImage
<1>3. DOMAIN table \subseteq Nat /\ KnownIds \subseteq Nat /\ Stamps \subseteq Nat /\ ZeroTime \in Nat
  BY DEF TypeOK, KnownIds, Stamps, ZeroTime
<1>4. ASSUME NEW i \in Nat, NEW t \in Nat, NEW b \in Asked,
             \/ r = Request("CREATE", "check", i, t, b)
             \/ r = Request("UPDATE", "old", i, t, b)
      PROVE  r \in RequestType /\ r.pc \in {"check", "old"} /\ r.effect = NoEffect /\ Knows(r, DOMAIN table, nextId)
  BY <1>1, <1>2, <1>4 DEF Ops, Upserts
<1>5. CASE r \in ConsoleRequests
  BY <1>3, <1>4, <1>5 DEF ConsoleRequests
<1>6. CASE r \in OtherRequests
  BY <1>3, <1>4, <1>6 DEF OtherRequests
<1>7. CASE r \in SwitchRequests
  <2>1. PICK op \in {"DELETE", "activate", "deactivate"}, i \in KnownIds :
            r = Request(op, "old", i, ZeroTime, NoFlag)
    BY <1>7 DEF SwitchRequests
  <2>2. QED
    BY <1>1, <1>2, <1>3, <2>1 DEF Ops, Upserts
<1>8. QED
  BY <1>5, <1>6, <1>7 DEF Requests

-----------------------------------------------------------------------------
(* What a statement leaves alone.                                          *)

\* Rows go, and come with the next id only.
Grows ==
    /\ DOMAIN table' \subseteq DOMAIN table \cup {nextId}
    /\ nextId' \in {nextId, nextId + 1}
    /\ nextId \in DOMAIN table' => nextId' = nextId + 1

\* The other sessions know what they knew.
LEMMA OthersKnow ==
    ASSUME IInv, Grows, NEW s \in Sessions, NEW r \in RequestType,
           req' = [req EXCEPT ![s] = r], Knows(r, DOMAIN table', nextId')
    PROVE  /\ req' \in [Sessions -> RequestType]
           /\ \A z \in Sessions : Knows(req'[z], DOMAIN table', nextId')
<1>1. req \in [Sessions -> RequestType] /\ nextId \in Nat
  BY DEF IInv, TypeOK
<1>2. ASSUME NEW z \in Sessions, z # s
      PROVE  Knows(req[z], DOMAIN table', nextId')
  <2> DEFINE q == req[z]
  <2>1. q \in RequestType /\ Knows(q, DOMAIN table, nextId)
    BY <1>1 DEF IInv
  <2>2. q.id \in Nat
    BY <2>1 DEF RequestType
  <2> HIDE DEF q
  <2>3. q.id < nextId => q.id < nextId'
    BY <1>1, <2>2 DEF Grows
  <2>4. q.id < nextId /\ q.id \notin DOMAIN table => q.id \notin DOMAIN table'
    BY <1>1, <2>2 DEF Grows
  <2>5. Knows(q, DOMAIN table', nextId')
    BY <2>1, <2>3, <2>4 DEF Knows, Upserts
  <2>6. QED
    BY <2>5 DEF q
<1>3. QED
  BY <1>1, <1>2

\* A session that has deleted nothing disturbs no deletion.
LEMMA StillOnce ==
    ASSUME IInv, Grows, NEW s \in Sessions, NEW r, ~Deleted(r),
           req' = [req EXCEPT ![s] = r], log' = log
    PROVE  DeletedOnce'
<1>1. req \in [Sessions -> RequestType] /\ nextId \in Nat /\ log \in Seq(Record)
  BY DEF IInv, TypeOK
<1>2. ASSUME NEW k \in DOMAIN log, log[k].action = "DELETE"
      PROVE  log[k].flagId < nextId' /\ log[k].flagId \notin DOMAIN table'
  <2>1. log[k] \in Record
    BY <1>1
  <2>2. log[k].flagId \in Nat /\ log[k].flagId < nextId /\ log[k].flagId \notin DOMAIN table
    BY <1>2, <2>1 DEF Record, IInv, DeletedOnce
  <2>3. QED
    BY <1>1, <2>2 DEF Grows
<1>3. \A z \in Sessions : Deleted(req'[z]) => z # s /\ req'[z] = req[z]
  BY <1>1
<1>4. \A id : Logged(id, log') <=> Logged(id, log)
  BY DEF Logged
<1>5. QED
  BY <1>2, <1>3, <1>4 DEF IInv, DeletedOnce

\* A statement that reads.
LEMMA ReadKeepsIInv ==
    ASSUME IInv, NEW s \in Sessions, NEW r \in RequestType, ~Deleted(r),
           Knows(r, DOMAIN table, nextId), req' = [req EXCEPT ![s] = r],
           UNCHANGED <<table, nextId, clock, log>>, begun' \in 0..MaxRequests, lost' \subseteq Effect
    PROVE  IInv'
<1>1. Grows
  BY DEF Grows, IInv, TypeOK
<1>2. UniqueStart'
  BY DEF IInv, UniqueStart
<1>3. req' \in [Sessions -> RequestType] /\ \A z \in Sessions : Knows(req'[z], DOMAIN table', nextId')
  BY <1>1, OthersKnow
<1>4. DeletedOnce'
  BY <1>1, StillOnce
<1>5. TypeOK'
  BY <1>3 DEF IInv, TypeOK, Row
<1>6. QED
  BY <1>2, <1>3, <1>4, <1>5 DEF IInv

\* A statement that writes a row for the session s, which goes on to r.
LEMMA WriteKeepsIInv ==
    ASSUME IInv, Grows, NEW s \in Sessions, NEW r \in RequestType, ~Deleted(r),
           Knows(r, DOMAIN table', nextId'), req' = [req EXCEPT ![s] = r],
           NEW i \in 1..(nextId' - 1), NEW row \in Row', nextId' \in Nat \ {0},
           table' = [j \in DOMAIN table \cup {i} |-> IF j = i THEN row ELSE table[j]],
           \A j \in DOMAIN table \ {i} : table[j].name = row.name => table[j].range.from # row.range.from,
           clock' = clock + 1, log' = log, begun' = begun, lost' = lost
    PROVE  IInv'
<1>1. /\ DOMAIN table \subseteq 1..(nextId - 1) /\ nextId \in Nat /\ clock \in Nat
      /\ nextId' \in {nextId, nextId + 1}
      /\ \A j \in DOMAIN table : table[j] \in Row
  BY DEF IInv, TypeOK, Grows
<1>2. req' \in [Sessions -> RequestType] /\ \A z \in Sessions : Knows(req'[z], DOMAIN table', nextId')
  BY OthersKnow
<1>3. DeletedOnce'
  BY StillOnce
<1>4. \A x \in Row : x \in Row'
  BY <1>1 DEF Row
<1>5. DOMAIN table' \subseteq 1..(nextId' - 1)
  <2>1. DOMAIN table' = DOMAIN table \cup {i}
    OBVIOUS
  <2>2. 1..(nextId - 1) \subseteq 1..(nextId' - 1)
    <3>1. ASSUME NEW m \in Nat, NEW n \in Nat, n = m \/ n = m + 1
          PROVE  1..(m - 1) \subseteq 1..(n - 1)
      BY <3>1
    <3>2. QED
      BY <1>1, <3>1
  <2>3. QED
    BY <1>1, <2>1, <2>2, Zenon
<1>6. table' \in [DOMAIN table' -> Row']
  BY <1>1, <1>4
<1>7. UniqueStart'
  <2> SUFFICES ASSUME NEW x \in DOMAIN table', NEW y \in DOMAIN table',
                      table'[x].name = table'[y].name,
                      table'[x].range.from = table'[y].range.from
               PROVE  x = y
    BY DEF UniqueStart
  <2>1. \A j \in DOMAIN table' : table'[j] = IF j = i THEN row ELSE table[j]
    OBVIOUS
  <2>2. x # i => x \in DOMAIN table \ {i} /\ table'[x] = table[x]
    BY <2>1
  <2>3. y # i => y \in DOMAIN table \ {i} /\ table'[y] = table[y]
    BY <2>1
  <2>4. (x = i => table'[x] = row) /\ (y = i => table'[y] = row)
    BY <2>1
  <2>5. QED
    BY <2>2, <2>3, <2>4 DEF IInv, UniqueStart
<1>8. TypeOK'
  BY <1>1, <1>2, <1>5, <1>6 DEF IInv, TypeOK
<1>9. QED
  BY <1>2, <1>3, <1>7, <1>8 DEF IInv

-----------------------------------------------------------------------------
(* The statements.                                                         *)

\* Any answer ends a request.
LEMMA AnswerKeepsIInv ==
    ASSUME IInv, NEW s \in Sessions, NEW answer \in Answers, Answer(s, answer),
           UNCHANGED <<table, nextId, clock, log, begun>>, lost' \subseteq Effect
    PROVE  IInv'
<1>1. Idle(answer) \in RequestType /\ Knows(Idle(answer), DOMAIN table, nextId) /\ ~Deleted(Idle(answer))
  BY IdleType DEF Deleted
<1>2. QED
  BY <1>1, ReadKeepsIInv DEF Answer, IInv, TypeOK

\* A step to another statement than the log, with what was known.
LEMMA GotoKeepsIInv ==
    ASSUME IInv, NEW s \in Sessions, NEW pc \in {"check", "existing", "get", "checkActive", "write"},
           Goto(s, pc), UNCHANGED <<table, nextId, clock, log, begun, lost>>,
           Knows([req[s] EXCEPT !.pc = pc], DOMAIN table, nextId)
    PROVE  IInv'
<1> DEFINE r == [req[s] EXCEPT !.pc = pc]
<1>1. req[s] \in RequestType /\ begun \in 0..MaxRequests /\ lost \subseteq Effect
  BY DEF IInv, TypeOK
<1>2. r \in RequestType /\ r.pc = pc
  BY <1>1 DEF RequestType
<1>3. req' = [req EXCEPT ![s] = r]
  BY DEF Goto
<1> HIDE DEF r
<1>4. Knows(r, DOMAIN table, nextId)
  BY DEF r
<1>5. QED
  BY <1>1, <1>2, <1>3, <1>4, ReadKeepsIInv DEF Deleted

LEMMA BeginKeepsIInv ==
    ASSUME IInv, NEW s \in Sessions, Begin(s)
    PROVE  IInv'
<1>1. PICK r \in Requests : req' = [req EXCEPT ![s] = r]
  BY DEF Begin
<1>2. r \in RequestType /\ Knows(r, DOMAIN table, nextId) /\ ~Deleted(r)
  BY RequestHasType DEF IInv, Deleted
<1>3. begun' \in 0..MaxRequests /\ UNCHANGED <<table, nextId, clock, log>> /\ lost' \subseteq Effect
  BY RequestsAssumption DEF Begin, IInv, TypeOK
<1>4. QED
  BY <1>1, <1>2, <1>3, ReadKeepsIInv

\* What the session s knows now, and its request by fields.
LEMMA Now ==
    ASSUME IInv, NEW s \in Sessions
    PROVE  /\ req[s] \in RequestType /\ Knows(req[s], DOMAIN table, nextId)
           /\ req[s].id \in Nat /\ req[s].op \in Ops \cup {"none"}
           /\ nextId \in Nat \ {0} /\ clock \in Nat /\ begun \in 0..MaxRequests /\ lost \subseteq Effect
           /\ DOMAIN table \subseteq 1..(nextId - 1)
BY DEF IInv, TypeOK, RequestType

LEMMA ReadStatements ==
    ASSUME IInv, NEW s \in Sessions,
           GetOld(s) \/ UpsertCheck(s) \/ GetExisting(s) \/ GetForSwitch(s) \/ ActivateCheck(s) \/ GetNew(s)
    PROVE  IInv'
<1> USE Now
<1>1. UNCHANGED <<table, nextId, clock, log, begun, lost>>
  BY DEF GetOld, UpsertCheck, GetExisting, GetForSwitch, ActivateCheck, GetNew, NoWrite
<1>2. {"ErrFlagNotFound", "ErrInvalidFlag", "ErrInvalidTimeRange", "ErrRangeOverlap",
       "ErrActiveRangeOverlap", "ErrFlagConflict"} \subseteq Answers
  BY DEF Answers
<1>a. ASSUME NEW answer \in Answers, Answer(s, answer) PROVE IInv'
  BY <1>1, <1>a, AnswerKeepsIInv
<1>b. Found(s) => /\ ImageOf(table[req[s].id]) \in MaybeImage /\ req[s].id < nextId
  BY ImageType DEF Found, IInv, MaybeImage
<1>c. ASSUME NEW r \in RequestType, req' = [req EXCEPT ![s] = r], ~Deleted(r),
             Knows(r, DOMAIN table, nextId)
      PROVE  IInv'
  BY <1>1, <1>c, ReadKeepsIInv
<1>3. CASE GetOld(s)
  <2> DEFINE pc == CASE req[s].op = "UPDATE" -> "check" [] req[s].op = "DELETE" -> "write"
                     [] OTHER -> "get"
             r == [req[s] EXCEPT !.old = ImageOf(table[req[s].id]), !.pc = pc]
  <2>1. CASE ~Found(s)
    BY <1>2, <1>3, <1>a, <2>1 DEF GetOld
  <2>2. CASE Found(s) /\ req[s].op \in Ops \ {"CREATE"}
    <3>1. req' = [req EXCEPT ![s] = r]
      BY <1>3, <2>2 DEF GetOld
    <3>2. /\ r \in RequestType /\ r.pc = pc
          /\ r.op = req[s].op /\ r.id = req[s].id /\ r.body = req[s].body
      BY <1>b, <2>2 DEF RequestType
    <3>3. pc \in {"check", "write", "get"}
      OBVIOUS
    <3> HIDE DEF r
    <3>4. Knows(r, DOMAIN table, nextId)
      BY <1>b, <2>2, <3>2 DEF Knows, Upserts, Ops
    <3>5. QED
      BY <1>c, <3>1, <3>2, <3>3, <3>4 DEF Deleted
  <2>3. QED
    BY <1>3, <2>1, <2>2 DEF GetOld, At, Knows
<1>4. CASE UpsertCheck(s)
  <2>1. req[s].pc = "check" /\ req[s].op \in Upserts
    BY <1>4 DEF UpsertCheck, At, Knows
  <2>2. ASSUME NEW pc \in {"existing", "write"}, Goto(s, pc),
               req[s].body.content \in ValidContents, ValidateTemporalRange(req[s].body.range)
        PROVE  IInv'
    <3> DEFINE r == [req[s] EXCEPT !.pc = pc]
    <3>1. /\ r \in RequestType /\ r.pc = pc
          /\ r.op = req[s].op /\ r.id = req[s].id /\ r.body = req[s].body
      BY DEF RequestType
    <3>2. req[s].body \in Image /\ req[s].body.range \in TimeRange
      BY <2>1, <2>2 DEF Knows, Image, TimeRange
    <3> HIDE DEF r
    <3>3. Knows(r, DOMAIN table, nextId)
      BY <2>1, <2>2, <3>1, <3>2 DEF Knows, Upserts
    <3>4. QED
      BY <1>1, <2>2, <3>3, GotoKeepsIInv DEF r
  <2>3. QED
    BY <1>2, <1>4, <1>a, <2>2 DEF UpsertCheck
<1>5. CASE GetExisting(s)
  <2>1. req[s].pc = "existing" /\ req[s].op \in Upserts
    BY <1>5 DEF GetExisting, At, Knows
  <2> DEFINE r == [req[s] EXCEPT !.pc = "write", !.compared = clock]
  <2>2. ASSUME req' = [req EXCEPT ![s] = r] PROVE IInv'
    <3>1. /\ r \in RequestType /\ r.pc = "write"
          /\ r.op = req[s].op /\ r.id = req[s].id /\ r.body = req[s].body
      BY DEF RequestType
    <3> HIDE DEF r
    <3>2. Knows(r, DOMAIN table, nextId)
      BY <2>1, <3>1 DEF Knows, Upserts
    <3>3. QED
      BY <1>c, <2>2, <3>1, <3>2 DEF Deleted
  <2>3. QED
    BY <1>2, <1>5, <1>a, <2>2 DEF GetExisting
<1>6. CASE GetForSwitch(s)
  <2> DEFINE pc == IF req[s].op = "deactivate" THEN "write"
                   ELSE IF table[req[s].id].active THEN "new" ELSE "checkActive"
             r == [req[s] EXCEPT !.seen = ImageOf(table[req[s].id]), !.pc = pc]
  <2>1. req[s].pc = "get" /\ req[s].op \in {"activate", "deactivate"}
    BY <1>6 DEF GetForSwitch, At, Knows
  <2>2. CASE Found(s)
    <3>1. req' = [req EXCEPT ![s] = r]
      BY <1>6, <2>2 DEF GetForSwitch
    <3>2. /\ r \in RequestType /\ r.pc = pc
          /\ r.op = req[s].op /\ r.id = req[s].id
      BY <1>b, <2>2 DEF RequestType
    <3>3. pc \in {"checkActive", "write", "new"} /\ (pc = "new" => req[s].op # "deactivate")
      OBVIOUS
    <3> HIDE DEF r, pc
    <3>4. Knows(r, DOMAIN table, nextId)
      BY <1>b, <2>1, <2>2, <3>2, <3>3 DEF Knows, Upserts
    <3>5. QED
      BY <1>c, <3>1, <3>2, <3>3, <3>4 DEF Deleted
  <2>3. QED
    BY <1>2, <1>6, <1>a, <2>2 DEF GetForSwitch
<1>7. CASE ActivateCheck(s)
  <2>1. req[s].pc = "checkActive" /\ req[s].op \in {"activate", "deactivate"}
    BY <1>7 DEF ActivateCheck, At, Knows
  <2>2. ASSUME Goto(s, "write") PROVE IInv'
    <3> DEFINE r == [req[s] EXCEPT !.pc = "write"]
    <3>1. r \in RequestType /\ r.pc = "write" /\ r.op = req[s].op /\ r.id = req[s].id
      BY DEF RequestType
    <3> HIDE DEF r
    <3>2. Knows(r, DOMAIN table, nextId)
      BY <2>1, <3>1 DEF Knows, Upserts
    <3>3. QED
      BY <1>1, <2>2, <3>2, GotoKeepsIInv DEF r
  <2>3. QED
    BY <1>2, <1>7, <1>a, <2>2 DEF ActivateCheck
<1>8. CASE GetNew(s)
  <2> DEFINE r == [req[s] EXCEPT !.pc = "log", !.seen = ImageOf(table[req[s].id])]
  <2>1. req[s].pc = "new" /\ req[s].op \in {"activate", "deactivate"}
    BY <1>8 DEF GetNew, At, Knows
  <2>2. CASE Found(s)
    <3>1. req' = [req EXCEPT ![s] = r]
      BY <1>8, <2>2 DEF GetNew
    <3>2. /\ r \in RequestType /\ r.pc = "log"
          /\ r.op = req[s].op /\ r.id = req[s].id /\ r.effect = req[s].effect
      BY <1>b, <2>2 DEF RequestType
    <3>3. req[s].effect # NoEffect \/ req[s].op = "activate"
      BY <2>1, <2>2 DEF Knows, Found
    <3> HIDE DEF r
    <3>4. Knows(r, DOMAIN table, nextId)
      BY <1>b, <2>1, <2>2, <3>2, <3>3 DEF Knows, Upserts, Ops
    <3>5. QED
      BY <1>c, <2>1, <3>1, <3>2, <3>4 DEF Deleted
  <2>3. QED
    BY <1>2, <1>8, <1>a, <2>2 DEF GetNew
<1>9. QED
  BY <1>3, <1>4, <1>5, <1>6, <1>7, <1>8

\* The body of an upsert that has come to its write.
LEMMA UpsertBody ==
    ASSUME IInv, NEW s \in Sessions, req[s].pc = "write", req[s].op \in Upserts
    PROVE  /\ req[s].body.name \in Names /\ req[s].body.active \in BOOLEAN
           /\ req[s].body.content \in ValidContents /\ req[s].body.range \in TimeRange
<1>1. req[s].body \in Image /\ req[s].body.content \in ValidContents /\ req[s].body.range \in TimeRange
  BY Now DEF Knows
<1>2. QED
  BY <1>1 DEF Image

LEMMA WriteIsEffect ==
    ASSUME NEW id \in Nat \ {0}, NEW stamp \in Nat
    PROVE  /\ Write(id, stamp) \in Effect /\ Write(id, stamp) # NoEffect
           /\ Write(id, stamp).id = id /\ Write(id, stamp).stamp = stamp
BY DEF Write, Effect, NoEffect

\* The session that wrote goes on to pc with the effect of its write.
LEMMA AfterWrite ==
    ASSUME IInv, NEW s \in Sessions, NEW pc \in {"log", "new"}, NEW e, NEW ids, NEW next,
           e \in Effect, e # NoEffect,
           req[s].pc = "write", req[s].op \in Ops,
           pc = "new" => req[s].op \in {"activate", "deactivate"},
           req[s].op \notin Upserts => req[s].id < next,
           req[s].op = "DELETE" => req[s].id \notin ids
    PROVE  LET r == [req[s] EXCEPT !.pc = pc, !.effect = e]
           IN  r \in RequestType /\ Knows(r, ids, next) /\ (Deleted(r) <=> pc = "log" /\ req[s].op = "DELETE")
<1> DEFINE r == [req[s] EXCEPT !.pc = pc, !.effect = e]
<1>1. req[s] \in RequestType /\ Knows(req[s], DOMAIN table, nextId)
  BY Now
<1>2. /\ r \in RequestType /\ r.pc = pc /\ r.effect = e
      /\ r.op = req[s].op /\ r.id = req[s].id /\ r.body = req[s].body
  BY <1>1 DEF RequestType
<1> HIDE DEF r
<1>3. Knows(r, ids, next)
  BY <1>1, <1>2 DEF Knows
<1>4. QED
  BY <1>2, <1>3 DEF Deleted, r

LEMMA UpdateKeepsIInv ==
    ASSUME IInv, NEW s \in Sessions, UpdateRow(s)
    PROVE  IInv'
<1> DEFINE id == req[s].id
           row == Updated(id, req[s].body)
           e == Write(id, clock + 1)
<1>1. req[s].pc = "write" /\ req[s].op \in Upserts /\ UNCHANGED <<nextId, log, begun, lost>>
  BY DEF UpdateRow, At, Upserts
<1>2. CASE ~Found(s) \/ Duplicate(table[id].name, req[s].body.range, id)
  <2>1. UNCHANGED <<table, clock>> /\ \E a \in {"ErrFlagNotFound", "ErrInternal"} : Answer(s, a)
    BY <1>2 DEF UpdateRow
  <2>2. QED
    BY <1>1, <2>1, Now, AnswerKeepsIInv DEF Answers
<1>3. CASE Found(s) /\ ~Duplicate(table[id].name, req[s].body.range, id)
  <2>1. /\ clock' = clock + 1 /\ table' = [table EXCEPT ![id] = row]
        /\ req' = [req EXCEPT ![s] = [req[s] EXCEPT !.pc = "log", !.effect = e]]
    BY <1>3 DEF UpdateRow
  <2>2. id \in DOMAIN table /\ table[id] \in Row /\ id \in 1..(nextId - 1) /\ clock \in Nat
    BY <1>3, Now DEF Found, IInv, TypeOK
  <2>3. /\ row \in [name : Names, active : BOOLEAN, range : TimeRange,
                     content : ValidContents, updatedAt : Nat]
        /\ row.updatedAt = clock + 1 /\ row.name = table[id].name /\ row.range = req[s].body.range
    BY <1>1, <2>2, UpsertBody DEF Updated, Row
  <2> HIDE DEF row
  <2>4. row \in Row' /\ ImageOf(row) \in Image /\ ImageOf(row) # NoFlag
    BY <2>1, <2>3, WrittenRow DEF IInv
  <2>5. e \in Effect /\ e # NoEffect
    <3>1. id \in Nat \ {0} /\ clock + 1 \in Nat
      BY <2>2, Now
    <3>2. QED
      BY <3>1, WriteIsEffect
  <2> HIDE DEF e
  <2>6. \A j \in DOMAIN table \ {id} :
            table[j].name = row.name => table[j].range.from # row.range.from
    BY <1>3, <2>3 DEF Duplicate
  <2>7. table' = [j \in DOMAIN table \cup {id} |-> IF j = id THEN row ELSE table[j]]
    BY <2>1, <2>2 DEF IInv, TypeOK
  <2>8. Grows /\ nextId' \in Nat \ {0} /\ id \in 1..(nextId' - 1)
    BY <1>1, <2>2, <2>7, Now DEF Grows
  <2> DEFINE r == [req[s] EXCEPT !.pc = "log", !.effect = e]
  <2>9. r \in RequestType /\ Knows(r, DOMAIN table', nextId') /\ ~Deleted(r)
    <3>1. req[s].op \in Ops /\ req[s].op # "DELETE"
      BY <1>1 DEF Upserts, Ops
    <3>2. QED
      BY <1>1, <2>5, <3>1, AfterWrite
  <2> HIDE DEF r, id
  <2>10. req' = [req EXCEPT ![s] = r]
    BY <2>1 DEF r, id
  <2>11. QED
    <3>1. clock' = clock + 1 /\ log' = log /\ begun' = begun /\ lost' = lost
      BY <1>1, <2>1
    <3>2. QED
      BY <2>4, <2>6, <2>7, <2>8, <2>9, <2>10, <3>1, WriteKeepsIInv, Zenon
<1>4. QED
  BY <1>2, <1>3

LEMMA InsertKeepsIInv ==
    ASSUME IInv, NEW s \in Sessions, InsertRow(s)
    PROVE  IInv'
<1> DEFINE row == Inserted(req[s].body)
           e == Write(nextId, clock + 1)
<1>1. /\ req[s].pc = "write" /\ req[s].op = "CREATE" /\ req[s].op \in Upserts
      /\ nextId' = nextId + 1 /\ UNCHANGED <<log, begun, lost>>
  BY DEF InsertRow, At, Upserts
<1>2. CASE Duplicate(req[s].body.name, req[s].body.range, 0)
  <2>1. UNCHANGED <<table, clock>> /\ req' = [req EXCEPT ![s] = Idle("ErrInternal")]
    BY <1>2 DEF InsertRow, Answer
  <2>2. Grows /\ nextId' \in Nat \ {0}
    BY <1>1, <2>1, Now DEF Grows
  <2>3. Idle("ErrInternal") \in RequestType /\ ~Deleted(Idle("ErrInternal"))
        /\ Knows(Idle("ErrInternal"), DOMAIN table', nextId')
    BY IdleType DEF Answers, Deleted
  <2>4. /\ req' \in [Sessions -> RequestType]
        /\ \A z \in Sessions : Knows(req'[z], DOMAIN table', nextId')
    BY <2>1, <2>2, <2>3, OthersKnow
  <2>5. DeletedOnce'
    BY <1>1, <2>1, <2>2, <2>3, StillOnce
  <2>6. UniqueStart'
    BY <2>1 DEF IInv, UniqueStart
  <2>7. DOMAIN table' \subseteq 1..(nextId' - 1)
    BY <1>1, <2>1, Now
  <2>8. TypeOK'
    BY <1>1, <2>1, <2>2, <2>4, <2>7 DEF IInv, TypeOK, Row
  <2>9. QED
    BY <2>4, <2>5, <2>6, <2>8 DEF IInv
<1>3. CASE ~Duplicate(req[s].body.name, req[s].body.range, 0)
  <2>1. /\ clock' = clock + 1
        /\ table' = [i \in DOMAIN table \cup {nextId} |-> IF i = nextId THEN row ELSE table[i]]
        /\ req' = [req EXCEPT ![s] = [req[s] EXCEPT !.pc = "log", !.effect = e]]
    BY <1>3 DEF InsertRow
  <2>2. /\ row \in [name : Names, active : BOOLEAN, range : TimeRange,
                     content : ValidContents, updatedAt : Nat]
        /\ row.updatedAt = clock + 1
        /\ row.name = req[s].body.name /\ row.range = req[s].body.range
    BY <1>1, UpsertBody, Now DEF Inserted
  <2> HIDE DEF row
  <2>3. row \in Row' /\ ImageOf(row) \in Image /\ ImageOf(row) # NoFlag
    BY <2>1, <2>2, WrittenRow DEF IInv
  <2>4. e \in Effect /\ e # NoEffect
    <3>1. nextId \in Nat \ {0} /\ clock + 1 \in Nat
      BY Now
    <3>2. QED
      BY <3>1, WriteIsEffect
  <2> HIDE DEF e
  <2>5. \A j \in DOMAIN table \ {nextId} :
            table[j].name = row.name => table[j].range.from # row.range.from
    BY <1>3, <2>2, Now DEF Duplicate
  <2>6. Grows /\ nextId' \in Nat \ {0} /\ nextId \in 1..(nextId' - 1)
    BY <1>1, <2>1, Now DEF Grows
  <2> DEFINE r == [req[s] EXCEPT !.pc = "log", !.effect = e]
  <2>7. r \in RequestType /\ Knows(r, DOMAIN table', nextId') /\ ~Deleted(r)
    <3>1. req[s].op \in Ops /\ req[s].op # "DELETE"
      BY <1>1 DEF Upserts, Ops
    <3>2. QED
      BY <1>1, <2>4, <3>1, AfterWrite
  <2> HIDE DEF r
  <2>8. req' = [req EXCEPT ![s] = r]
    BY <2>1 DEF r
  <2>9. QED
    <3>1. clock' = clock + 1 /\ log' = log /\ begun' = begun /\ lost' = lost
      BY <1>1, <2>1
    <3>2. QED
      BY <2>1, <2>3, <2>5, <2>6, <2>7, <2>8, <3>1, WriteKeepsIInv, Zenon
<1>4. QED
  BY <1>2, <1>3

LEMMA SwitchKeepsIInv ==
    ASSUME IInv, NEW s \in Sessions, SetActive(s)
    PROVE  IInv'
<1> DEFINE id == req[s].id
           row == [table[id] EXCEPT !.active = (req[s].op = "activate"), !.updatedAt = clock + 1]
           e == Write(id, clock + 1)
<1>1. /\ req[s].pc = "write" /\ req[s].op \in {"activate", "deactivate"}
      /\ req[s].op \in Ops /\ req[s].op \notin Upserts /\ UNCHANGED <<nextId, log, begun, lost>>
  BY DEF SetActive, At, Upserts, Ops
<1>a. id < nextId /\ id \in Nat
  BY <1>1, Now DEF Knows
<1>2. CASE ~Found(s)
  <2> DEFINE r == [req[s] EXCEPT !.pc = "new"]
  <2>1. UNCHANGED <<table, clock>> /\ req' = [req EXCEPT ![s] = r] /\ id \notin DOMAIN table
    BY <1>2 DEF SetActive, Goto, Found
  <2>2. r \in RequestType /\ r.pc = "new" /\ r.op = req[s].op /\ r.id = id
    BY Now DEF RequestType
  <2> HIDE DEF r, id
  <2>3. Knows(r, DOMAIN table, nextId)
    BY <1>1, <1>a, <2>1, <2>2 DEF Knows, Upserts
  <2>4. QED
    BY <1>1, <2>1, <2>2, <2>3, Now, ReadKeepsIInv DEF Deleted
<1>3. CASE Found(s)
  <2>1. /\ clock' = clock + 1 /\ table' = [table EXCEPT ![id] = row]
        /\ req' = [req EXCEPT ![s] = [req[s] EXCEPT !.pc = "new", !.effect = e]]
    BY <1>3 DEF SetActive
  <2>2. id \in DOMAIN table /\ table[id] \in Row /\ id \in 1..(nextId - 1) /\ clock \in Nat
    BY <1>3, Now DEF Found, IInv, TypeOK
  <2>3. /\ row \in [name : Names, active : BOOLEAN, range : TimeRange,
                     content : ValidContents, updatedAt : Nat]
        /\ row.updatedAt = clock + 1 /\ row.name = table[id].name /\ row.range = table[id].range
    <3>1. table[id] \in [name : Names, active : BOOLEAN, range : TimeRange,
                         content : ValidContents, updatedAt : Nat]
      BY <2>2 DEF Row
    <3>2. clock + 1 \in Nat /\ (req[s].op = "activate") \in BOOLEAN
      BY <2>2
    <3>3. QED
      BY <3>1, <3>2
  <2> HIDE DEF row
  <2>4. row \in Row' /\ ImageOf(row) \in Image /\ ImageOf(row) # NoFlag
    BY <2>1, <2>3, WrittenRow DEF IInv
  <2>5. e \in Effect /\ e # NoEffect
    <3>1. id \in Nat \ {0} /\ clock + 1 \in Nat
      BY <2>2, Now
    <3>2. QED
      BY <3>1, WriteIsEffect
  <2> HIDE DEF e
  <2>6. \A j \in DOMAIN table \ {id} :
            table[j].name = row.name => table[j].range.from # row.range.from
    BY <2>2, <2>3 DEF IInv, UniqueStart
  <2>7. table' = [j \in DOMAIN table \cup {id} |-> IF j = id THEN row ELSE table[j]]
    BY <2>1, <2>2 DEF IInv, TypeOK
  <2>8. Grows /\ nextId' \in Nat \ {0} /\ id \in 1..(nextId' - 1)
    BY <1>1, <2>2, <2>7, Now DEF Grows
  <2> DEFINE r == [req[s] EXCEPT !.pc = "new", !.effect = e]
  <2>9. r \in RequestType /\ Knows(r, DOMAIN table', nextId') /\ ~Deleted(r)
    <3>1. /\ req[s].pc = "write" /\ req[s].op \in Ops /\ req[s].op # "DELETE"
          /\ req[s].op \in {"activate", "deactivate"} /\ req[s].id < nextId'
      BY <1>1, <1>a
    <3>2. /\ r \in RequestType /\ Knows(r, DOMAIN table', nextId')
          /\ Deleted(r) <=> "new" = "log" /\ req[s].op = "DELETE"
      BY <2>5, <3>1, AfterWrite
    <3>3. QED
      BY <3>1, <3>2
  <2> HIDE DEF r, id
  <2>10. req' = [req EXCEPT ![s] = r]
    BY <2>1 DEF r, id
  <2>11. QED
    <3>1. clock' = clock + 1 /\ log' = log /\ begun' = begun /\ lost' = lost
      BY <1>1, <2>1
    <3>2. QED
      BY <2>4, <2>6, <2>7, <2>8, <2>9, <2>10, <3>1, WriteKeepsIInv, Zenon
<1>4. QED
  BY <1>2, <1>3

\* A row that one session deletes was there until then, so nobody else has
\* deleted it or told of it.
LEMMA DeleteKeepsIInv ==
    ASSUME IInv, NEW s \in Sessions, DeleteRow(s)
    PROVE  IInv'
<1> DEFINE id == req[s].id
           e == Write(id, 0)
<1>1. /\ req[s].pc = "write" /\ req[s].op = "DELETE" /\ req[s].op \in Ops /\ req[s].op \notin Upserts
      /\ UNCHANGED <<nextId, clock, log, begun, lost>>
      /\ table' = [i \in DOMAIN table \ {id} |-> table[i]]
  BY DEF DeleteRow, At, Upserts, Ops
<1>2. CASE ~Found(s)
  <2>1. Answer(s, "ErrFlagNotFound") /\ id \notin DOMAIN table
    BY <1>2 DEF DeleteRow, Found
  <2>2. table' = table
    BY <1>1, <2>1 DEF IInv, TypeOK
  <2>3. QED
    BY <1>1, <2>1, <2>2, Now, AnswerKeepsIInv DEF Answers
<1>3. CASE Found(s)
  <2> DEFINE r == [req[s] EXCEPT !.pc = "log", !.effect = e]
  <2>1. req' = [req EXCEPT ![s] = r]
    BY <1>3 DEF DeleteRow
  <2>2. id \in DOMAIN table /\ id \in Nat /\ id < nextId /\ req \in [Sessions -> RequestType]
    BY <1>3, Now DEF Found, IInv, TypeOK
  <2>3. Grows /\ DOMAIN table' = DOMAIN table \ {id} /\ \A i \in DOMAIN table' : table'[i] = table[i]
    BY <1>1, Now DEF Grows
  <2>4. e \in Effect /\ e # NoEffect
    BY <2>2, Now, WriteIsEffect
  <2> HIDE DEF e
  <2>5. r \in RequestType /\ Knows(r, DOMAIN table', nextId')
    BY <1>1, <2>2, <2>3, <2>4, AfterWrite
  <2>6. r.id = id
    BY <2>2 DEF RequestType
  <2> HIDE DEF r
  <2>7. req' \in [Sessions -> RequestType] /\ \A z \in Sessions : Knows(req'[z], DOMAIN table', nextId')
    BY <2>1, <2>3, <2>5, OthersKnow
  <2>8. UniqueStart'
    BY <2>3 DEF IInv, UniqueStart
  <2>9. TypeOK'
    <3>1. table' \in [DOMAIN table' -> Row']
      BY <1>1, <2>3 DEF IInv, TypeOK, Row
    <3>2. QED
      BY <1>1, <2>3, <2>7, <3>1 DEF IInv, TypeOK
  <2>10. DeletedOnce'
    <3>1. ~Logged(id, log) /\ \A z \in Sessions : Deleted(req[z]) => req[z].id # id
      <4>1. \A z \in Sessions : Deleted(req[z]) => req[z].id \notin DOMAIN table
        BY DEF IInv, Knows, Deleted
      <4>2. QED
        BY <2>2, <4>1 DEF IInv, DeletedOnce, Logged
    <3>2. \A z \in Sessions : req'[z] = IF z = s THEN r ELSE req[z]
      BY <2>1, <2>2
    <3>3. \A n : Logged(n, log') <=> Logged(n, log)
      BY <1>1 DEF Logged
    <3>4. log' = log /\ nextId' = nextId
      BY <1>1
    <3>5. ASSUME NEW y \in Sessions, Deleted(req'[y])
          PROVE  /\ ~Logged(req'[y].id, log)
                 /\ \A z \in Sessions : Deleted(req'[z]) /\ req'[z].id = req'[y].id => z = y
      <4>1. CASE y = s
        BY <2>6, <3>1, <3>2, <4>1
      <4>2. CASE y # s
        BY <2>6, <3>1, <3>2, <3>5, <4>2 DEF IInv, DeletedOnce
      <4>3. QED
        BY <4>1, <4>2
    <3>6. QED
      BY <2>3, <3>3, <3>4, <3>5 DEF IInv, DeletedOnce
  <2>11. QED
    BY <2>7, <2>8, <2>9, <2>10 DEF IInv
<1>4. QED
  BY <1>2, <1>3

\* The entry takes the place of the session that had deleted the row.
LEMMA LogKeepsIInv ==
    ASSUME IInv, NEW s \in Sessions, LogAction(s)
    PROVE  IInv'
<1> DEFINE entry == Entry(req[s])
<1>1. /\ req[s].pc = "log" /\ log' = Append(log, entry)
      /\ req' = [req EXCEPT ![s] = Idle("nil")] /\ UNCHANGED <<table, nextId, clock, begun, lost>>
  BY DEF LogAction, At, Answer
<1>2. req[s] \in RequestType /\ Knows(req[s], DOMAIN table, nextId) /\ req[s].op \in Ops
  BY <1>1, Now DEF Knows
<1>3. Idle("nil") \in RequestType /\ ~Deleted(Idle("nil")) /\ Knows(Idle("nil"), DOMAIN table, nextId)
  BY IdleType DEF Answers, Deleted
<1>4. Grows
  BY <1>1, Now DEF Grows
<1>5. req' \in [Sessions -> RequestType] /\ \A z \in Sessions : Knows(req'[z], DOMAIN table', nextId')
  BY <1>1, <1>3, <1>4, OthersKnow
<1>6. entry \in Record /\ entry.action = req[s].op /\ entry.flagId = req[s].id
  <2>1. /\ req[s].body \in MaybeImage /\ req[s].old \in MaybeImage /\ req[s].seen \in MaybeImage
        /\ NoFlag \in MaybeImage /\ req[s].id \in Nat
    BY <1>2 DEF RequestType, MaybeImage
  <2>2. QED
    BY <1>2, <2>1 DEF Entry, Record
<1> HIDE DEF entry
<1>7. TypeOK'
  BY <1>1, <1>5, <1>6 DEF IInv, TypeOK, Row
<1>8. UniqueStart'
  BY <1>1 DEF IInv, UniqueStart
<1>9. DeletedOnce'
  <2>1. log \in Seq(Record) /\ Len(log) \in Nat /\ req \in [Sessions -> RequestType]
    BY DEF IInv, TypeOK
  <2>2. /\ DOMAIN log' = DOMAIN log \cup {Len(log) + 1} /\ Len(log) + 1 \notin DOMAIN log
        /\ log'[Len(log) + 1] = entry /\ \A k \in DOMAIN log : log'[k] = log[k]
    BY <1>1, <1>6, <2>1
  <2>3. \A z \in Sessions : Deleted(req'[z]) => z # s /\ req'[z] = req[z]
    BY <1>1, <1>3, <2>1
  <2>4. CASE req[s].op = "DELETE"
    <3>1. Deleted(req[s]) /\ req[s].id < nextId /\ req[s].id \notin DOMAIN table
      BY <1>1, <1>2, <2>4 DEF Deleted, Knows, Upserts
    <3>2. ~Logged(req[s].id, log)
      BY <3>1 DEF IInv, DeletedOnce
    <3>3. \A n : Logged(n, log') <=> Logged(n, log) \/ n = req[s].id
      BY <1>6, <2>2, <2>4 DEF Logged
    <3>4. ASSUME NEW k \in DOMAIN log', log'[k].action = "DELETE"
          PROVE  log'[k].flagId < nextId' /\ log'[k].flagId \notin DOMAIN table'
      BY <1>1, <1>6, <2>2, <3>1, <3>4 DEF IInv, DeletedOnce
    <3>5. ASSUME NEW k \in DOMAIN log', NEW m \in DOMAIN log', log'[k].action = "DELETE",
                 log'[m].action = "DELETE", log'[k].flagId = log'[m].flagId
          PROVE  k = m
      BY <1>6, <2>2, <3>2, <3>5 DEF IInv, DeletedOnce, Logged
    <3>6. ASSUME NEW y \in Sessions, Deleted(req'[y])
          PROVE  /\ ~Logged(req'[y].id, log')
                 /\ \A z \in Sessions : Deleted(req'[z]) /\ req'[z].id = req'[y].id => z = y
      <4>1. y # s /\ req'[y] = req[y] /\ Deleted(req[y])
        BY <2>3, <3>6
      <4>2. req[y].id # req[s].id
        BY <3>1, <4>1 DEF IInv, DeletedOnce
      <4>3. ~Logged(req'[y].id, log')
        BY <3>3, <4>1, <4>2 DEF IInv, DeletedOnce
      <4>4. QED
        BY <2>3, <4>1, <4>3 DEF IInv, DeletedOnce
    <3>7. QED
      BY <3>4, <3>5, <3>6 DEF DeletedOnce
  <2>5. CASE req[s].op # "DELETE"
    <3>1. \A n : Logged(n, log') <=> Logged(n, log)
      BY <1>6, <2>2, <2>5 DEF Logged
    <3>2. \A k \in DOMAIN log' : log'[k].action = "DELETE" => k \in DOMAIN log /\ log'[k] = log[k]
      BY <1>6, <2>2, <2>5
    <3>3. \A y \in Sessions : Deleted(req'[y]) => ~Logged(req'[y].id, log')
      BY <2>3, <3>1 DEF IInv, DeletedOnce
    <3>4. QED
      BY <1>1, <2>3, <3>2, <3>3 DEF IInv, DeletedOnce
  <2>6. QED
    BY <2>4, <2>5
<1>10. QED
  BY <1>5, <1>7, <1>8, <1>9 DEF IInv

LEMMA InitIInv == Init => IInv
<1> SUFFICES ASSUME Init PROVE IInv
  OBVIOUS
<1>1. /\ DOMAIN table = {} /\ nextId = 1 /\ clock = 0 /\ log = <<>> /\ begun = 0 /\ lost = {}
      /\ req = [s \in Sessions |-> Idle("nil")]
      /\ table = [i \in {} |-> NoFlag]
  BY DEF Init
<1>2. /\ Idle("nil") \in RequestType /\ Knows(Idle("nil"), DOMAIN table, nextId)
      /\ ~Deleted(Idle("nil"))
  BY IdleType DEF Answers, Deleted
<1>3. TypeOK
  <2>1. table \in [DOMAIN table -> Row]
    BY <1>1
  <2>2. QED
    BY <1>1, <1>2, <2>1, RequestsAssumption DEF TypeOK
<1>4. QED
  BY <1>1, <1>2, <1>3 DEF IInv, UniqueStart, DeletedOnce

LEMMA StatementKeepsIInv ==
    ASSUME IInv, NEW s \in Sessions, Statement(s) \/ Fail(s)
    PROVE  IInv'
<1>1. CASE Fail(s)
  <2>1. /\ Answer(s, "ErrInternal") \/ Answer(s, "nil")
        /\ UNCHANGED <<table, nextId, clock, log, begun>>
        /\ lost' \subseteq Effect
    BY <1>1, Now DEF Fail, RequestType
  <2>2. QED
    BY <2>1, AnswerKeepsIInv DEF Answers
<1>2. QED
  BY <1>1, ReadStatements, UpdateKeepsIInv, InsertKeepsIInv, DeleteKeepsIInv, SwitchKeepsIInv,
     LogKeepsIInv
  DEF Statement

LEMMA NextKeepsIInv == IInv /\ [Next]_vars => IInv'
<1>1. IInv /\ UNCHANGED vars => IInv'
  <2> SUFFICES ASSUME IInv, UNCHANGED vars PROVE IInv'
    OBVIOUS
  <2>1. /\ table' = table /\ nextId' = nextId /\ clock' = clock
        /\ log' = log /\ req' = req /\ begun' = begun /\ lost' = lost
    BY DEF vars
  <2>2. TypeOK'
    BY <2>1 DEF IInv, TypeOK, Row
  <2>3. QED
    BY <2>1, <2>2 DEF IInv, UniqueStart, DeletedOnce
<1>2. QED
  BY <1>1, BeginKeepsIInv, StatementKeepsIInv DEF Next, Quiet

LEMMA Invariance == Spec => []IInv
BY InitIInv, NextKeepsIInv, PTL DEF Spec

-----------------------------------------------------------------------------
(* Theorems.                                                               *)

\* Types: a stored row has a valid range and an accepted content, an id that was
\* given and a stamp that has been, whatever the requests bring (service.go,
\* postgres_repository.go).
THEOREM TypeCorrect == Spec => []TypeOK
<1>1. IInv => TypeOK
  BY DEF IInv
<1>2. QED
  BY <1>1, Invariance, PTL

\* However requests race and fail, and though ranges may overlap, an evaluation
\* has one answer: no two rows of a name start together
\* (postgres_repository.go:100).
THEOREM UniqueAnswer == Spec => []AnswerIsUnique
<1>1. ASSUME IInv PROVE AnswerIsUnique
  <2> SUFFICES ASSUME NEW n \in Names, NEW t \in Instants
               PROVE  Cardinality(GetFlagAt(n, t)) =< 1
    BY DEF AnswerIsUnique
  <2> DEFINE answers == GetFlagAt(n, t)
  <2>1. ASSUME NEW i \in answers, NEW j \in answers PROVE i = j
    <3>1. /\ i \in DOMAIN table /\ j \in DOMAIN table /\ table[i].name = n /\ table[j].name = n
          /\ table[j].range.from =< table[i].range.from /\ table[i].range.from =< table[j].range.from
      BY DEF GetFlagAt
    <3>2. table[i].range \in TimeRange /\ table[j].range \in TimeRange
      BY <1>1, <3>1 DEF IInv, TypeOK, Row
    <3>3. table[i].range.from \in Nat /\ table[j].range.from \in Nat
      BY <3>2, RangeEnds
    <3>4. table[i].range.from = table[j].range.from
      BY <3>1, <3>3
    <3>5. QED
      BY <1>1, <3>1, <3>4 DEF IInv, UniqueStart
  <2>2. CASE answers = {}
    BY <2>2, FS_EmptySet
  <2>3. CASE answers # {}
    <3>1. PICK i \in answers : TRUE
      BY <2>3
    <3> HIDE DEF answers
    <3>2. answers = {i}
      BY <2>1, <3>1
    <3>3. Cardinality(answers) = 1
      BY <3>2, FS_Singleton
    <3>4. QED
      BY <3>3 DEF answers
  <2>4. QED
    BY <2>2, <2>3
<1>2. QED
  BY <1>1, Invariance, PTL

\* A deletion is logged once and for all: of the sessions that read a row, one
\* deletes it, and no later row has its id (postgres_repository.go:361).
THEOREM DeletionLoggedOnce == Spec => []DeleteLoggedOnce
<1>1. IInv => DeleteLoggedOnce
  BY DEF IInv, DeletedOnce, DeleteLoggedOnce
<1>2. QED
  BY <1>1, Invariance, PTL

\* An entry of the audit trail tells of what its own request has done, whatever
\* the others do between its statements (service.go:204).
THEOREM NothingInvented == Spec => LoggedIsDone
<1>1. IInv /\ [Next]_vars =>
        [\A s \in Sessions : At(s, "log") /\ Len(log') > Len(log) /\ req'[s].pc = "idle" =>
            req[s].effect # NoEffect \/ req[s].op = "activate"]_vars
  BY DEF IInv, Knows, At
<1>2. QED
  BY <1>1, Invariance, PTL DEF Spec, LoggedIsDone
-----------------------------------------------------------------------------
(* What one step does to the rows and to the other sessions.               *)

Acts(z) == Begin(z) \/ Statement(z) \/ Fail(z)

\* A statement of the session z that has written the row i.
Wrote(z, i) ==
    \/ UpdateRow(z) /\ i = req[z].id /\ i \in DOMAIN table /\ table'[i] = Updated(i, req[z].body)
    \/ InsertRow(z) /\ i = nextId /\ table'[i] = Inserted(req[z].body)
    \/ /\ SetActive(z) /\ i = req[z].id /\ i \in DOMAIN table
       /\ table'[i] = [table[i] EXCEPT !.active = (req[z].op = "activate"), !.updatedAt = clock + 1]

LEMMA OneActs ==
    ASSUME IInv, NEW z \in Sessions, Acts(z)
    PROVE  \A s \in Sessions \ {z} : req'[s] = req[s]
<1>1. req \in [Sessions -> RequestType]
  BY DEF IInv, TypeOK
<1>2. CASE Begin(z) \/ LogAction(z) \/ Fail(z)
  BY <1>1, <1>2 DEF Begin, LogAction, Fail, Answer
<1>3. CASE GetOld(z) \/ UpsertCheck(z) \/ GetExisting(z) \/ GetForSwitch(z) \/ ActivateCheck(z) \/ GetNew(z)
  BY <1>1, <1>3 DEF GetOld, UpsertCheck, GetExisting, GetForSwitch, ActivateCheck, GetNew, Answer, Goto
<1>4. CASE UpdateRow(z) \/ InsertRow(z) \/ DeleteRow(z) \/ SetActive(z)
  BY <1>1, <1>4 DEF UpdateRow, InsertRow, DeleteRow, SetActive, Answer, Goto
<1>5. QED
  BY <1>2, <1>3, <1>4 DEF Acts, Statement

\* The clock goes on with every row that is written, and only then.
LEMMA RowsAfter ==
    ASSUME IInv, NEW z \in Sessions, Acts(z)
    PROVE  /\ clock' \in {clock, clock + 1}
           /\ \A i \in DOMAIN table' :
                \/ i \in DOMAIN table /\ table'[i] = table[i]
                \/ Wrote(z, i) /\ table'[i].updatedAt = clock + 1 /\ clock' = clock + 1
<1>1. req \in [Sessions -> RequestType] /\ table \in [DOMAIN table -> Row]
  BY DEF IInv, TypeOK
<1>2. CASE Begin(z) \/ LogAction(z) \/ Fail(z) \/ GetOld(z) \/ UpsertCheck(z) \/ GetExisting(z)
           \/ GetForSwitch(z) \/ ActivateCheck(z) \/ GetNew(z)
  BY <1>2 DEF Begin, LogAction, Fail, GetOld, UpsertCheck, GetExisting, GetForSwitch, ActivateCheck,
     GetNew, NoWrite
<1>3. CASE UpdateRow(z)
  <2>1. CASE UNCHANGED <<table, clock>>
    BY <2>1
  <2>2. CASE /\ Found(z) /\ clock' = clock + 1
             /\ table' = [table EXCEPT ![req[z].id] = Updated(req[z].id, req[z].body)]
    <3>1. Updated(req[z].id, req[z].body).updatedAt = clock + 1
      BY DEF Updated
    <3>2. QED
      BY <1>3, <2>2, <3>1 DEF Wrote, Found
  <2>3. QED
    BY <1>3, <2>1, <2>2 DEF UpdateRow
<1>4. CASE InsertRow(z)
  <2>1. Inserted(req[z].body).updatedAt = clock + 1
    BY DEF Inserted
  <2>2. CASE UNCHANGED <<table, clock>>
    BY <2>2
  <2>3. CASE /\ clock' = clock + 1
             /\ table' = [i \in DOMAIN table \cup {nextId} |->
                            IF i = nextId THEN Inserted(req[z].body) ELSE table[i]]
    BY <1>4, <2>1, <2>3 DEF Wrote
  <2>4. QED
    BY <1>4, <2>2, <2>3 DEF InsertRow
<1>5. CASE DeleteRow(z)
  BY <1>5 DEF DeleteRow
<1>6. CASE SetActive(z)
  <2> DEFINE id == req[z].id
             row == [table[id] EXCEPT !.active = (req[z].op = "activate"), !.updatedAt = clock + 1]
  <2>1. CASE UNCHANGED <<table, clock>>
    BY <2>1
  <2>2. CASE Found(z) /\ clock' = clock + 1 /\ table' = [table EXCEPT ![id] = row]
    <3>1. row.updatedAt = clock + 1
      BY <1>1, <2>2 DEF Found, Row
    <3>2. QED
      BY <1>6, <2>2, <3>1 DEF Wrote, Found
  <2>3. QED
    BY <1>6, <2>1, <2>2 DEF SetActive
<1>7. QED
  BY <1>2, <1>3, <1>4, <1>5, <1>6 DEF Acts, Statement

-----------------------------------------------------------------------------
(* Versions.                                                               *)

\* What the session s has compared its version with is still there, or has been
\* overwritten since.
Compared(s) ==
    /\ req[s].compared \in 0..clock
    /\ req[s].op = "UPDATE" => req[s].id > 0
    /\ req[s].op = "UPDATE" /\ req[s].pc = "write" /\ req[s].token # ZeroTime
       /\ req[s].id \in DOMAIN table =>
        \/ table[req[s].id].updatedAt = req[s].token
        \/ table[req[s].id].updatedAt > req[s].compared

LEMMA RequestIsCompared ==
    ASSUME TypeOK, NEW r \in Requests
    PROVE  r.compared = 0 /\ r.pc # "write" /\ (r.op = "UPDATE" => r.id > 0)
<1>1. CASE r \in SwitchRequests
  <2>1. PICK op \in {"DELETE", "activate", "deactivate"}, i \in KnownIds :
            r = Request(op, "old", i, ZeroTime, NoFlag)
    BY <1>1 DEF SwitchRequests
  <2>2. r.op = op /\ r.pc = "old" /\ r.compared = 0
    BY <2>1 DEF Request, Idle
  <2>3. QED
    BY <2>2
<1>2. ASSUME NEW i, NEW t, NEW b, r = Request("CREATE", "check", i, t, b)
      PROVE  r.op = "CREATE" /\ r.pc = "check" /\ r.compared = 0
  BY <1>2 DEF Request, Idle
<1>3. ASSUME NEW i \in 1..nextId, NEW t, NEW b, r = Request("UPDATE", "old", i, t, b)
      PROVE  r.id > 0 /\ r.pc = "old" /\ r.compared = 0
  BY <1>3 DEF Request, Idle, TypeOK
<1>4. DOMAIN table \subseteq 1..nextId /\ KnownIds = 1..nextId
  BY DEF TypeOK, KnownIds
<1>5. CASE r \in ConsoleRequests
  BY <1>2, <1>3, <1>4, <1>5 DEF ConsoleRequests
<1>6. CASE r \in OtherRequests
  BY <1>2, <1>3, <1>4, <1>6 DEF OtherRequests
<1>7. QED
  BY <1>1, <1>5, <1>6 DEF Requests

\* A session that acts comes to its write with a version that it has just
\* compared, or is not about to update.
LEMMA ActorCompares ==
    ASSUME IInv, NEW z \in Sessions, Compared(z), Acts(z)
    PROVE  /\ req'[z].compared \in 0..clock
           /\ req'[z].op = "UPDATE" => req'[z].id > 0
           /\ req'[z].op = "UPDATE" /\ req'[z].pc = "write" =>
                /\ UNCHANGED table
                /\ req'[z].token \in {ZeroTime, table[req'[z].id].updatedAt}
<1>1. /\ req \in [Sessions -> RequestType] /\ req[z] \in RequestType /\ clock \in Nat
      /\ Knows(req[z], DOMAIN table, nextId)
  BY DEF IInv, TypeOK
<1>a. ASSUME NEW answer, Answer(z, answer)
      PROVE  req'[z].compared = 0 /\ req'[z].op = "none"
  BY <1>1, <1>a DEF Answer, Idle
<1>b. ASSUME \E answer : Answer(z, answer)
      PROVE  /\ req'[z].compared \in 0..clock
             /\ req'[z].op # "UPDATE"
  BY <1>1, <1>a, <1>b
<1>c. ASSUME req'[z].op = req[z].op, req'[z].id = req[z].id, req'[z].compared = req[z].compared,
             req'[z].pc = "write" => req[z].op # "UPDATE"
      PROVE  /\ req'[z].compared \in 0..clock
             /\ req'[z].op = "UPDATE" => req'[z].id > 0
             /\ req'[z].op = "UPDATE" => req'[z].pc # "write"
  BY <1>c DEF Compared
<1>2. CASE Begin(z)
  <2>1. PICK r \in Requests : req' = [req EXCEPT ![z] = r]
    BY <1>2 DEF Begin
  <2>2. req'[z] = r
    BY <1>1, <2>1
  <2>3. r.compared = 0 /\ r.pc # "write" /\ (r.op = "UPDATE" => r.id > 0)
    BY RequestIsCompared DEF IInv
  <2>4. QED
    BY <1>1, <2>2, <2>3
<1>3. CASE GetOld(z)
  <2>1. \/ \E answer : Answer(z, answer)
        \/ /\ req'[z].op = req[z].op /\ req'[z].id = req[z].id /\ req'[z].compared = req[z].compared
           /\ req'[z].pc = "write" => req[z].op # "UPDATE"
    BY <1>1, <1>3 DEF GetOld, RequestType
  <2>2. QED
    BY <1>b, <1>c, <2>1
<1>4. CASE UpsertCheck(z)
  <2>1. \/ \E answer : Answer(z, answer)
        \/ /\ req'[z].op = req[z].op /\ req'[z].id = req[z].id /\ req'[z].compared = req[z].compared
           /\ req'[z].pc = "write" => ~(req[z].id > 0)
    BY <1>1, <1>4 DEF UpsertCheck, Goto, RequestType
  <2>2. QED
    BY <1>b, <1>c, <2>1 DEF Compared
<1>5. CASE GetExisting(z)
  <2>1. CASE \E answer : Answer(z, answer)
    BY <1>b, <2>1
  <2>2. CASE /\ req' = [req EXCEPT ![z].pc = "write", ![z].compared = clock]
             /\ req[z].token \in {ZeroTime, table[req[z].id].updatedAt}
    <3>1. /\ req'[z].op = req[z].op /\ req'[z].id = req[z].id /\ req'[z].token = req[z].token
          /\ req'[z].compared = clock
      BY <1>1, <2>2 DEF RequestType
    <3>2. UNCHANGED table
      BY <1>5 DEF GetExisting, NoWrite
    <3>3. QED
      BY <1>1, <2>2, <3>1, <3>2 DEF Compared
  <2>3. QED
    BY <1>5, <2>1, <2>2 DEF GetExisting
<1>6. CASE GetForSwitch(z) \/ ActivateCheck(z)
  <2>1. req[z].op \in {"activate", "deactivate"}
    BY <1>1, <1>6 DEF GetForSwitch, ActivateCheck, At, Knows
  <2>2. \/ \E answer : Answer(z, answer)
        \/ req'[z].op = req[z].op /\ req'[z].id = req[z].id /\ req'[z].compared = req[z].compared
    <3>1. CASE GetForSwitch(z)
      BY <1>1, <3>1 DEF GetForSwitch, RequestType
    <3>2. CASE ActivateCheck(z)
      BY <1>1, <3>2 DEF ActivateCheck, Goto, RequestType
    <3>3. QED
      BY <1>6, <3>1, <3>2
  <2>3. QED
    BY <1>b, <1>c, <2>1, <2>2
<1>7. CASE GetNew(z) \/ UpdateRow(z) \/ InsertRow(z) \/ DeleteRow(z) \/ SetActive(z)
  <2>1. \/ \E answer : Answer(z, answer)
        \/ /\ req'[z].op = req[z].op /\ req'[z].id = req[z].id /\ req'[z].compared = req[z].compared
           /\ req'[z].pc \in {"log", "new"}
    <3>1. CASE GetNew(z)
      BY <1>1, <3>1 DEF GetNew, RequestType
    <3>2. CASE UpdateRow(z)
      BY <1>1, <3>2 DEF UpdateRow, RequestType
    <3>3. CASE InsertRow(z)
      BY <1>1, <3>3 DEF InsertRow, RequestType
    <3>4. CASE DeleteRow(z)
      BY <1>1, <3>4 DEF DeleteRow, RequestType
    <3>5. CASE SetActive(z)
      BY <1>1, <3>5 DEF SetActive, Goto, RequestType
    <3>6. QED
      BY <1>7, <3>1, <3>2, <3>3, <3>4, <3>5
  <2>2. QED
    BY <1>b, <1>c, <2>1
<1>8. CASE LogAction(z) \/ Fail(z)
  <2>1. \E answer : Answer(z, answer)
    BY <1>8 DEF LogAction, Fail
  <2>2. QED
    BY <1>b, <2>1
<1>9. QED
  BY <1>2, <1>3, <1>4, <1>5, <1>6, <1>7, <1>8 DEF Acts, Statement

LEMMA ComparedInvariance == Spec => [](IInv /\ \A s \in Sessions : Compared(s))
<1> DEFINE Inv == IInv /\ \A s \in Sessions : Compared(s)
<1>1. Init => Inv
  <2> SUFFICES ASSUME Init, NEW s \in Sessions PROVE Compared(s)
    BY InitIInv
  <2>1. req[s].compared = 0 /\ req[s].op = "none" /\ clock = 0
    BY DEF Init, Idle
  <2>2. QED
    BY <2>1 DEF Compared
<1>2. Inv /\ [Next]_vars => Inv'
  <2> SUFFICES ASSUME Inv, [Next]_vars PROVE \A s \in Sessions : Compared(s)'
    BY NextKeepsIInv
  <2>1. clock \in Nat
    BY DEF IInv, TypeOK
  <2>2. CASE UNCHANGED vars
    BY <2>2 DEF vars, Compared
  <2>3. ASSUME NEW z \in Sessions, Acts(z), NEW s \in Sessions PROVE Compared(s)'
    <3>1. CASE s = z
      <4>1. Compared(z) /\ clock' \in {clock, clock + 1}
        BY <2>3, RowsAfter
      <4>2. /\ req'[z].compared \in 0..clock
            /\ req'[z].op = "UPDATE" => req'[z].id > 0
            /\ req'[z].op = "UPDATE" /\ req'[z].pc = "write" =>
                 /\ UNCHANGED table
                 /\ req'[z].token \in {ZeroTime, table[req'[z].id].updatedAt}
        BY <2>3, ActorCompares
      <4>3. req'[z].compared \in 0..clock'
        BY <2>1, <4>1, <4>2
      <4>4. QED
        BY <3>1, <4>2, <4>3 DEF Compared
    <3>2. CASE s # z
      <4>1. req'[s] = req[s] /\ Compared(s)
        BY <2>3, <3>2, OneActs
      <4>2. /\ clock' \in {clock, clock + 1}
            /\ \A i \in DOMAIN table' :
                 \/ i \in DOMAIN table /\ table'[i] = table[i]
                 \/ table'[i].updatedAt = clock + 1
        BY <2>3, RowsAfter
      <4>3. req[s].compared \in 0..clock /\ req[s].compared \in 0..clock' /\ clock + 1 > req[s].compared
        BY <2>1, <4>1, <4>2 DEF Compared
      <4>4. QED
        BY <4>1, <4>2, <4>3 DEF Compared
    <3>3. QED
      BY <3>1, <3>2
  <2>4. QED
    BY <2>2, <2>3 DEF Next, Quiet, Acts
<1>3. QED
  BY <1>1, <1>2, PTL DEF Spec

\* However many sessions race, and whatever fails, an update with a version
\* overwrites that version or an edit that was made after its comparison: an edit
\* is lost between two statements only (postgres_repository.go:280).
THEOREM LostBetweenStatements == Spec => VersionOrLater
<1>1. ASSUME IInv, \A s \in Sessions : Compared(s), Next, NEW s \in Sessions, OverwritesVersion(s)
      PROVE  \/ table[req[s].id].updatedAt = req[s].token
             \/ table[req[s].id].updatedAt > req[s].compared
  <2>1. /\ req[s].pc = "write" /\ req'[s].pc = "log" /\ req[s].op = "UPDATE"
        /\ req[s].token # ZeroTime
    BY <1>1 DEF OverwritesVersion, At
  <2>a. req \in [Sessions -> RequestType]
    BY <1>1 DEF IInv, TypeOK
  <2>2. Acts(s)
    <3>1. req # req'
      BY <2>1
    <3>2. PICK z \in Sessions : Acts(z)
      BY <1>1, <3>1 DEF Next, Quiet, Acts, vars
    <3>3. s = z
      BY <1>1, <2>1, <3>2, OneActs
    <3>4. QED
      BY <3>2, <3>3
  <2>b. ASSUME NEW answer, Answer(s, answer) PROVE FALSE
    BY <2>1, <2>a, <2>b DEF Answer, Idle
  <2>3. UpdateRow(s)
    <3>1. ~Fail(s) /\ ~LogAction(s)
      BY <2>b DEF Fail, LogAction
    <3>2. QED
      BY <2>1, <2>2, <3>1 DEF Acts, Statement, Begin, GetOld, UpsertCheck, GetExisting, InsertRow,
         DeleteRow, GetForSwitch, ActivateCheck, SetActive, GetNew, At
  <2>4. Found(s)
    BY <2>b, <2>3 DEF UpdateRow
  <2>5. QED
    BY <1>1, <2>1, <2>4 DEF Compared, Found
<1>2. IInv /\ (\A s \in Sessions : Compared(s)) /\ [Next]_vars =>
        [\A s \in Sessions : OverwritesVersion(s) =>
            \/ table[req[s].id].updatedAt = req[s].token
            \/ table[req[s].id].updatedAt > req[s].compared]_vars
  BY <1>1
<1>3. QED
  BY <1>2, ComparedInvariance, PTL DEF Spec, VersionOrLater
-----------------------------------------------------------------------------
(* The audit trail: writes without a record.                               *)

\* The row i is there, or its deletion is in the trail, on its way there, or lost.
HasFate(i) == i \in DOMAIN table \/ DeletionLogged(i)

\* A write that has no record yet is on its way to the trail, and the row of a
\* switch is still there or its deletion is accounted for.
Owed(s) ==
    /\ req[s].effect # NoEffect =>
        /\ req[s].pc \in {"new", "log"}
        /\ req[s].op \in {"activate", "deactivate"} =>
            req[s].effect.id = req[s].id /\ HasFate(req[s].id)
    /\ Deleted(req[s]) => req[s].effect = Write(req[s].id, 0)

\* A row that is there, or whose deletion is in the trail, is so after any step.
LEMMA FateIsKept ==
    ASSUME IInv, NEW z \in Sessions, Acts(z), Owed(z), NEW i, HasFate(i)
    PROVE  i \in DOMAIN table' \/ DeletionLogged(i)'
<1>1. /\ req \in [Sessions -> RequestType] /\ req[z] \in RequestType /\ log \in Seq(Record)
      /\ DOMAIN table \subseteq 1..(nextId - 1) /\ nextId \in Nat /\ \A s \in Sessions : s # z => req'[s] = req[s]
      /\ i \in DOMAIN table \/ DeletionLogged(i)
  BY OneActs DEF IInv, TypeOK, HasFate
<1>l. lost \subseteq lost'
  BY DEF Acts, Statement, Begin, GetOld, UpsertCheck, GetExisting, UpdateRow, InsertRow, DeleteRow,
     GetForSwitch, ActivateCheck, SetActive, GetNew, LogAction, Fail, NoWrite
<1>2. CASE DeleteRow(z)
  <2>1. CASE i \in DOMAIN table
    <3>1. CASE i = req[z].id
      <4>1. req' = [req EXCEPT ![z].pc = "log",
                ![z].effect = Write(req[z].id, 0)]
        BY <1>2, <2>1, <3>1 DEF DeleteRow, Found
      <4>2. req'[z].pc = "log" /\ req'[z].op = "DELETE" /\ req'[z].id = i
        BY <1>1, <1>2, <3>1, <4>1 DEF DeleteRow, RequestType
      <4>3. QED
        BY <4>2 DEF DeletionLogged
    <3>2. CASE i # req[z].id
      BY <1>2, <2>1, <3>2 DEF DeleteRow
    <3>3. QED
      BY <3>1, <3>2
  <2>2. CASE DeletionLogged(i)
    <3>1. Write(i, 0) \in lost => DeletionLogged(i)'
      BY <1>l DEF DeletionLogged, Write
    <3>2. UNCHANGED log /\ req[z].pc # "log"
      BY <1>2 DEF DeleteRow, At
    <3>3. (\E k \in DOMAIN log : log[k].action = "DELETE" /\ log[k].flagId = i) => DeletionLogged(i)'
      BY <3>2 DEF DeletionLogged
    <3>4. ASSUME NEW s \in Sessions, req[s].pc = "log" /\ req[s].op = "DELETE" /\ req[s].id = i
          PROVE  DeletionLogged(i)'
      <4>1. req'[s] = req[s]
        BY <1>1, <3>2, <3>4
      <4>2. QED
        BY <3>4, <4>1 DEF DeletionLogged
    <3>5. QED
      BY <2>2, <3>1, <3>3, <3>4 DEF DeletionLogged
  <2>3. QED
    BY <1>1, <2>1, <2>2
<1>3. CASE LogAction(z)
  <2>1. CASE i \in DOMAIN table
    BY <1>3, <2>1 DEF LogAction
  <2>2. ASSUME NEW k \in DOMAIN log, log[k].action = "DELETE", log[k].flagId = i
        PROVE  DeletionLogged(i)'
    BY <1>1, <1>3, <2>2 DEF LogAction, DeletionLogged
  <2>3. ASSUME NEW s \in Sessions, req[s].pc = "log", req[s].op = "DELETE", req[s].id = i
        PROVE  DeletionLogged(i)'
    <3>1. CASE s = z
      <4>1. Len(log') = Len(log) + 1 /\ log'[Len(log) + 1] = Entry(req[z])
        BY <1>1, <1>3 DEF LogAction
      <4>2. Entry(req[z]).action = "DELETE" /\ Entry(req[z]).flagId = i
        BY <2>3, <3>1 DEF Entry
      <4>3. Len(log) + 1 \in DOMAIN log'
        BY <1>1, <1>3 DEF LogAction
      <4>4. QED
        BY <4>1, <4>2, <4>3 DEF DeletionLogged
    <3>2. CASE s # z
      BY <1>1, <2>3, <3>2 DEF DeletionLogged
    <3>3. QED
      BY <3>1, <3>2
  <2>4. Write(i, 0) \in lost => DeletionLogged(i)'
    BY <1>l DEF DeletionLogged, Write
  <2>5. QED
    BY <1>1, <2>1, <2>2, <2>3, <2>4 DEF DeletionLogged
<1>4. ASSUME DOMAIN table \subseteq DOMAIN table', UNCHANGED log,
             req[z].pc = "log" /\ req[z].op = "DELETE" => FALSE
      PROVE  i \in DOMAIN table' \/ DeletionLogged(i)'
  <2>1. Write(i, 0) \in lost => DeletionLogged(i)'
    BY <1>l DEF DeletionLogged, Write
  <2>2. QED
    BY <1>1, <1>4, <2>1 DEF DeletionLogged
<1>5. CASE Begin(z) \/ GetOld(z) \/ UpsertCheck(z) \/ GetExisting(z)
           \/ GetForSwitch(z) \/ ActivateCheck(z) \/ GetNew(z)
  <2>1. UNCHANGED <<table, log>> /\ req[z].pc # "log"
    BY <1>5 DEF Begin, GetOld, UpsertCheck, GetExisting, GetForSwitch, ActivateCheck, GetNew, NoWrite, At
  <2>2. QED
    BY <1>4, <2>1
<1>6. CASE UpdateRow(z) \/ InsertRow(z) \/ SetActive(z)
  <2>1. UNCHANGED log /\ req[z].pc # "log"
    BY <1>6 DEF UpdateRow, InsertRow, SetActive, At
  <2>2. DOMAIN table \subseteq DOMAIN table'
    BY <1>1, <1>6 DEF UpdateRow, InsertRow, SetActive, IInv, TypeOK
  <2>3. QED
    BY <1>4, <2>1, <2>2
<1>7. CASE Fail(z)
  <2>1. CASE Deleted(req[z]) /\ req[z].id = i
    <3>1. req[z].effect = Write(i, 0) /\ req[z].effect # NoEffect
      BY <2>1, Now DEF Owed, Deleted, Knows
    <3>2. Write(i, 0) \in lost'
      BY <1>7, <3>1 DEF Fail
    <3>3. QED
      BY <3>2 DEF DeletionLogged, Write
  <2>2. CASE ~(Deleted(req[z]) /\ req[z].id = i)
    <3>1. Write(i, 0) \in lost => DeletionLogged(i)'
      BY <1>l DEF DeletionLogged, Write
    <3>2. UNCHANGED <<table, log>>
      BY <1>7 DEF Fail
    <3>3. QED
      BY <1>1, <2>2, <3>1, <3>2 DEF DeletionLogged, Deleted
  <2>3. QED
    BY <2>1, <2>2
<1>8. QED
  BY <1>2, <1>3, <1>5, <1>6, <1>7 DEF Acts, Statement

\* What a session that acts has committed is on its way to the trail.
LEMMA ActorOwes ==
    ASSUME IInv, NEW z \in Sessions, Acts(z), Owed(z)
    PROVE  /\ req'[z].effect # NoEffect =>
              /\ req'[z].pc \in {"new", "log"}
              /\ req'[z].op \in {"activate", "deactivate"} =>
                    req'[z].effect.id = req'[z].id /\ HasFate(req'[z].id)
           /\ Deleted(req'[z]) => req'[z].effect = Write(req'[z].id, 0)
<1> DEFINE Goal == /\ req'[z].effect # NoEffect =>
                      /\ req'[z].pc \in {"new", "log"}
                      /\ req'[z].op \in {"activate", "deactivate"} =>
                            req'[z].effect.id = req'[z].id /\ HasFate(req'[z].id)
                   /\ Deleted(req'[z]) => req'[z].effect = Write(req'[z].id, 0)
<1>1. req \in [Sessions -> RequestType] /\ req[z] \in RequestType /\ Knows(req[z], DOMAIN table, nextId)
  BY DEF IInv, TypeOK
<1>a. ASSUME \E answer : Answer(z, answer) PROVE Goal
  BY <1>1, <1>a DEF Answer, Idle, Deleted
<1>b. ASSUME req'[z].effect = NoEffect, req'[z].pc # "log" PROVE Goal
  BY <1>b DEF Deleted
<1>2. CASE Begin(z)
  <2>1. PICK r \in Requests : req' = [req EXCEPT ![z] = r]
    BY <1>2 DEF Begin
  <2>2. r.effect = NoEffect /\ r.pc \in {"check", "old"}
    BY RequestHasType DEF IInv
  <2>3. QED
    BY <1>1, <1>b, <2>1, <2>2
<1>3. CASE GetOld(z) \/ UpsertCheck(z) \/ GetExisting(z) \/ GetForSwitch(z) \/ ActivateCheck(z)
  <2>1. req[z].effect = NoEffect
    BY <1>3 DEF Owed, GetOld, UpsertCheck, GetExisting, GetForSwitch, ActivateCheck, At
  <2>2. \/ \E answer : Answer(z, answer)
        \/ req'[z].effect = req[z].effect /\ req'[z].pc # "log"
    <3>1. CASE GetOld(z)
      BY <1>1, <3>1 DEF GetOld, RequestType
    <3>2. CASE UpsertCheck(z)
      BY <1>1, <3>2 DEF UpsertCheck, Goto, RequestType
    <3>3. CASE GetExisting(z)
      BY <1>1, <3>3 DEF GetExisting, RequestType
    <3>4. CASE GetForSwitch(z)
      BY <1>1, <3>4 DEF GetForSwitch, RequestType
    <3>5. CASE ActivateCheck(z)
      BY <1>1, <3>5 DEF ActivateCheck, Goto, RequestType
    <3>6. QED
      BY <1>3, <3>1, <3>2, <3>3, <3>4, <3>5
  <2>3. QED
    BY <1>a, <1>b, <2>1, <2>2
<1>4. CASE UpdateRow(z) \/ InsertRow(z) \/ DeleteRow(z)
  <2>1. \/ \E answer : Answer(z, answer)
        \/ /\ req'[z].op = req[z].op /\ req'[z].pc = "log" /\ req[z].op \in {"CREATE", "UPDATE"}
        \/ /\ req'[z].op = "DELETE" /\ req'[z].pc = "log" /\ req'[z].effect = Write(req'[z].id, 0)
    <3>1. CASE UpdateRow(z)
      BY <1>1, <3>1 DEF UpdateRow, RequestType
    <3>2. CASE InsertRow(z)
      BY <1>1, <3>2 DEF InsertRow, RequestType
    <3>3. CASE DeleteRow(z)
      BY <1>1, <3>3 DEF DeleteRow, RequestType
    <3>4. QED
      BY <1>4, <3>1, <3>2, <3>3
  <2>2. QED
    BY <1>a, <2>1 DEF Deleted
<1>5. CASE SetActive(z)
  <2>1. req'[z].pc = "new" /\ req'[z].id = req[z].id /\ req[z].pc = "write"
    BY <1>1, <1>5 DEF SetActive, Goto, RequestType, At
  <2>2. CASE Found(z)
    <3>1. req'[z].effect = Write(req[z].id, clock + 1)
      BY <1>1, <1>5, <2>2 DEF SetActive, RequestType
    <3>2. req'[z].effect.id = req[z].id
      BY <3>1 DEF Write
    <3>3. QED
      BY <2>1, <2>2, <3>2 DEF Deleted, Found, HasFate
  <2>3. CASE ~Found(z)
    <3>1. req'[z].effect = req[z].effect
      BY <1>1, <1>5, <2>3 DEF SetActive, Goto, RequestType
    <3>2. QED
      BY <1>b, <2>1, <3>1 DEF Owed
  <2>4. QED
    BY <2>2, <2>3
<1>6. CASE GetNew(z)
  <2>1. req[z].op \in {"activate", "deactivate"}
    BY <1>1, <1>6 DEF GetNew, At, Knows
  <2>2. CASE Found(z)
    <3>1. /\ req'[z].pc = "log" /\ req'[z].id = req[z].id /\ req'[z].op = req[z].op
          /\ req'[z].effect = req[z].effect
      BY <1>1, <1>6, <2>2 DEF GetNew, RequestType
    <3>2. QED
      BY <2>1, <2>2, <3>1 DEF Owed, Found, Deleted, HasFate
  <2>3. CASE ~Found(z)
    BY <1>a, <1>6, <2>3 DEF GetNew
  <2>4. QED
    BY <2>2, <2>3
<1>7. CASE LogAction(z) \/ Fail(z)
  BY <1>a, <1>7 DEF LogAction, Fail
<1>8. QED
  BY <1>2, <1>3, <1>4, <1>5, <1>6, <1>7 DEF Acts, Statement

LEMMA OwedInvariance == Spec => [](IInv /\ \A s \in Sessions : Owed(s))
<1> DEFINE Inv == IInv /\ \A s \in Sessions : Owed(s)
<1>1. Init => Inv
  BY InitIInv DEF Init, Idle, Owed, Deleted
<1>2. Inv /\ [Next]_vars => Inv'
  <2> SUFFICES ASSUME Inv, [Next]_vars PROVE \A s \in Sessions : Owed(s)'
    BY NextKeepsIInv
  <2>1. CASE UNCHANGED vars
    BY <2>1 DEF vars, Owed, HasFate, DeletionLogged, Deleted
  <2>2. ASSUME NEW z \in Sessions, Acts(z), NEW s \in Sessions PROVE Owed(s)'
    <3>1. SUFFICES /\ req'[s].effect # NoEffect =>
                      /\ req'[s].pc \in {"new", "log"}
                      /\ req'[s].op \in {"activate", "deactivate"} =>
                            req'[s].effect.id = req'[s].id /\ HasFate(req'[s].id)
                   /\ Deleted(req'[s]) => req'[s].effect = Write(req'[s].id, 0)
      <4>1. PICK i : i = req'[s].id
        OBVIOUS
      <4>2. HasFate(i) => HasFate(i)'
        BY <2>2, FateIsKept DEF HasFate
      <4>3. HasFate(req[s].id)' <=> HasFate(i)'
        BY <4>1 DEF HasFate, DeletionLogged
      <4>4. QED
        BY <3>1, <4>1, <4>2, <4>3 DEF Owed, Deleted, Write, NoEffect
    <3>2. CASE s = z
      BY <2>2, <3>2, ActorOwes
    <3>3. CASE s # z
      <4>1. req'[s] = req[s]
        BY <2>2, <3>3, OneActs
      <4>2. QED
        BY <4>1 DEF Owed
    <3>4. QED
      BY <3>2, <3>3
  <2>3. QED
    BY <2>1, <2>2 DEF Next, Quiet, Acts
<1>3. QED
  BY <1>1, <1>2, PTL DEF Spec

\* However requests race and fail, a write without a record is that of a request
\* whose own statement failed, or its row has been deleted since, which the trail
\* says (service.go:204).
THEOREM OnlyDeletedUnlogged == Spec => UnloggedIsDeleted
<1>1. ASSUME IInv, \A s \in Sessions : Owed(s), Next, NEW s \in Sessions, req[s].effect # NoEffect,
             req'[s].pc = "idle", Len(log') = Len(log), ~Fail(s)
      PROVE  req[s].effect.id \notin DOMAIN table /\ DeletionLogged(req[s].effect.id)
  <2>1. /\ req \in [Sessions -> RequestType] /\ req[s] \in RequestType /\ log \in Seq(Record)
        /\ req[s].pc \in {"new", "log"}
    BY <1>1 DEF IInv, TypeOK, Owed
  <2>2. Acts(s)
    <3>1. req # req'
      BY <1>1, <2>1
    <3>2. PICK z \in Sessions : Acts(z)
      BY <1>1, <3>1 DEF Next, Quiet, Acts, vars
    <3>3. s = z
      BY <1>1, <2>1, <3>2, OneActs
    <3>4. QED
      BY <3>2, <3>3
  <2>3. ~LogAction(s)
    BY <1>1, <2>1 DEF LogAction
  <2>4. GetNew(s)
    BY <1>1, <2>1, <2>2, <2>3 DEF Acts, Statement, Begin, GetOld, UpsertCheck, GetExisting, UpdateRow,
       InsertRow, DeleteRow, GetForSwitch, ActivateCheck, SetActive, At
  <2>5. ~Found(s) /\ req[s].pc = "new"
    BY <1>1, <2>1, <2>4 DEF GetNew, At, RequestType
  <2>6. req[s].op \in {"activate", "deactivate"}
    BY <1>1, <2>5 DEF IInv, Knows
  <2>7. req[s].effect.id = req[s].id /\ HasFate(req[s].id)
    BY <1>1, <2>6 DEF Owed
  <2>8. QED
    BY <2>5, <2>7 DEF HasFate, Found
<1>2. IInv /\ (\A s \in Sessions : Owed(s)) /\ [Next]_vars =>
        [\A s \in Sessions :
            req[s].effect # NoEffect /\ req'[s].pc = "idle" /\ Len(log') = Len(log) =>
                \/ Fail(s)
                \/ req[s].effect.id \notin DOMAIN table /\ DeletionLogged(req[s].effect.id)]_vars
  BY <1>1
<1>3. QED
  BY <1>2, OwedInvariance, PTL DEF Spec, UnloggedIsDeleted
-----------------------------------------------------------------------------
(* The audit trail against the table.                                      *)

\* The console creates without an id, and updates with the name of the row.
Named(s) ==
    /\ req[s].op = "CREATE" => req[s].id = 0
    /\ req[s].op = "UPDATE" =>
        /\ req[s].id < nextId
        /\ req[s].id \in DOMAIN table => req[s].body.name = table[req[s].id].name

\* The last write of the row i is that of the session z, which is about to write
\* it to the trail, or to read it for that.
OnItsWay(z, i) ==
    /\ req[z].effect = Write(i, table[i].updatedAt)
    /\ \/ req[z].pc = "log" /\ Shows(Entry(req[z]), i)
       \/ req[z].pc = "new" /\ req[z].id = i

\* The row i is in the trail as it is, on its way there or lost.
InTrail(i) ==
    \/ \E k \in DOMAIN log : Shows(log[k], i)
    \/ Write(i, table[i].updatedAt) \in lost
    \/ \E z \in Sessions : OnItsWay(z, i)

Trail ==
    /\ \A s \in Sessions : Named(s)
    /\ \A i \in DOMAIN table : InTrail(i)

\* No statement changes what its request asks for.
LEMMA SameRequest ==
    ASSUME IInv, NEW z \in Sessions, Statement(z) \/ Fail(z)
    PROVE  \/ req'[z].op = "none"
           \/ req'[z].op = req[z].op /\ req'[z].id = req[z].id /\ req'[z].body = req[z].body
<1>1. req \in [Sessions -> RequestType] /\ req[z] \in RequestType
  BY DEF IInv, TypeOK
<1>2. ASSUME NEW answer, Answer(z, answer) PROVE req'[z].op = "none"
  BY <1>1, <1>2 DEF Answer, Idle
<1>3. CASE GetOld(z)
  BY <1>1, <1>2, <1>3 DEF GetOld, RequestType
<1>4. CASE UpsertCheck(z) \/ ActivateCheck(z)
  BY <1>1, <1>2, <1>4 DEF UpsertCheck, ActivateCheck, Goto, RequestType
<1>5. CASE GetExisting(z) \/ GetForSwitch(z) \/ GetNew(z)
  <2>1. CASE GetExisting(z)
    BY <1>1, <1>2, <2>1 DEF GetExisting, RequestType
  <2>2. CASE GetForSwitch(z)
    BY <1>1, <1>2, <2>2 DEF GetForSwitch, RequestType
  <2>3. CASE GetNew(z)
    BY <1>1, <1>2, <2>3 DEF GetNew, RequestType
  <2>4. QED
    BY <1>5, <2>1, <2>2, <2>3
<1>6. CASE UpdateRow(z) \/ InsertRow(z) \/ DeleteRow(z) \/ SetActive(z)
  <2>1. CASE UpdateRow(z)
    BY <1>1, <1>2, <2>1 DEF UpdateRow, RequestType
  <2>2. CASE InsertRow(z)
    BY <1>1, <1>2, <2>2 DEF InsertRow, RequestType
  <2>3. CASE DeleteRow(z)
    BY <1>1, <1>2, <2>3 DEF DeleteRow, RequestType
  <2>4. CASE SetActive(z)
    BY <1>1, <2>4 DEF SetActive, Goto, RequestType
  <2>5. QED
    BY <1>6, <2>1, <2>2, <2>3, <2>4
<1>7. CASE LogAction(z) \/ Fail(z)
  BY <1>2, <1>7 DEF LogAction, Fail
<1>8. QED
  BY <1>3, <1>4, <1>5, <1>6, <1>7 DEF Statement

\* A row keeps its name, and a new one takes the next id.
LEMMA NamesStay ==
    ASSUME IInv, NEW z \in Sessions, Acts(z)
    PROVE  /\ nextId' \in {nextId, nextId + 1}
           /\ \A i \in DOMAIN table' :
                i = nextId \/ (i \in DOMAIN table /\ table'[i].name = table[i].name)
<1>1. table \in [DOMAIN table -> Row]
  BY DEF IInv, TypeOK
<1>2. nextId' \in {nextId, nextId + 1}
  BY DEF Acts, Statement, Begin, GetOld, UpsertCheck, GetExisting, UpdateRow, InsertRow, DeleteRow,
     GetForSwitch, ActivateCheck, SetActive, GetNew, LogAction, Fail, NoWrite
<1>3. ASSUME NEW i \in DOMAIN table', Wrote(z, i)
      PROVE  i = nextId \/ (i \in DOMAIN table /\ table'[i].name = table[i].name)
  <2>1. i \in DOMAIN table => /\ Updated(i, req[z].body).name = table[i].name
                              /\ table[i] \in Row
    BY <1>1 DEF Updated
  <2>2. QED
    BY <1>3, <2>1 DEF Wrote, Row
<1>4. QED
  BY <1>2, <1>3, RowsAfter

LEMMA RequestIsNamed ==
    ASSUME IInv, ConsoleOnly, NEW z \in Sessions, Begin(z)
    PROVE  Named(z)'
<1>1. PICK r \in Requests : req' = [req EXCEPT ![z] = r] /\ UNCHANGED <<table, nextId>>
  BY DEF Begin
<1>2. req \in [Sessions -> RequestType] /\ nextId \in Nat /\ DOMAIN table \subseteq 1..(nextId - 1)
  BY DEF IInv, TypeOK
<1>3. req'[z] = r
  BY <1>1, <1>2
<1>4. CASE r \in SwitchRequests
  <2>1. PICK op \in {"DELETE", "activate", "deactivate"}, i \in KnownIds :
            r = Request(op, "old", i, ZeroTime, NoFlag)
    BY <1>4 DEF SwitchRequests
  <2>2. r.op = op
    BY <2>1 DEF Request, Idle
  <2>3. QED
    BY <1>3, <2>2 DEF Named
<1>5. CASE r \in ConsoleRequests /\ (r.op = "UPDATE" => r.body.name = table[r.id].name)
  <2>1. ASSUME NEW b, r = Request("CREATE", "check", 0, ZeroTime, b)
        PROVE  r.op = "CREATE" /\ r.id = 0
    BY <2>1 DEF Request, Idle
  <2>2. ASSUME NEW i \in DOMAIN table, NEW t, NEW b, r = Request("UPDATE", "old", i, t, b)
        PROVE  r.op = "UPDATE" /\ r.id \in DOMAIN table
    BY <2>2 DEF Request, Idle
  <2>3. \/ r.op = "CREATE" /\ r.id = 0
        \/ r.op = "UPDATE" /\ r.id \in DOMAIN table
    BY <1>5, <2>1, <2>2 DEF ConsoleRequests
  <2>4. QED
    BY <1>1, <1>2, <1>3, <1>5, <2>3 DEF Named
<1>6. QED
  BY <1>4, <1>5 DEF Requests

LEMMA NamedIsKept ==
    ASSUME IInv, ConsoleOnly, NEW z \in Sessions, Acts(z), NEW s \in Sessions, Named(s)
    PROVE  Named(s)'
<1>1. nextId \in Nat /\ req[s].id \in Nat
  BY DEF IInv, TypeOK, RequestType
<1>2. CASE /\ req'[s].op = req[s].op /\ req'[s].id = req[s].id /\ req'[s].body = req[s].body
  BY <1>1, <1>2, NamesStay DEF Named
<1>3. CASE req'[s].op = "none"
  BY <1>3 DEF Named
<1>4. CASE s = z /\ Begin(z)
  BY <1>4, RequestIsNamed
<1>5. QED
  BY <1>2, <1>3, <1>4, OneActs, SameRequest DEF Acts

\* The row that a statement has written, and its session's record of it.
LEMMA WrittenIsInTrail ==
    ASSUME IInv, NEW z \in Sessions, Acts(z), Named(z), NEW i, Wrote(z, i),
           table'[i].updatedAt = clock + 1, clock' = clock + 1
    PROVE  InTrail(i)'
<1>1. /\ req \in [Sessions -> RequestType] /\ req[z] \in RequestType /\ nextId \in Nat /\ clock \in Nat
      /\ Knows(req[z], DOMAIN table, nextId) /\ table \in [DOMAIN table -> Row]
  BY DEF IInv, TypeOK
<1>2. req[z].op \in {"CREATE", "UPDATE"} => req[z].body \in Image /\ req[z].body # NoFlag
  BY <1>1, NoFlagAssumption DEF Knows, Upserts
<1>3. CASE UpdateRow(z) /\ i = req[z].id /\ i \in DOMAIN table /\ table'[i] = Updated(i, req[z].body)
  <2> DEFINE b == req[z].body
  <2>1. req[z].op = "UPDATE" /\ b.name = table[i].name
    BY <1>3 DEF UpdateRow, Named
  <2>2. /\ req'[z].pc = "log" /\ req'[z].op = "UPDATE" /\ req'[z].id = i /\ req'[z].body = b
        /\ req'[z].effect = Write(i, clock + 1)
    BY <1>1, <1>3, <2>1 DEF UpdateRow, RequestType
  <2>3. ImageOf(Updated(i, b)) = b
    BY <1>2, <2>1 DEF ImageOf, Updated, Image
  <2>4. Entry(req'[z]).new = b /\ Entry(req'[z]).flagId = i
    BY <2>2 DEF Entry
  <2>5. Shows(Entry(req[z]), i)'
    BY <1>2, <1>3, <2>1, <2>3, <2>4 DEF Shows, ImageOf, Entry
  <2>6. QED
    BY <2>2, <2>5 DEF InTrail, OnItsWay, Write
<1>4. CASE InsertRow(z) /\ i = nextId /\ table'[i] = Inserted(req[z].body)
  <2> DEFINE b == req[z].body
  <2>1. /\ req'[z].pc = "log" /\ req'[z].op = "CREATE" /\ req'[z].body = b
        /\ req'[z].effect = Write(i, clock + 1)
    BY <1>1, <1>4 DEF InsertRow, RequestType
  <2>2. Entry(req'[z]).new = b /\ Entry(req'[z]).action = "CREATE"
    BY <2>1 DEF Entry
  <2>3. b # NoFlag
    BY <1>2, <1>4 DEF InsertRow
  <2>4. /\ table'[i].name = b.name /\ table'[i].range = b.range /\ table'[i].content = b.content
    BY <1>4 DEF Inserted
  <2>5. Shows(Entry(req[z]), i)'
    BY <2>2, <2>3, <2>4 DEF Shows, Entry
  <2>6. QED
    BY <2>1, <2>5 DEF InTrail, OnItsWay, Write
<1>5. CASE SetActive(z) /\ i = req[z].id /\ i \in DOMAIN table
  <2>1. req'[z].pc = "new" /\ req'[z].id = i /\ req'[z].effect = Write(i, clock + 1)
    BY <1>1, <1>5 DEF SetActive, Found, RequestType
  <2>2. QED
    BY <2>1 DEF InTrail, OnItsWay, Write
<1>6. QED
  BY <1>3, <1>4, <1>5 DEF Wrote

\* The trail goes on showing a row that stays as it is.
LEMMA KeptIsInTrail ==
    ASSUME IInv, NEW z \in Sessions, Acts(z), NEW i \in DOMAIN table, InTrail(i),
           i \in DOMAIN table', table'[i] = table[i]
    PROVE  InTrail(i)'
<1>1. /\ req \in [Sessions -> RequestType] /\ req[z] \in RequestType /\ log \in Seq(Record)
      /\ Knows(req[z], DOMAIN table, nextId) /\ \A s \in Sessions : s # z => req'[s] = req[s]
  BY OneActs DEF IInv, TypeOK
<1>2. log' = log \/ log' = Append(log, Entry(req[z]))
  BY DEF Acts, Statement, Begin, GetOld, UpsertCheck, GetExisting, UpdateRow, InsertRow, DeleteRow,
     GetForSwitch, ActivateCheck, SetActive, GetNew, LogAction, Fail, NoWrite
<1>3. ASSUME NEW e, Shows(e, i)
      PROVE  /\ e.new # NoFlag
             /\ \/ e.flagId = i /\ e.new = ImageOf(table'[i])
                \/ /\ e.action = "CREATE"
                   /\ e.new.name = table'[i].name /\ e.new.range = table'[i].range
                   /\ e.new.content = table'[i].content
  BY <1>3 DEF Shows
<1>w. ASSUME Write(i, table[i].updatedAt) \in lost'
      PROVE  InTrail(i)'
  BY <1>w DEF InTrail, Write
<1>l. lost \subseteq lost'
  BY DEF Acts, Statement, Begin, GetOld, UpsertCheck, GetExisting, UpdateRow, InsertRow, DeleteRow,
     GetForSwitch, ActivateCheck, SetActive, GetNew, LogAction, Fail, NoWrite
<1>f. ASSUME Fail(z), req[z].effect = Write(i, table[i].updatedAt) PROVE InTrail(i)'
  <2>1. i \in Nat \ {0} /\ table[i].updatedAt \in Nat
    BY DEF IInv, TypeOK, Row
  <2>2. req[z].effect # NoEffect
    BY <1>f, <2>1, WriteIsEffect
  <2>3. QED
    BY <1>f, <1>w, <2>2 DEF Fail
<1>4. ASSUME NEW k \in DOMAIN log, Shows(log[k], i)
      PROVE  InTrail(i)'
  <2>1. k \in DOMAIN log' /\ log'[k] = log[k]
    BY <1>1, <1>2
  <2>2. Shows(log[k], i)'
    BY <1>3, <1>4, <2>1 DEF Shows, ImageOf
  <2>3. QED
    BY <2>1, <2>2 DEF InTrail
<1>5. ASSUME NEW s \in Sessions, req[s].pc = "log", Shows(Entry(req[s]), i),
             req[s].effect = Write(i, table[i].updatedAt)
      PROVE  InTrail(i)'
  <2>1. CASE s = z /\ ~Fail(z)
    <3>1. LogAction(z)
      BY <1>5, <2>1 DEF Acts, Statement, Begin, GetOld, UpsertCheck, GetExisting, UpdateRow, InsertRow,
         DeleteRow, GetForSwitch, ActivateCheck, SetActive, GetNew, At
    <3>2. Len(log) + 1 \in DOMAIN log' /\ log'[Len(log) + 1] = Entry(req[z])
      BY <1>1, <3>1 DEF LogAction
    <3>3. \E k \in DOMAIN log' : Shows(log[k], i)'
      BY <1>3, <1>5, <2>1, <3>2 DEF Shows, ImageOf
    <3>4. QED
      BY <3>3 DEF InTrail
  <2>2. CASE s # z
    <3>1. req'[s] = req[s]
      BY <1>1, <2>2
    <3>2. Shows(Entry(req[s]), i)'
      BY <1>3, <1>5, <3>1 DEF Shows, ImageOf, Entry
    <3>3. QED
      BY <1>5, <3>1, <3>2 DEF InTrail, OnItsWay, Write
  <2>3. QED
    BY <1>5, <1>f, <2>1, <2>2
<1>6. ASSUME NEW s \in Sessions, req[s].pc = "new", req[s].id = i,
             req[s].effect = Write(i, table[i].updatedAt)
      PROVE  InTrail(i)'
  <2>1. CASE s = z /\ ~Fail(z)
    <3>1. GetNew(z)
      BY <1>6, <2>1 DEF Acts, Statement, Begin, GetOld, UpsertCheck, GetExisting, UpdateRow, InsertRow,
         DeleteRow, GetForSwitch, ActivateCheck, SetActive, LogAction, At
    <3>2. req' = [req EXCEPT ![z].pc = "log", ![z].seen = ImageOf(table[i])]
      BY <1>6, <2>1, <3>1 DEF GetNew, Found
    <3>3. /\ req'[z].pc = "log" /\ req'[z].seen = ImageOf(table[i]) /\ req'[z].id = i
          /\ req'[z].op \in {"activate", "deactivate"} /\ req'[z].effect = req[z].effect
      BY <1>1, <1>6, <2>1, <3>2 DEF RequestType, Knows
    <3>4. Entry(req'[z]).new = ImageOf(table'[i]) /\ Entry(req'[z]).flagId = i
      BY <3>3 DEF Entry
    <3>5. ImageOf(table[i]) # NoFlag
      BY ImageType DEF IInv
    <3>6. Shows(Entry(req[z]), i)'
      BY <3>4, <3>5 DEF Shows, ImageOf, Entry
    <3>7. QED
      BY <1>6, <2>1, <3>3, <3>6 DEF InTrail, OnItsWay, Write
  <2>2. CASE s # z
    BY <1>1, <1>6, <2>2 DEF InTrail, OnItsWay, Write
  <2>3. QED
    BY <1>6, <1>f, <2>1, <2>2
<1>7. QED
  BY <1>w, <1>l, <1>4, <1>5, <1>6 DEF InTrail, OnItsWay

\* However many sessions race and whatever fails, the trail ends up showing each
\* row as it is, or a failing statement has cost the record of its last write: the
\* record that is written last of all may tell of an older change, but some record
\* tells of the row (service.go:165-215).
THEOREM TrailKnowsTable == ConsoleOnly => (Spec => []TableIsLogged)
<1> SUFFICES ASSUME ConsoleOnly PROVE Spec => []TableIsLogged
  OBVIOUS
<1>1. Init => IInv /\ Trail
  BY InitIInv DEF Init, Idle, Trail, Named
<1>2. IInv /\ Trail /\ [Next]_vars => IInv' /\ Trail'
  <2> SUFFICES ASSUME IInv, Trail, [Next]_vars PROVE Trail'
    BY NextKeepsIInv
  <2>1. CASE UNCHANGED vars
    BY <2>1 DEF vars, Trail, Named, InTrail, OnItsWay, Write, Shows, Entry, ImageOf
  <2>2. ASSUME NEW z \in Sessions, Acts(z) PROVE Trail'
    <3>1. \A s \in Sessions : Named(s)'
      BY <2>2, NamedIsKept DEF Trail
    <3>2. ASSUME NEW i \in DOMAIN table' PROVE InTrail(i)'
      <4>1. CASE i \in DOMAIN table /\ table'[i] = table[i]
        BY <2>2, <3>2, <4>1, KeptIsInTrail DEF Trail
      <4>2. CASE Wrote(z, i) /\ table'[i].updatedAt = clock + 1 /\ clock' = clock + 1
        BY <2>2, <4>2, WrittenIsInTrail DEF Trail
      <4>3. QED
        BY <2>2, <4>1, <4>2, RowsAfter
    <3>3. QED
      BY <3>1, <3>2 DEF Trail
  <2>3. QED
    BY <2>1, <2>2 DEF Next, Quiet, Acts
<1>3. IInv /\ Trail => TableIsLogged
  BY DEF Trail, InTrail, OnItsWay, TableIsLogged, At
<1>4. QED
  BY <1>1, <1>2, <1>3, PTL DEF Spec
-----------------------------------------------------------------------------
(* One request at a time.                                                  *)

\* What the console has asked for, and what was checked, still holds when the
\* row is written: nothing runs in between.
Serial(s) ==
    /\ NoOverlap
    /\ req[s].op = "UPDATE" /\ req[s].pc \in {"old", "check", "existing", "write"} =>
        req[s].id \in DOMAIN table /\ req[s].body.name = table[req[s].id].name
    /\ req[s].op = "CREATE" /\ req[s].pc \in {"check", "existing", "write"} => req[s].id = 0
    /\ req[s].op \in Upserts /\ req[s].pc \in {"existing", "write"} =>
        ~CheckOverlap(req[s].body, req[s].id)

\* A row that overlaps no other of its name may be written.
LEMMA WriteKeepsApart ==
    ASSUME TypeOK, NoOverlap, NEW i, NEW row, row.range \in TimeRange,
           table' = [j \in DOMAIN table \cup {i} |-> IF j = i THEN row ELSE table[j]],
           NEW image, image.name = row.name, image.range = row.range, ~CheckOverlap(image, i)
    PROVE  NoOverlap'
<1>1. ASSUME NEW j \in DOMAIN table \ {i}, table[j].name = row.name
      PROVE  ~RangesOverlap(table[j].range, row.range) /\ ~RangesOverlap(row.range, table[j].range)
  <2>1. ~SqlOverlap(table[j].range, row.range)
    BY <1>1 DEF CheckOverlap, OverlapAmong
  <2>2. table[j].range \in TimeRange
    BY DEF TypeOK, Row
  <2>3. ~RangesOverlap(row.range, table[j].range)
    BY <2>1, <2>2, SqlIsGo DEF SqlAgreesWithGo
  <2>4. QED
    BY <2>3, OverlapSymmetric
<1>2. \A j \in DOMAIN table' : table'[j] = IF j = i THEN row ELSE table[j]
  OBVIOUS
<1>3. \A j \in DOMAIN table' : j # i => j \in DOMAIN table
  OBVIOUS
<1>4. QED
  BY <1>1, <1>2, <1>3 DEF NoOverlap

LEMMA SerialStep ==
    ASSUME NEW s, Sessions = {s}, ConsoleOnly, IInv, Serial(s), [Next]_vars
    PROVE  Serial(s)'
<1>a. /\ s \in Sessions /\ req \in [Sessions -> RequestType] /\ TypeOK /\ TypeOK'
      /\ Knows(req[s], DOMAIN table, nextId)
  BY NextKeepsIInv DEF IInv, TypeOK
\* After these the request needs nothing of the table any more.
<1>b. ASSUME NoOverlap', req'[s].pc \in {"idle", "get", "checkActive", "new", "log"}
      PROVE  Serial(s)'
  BY <1>b DEF Serial
<1>c. UNCHANGED table => NoOverlap'
  BY DEF Serial, NoOverlap
<1>d. ASSUME NEW answer, Answer(s, answer) PROVE req'[s].pc = "idle"
  BY <1>a, <1>d DEF Answer, Idle
<1>1. CASE UNCHANGED vars
  BY <1>1 DEF vars, Serial, NoOverlap, CheckOverlap, OverlapAmong
<1>2. CASE Begin(s)
  <2>1. PICK r \in Requests : req' = [req EXCEPT ![s] = r] /\ table' = table
    BY <1>2 DEF Begin
  <2>2. r \in RequestType /\ r.pc \in {"check", "old"} /\ req'[s] = r
    BY <1>a, <2>1, RequestHasType
  <2>3. /\ r.op = "UPDATE" => r.id \in DOMAIN table /\ r.body.name = table[r.id].name
        /\ r.op = "CREATE" => r.id = 0
    <3>1. CASE r \in SwitchRequests
      <4>1. PICK op \in {"DELETE", "activate", "deactivate"}, i \in KnownIds :
                r = Request(op, "old", i, ZeroTime, NoFlag)
        BY <3>1 DEF SwitchRequests
      <4>2. r.op = op
        BY <4>1 DEF Request, Idle
      <4>3. QED
        BY <4>2
    <3>2. CASE r \in ConsoleRequests /\ (r.op = "UPDATE" => r.body.name = table[r.id].name)
      <4>1. CASE \E b \in Asked : r = Request("CREATE", "check", 0, ZeroTime, b)
        BY <4>1 DEF Request, Idle
      <4>2. CASE \E i \in DOMAIN table, t \in Stamps, b \in Asked : r = Request("UPDATE", "old", i, t, b)
        BY <3>2, <4>2 DEF Request, Idle
      <4>3. QED
        BY <3>2, <4>1, <4>2 DEF ConsoleRequests
    <3>3. QED
      BY <2>1, <3>1, <3>2 DEF Requests
  <2>4. QED
    BY <1>c, <2>1, <2>2, <2>3 DEF Serial
<1>3. CASE GetOld(s) \/ UpsertCheck(s) \/ GetExisting(s)
  <2>1. table' = table /\ NoOverlap'
    BY <1>3, <1>c DEF GetOld, UpsertCheck, GetExisting, NoWrite
  <2>2. \/ req'[s].pc \in {"idle", "get"}
        \/ /\ req'[s].op = req[s].op /\ req'[s].id = req[s].id /\ req'[s].body = req[s].body
           /\ req'[s].token = req[s].token
           /\ \/ req[s].pc = "old" /\ req'[s].pc \in {"check", "write"}
                 /\ (req'[s].pc = "write" => req[s].op = "DELETE")
              \/ /\ req[s].pc = "check" /\ req'[s].pc \in {"existing", "write"}
                 /\ ~CheckOverlap(req[s].body, req[s].id)
                 /\ (req'[s].pc = "write" => ~(req[s].id > 0))
              \/ /\ req[s].pc = "existing" /\ req'[s].pc = "write"
                 /\ req[s].token \in {ZeroTime, table[req[s].id].updatedAt}
    <3>1. CASE GetOld(s)
      BY <1>a, <1>d, <3>1 DEF GetOld, At, RequestType
    <3>2. CASE UpsertCheck(s)
      BY <1>a, <1>d, <3>2 DEF UpsertCheck, At, Goto, RequestType
    <3>3. CASE GetExisting(s)
      BY <1>a, <1>d, <3>3 DEF GetExisting, At, Goto, RequestType
    <3>4. QED
      BY <1>3, <3>1, <3>2, <3>3
  <2>3. req[s].id \in DOMAIN table => req[s].id > 0
    BY <1>a DEF TypeOK
  <2>4. /\ ~CheckOverlap(req[s].body, req[s].id)
        /\ req'[s].body = req[s].body /\ req'[s].id = req[s].id
        => ~CheckOverlap(req[s].body, req[s].id)'
    BY <2>1 DEF CheckOverlap, OverlapAmong
  <2>5. CASE req'[s].pc \in {"idle", "get"}
    BY <1>b, <2>1, <2>5
  <2>6. CASE /\ req'[s].op = req[s].op /\ req'[s].id = req[s].id /\ req'[s].body = req[s].body
             /\ req[s].pc = "old" /\ req'[s].pc \in {"check", "write"}
             /\ req'[s].pc = "write" => req[s].op = "DELETE"
    BY <1>a, <2>1, <2>6 DEF Serial, Upserts, Knows
  <2>7. CASE /\ req'[s].op = req[s].op /\ req'[s].id = req[s].id /\ req'[s].body = req[s].body
             /\ req[s].pc = "check" /\ req'[s].pc \in {"existing", "write"}
             /\ ~CheckOverlap(req[s].body, req[s].id)
             /\ req'[s].pc = "write" => ~(req[s].id > 0)
    BY <2>1, <2>3, <2>4, <2>7 DEF Serial, Upserts
  <2>8. CASE /\ req'[s].op = req[s].op /\ req'[s].id = req[s].id /\ req'[s].body = req[s].body
             /\ req'[s].token = req[s].token
             /\ req[s].pc = "existing" /\ req'[s].pc = "write"
             /\ req[s].token \in {ZeroTime, table[req[s].id].updatedAt}
    BY <2>1, <2>4, <2>8 DEF Serial, Upserts
  <2>9. QED
    BY <2>2, <2>5, <2>6, <2>7, <2>8
<1>4. CASE GetForSwitch(s) \/ ActivateCheck(s) \/ GetNew(s) \/ SetActive(s)
  <2>1. req[s].op \in {"activate", "deactivate"}
    BY <1>4, <1>a DEF GetForSwitch, ActivateCheck, GetNew, SetActive, At, Knows
  <2>2. req'[s].pc = "idle" \/ req'[s].op = req[s].op
    <3>1. CASE GetForSwitch(s)
      BY <1>a, <1>d, <3>1 DEF GetForSwitch, RequestType
    <3>2. CASE ActivateCheck(s)
      BY <1>a, <1>d, <3>2 DEF ActivateCheck, Goto, RequestType
    <3>3. CASE GetNew(s)
      BY <1>a, <1>d, <3>3 DEF GetNew, RequestType
    <3>4. CASE SetActive(s)
      BY <1>a, <1>d, <3>4 DEF SetActive, Goto, RequestType
    <3>5. QED
      BY <1>4, <3>1, <3>2, <3>3, <3>4
  <2>3. NoOverlap'
    <3>1. CASE SetActive(s) /\ Found(s)
      <4>1. table' = [table EXCEPT ![req[s].id] =
                        [table[req[s].id] EXCEPT !.active = (req[s].op = "activate"), !.updatedAt = clock + 1]]
        BY <3>1 DEF SetActive
      <4>2. \A i \in DOMAIN table :
                table'[i].name = table[i].name /\ table'[i].range = table[i].range
        BY <1>a, <4>1 DEF TypeOK, Row
      <4>3. DOMAIN table' = DOMAIN table
        BY <4>1
      <4>4. QED
        BY <4>2, <4>3 DEF Serial, NoOverlap
    <3>2. CASE ~SetActive(s) \/ ~Found(s)
      BY <1>4, <1>c, <3>2 DEF SetActive, GetForSwitch, ActivateCheck, GetNew, NoWrite
    <3>3. QED
      BY <3>1, <3>2
  <2>4. QED
    BY <1>b, <2>1, <2>2, <2>3 DEF Serial, Upserts
<1>5. CASE LogAction(s) \/ Fail(s) \/ DeleteRow(s)
  <2>1. CASE DeleteRow(s)
    <3>1. table' = [i \in DOMAIN table \ {req[s].id} |-> table[i]]
      BY <2>1 DEF DeleteRow
    <3>2. NoOverlap'
      BY <3>1 DEF Serial, NoOverlap
    <3>3. req'[s].pc \in {"log", "idle"}
      BY <1>a, <1>d, <2>1 DEF DeleteRow, RequestType
    <3>4. QED
      BY <1>b, <3>2, <3>3
  <2>2. CASE LogAction(s) \/ Fail(s)
    BY <1>b, <1>c, <1>d, <2>2 DEF LogAction, Fail, NoWrite
  <2>3. QED
    BY <1>5, <2>1, <2>2
<1>6. CASE UpdateRow(s)
  <2> DEFINE id == req[s].id
             row == Updated(id, req[s].body)
  <2>1. /\ req[s].pc = "write" /\ req[s].op \in Upserts /\ id > 0
    BY <1>6 DEF UpdateRow, At, Upserts
  <2>2. CASE UNCHANGED table
    BY <1>6, <1>a, <1>b, <1>c, <1>d, <2>2 DEF UpdateRow, RequestType
  <2>3. CASE Found(s) /\ table' = [table EXCEPT ![id] = row] /\ req'[s].pc = "log"
    <3>1. id \in DOMAIN table /\ ~CheckOverlap(req[s].body, id) /\ req[s].body.name = table[id].name
      BY <2>1, <2>3 DEF Found, Serial, Upserts
    <3>2. row.name = req[s].body.name /\ row.range = req[s].body.range /\ row.range \in TimeRange
      BY <1>a, <2>1, <3>1 DEF Updated, Knows
    <3> HIDE DEF row
    <3>3. table' = [j \in DOMAIN table \cup {id} |-> IF j = id THEN row ELSE table[j]]
      BY <1>a, <2>3, <3>1 DEF TypeOK
    <3>4. NoOverlap'
      BY <1>a, <3>1, <3>2, <3>3, WriteKeepsApart DEF Serial
    <3>5. QED
      BY <1>b, <2>3, <3>4
  <2>4. QED
    BY <1>6, <1>a, <2>2, <2>3 DEF UpdateRow, RequestType
<1>7. CASE InsertRow(s)
  <2> DEFINE row == Inserted(req[s].body)
  <2>1. req[s].pc = "write" /\ req[s].op = "CREATE" /\ req[s].op \in Upserts /\ req[s].id = 0
    BY <1>7 DEF InsertRow, At, Upserts
  <2>2. CASE UNCHANGED table /\ req'[s].pc = "idle"
    BY <1>b, <1>c, <2>2
  <2>3. CASE /\ table' = [i \in DOMAIN table \cup {nextId} |-> IF i = nextId THEN row ELSE table[i]]
             /\ req'[s].pc = "log"
    <3>1. ~CheckOverlap(req[s].body, 0) /\ 0 \notin DOMAIN table /\ nextId \notin DOMAIN table
      BY <1>a, <2>1 DEF Serial, TypeOK
    <3>2. ~CheckOverlap(req[s].body, nextId)
      BY <3>1 DEF CheckOverlap, OverlapAmong
    <3>3. row.name = req[s].body.name /\ row.range = req[s].body.range /\ row.range \in TimeRange
      BY <1>a, <2>1 DEF Inserted, Knows
    <3> HIDE DEF row
    <3>4. NoOverlap'
      BY <1>a, <2>3, <3>2, <3>3, WriteKeepsApart DEF Serial
    <3>5. QED
      BY <1>b, <2>3, <3>4
  <2>4. QED
    BY <1>7, <1>a, <1>d, <2>2, <2>3 DEF InsertRow, RequestType
<1>8. QED
  BY <1>1, <1>2, <1>3, <1>4, <1>5, <1>6, <1>7 DEF Next, Statement, Quiet

\* One session, and what the console asks for.
Alone == ConsoleOnly /\ \E s : Sessions = {s}

LEMMA SerialInvariance ==
    ASSUME Alone
    PROVE  Spec => [](IInv /\ \A s \in Sessions : Serial(s))
<1> DEFINE Inv == IInv /\ \A s \in Sessions : Serial(s)
<1>1. Init => Inv
  <2> SUFFICES ASSUME Init, NEW s \in Sessions PROVE Serial(s)
    BY InitIInv
  <2>1. req[s].pc = "idle" /\ DOMAIN table = {}
    BY DEF Init, Idle
  <2>2. QED
    BY <2>1 DEF Serial, NoOverlap
<1>2. Inv /\ [Next]_vars => Inv'
  <2> SUFFICES ASSUME Inv, [Next]_vars PROVE Inv'
    OBVIOUS
  <2>1. PICK s : Sessions = {s}
    BY DEF Alone
  <2>2. Serial(s)'
    BY <2>1, SerialStep DEF Alone
  <2>3. QED
    BY <2>1, <2>2, NextKeepsIInv
<1>3. QED
  BY <1>1, <1>2, PTL DEF Spec

\* While the console has one request at a time, the ranges of a flag never
\* overlap, of whatever requests and with failing statements or without
\* (model.go:111, postgres_repository.go:263); the run pg_race_create shows what
\* two can do.
THEOREM ApartAlone == Alone => (Spec => []NoOverlap)
<1> SUFFICES ASSUME Alone PROVE Spec => []NoOverlap
  OBVIOUS
<1>1. Alone /\ (\A s \in Sessions : Serial(s)) => NoOverlap
  BY DEF Alone, Serial
<1>2. QED
  BY <1>1, SerialInvariance, PTL
-----------------------------------------------------------------------------
(* One request at a time: the calendar.                                    *)

\* What the mapping needs of a table.
Sound(f) ==
    /\ DOMAIN f \subseteq Nat \ {0}
    /\ \A i \in DOMAIN f : f[i].range \in TimeRange /\ f[i].name \in Names
    /\ \A i, j \in DOMAIN f :
        i # j /\ f[i].name = f[j].name => ~RangesOverlap(f[i].range, f[j].range)

InstantsOf(r) == {t \in Instants : IsValidInRange(t, r)}

\* Two ranges of one flag that are both valid at some instant are the same.
LEMMA OneHolder ==
    ASSUME NEW f, Sound(f), NEW n, NEW t \in Instants,
           NEW i \in Holders(f, n, t), NEW j \in Holders(f, n, t)
    PROVE  i = j
<1> SUFFICES ASSUME i # j PROVE FALSE
  OBVIOUS
<1>1. /\ i \in DOMAIN f /\ f[i].name = n /\ IsValidInRange(t, f[i].range)
      /\ j \in DOMAIN f /\ f[j].name = n /\ IsValidInRange(t, f[j].range)
  BY DEF Holders
<1>2. ~RangesOverlap(f[i].range, f[j].range) /\ f[i].range \in TimeRange /\ f[j].range \in TimeRange
  BY <1>1 DEF Sound
<1> DEFINE a == f[i].range
           b == f[j].range
<1>3. /\ a.from \in Nat /\ (a.to = NoEnd \/ a.to \in Nat)
      /\ b.from \in Nat /\ (b.to = NoEnd \/ b.to \in Nat)
  BY <1>2, RangeEnds
<1>4. t \in Nat
  BY InstantsAssumption
<1>5. QED
  BY <1>1, <1>2, <1>3, <1>4 DEF RangesOverlap, IsValidInRange, BeforeEnd

\* The owner of an instant is the range valid in it, 0 if there is none.
LEMMA OwnerIsHolder ==
    ASSUME NEW f, Sound(f), NEW n \in Names, NEW t \in Instants
    PROVE  /\ Owners(f, Names)[n][t] \in DOMAIN f \cup {0}
           /\ \A i \in DOMAIN f : Owners(f, Names)[n][t] = i <=> i \in Holders(f, n, t)
           /\ Owners(f, Names)[n][t] = 0 <=> Holders(f, n, t) = {}
<1> DEFINE H == Holders(f, n, t)
           o == Owners(f, Names)[n][t]
<1>1. o = IF H = {} THEN 0 ELSE CHOOSE i \in H : TRUE
  BY DEF Owners
<1>2. H \subseteq DOMAIN f /\ 0 \notin DOMAIN f
  BY DEF Holders, Sound
<1>3. \A i, j \in H : i = j
  BY OneHolder
<1> HIDE DEF o, H
<1>4. (H = {} => o = 0) /\ (H # {} => o \in H)
  BY <1>1
<1>5. o \in DOMAIN f \cup {0} /\ (\A i \in DOMAIN f : o = i <=> i \in H) /\ (o = 0 <=> H = {})
  BY <1>2, <1>3, <1>4
<1>6. QED
  BY <1>5 DEF o, H

\* The owners after the row under id has been written, moved or taken away:
\* what it holds now was its own or free.
LEMMA OwnersAfter ==
    ASSUME NEW f, NEW g, Sound(f), Sound(g), NEW id,
           DOMAIN g \ {id} = DOMAIN f \ {id},
           \A i \in DOMAIN f \ {id} : g[i].name = f[i].name /\ g[i].range = f[i].range,
           NEW m \in Names, NEW t \in Instants
    PROVE  /\ Owners(g, Names)[m][t] =
                IF id \in Holders(g, m, t) THEN id
                ELSE IF Owners(f, Names)[m][t] = id THEN 0 ELSE Owners(f, Names)[m][t]
           /\ id \in Holders(g, m, t) => Owners(f, Names)[m][t] \in {0, id}
<1> DEFINE before == Owners(f, Names)[m][t]
           after == Owners(g, Names)[m][t]
<1>1. Holders(g, m, t) \ {id} = Holders(f, m, t) \ {id}
  BY DEF Holders
<1>2. \A i, j \in Holders(g, m, t) : i = j
  BY OneHolder
<1>3. /\ before \in DOMAIN f \cup {0}
      /\ \A i \in DOMAIN f : before = i <=> i \in Holders(f, m, t)
      /\ before = 0 <=> Holders(f, m, t) = {}
  BY OwnerIsHolder
<1>4. /\ after \in DOMAIN g \cup {0}
      /\ \A i \in DOMAIN g : after = i <=> i \in Holders(g, m, t)
      /\ after = 0 <=> Holders(g, m, t) = {}
  BY OwnerIsHolder
<1>5. Holders(f, m, t) \subseteq DOMAIN f /\ Holders(g, m, t) \subseteq DOMAIN g
  BY DEF Holders
<1> HIDE DEF before, after
<1>6. CASE id \in Holders(g, m, t)
  <2>1. after = id
    BY <1>4, <1>5, <1>6
  <2>2. before \in {0, id}
    BY <1>1, <1>2, <1>3, <1>6
  <2>3. QED
    BY <1>6, <2>1, <2>2 DEF before, after
<1>7. CASE id \notin Holders(g, m, t)
  <2>1. after = IF before = id THEN 0 ELSE before
    <3>1. CASE Holders(g, m, t) = {}
      <4>1. after = 0 /\ Holders(f, m, t) \subseteq {id}
        BY <1>1, <1>4, <3>1
      <4>2. before \in {0, id}
        BY <1>3, <4>1
      <4>3. QED
        BY <4>1, <4>2
    <3>2. ASSUME NEW j \in Holders(g, m, t) PROVE after = j /\ before = j /\ j # id
      BY <1>1, <1>3, <1>4, <1>5, <1>7, <3>2
    <3>3. QED
      BY <3>1, <3>2
  <2>2. QED
    BY <1>7, <2>1 DEF before, after
<1>8. QED
  BY <1>6, <1>7

\* The instants of a validated range are an interval of the calendar.
LEMMA RangeIsInterval ==
    ASSUME NEW r \in TimeRange
    PROVE  InstantsOf(r) \in Calendar!Intervals /\ r.from \in InstantsOf(r)
<1>1. /\ r.from \in Instants /\ r.from \in Nat
      /\ r.to = NoEnd \/ (r.to \in Nat /\ r.from < r.to)
  BY RangeEnds
<1>2. r.from \in InstantsOf(r)
  BY <1>1 DEF InstantsOf, IsValidInRange, BeforeEnd
<1>3. ASSUME NEW x \in InstantsOf(r), NEW y \in InstantsOf(r), NEW t \in Instants,
             x =< t, t =< y
      PROVE  t \in InstantsOf(r)
  <2>1. x \in Nat /\ y \in Nat /\ t \in Nat
    BY InstantsAssumption DEF InstantsOf
  <2>2. QED
    BY <1>1, <1>3, <2>1 DEF InstantsOf, IsValidInRange, BeforeEnd
<1>4. QED
  BY <1>2, <1>3 DEF Calendar!Intervals, InstantsOf

\* A stored range owns the instant it starts at.
LEMMA StoredOwns ==
    ASSUME Sound(table), NEW id \in DOMAIN table
    PROVE  Calendar!Owns(id)
<1> DEFINE n == table[id].name
           t == table[id].range.from
<1>1. n \in Names /\ table[id].range \in TimeRange
  BY DEF Sound
<1>2. t \in InstantsOf(table[id].range)
  BY <1>1, RangeIsInterval
<1>3. t \in Instants /\ id \in Holders(table, n, t)
  BY <1>2 DEF InstantsOf, Holders
<1>4. Owners(table, Names)[n][t] = id
  BY <1>1, <1>3, OwnerIsHolder
<1>5. QED
  BY <1>1, <1>3, <1>4 DEF Calendar!Owns

\* An id is spent by one request, which has not yet come to it before it writes.
IdsLeft(s) ==
    /\ nextId =< begun + 1
    /\ req[s].pc \notin {"idle", "new", "log"} => nextId =< begun

LEMMA StepKeepsIdsLeft ==
    ASSUME NEW s, Sessions = {s}, IInv, IdsLeft(s), [Next]_vars
    PROVE  IdsLeft(s)'
<1>a. /\ s \in Sessions /\ req \in [Sessions -> RequestType]
      /\ nextId \in Nat /\ begun \in Nat
  BY DEF IInv, TypeOK
<1>b. ASSUME NEW answer, Answer(s, answer) PROVE req'[s].pc = "idle"
  BY <1>a, <1>b DEF Answer, Idle
<1>1. CASE UNCHANGED vars
  BY <1>1 DEF vars, IdsLeft
<1>2. CASE Begin(s)
  BY <1>2, <1>a DEF Begin, At, IdsLeft
<1>3. CASE InsertRow(s)
  <2>1. req'[s].pc \in {"idle", "log"}
    BY <1>3, <1>a, <1>b DEF InsertRow, RequestType
  <2>2. nextId' = nextId + 1 /\ begun' = begun /\ req[s].pc = "write"
    BY <1>3 DEF InsertRow, At
  <2>3. QED
    BY <1>a, <2>1, <2>2 DEF IdsLeft
<1>4. ASSUME nextId' = nextId, begun' = begun,
             req[s].pc \in {"new", "log"} => req'[s].pc \in {"idle", "log"},
             req[s].pc = "idle" => req'[s].pc = "idle"
      PROVE  IdsLeft(s)'
  BY <1>4, <1>a DEF IdsLeft
<1>5. CASE GetOld(s) \/ UpsertCheck(s) \/ GetExisting(s) \/ GetForSwitch(s) \/ ActivateCheck(s)
  BY <1>4, <1>5 DEF GetOld, UpsertCheck, GetExisting, GetForSwitch, ActivateCheck, At, NoWrite
<1>6. CASE UpdateRow(s) \/ DeleteRow(s) \/ SetActive(s)
  BY <1>4, <1>6 DEF UpdateRow, DeleteRow, SetActive, At
<1>7. CASE GetNew(s)
  BY <1>4, <1>7, <1>a, <1>b DEF GetNew, At, NoWrite, RequestType
<1>8. CASE LogAction(s) \/ Fail(s)
  BY <1>4, <1>8, <1>b DEF LogAction, Fail, At, NoWrite
<1>9. QED
  BY <1>1, <1>2, <1>3, <1>5, <1>6, <1>7, <1>8 DEF Next, Statement, Quiet

LEMMA TableIsSound == IInv /\ NoOverlap => Sound(table)
BY DEF IInv, TypeOK, NoOverlap, Sound, Row

LEMMA InitIsCalendarInit == Init => Calendar!Init
<1> SUFFICES ASSUME Init PROVE Calendar!Init
  OBVIOUS
<1>1. DOMAIN table = {} /\ nextId = 1
  BY DEF Init
<1>2. \A n, t : Holders(table, n, t) = {}
  BY <1>1 DEF Holders
<1>3. Owners(table, Names) = [n \in Names |-> [t \in Instants |-> 0]]
  BY <1>2 DEF Owners
<1>4. ShownOf(table) = {} /\ 1..(nextId - 1) = {}
  BY <1>1 DEF ShownOf
<1>5. QED
  BY <1>3, <1>4 DEF Calendar!Init

\* A table that is written under id assigns it the instants of the row.
LEMMA WriteAssigns ==
    ASSUME Sound(table), Sound(table'), NEW id, NEW row,
           table' = [i \in DOMAIN table \cup {id} |-> IF i = id THEN row ELSE table[i]]
    PROVE  /\ row.name \in Names /\ InstantsOf(row.range) \in Calendar!Intervals
           /\ Calendar!Assign(id, row.name, InstantsOf(row.range))
           /\ \A t \in InstantsOf(row.range) : Owners(table, Names)[row.name][t] \in {0, id}
<1> DEFINE f == table
           g == [i \in DOMAIN table \cup {id} |-> IF i = id THEN row ELSE table[i]]
           I == InstantsOf(row.range)
<1>1. /\ DOMAIN g = DOMAIN f \cup {id} /\ g[id] = row /\ Sound(g)
      /\ \A i \in DOMAIN f \ {id} : g[i] = f[i]
  OBVIOUS
<1> HIDE DEF g
<1>2. row.name \in Names /\ row.range \in TimeRange
  BY <1>1 DEF Sound
<1>3. \A m, t : t \in Instants => (id \in Holders(g, m, t) <=> m = row.name /\ t \in I)
  BY <1>1 DEF Holders, InstantsOf
<1>4. ASSUME NEW m \in Names, NEW t \in Instants
      PROVE  /\ Owners(g, Names)[m][t] =
                  IF m = row.name /\ t \in I THEN id
                  ELSE IF Owners(f, Names)[m][t] = id THEN 0 ELSE Owners(f, Names)[m][t]
             /\ m = row.name /\ t \in I => Owners(f, Names)[m][t] \in {0, id}
  BY <1>1, <1>3, OwnersAfter
<1>5. Owners(g, Names) = [m \in Names |-> [t \in Instants |->
          IF m = row.name /\ t \in I THEN id
          ELSE IF Owners(f, Names)[m][t] = id THEN 0 ELSE Owners(f, Names)[m][t]]]
  BY <1>4 DEF Owners
<1>6. table' = g
  BY DEF g
<1>7. Calendar!Assign(id, row.name, I)
  BY <1>5, <1>6 DEF Calendar!Assign
<1>8. I \in Calendar!Intervals
  BY <1>2, RangeIsInterval
<1>9. QED
  BY <1>2, <1>4, <1>7, <1>8 DEF InstantsOf

LEMMA InsertIsBook ==
    ASSUME NEW s \in Sessions, IInv, Serial(s), IdsLeft(s), Sound(table), Sound(table'), InsertRow(s)
    PROVE  Calendar!Next
<1> DEFINE b == req[s].body
           row == Inserted(b)
           I == InstantsOf(row.range)
<1>a. /\ req[s].pc = "write" /\ req[s].op = "CREATE" /\ req[s].op \in Upserts /\ req[s].id = 0
      /\ nextId' = nextId + 1
  BY DEF InsertRow, At, Upserts
<1>b. /\ nextId \in Nat \ {0} /\ begun \in 0..MaxRequests /\ DOMAIN table \subseteq 1..(nextId - 1)
      /\ b.range \in TimeRange
  BY <1>a, Now, UpsertBody
\* Who starts with another of its name overlaps it, which the check has excluded.
<1>1. ~Duplicate(b.name, b.range, 0)
  <2> SUFFICES ASSUME NEW i \in DOMAIN table, table[i].name = b.name,
                      table[i].range.from = b.range.from
               PROVE  FALSE
    BY DEF Duplicate
  <2>1. ~SqlOverlap(table[i].range, b.range)
    BY <1>a, <1>b DEF Serial, CheckOverlap, OverlapAmong
  <2>2. table[i].range \in TimeRange
    BY DEF Sound
  <2>3. ~RangesOverlap(b.range, table[i].range)
    BY <1>b, <2>1, <2>2, SqlIsGo DEF SqlAgreesWithGo
  <2>4. /\ BeforeEnd(b.range.from, b.range.to)
        /\ BeforeEnd(table[i].range.from, table[i].range.to)
    BY <1>b, <2>2 DEF TimeRange, ValidateTemporalRange
  <2>5. QED
    BY <2>3, <2>4 DEF RangesOverlap
<1>2. table' = [i \in DOMAIN table \cup {nextId} |-> IF i = nextId THEN row ELSE table[i]]
  BY <1>1 DEF InsertRow
<1>3. row.active = TRUE
  BY DEF Inserted
<1> HIDE DEF row
<1>4. /\ row.name \in Names /\ I \in Calendar!Intervals
      /\ Calendar!Assign(nextId, row.name, I)
      /\ \A t \in I : Owners(table, Names)[row.name][t] \in {0, nextId}
  BY <1>2, WriteAssigns
<1>5. \A t \in I : Owners(table, Names)[row.name][t] = 0
  <2>1. ASSUME NEW t \in I PROVE Owners(table, Names)[row.name][t] \in DOMAIN table \cup {0}
    BY <1>4, OwnerIsHolder DEF InstantsOf
  <2>2. nextId \notin DOMAIN table
    BY <1>b
  <2>3. QED
    BY <1>4, <1>b, <2>1, <2>2
<1>6. ShownOf(table') = ShownOf(table) \cup {nextId}
  BY <1>2, <1>3 DEF ShownOf
<1>7. /\ 1..(nextId' - 1) = 1..(nextId - 1) \cup {nextId} /\ nextId \notin 1..(nextId - 1)
      /\ nextId \in 1..MaxRequests
  BY <1>a, <1>b, RequestsAssumption DEF IdsLeft
<1>8. Calendar!Book(nextId, row.name, I)
  BY <1>4, <1>5, <1>6, <1>7 DEF Calendar!Book
<1>9. QED
  BY <1>4, <1>7, <1>8 DEF Calendar!Next

LEMMA UpdateIsRebook ==
    ASSUME NEW s \in Sessions, IInv, IdsLeft(s), Sound(table), Sound(table'), UpdateRow(s),
           ~UNCHANGED table
    PROVE  Calendar!Next
<1> DEFINE id == req[s].id
           row == Updated(id, req[s].body)
           I == InstantsOf(row.range)
<1>a. /\ req[s].pc = "write" /\ req[s].op \in Upserts /\ nextId' = nextId
  BY DEF UpdateRow, At, Upserts
<1>b. id \in DOMAIN table /\ table' = [table EXCEPT ![id] = row]
  BY DEF UpdateRow, Found
<1>c. id \in 1..MaxRequests
  BY <1>a, <1>b, Now, RequestsAssumption DEF IdsLeft
<1>d. row.active \in BOOLEAN
  BY <1>a, UpsertBody DEF Updated
<1> HIDE DEF row
<1>1. table' = [i \in DOMAIN table \cup {id} |-> IF i = id THEN row ELSE table[i]]
  BY <1>b DEF IInv, TypeOK
<1>2. /\ row.name \in Names /\ I \in Calendar!Intervals
      /\ Calendar!Assign(id, row.name, I)
      /\ \A t \in I : Owners(table, Names)[row.name][t] \in {0, id}
  BY <1>1, WriteAssigns
<1>3. ShownOf(table') = IF row.active THEN ShownOf(table) \cup {id} ELSE ShownOf(table) \ {id}
  BY <1>1, <1>b DEF ShownOf
<1>4. ShownOf(table') \in {ShownOf(table) \cup {id}, ShownOf(table) \ {id}}
  BY <1>3, <1>d
<1>5. Calendar!Rebook(id, row.name, I)
  BY <1>a, <1>b, <1>2, <1>4, StoredOwns DEF Calendar!Rebook
<1>6. QED
  BY <1>2, <1>5, <1>c DEF Calendar!Next

LEMMA DeleteIsRelease ==
    ASSUME NEW s \in Sessions, IInv, IdsLeft(s), Sound(table), Sound(table'), DeleteRow(s), Found(s)
    PROVE  Calendar!Next
<1> DEFINE id == req[s].id
           g == [i \in DOMAIN table \ {id} |-> table[i]]
<1>a. table' = g /\ nextId' = nextId /\ req[s].pc = "write" /\ id \in DOMAIN table
  BY DEF DeleteRow, At, Found
<1>b. id \in 1..MaxRequests
  BY <1>a, Now, RequestsAssumption DEF IdsLeft
<1>1. /\ Sound(g) /\ id \notin DOMAIN g /\ DOMAIN g = DOMAIN table \ {id}
      /\ \A i \in DOMAIN table \ {id} : g[i] = table[i]
  BY <1>a
<1> HIDE DEF g
<1>2. ASSUME NEW m \in Names, NEW t \in Instants
      PROVE  Owners(g, Names)[m][t] =
               IF Owners(table, Names)[m][t] = id THEN 0 ELSE Owners(table, Names)[m][t]
  <2>1. id \notin Holders(g, m, t)
    BY <1>1 DEF Holders
  <2>2. QED
    BY <1>1, <2>1, OwnersAfter
<1>3. Owners(g, Names) = [m \in Names |-> [t \in Instants |->
          IF Owners(table, Names)[m][t] = id THEN 0 ELSE Owners(table, Names)[m][t]]]
  BY <1>2 DEF Owners
<1>4. ShownOf(table') = ShownOf(table) \ {id}
  BY <1>1, <1>a DEF ShownOf
<1>5. Calendar!Release(id)
  BY <1>a, <1>3, <1>4, StoredOwns DEF Calendar!Release
<1>6. QED
  BY <1>5, <1>b DEF Calendar!Next

LEMMA SwitchIsShowOrHide ==
    ASSUME NEW s \in Sessions, IInv, IdsLeft(s), Sound(table), Sound(table'), SetActive(s), Found(s)
    PROVE  Calendar!Next
<1> DEFINE id == req[s].id
           active == req[s].op = "activate"
           row == [table[id] EXCEPT !.active = active, !.updatedAt = clock + 1]
<1>a. /\ table' = [table EXCEPT ![id] = row] /\ nextId' = nextId /\ req[s].pc = "write"
      /\ id \in DOMAIN table
  BY DEF SetActive, At, Found
<1>b. id \in 1..MaxRequests
  BY <1>a, Now, RequestsAssumption DEF IdsLeft
<1>c. table[id] \in Row /\ active \in BOOLEAN
  BY <1>a DEF IInv, TypeOK
<1> HIDE DEF active
<1>d. row.name = table[id].name /\ row.range = table[id].range /\ row.active = active
  BY <1>c DEF Row
<1> HIDE DEF row
<1>1. /\ DOMAIN table' = DOMAIN table
      /\ \A i \in DOMAIN table :
            /\ table'[i].name = table[i].name /\ table'[i].range = table[i].range
            /\ table'[i].active = IF i = id THEN active ELSE table[i].active
  BY <1>a, <1>d
<1>2. Owners(table', Names) = Owners(table, Names)
  <2>1. ASSUME NEW m \in Names, NEW t \in Instants
        PROVE  Owners(table', Names)[m][t] = Owners(table, Names)[m][t]
    <3>1. Holders(table', m, t) = Holders(table, m, t)
      BY <1>1 DEF Holders
    <3>2. QED
      BY <1>1, <3>1, OwnerIsHolder
  <2>2. QED
    BY <2>1 DEF Owners
<1>3. ShownOf(table') = IF active THEN ShownOf(table) \cup {id} ELSE ShownOf(table) \ {id}
  BY <1>1, <1>a DEF ShownOf
<1>4. ShownOf(table') \in {ShownOf(table) \cup {id}, ShownOf(table) \ {id}}
  BY <1>3
<1>5. Calendar!ShowOrHide(id)
  BY <1>a, <1>2, <1>4, StoredOwns DEF Calendar!ShowOrHide
<1>6. QED
  BY <1>5, <1>b DEF Calendar!Next

LEMMA NextIsCalendarNext ==
    ASSUME NEW s, Sessions = {s}, IInv, IInv', Serial(s), Serial(s)', IdsLeft(s), [Next]_vars
    PROVE  [Calendar!Next]_Calendar!calendarVars
<1>a. s \in Sessions /\ Sound(table)
  BY TableIsSound DEF Serial
<1>b. Sound(table')
  BY DEF IInv, TypeOK, Serial, NoOverlap, Sound, Row
<1>1. ASSUME UNCHANGED <<table, nextId>> PROVE [Calendar!Next]_Calendar!calendarVars
  BY <1>1 DEF Calendar!calendarVars
<1>2. CASE InsertRow(s)
  BY <1>a, <1>b, <1>2, InsertIsBook
<1>3. CASE UpdateRow(s)
  BY <1>a, <1>b, <1>1, <1>3, UpdateIsRebook DEF UpdateRow
<1>4. CASE DeleteRow(s)
  <2>1. CASE Found(s)
    BY <1>a, <1>b, <1>4, <2>1, DeleteIsRelease
  <2>2. CASE ~Found(s)
    <3>1. table' = table
      BY <1>4, <2>2 DEF DeleteRow, Found, IInv, TypeOK
    <3>2. QED
      BY <1>1, <1>4, <3>1 DEF DeleteRow
  <2>3. QED
    BY <2>1, <2>2
<1>5. CASE SetActive(s)
  <2>1. CASE Found(s)
    BY <1>a, <1>b, <1>5, <2>1, SwitchIsShowOrHide
  <2>2. CASE ~Found(s)
    BY <1>1, <1>5, <2>2 DEF SetActive
  <2>3. QED
    BY <2>1, <2>2
<1>6. CASE GetOld(s) \/ UpsertCheck(s) \/ GetExisting(s) \/ GetForSwitch(s) \/ ActivateCheck(s)
           \/ GetNew(s) \/ LogAction(s) \/ Fail(s) \/ Begin(s) \/ UNCHANGED vars
  BY <1>1, <1>6 DEF GetOld, UpsertCheck, GetExisting, GetForSwitch, ActivateCheck, GetNew,
     LogAction, Fail, Begin, NoWrite, vars
<1>7. QED
  BY <1>2, <1>3, <1>4, <1>5, <1>6 DEF Next, Statement, Quiet

\* The store over PostgreSQL (postgres_repository.go:241-415), asked by the
\* console one request at a time, implements the calendar that the in-memory
\* store implements, with failing statements or without.
THEOREM StoreIsCalendar == Alone => (Spec => ImplementsCalendar)
<1> SUFFICES ASSUME Alone PROVE Spec => ImplementsCalendar
  OBVIOUS
<1> DEFINE Inv == IInv /\ \A s \in Sessions : Serial(s)
           Left == \A s \in Sessions : IdsLeft(s)
<1>1. Init => Calendar!Init
  BY InitIsCalendarInit
<1>2. Init => Left
  BY DEF Init, IdsLeft, Idle
<1>3. Inv /\ Left /\ [Next]_vars => Left'
  <2> SUFFICES ASSUME Inv, Left, [Next]_vars PROVE Left'
    OBVIOUS
  <2>1. PICK s : Sessions = {s}
    BY DEF Alone
  <2>2. IdsLeft(s)'
    BY <2>1, StepKeepsIdsLeft
  <2>3. QED
    BY <2>1, <2>2
<1>4. Inv /\ Inv' /\ Left /\ [Next]_vars => [Calendar!Next]_Calendar!calendarVars
  <2> SUFFICES ASSUME Inv, Inv', Left, [Next]_vars
               PROVE  [Calendar!Next]_Calendar!calendarVars
    OBVIOUS
  <2>1. PICK s : Sessions = {s}
    BY DEF Alone
  <2>2. Serial(s) /\ Serial(s)' /\ IdsLeft(s)
    BY <2>1
  <2>3. QED
    BY <2>1, <2>2, NextIsCalendarNext
<1>5. Spec => []Inv
  BY SerialInvariance
<1> HIDE DEF Inv, Left
<1>6. QED
  BY <1>1, <1>2, <1>3, <1>4, <1>5, PTL DEF Spec, ImplementsCalendar, Calendar!Spec
=============================================================================
