--------------------- MODULE MemoryFlagRepositoryProofs ---------------------
(***************************************************************************)
(* Proofs about the in-memory flag store, for any number of flags,         *)
(* instants, contents and clients.  Everything follows from one inductive  *)
(* invariant, IInv: the ranges of a flag stay apart, ids in use lie below  *)
(* the next one, stamps lie at or below the clock, and a copy that bears   *)
(* the stamp of the stored range agrees with it but for the active flag.   *)
(***************************************************************************)
EXTENDS MemoryFlagRepository, FiniteSetTheorems, TLAPS

-----------------------------------------------------------------------------
(* Ranges.                                                                 *)

\* The ends of a range that ValidateTemporalRange (temporal.go:44) lets pass.
LEMMA RangeEnds ==
    ASSUME NEW r \in TimeRange
    PROVE  /\ r.from \in Instants /\ r.from \in Nat
           /\ r.to = NoEnd \/ (r.to \in Instants /\ r.to \in Nat /\ r.from < r.to)
<1>1. /\ r.from \in Instants \cup {ZeroTime} /\ r.from # ZeroTime
      /\ r.to \in Instants \cup {NoEnd}
      /\ r.to = NoEnd \/ r.from < r.to
  BY DEF TimeRange, RequestRange, ValidateTemporalRange, BeforeEnd
<1>2. QED
  BY <1>1, InstantsAssumption

\* The order of the two arguments of RangesOverlap (temporal.go:17) is
\* irrelevant, so one check covers a pair of ranges.
LEMMA OverlapSymmetric ==
    ASSUME NEW a, NEW b
    PROVE  RangesOverlap(a, b) <=> RangesOverlap(b, a)
BY DEF RangesOverlap

\* Overlap of validated ranges is a shared instant: the later of the two
\* starts, which both ranges contain (temporal.go:17 against temporal.go:29).
THEOREM SharedInstant == OverlapIsSharedInstant
<1> SUFFICES ASSUME NEW a \in TimeRange, NEW b \in TimeRange
             PROVE  RangesOverlap(a, b) <=>
                      \E t \in Instants : IsValidInRange(t, a) /\ IsValidInRange(t, b)
  BY DEF OverlapIsSharedInstant
<1>a. /\ a.from \in Instants /\ a.from \in Nat
      /\ a.to = NoEnd \/ (a.to \in Nat /\ a.from < a.to)
  BY RangeEnds
<1>b. /\ b.from \in Instants /\ b.from \in Nat
      /\ b.to = NoEnd \/ (b.to \in Nat /\ b.from < b.to)
  BY RangeEnds
<1>1. ASSUME RangesOverlap(a, b)
      PROVE  \E t \in Instants : IsValidInRange(t, a) /\ IsValidInRange(t, b)
  <2>1. CASE a.from >= b.from
    <3>1. IsValidInRange(a.from, a) /\ IsValidInRange(a.from, b)
      BY <1>a, <1>b, <1>1, <2>1 DEF RangesOverlap, IsValidInRange, BeforeEnd
    <3>2. QED
      BY <1>a, <3>1
  <2>2. CASE b.from >= a.from
    <3>1. IsValidInRange(b.from, a) /\ IsValidInRange(b.from, b)
      BY <1>a, <1>b, <1>1, <2>2 DEF RangesOverlap, IsValidInRange, BeforeEnd
    <3>2. QED
      BY <1>b, <3>1
  <2>3. QED
    BY <1>a, <1>b, <2>1, <2>2
<1>2. ASSUME NEW t \in Instants, IsValidInRange(t, a), IsValidInRange(t, b)
      PROVE  RangesOverlap(a, b)
  <2>1. t \in Nat
    BY InstantsAssumption
  <2>2. QED
    BY <1>a, <1>b, <1>2, <2>1 DEF RangesOverlap, IsValidInRange, BeforeEnd
<1>3. QED
  BY <1>1, <1>2

-----------------------------------------------------------------------------
(* The invariant.                                                          *)

\* A map in which every range is stored under its own id, below the next one,
\* and stamped no later than the clock.
StoredOK(f, next, now) ==
    \A i \in DOMAIN f : f[i].id = i /\ i < next /\ f[i].updatedAt =< now

SameButActive(x, y) ==
    /\ x.id = y.id /\ x.name = y.name /\ x.range = y.range
    /\ x.content = y.content /\ x.createdAt = y.createdAt

\* A copy is of an id handed out and a stamp given; while the stored range
\* still has the stamp of the copy, the two differ in the active flag at most.
CopyFits(k, f, next, now) ==
    /\ k.id < next /\ k.updatedAt =< now
    /\ k.id \in DOMAIN f /\ f[k.id].updatedAt = k.updatedAt => SameButActive(f[k.id], k)

IInv ==
    /\ TypeOK
    /\ nextID =< clock + 1
    /\ StoredOK(flags, nextID, clock)
    /\ NoOverlap
    /\ \A c \in Clients : copy[c] # NoCopy => CopyFits(copy[c], flags, nextID, clock)

-----------------------------------------------------------------------------
(* Lemmas about requests and about the write of a row.                     *)

\* What a request body holds.
LEMMA BodyType ==
    ASSUME TypeOK, NEW b \in Bodies(Targets)
    PROVE  /\ b.id \in Nat /\ b.updatedAt \in Nat
           /\ b.name \in Names /\ b.active \in BOOLEAN
           /\ b.range \in RequestRange
<1>1. PICK t \in Targets, n \in Names, a \in BOOLEAN, r \in RequestRange,
           v \in ValidContents \cup InvalidContents : b = Body(t, n, a, r, v)
  BY DEF Bodies
<1>2. t.id \in Nat /\ t.updatedAt \in Nat
  <2>1. CASE \E i \in 0..nextID : t = [id |-> i, updatedAt |-> ZeroTime]
    BY <2>1 DEF TypeOK, ZeroTime
  <2>2. CASE \E c \in Clients : /\ copy[c] # NoCopy
                                /\ t = [id |-> copy[c].id, updatedAt |-> copy[c].updatedAt]
    <3>1. PICK c \in Clients : /\ copy[c] # NoCopy
                               /\ t = [id |-> copy[c].id, updatedAt |-> copy[c].updatedAt]
      BY <2>2
    <3>2. copy[c] \in FeatureFlag
      BY <3>1 DEF TypeOK
    <3>3. QED
      BY <3>1, <3>2 DEF FeatureFlag
  <2>3. QED
    BY <2>1, <2>2 DEF Targets
<1>3. QED
  BY <1>1, <1>2 DEF Body

\* What UpsertFlag (memory_repository.go:117) has established when it writes.
LEMMA Accepted ==
    ASSUME NEW b, UpsertError(b) = "nil"
    PROVE  /\ b.content \in ValidContents
           /\ ValidateTemporalRange(b.range)
           /\ \A i \in DOMAIN flags \ {b.id} :
                 flags[i].name = b.name => ~RangesOverlap(b.range, flags[i].range)
           /\ b.id = 0 \/ (/\ b.id \in DOMAIN flags
                           /\ b.updatedAt \in {ZeroTime, flags[b.id].updatedAt})
<1>1. /\ b.content \in ValidContents
      /\ ValidateTemporalRange(b.range)
      /\ ~checkOverlapLocked(b.name, b.range, b.id)
      /\ b.id = 0 \/ (/\ b.id \in DOMAIN flags
                      /\ b.updatedAt \in {ZeroTime, flags[b.id].updatedAt})
  BY DEF UpsertError
<1>2. QED
  BY <1>1 DEF checkOverlapLocked, SameFlagOverlaps

\* A row that is apart from the other ranges of its flag keeps the map apart.
LEMMA PutKeepsApart ==
    ASSUME NEW id, NEW row, Put(id, row), NoOverlap,
           \A i \in DOMAIN flags \ {id} :
              flags[i].name = row.name => ~RangesOverlap(row.range, flags[i].range)
    PROVE  NoOverlap'
<1> SUFFICES ASSUME NEW i \in DOMAIN flags', NEW j \in DOMAIN flags',
                    i # j, flags'[i].name = flags'[j].name
             PROVE  ~RangesOverlap(flags'[i].range, flags'[j].range)
  BY DEF NoOverlap, Apart
<1>a. /\ DOMAIN flags' = DOMAIN flags \cup {id}
      /\ flags'[id] = row
      /\ \A k \in DOMAIN flags \ {id} : flags'[k] = flags[k]
  BY DEF Put
<1>1. CASE i = id
  BY <1>a, <1>1
<1>2. CASE j = id
  <2>1. ~RangesOverlap(row.range, flags[i].range)
    BY <1>a, <1>2
  <2>2. QED
    BY <1>a, <1>2, <2>1, OverlapSymmetric
<1>3. CASE i # id /\ j # id
  BY <1>a, <1>3 DEF NoOverlap, Apart
<1>4. QED
  BY <1>1, <1>2, <1>3

\* The copies survive the write of one row: of an id that was never handed
\* out, or with a stamp that was never given.
LEMMA PutKeepsCopies ==
    ASSUME NEW id, NEW row, Put(id, row), NEW k,
           NEW next \in Nat, NEW now \in Nat, NEW next2 \in Nat, NEW now2 \in Nat,
           k.id \in Nat, k.updatedAt \in Nat,
           CopyFits(k, flags, next, now), next =< next2, now < now2,
           row.updatedAt = now2
    PROVE  CopyFits(k, flags', next2, now2)
<1>a. /\ DOMAIN flags' = DOMAIN flags \cup {id}
      /\ flags'[id] = row
      /\ \A i \in DOMAIN flags \ {id} : flags'[i] = flags[i]
  BY DEF Put
<1>1. k.id < next2 /\ k.updatedAt =< now2
  BY DEF CopyFits
<1>2. ASSUME k.id \in DOMAIN flags', flags'[k.id].updatedAt = k.updatedAt
      PROVE  SameButActive(flags'[k.id], k)
  <2>1. k.id # id
    BY <1>a, <1>2 DEF CopyFits
  <2>2. k.id \in DOMAIN flags /\ flags'[k.id] = flags[k.id]
    BY <1>a, <1>2, <2>1
  <2>3. QED
    BY <1>2, <2>2 DEF CopyFits
<1>3. QED
  BY <1>1, <1>2 DEF CopyFits

-----------------------------------------------------------------------------
(* The invariant is inductive: one lemma per action.                       *)

LEMMA InitIInv == Init => IInv
<1> SUFFICES ASSUME Init PROVE IInv
  OBVIOUS
<1>1. TypeOK
  BY ClockAssumption DEF Init, TypeOK, Errors
<1>2. QED
  BY <1>1 DEF Init, IInv, StoredOK, NoOverlap, Apart

\* InsertFlag writes at nextID, where nothing was.
LEMMA InsertKeepsIInv ==
    ASSUME IInv, NEW b \in Bodies(Targets), InsertFlag(b)
    PROVE  IInv'
<1>a. TypeOK
  BY DEF IInv
<1>b. /\ b.name \in Names /\ b.active \in BOOLEAN /\ b.range \in RequestRange
  BY <1>a, BodyType
<1>c. /\ b.content \in ValidContents
      /\ ValidateTemporalRange(b.range)
      /\ \A i \in DOMAIN flags \ {b.id} :
            flags[i].name = b.name => ~RangesOverlap(b.range, flags[i].range)
  BY Accepted DEF InsertFlag
<1> DEFINE row == Stored(b, nextID, clock + 1, clock + 1)
<1>d. /\ Put(nextID, row) /\ clock' = clock + 1 /\ nextID' = nextID + 1
      /\ copy' = copy /\ answer' = "nil" /\ clock < MaxClock /\ b.id = 0
  BY DEF InsertFlag
<1>e. /\ nextID \in Nat /\ clock \in Nat /\ nextID =< clock + 1 /\ nextID >= 1
      /\ DOMAIN flags \subseteq 1..MaxClock /\ flags \in [DOMAIN flags -> FeatureFlag]
  BY <1>a, ClockAssumption DEF IInv, TypeOK
<1>f. row \in FeatureFlag
  BY <1>b, <1>c, <1>d, <1>e, ClockAssumption DEF Stored, FeatureFlag, TimeRange
<1>g. /\ DOMAIN flags' = DOMAIN flags \cup {nextID}
      /\ flags'[nextID] = row
      /\ \A i \in DOMAIN flags \ {nextID} : flags'[i] = flags[i]
      /\ flags' = [i \in DOMAIN flags \cup {nextID} |-> IF i = nextID THEN row ELSE flags[i]]
  BY <1>d DEF Put
<1>1. TypeOK'
  <2>1. flags' \in [DOMAIN flags' -> FeatureFlag]
    BY <1>e, <1>f, <1>g
  <2>2. DOMAIN flags' \subseteq 1..MaxClock
    BY <1>d, <1>e, <1>g, ClockAssumption
  <2>3. nextID' \in 1..(MaxClock + 1) /\ clock' \in 0..MaxClock
    BY <1>d, <1>e, ClockAssumption
  <2>4. QED
    BY <1>a, <1>d, <2>1, <2>2, <2>3 DEF TypeOK, Errors
<1>2. nextID' =< clock' + 1
  BY <1>d, <1>e
<1>3. StoredOK(flags, nextID, clock)'
  BY <1>d, <1>e, <1>g DEF IInv, StoredOK, Stored, FeatureFlag
<1>4. NoOverlap'
  <2>1. nextID \notin DOMAIN flags
    BY <1>e DEF IInv, StoredOK
  <2>2. \A i \in DOMAIN flags \ {nextID} :
            flags[i].name = row.name => ~RangesOverlap(row.range, flags[i].range)
    BY <1>c, <1>d, <1>e DEF Stored
  <2>3. QED
    BY <1>d, <2>2, PutKeepsApart DEF IInv
<1>5. \A c \in Clients : copy'[c] # NoCopy => CopyFits(copy'[c], flags', nextID', clock')
  <2> SUFFICES ASSUME NEW c \in Clients, copy[c] # NoCopy
               PROVE  CopyFits(copy[c], flags', nextID + 1, clock + 1)
    BY <1>d
  <2>1. copy[c] \in FeatureFlag /\ CopyFits(copy[c], flags, nextID, clock)
    BY <1>a DEF IInv, TypeOK
  <2>2. copy[c].id \in Nat /\ copy[c].updatedAt \in Nat
    BY <2>1 DEF FeatureFlag
  <2>3. row.updatedAt = clock + 1
    BY DEF Stored
  <2>4. /\ nextID + 1 \in Nat /\ clock + 1 \in Nat
        /\ nextID =< nextID + 1 /\ clock < clock + 1
    BY <1>e
  <2> HIDE DEF row
  <2>5. QED
    BY <1>d, <1>e, <2>1, <2>2, <2>3, <2>4, PutKeepsCopies
<1>6. QED
  BY <1>1, <1>2, <1>3, <1>4, <1>5 DEF IInv

\* UpdateFlag writes over an existing row and leaves its createdAt alone.
LEMMA UpdateKeepsIInv ==
    ASSUME IInv, NEW b \in Bodies(Targets), UpdateFlag(b)
    PROVE  IInv'
<1>a. TypeOK
  BY DEF IInv
<1>b. /\ b.name \in Names /\ b.active \in BOOLEAN /\ b.range \in RequestRange
  BY <1>a, BodyType
<1>c. /\ b.content \in ValidContents
      /\ ValidateTemporalRange(b.range)
      /\ \A i \in DOMAIN flags \ {b.id} :
            flags[i].name = b.name => ~RangesOverlap(b.range, flags[i].range)
      /\ b.id = 0 \/ b.id \in DOMAIN flags
  BY Accepted DEF UpdateFlag
<1> DEFINE row == Stored(b, b.id, flags[b.id].createdAt, clock + 1)
<1>d. /\ Put(b.id, row) /\ clock' = clock + 1 /\ nextID' = nextID
      /\ copy' = copy /\ answer' = "nil" /\ clock < MaxClock /\ b.id > 0
  BY DEF UpdateFlag
<1>e. /\ nextID \in Nat /\ clock \in Nat /\ nextID =< clock + 1
      /\ DOMAIN flags \subseteq 1..MaxClock /\ flags \in [DOMAIN flags -> FeatureFlag]
  BY <1>a, ClockAssumption DEF IInv, TypeOK
<1>i. b.id \in DOMAIN flags /\ b.id \in 1..MaxClock /\ flags[b.id] \in FeatureFlag
  BY <1>c, <1>d, <1>e
<1>j. b.id # 0 /\ b.id < nextID
  BY <1>i DEF IInv, StoredOK
<1>f. row \in FeatureFlag
  BY <1>b, <1>c, <1>d, <1>e, <1>i, <1>j, ClockAssumption DEF Stored, FeatureFlag, TimeRange
<1>g. /\ DOMAIN flags' = DOMAIN flags
      /\ flags'[b.id] = row
      /\ \A i \in DOMAIN flags \ {b.id} : flags'[i] = flags[i]
      /\ flags' = [i \in DOMAIN flags \cup {b.id} |-> IF i = b.id THEN row ELSE flags[i]]
  BY <1>d, <1>i DEF Put
<1>1. TypeOK'
  <2>1. flags' \in [DOMAIN flags' -> FeatureFlag]
    BY <1>e, <1>f, <1>g
  <2>2. DOMAIN flags' \subseteq 1..MaxClock
    BY <1>e, <1>g
  <2>3. nextID' \in 1..(MaxClock + 1) /\ clock' \in 0..MaxClock
    BY <1>a, <1>d, <1>e, ClockAssumption DEF TypeOK
  <2>4. QED
    BY <1>a, <1>d, <2>1, <2>2, <2>3 DEF TypeOK, Errors
<1>2. nextID' =< clock' + 1
  BY <1>d, <1>e
<1>3. StoredOK(flags, nextID, clock)'
  <2> SUFFICES ASSUME NEW i \in DOMAIN flags
               PROVE  flags'[i].id = i /\ i < nextID /\ flags'[i].updatedAt =< clock + 1
    BY <1>d, <1>g DEF StoredOK
  <2>1. CASE i = b.id
    BY <1>e, <1>g, <1>j, <2>1 DEF Stored
  <2>2. CASE i # b.id
    <3>1. flags'[i] = flags[i] /\ flags[i] \in FeatureFlag
      BY <1>e, <1>g, <2>2
    <3>2. flags[i].updatedAt \in Nat
      BY <3>1 DEF FeatureFlag
    <3>3. QED
      BY <1>e, <3>1, <3>2 DEF IInv, StoredOK
  <2>3. QED
    BY <2>1, <2>2
<1>4. NoOverlap'
  <2>1. \A i \in DOMAIN flags \ {b.id} :
            flags[i].name = row.name => ~RangesOverlap(row.range, flags[i].range)
    BY <1>c DEF Stored
  <2> HIDE DEF row
  <2>2. QED
    BY <1>d, <2>1, PutKeepsApart DEF IInv
<1>5. \A c \in Clients : copy'[c] # NoCopy => CopyFits(copy'[c], flags', nextID', clock')
  <2> SUFFICES ASSUME NEW c \in Clients, copy[c] # NoCopy
               PROVE  CopyFits(copy[c], flags', nextID, clock + 1)
    BY <1>d
  <2>1. copy[c] \in FeatureFlag /\ CopyFits(copy[c], flags, nextID, clock)
    BY <1>a DEF IInv, TypeOK
  <2>2. copy[c].id \in Nat /\ copy[c].updatedAt \in Nat
    BY <2>1 DEF FeatureFlag
  <2>3. row.updatedAt = clock + 1
    BY DEF Stored
  <2>4. clock + 1 \in Nat /\ nextID =< nextID /\ clock < clock + 1
    BY <1>e
  <2> HIDE DEF row
  <2>5. QED
    BY <1>d, <1>e, <2>1, <2>2, <2>3, <2>4, PutKeepsCopies
<1>6. QED
  BY <1>1, <1>2, <1>3, <1>4, <1>5 DEF IInv

\* A deletion only takes a row away.
LEMMA DeleteKeepsIInv ==
    ASSUME IInv, NEW id, DeleteFlag(id)
    PROVE  IInv'
<1>a. /\ TypeOK /\ nextID' = nextID /\ clock' = clock /\ copy' = copy
      /\ flags' = [i \in DOMAIN flags \ {id} |-> flags[i]]
      /\ answer' \in Errors
  BY DEF DeleteFlag, IInv, Errors
<1>b. /\ DOMAIN flags' \subseteq DOMAIN flags
      /\ \A i \in DOMAIN flags' : flags'[i] = flags[i]
  BY <1>a
<1>1. TypeOK'
  <2>1. flags' \in [DOMAIN flags' -> FeatureFlag]
    BY <1>a, <1>b DEF TypeOK
  <2>2. QED
    BY <1>a, <1>b, <2>1 DEF TypeOK
<1>2. StoredOK(flags, nextID, clock)'
  BY <1>a, <1>b DEF IInv, StoredOK
<1>3. NoOverlap'
  BY <1>b DEF IInv, NoOverlap, Apart
<1>4. \A c \in Clients : copy'[c] # NoCopy => CopyFits(copy'[c], flags', nextID', clock')
  <2> SUFFICES ASSUME NEW c \in Clients, copy[c] # NoCopy
               PROVE  CopyFits(copy[c], flags', nextID, clock)
    BY <1>a
  <2>1. CopyFits(copy[c], flags, nextID, clock)
    BY DEF IInv
  <2>2. QED
    BY <1>b, <2>1 DEF CopyFits
<1>5. QED
  BY <1>a, <1>1, <1>2, <1>3, <1>4 DEF IInv

\* A change of the active flag of one row, or of none: name, range, content and
\* both stamps of every row stay as they were.
LEMMA ToggleKeepsIInv ==
    ASSUME IInv, NEW id, NEW active \in BOOLEAN,
           flags' = flags \/ (id \in DOMAIN flags /\ flags' = [flags EXCEPT ![id].active = active]),
           UNCHANGED <<nextID, clock, copy>>, answer' \in Errors
    PROVE  IInv'
<1>a. TypeOK /\ flags \in [DOMAIN flags -> FeatureFlag]
  BY DEF IInv, TypeOK
<1>b. /\ DOMAIN flags' = DOMAIN flags
      /\ \A i \in DOMAIN flags :
            /\ flags'[i] \in FeatureFlag
            /\ SameButActive(flags'[i], flags[i])
            /\ flags'[i].updatedAt = flags[i].updatedAt
  <2>1. CASE flags' = flags
    BY <1>a, <2>1 DEF SameButActive
  <2>2. CASE id \in DOMAIN flags /\ flags' = [flags EXCEPT ![id].active = active]
    <3> SUFFICES ASSUME NEW i \in DOMAIN flags
                 PROVE  /\ flags'[i] \in FeatureFlag
                        /\ SameButActive(flags'[i], flags[i])
                        /\ flags'[i].updatedAt = flags[i].updatedAt
      BY <2>2
    <3>1. flags[i] \in FeatureFlag
      BY <1>a
    <3>2. CASE i = id
      <4>1. flags'[i] = [flags[i] EXCEPT !.active = active]
        BY <2>2, <3>2
      <4>2. QED
        BY <3>1, <4>1 DEF FeatureFlag, SameButActive
    <3>3. CASE i # id
      <4>1. flags'[i] = flags[i]
        BY <2>2, <3>3
      <4>2. QED
        BY <3>1, <4>1 DEF SameButActive
    <3>4. QED
      BY <3>2, <3>3
  <2>3. QED
    BY <2>1, <2>2
<1>1. TypeOK'
  <2>1. flags' \in [DOMAIN flags' -> FeatureFlag]
    <3>1. CASE flags' = flags
      BY <1>a, <3>1
    <3>2. CASE id \in DOMAIN flags /\ flags' = [flags EXCEPT ![id].active = active]
      BY <1>b, <3>2
    <3>3. QED
      BY <3>1, <3>2
  <2>2. QED
    BY <1>a, <1>b, <2>1 DEF TypeOK
<1>2. StoredOK(flags, nextID, clock)'
  BY <1>b DEF IInv, StoredOK, SameButActive
<1>3. NoOverlap'
  BY <1>b DEF IInv, NoOverlap, Apart, SameButActive
<1>4. \A c \in Clients : copy'[c] # NoCopy => CopyFits(copy'[c], flags', nextID', clock')
  <2> SUFFICES ASSUME NEW c \in Clients, copy[c] # NoCopy
               PROVE  CopyFits(copy[c], flags', nextID, clock)
    OBVIOUS
  <2>1. CopyFits(copy[c], flags, nextID, clock)
    BY DEF IInv
  <2>2. QED
    BY <1>b, <2>1 DEF CopyFits, SameButActive
<1>5. QED
  BY <1>1, <1>2, <1>3, <1>4 DEF IInv

\* Reading a row gives the client a copy that fits.
LEMMA ReadKeepsIInv ==
    ASSUME IInv, NEW c \in Clients, NEW id, GetFlagByID(c, id)
    PROVE  IInv'
<1>a. /\ TypeOK /\ flags' = flags /\ nextID' = nextID /\ clock' = clock
      /\ copy' = IF id \in DOMAIN flags THEN [copy EXCEPT ![c] = flags[id]] ELSE copy
      /\ answer' \in Errors
  BY DEF GetFlagByID, IInv, Errors
<1>b. \A d \in Clients : copy'[d] = copy[d] \/ (id \in DOMAIN flags /\ copy'[d] = flags[id])
  BY <1>a DEF TypeOK
<1>1. TypeOK'
  BY <1>a DEF TypeOK
<1>2. \A d \in Clients : copy'[d] # NoCopy => CopyFits(copy'[d], flags', nextID', clock')
  <2> SUFFICES ASSUME NEW d \in Clients, copy'[d] # NoCopy
               PROVE  CopyFits(copy'[d], flags, nextID, clock)
    BY <1>a
  <2>1. CASE copy'[d] = copy[d]
    BY <2>1 DEF IInv
  <2>2. CASE id \in DOMAIN flags /\ copy'[d] = flags[id]
    BY <2>2 DEF IInv, StoredOK, CopyFits, SameButActive
  <2>3. QED
    BY <1>b, <2>1, <2>2
<1>3. QED
  BY <1>a, <1>1, <1>2 DEF IInv, StoredOK, NoOverlap, Apart

LEMMA NextKeepsIInv == IInv /\ [Next]_vars => IInv'
<1> SUFFICES ASSUME IInv, [Next]_vars PROVE IInv'
  OBVIOUS
<1>1. ASSUME NEW error \in Refusals, RejectUpsert(error) PROVE IInv'
  <2>1. answer' \in Errors
    BY <1>1 DEF RejectUpsert, Refusals, UpsertError, Errors
  <2>2. QED
    BY <1>1, <2>1, ToggleKeepsIInv DEF RejectUpsert
<1>2. ASSUME NEW b \in Bodies(Targets), InsertFlag(b) PROVE IInv'
  BY <1>2, InsertKeepsIInv
<1>3. ASSUME NEW b \in Bodies(Targets), UpdateFlag(b) PROVE IInv'
  BY <1>3, UpdateKeepsIInv
<1>4. ASSUME NEW id, DeleteFlag(id) PROVE IInv'
  BY <1>4, DeleteKeepsIInv
<1>5. ASSUME NEW id, ActivateFlag(id) PROVE IInv'
  <2>1. answer' \in Errors
    BY <1>5 DEF ActivateFlag, ActivateError, Errors
  <2>2. flags' = flags \/ (id \in DOMAIN flags /\ flags' = [flags EXCEPT ![id].active = TRUE])
    BY <1>5 DEF ActivateFlag, ActivateError
  <2>3. QED
    BY <1>5, <2>1, <2>2, ToggleKeepsIInv DEF ActivateFlag
<1>6. ASSUME NEW id, DeactivateFlag(id) PROVE IInv'
  <2>1. answer' \in Errors
    BY <1>6 DEF DeactivateFlag, Errors
  <2>2. flags' = flags \/ (id \in DOMAIN flags /\ flags' = [flags EXCEPT ![id].active = FALSE])
    BY <1>6 DEF DeactivateFlag
  <2>3. QED
    BY <1>6, <2>1, <2>2, ToggleKeepsIInv DEF DeactivateFlag
<1>7. ASSUME NEW c \in Clients, NEW id, GetFlagByID(c, id) PROVE IInv'
  BY <1>7, ReadKeepsIInv
<1>8. CASE UNCHANGED vars
  BY <1>8 DEF vars, IInv, TypeOK, StoredOK, NoOverlap, Apart, CopyFits
<1>9. QED
  BY <1>1, <1>2, <1>3, <1>4, <1>5, <1>6, <1>7, <1>8 DEF Next

LEMMA Invariance == Spec => []IInv
<1>1. QED
  BY InitIInv, NextKeepsIInv, PTL DEF Spec

-----------------------------------------------------------------------------
(* The properties.                                                         *)

\* Type correctness: every row the store holds is one its validation accepts,
\* every id and stamp lies within the bounds.
THEOREM TypeCorrect == Spec => []TypeOK
<1>1. IInv => TypeOK
  BY DEF IInv
<1>2. QED
  BY <1>1, Invariance, PTL

\* Two ranges of one flag never overlap (UpsertFlag, memory_repository.go:117).
THEOREM RangesStayApart == Spec => []NoOverlap
<1>1. IInv => NoOverlap
  BY DEF IInv
<1>2. QED
  BY <1>1, Invariance, PTL

\* Two ranges of one flag that are both valid at some instant are the same.
LEMMA OneHolder ==
    ASSUME NEW f, Apart(f), \A k \in DOMAIN f : f[k].range \in TimeRange,
           NEW n, NEW t \in Instants, NEW i \in Holders(f, n, t), NEW j \in Holders(f, n, t)
    PROVE  i = j
<1> SUFFICES ASSUME i # j PROVE FALSE
  OBVIOUS
<1>1. /\ i \in DOMAIN f /\ f[i].name = n /\ IsValidInRange(t, f[i].range)
      /\ j \in DOMAIN f /\ f[j].name = n /\ IsValidInRange(t, f[j].range)
  BY DEF Holders
<1>2. RangesOverlap(f[i].range, f[j].range)
  BY <1>1, SharedInstant DEF OverlapIsSharedInstant
<1>3. QED
  BY <1>1, <1>2 DEF Apart

\* The walk over the map in GetFlagAt (memory_repository.go:52) meets at most
\* one candidate, in whatever order it goes.
THEOREM UniqueAnswer == Spec => []AnswerIsUnique
<1>1. ASSUME IInv, NEW n \in Names, NEW t \in Instants
      PROVE  Cardinality(GetFlagAt(n, t)) =< 1
  <2>1. /\ Apart(flags)
        /\ \A k \in DOMAIN flags : flags[k].range \in TimeRange
    BY <1>1 DEF IInv, NoOverlap, TypeOK, FeatureFlag
  <2>2. GetFlagAt(n, t) \subseteq Holders(flags, n, t)
    BY DEF GetFlagAt, Holders
  <2>3. \A i, j \in GetFlagAt(n, t) : i = j
    BY <2>1, <2>2, OneHolder
  <2>4. CASE GetFlagAt(n, t) = {}
    BY <2>4, FS_EmptySet
  <2>5. CASE GetFlagAt(n, t) # {}
    <3>1. PICK i : GetFlagAt(n, t) = {i}
      BY <2>3, <2>5
    <3>2. Cardinality({i}) = 1
      BY FS_Singleton
    <3>3. Cardinality(GetFlagAt(n, t)) = 1
      BY <3>1, <3>2, Zenon
    <3>4. QED
      BY <3>3
  <2>6. QED
    BY <2>4, <2>5
<1>2. IInv => AnswerIsUnique
  BY <1>1 DEF AnswerIsUnique
<1>3. QED
  BY <1>2, Invariance, PTL

\* Deactivating a range never costs it its place (memory_repository.go:208).
THEOREM NeverBlocked == Spec => []ActivationNeverBlocked
<1>1. IInv => ActivationNeverBlocked
  <2> SUFFICES ASSUME IInv, NEW id \in DOMAIN flags
               PROVE  ActivateError(id) = "nil"
    BY DEF ActivationNeverBlocked
  <2>1. ~checkActiveOverlapLocked(flags[id].name, flags[id].range, id)
    BY DEF IInv, NoOverlap, Apart, checkActiveOverlapLocked, SameFlagOverlaps
  <2>2. QED
    BY <2>1 DEF ActivateError
<1>2. QED
  BY <1>1, Invariance, PTL

\* Only the next id can come into being (memory_repository.go:143).
THEOREM DeletedStaysDeleted == Spec => NoResurrection
<1>1. [Next]_vars => [DOMAIN flags' \ DOMAIN flags \subseteq {nextID}]_vars
  <2> SUFFICES ASSUME Next PROVE DOMAIN flags' \ DOMAIN flags \subseteq {nextID}
    OBVIOUS
  <2>1. ASSUME NEW b \in Bodies(Targets), UpdateFlag(b)
        PROVE  DOMAIN flags' = DOMAIN flags
    BY <2>1, Accepted DEF UpdateFlag, Put
  <2>2. ASSUME \/ \E error \in Refusals : RejectUpsert(error)
               \/ \E b \in Bodies(Targets) : InsertFlag(b)
        PROVE  DOMAIN flags' \ DOMAIN flags \subseteq {nextID}
    BY <2>2 DEF RejectUpsert, InsertFlag, Put
  <2>3. ASSUME NEW id, \/ DeleteFlag(id) \/ ActivateFlag(id) \/ DeactivateFlag(id)
                       \/ \E c \in Clients : GetFlagByID(c, id)
        PROVE  DOMAIN flags' \subseteq DOMAIN flags
    BY <2>3 DEF DeleteFlag, ActivateFlag, DeactivateFlag, GetFlagByID
  <2>4. QED
    BY <2>1, <2>2, <2>3 DEF Next
<1>2. QED
  BY <1>1, PTL DEF Spec, NoResurrection

\* The check on UpdatedAt (memory_repository.go:149) keeps an update from
\* overwriting an edit its author has not seen.
THEOREM EditsAreNotLost == Spec => NoLostEdit
<1> DEFINE A == \A c \in Clients : UpdateFromCopy(c) =>
                  flags[copy[c].id] = [copy[c] EXCEPT !.active = flags[copy[c].id].active]
<1>1. IInv => A
  <2> SUFFICES ASSUME IInv, NEW c \in Clients, UpdateFromCopy(c)
               PROVE  flags[copy[c].id] = [copy[c] EXCEPT !.active = flags[copy[c].id].active]
    OBVIOUS
  <2> DEFINE id == copy[c].id
  <2>1. copy[c] # NoCopy /\ copy[c] \in FeatureFlag
    BY DEF UpdateFromCopy, IInv, TypeOK
  <2>2. id > 0 /\ copy[c].updatedAt # ZeroTime
    BY <2>1, ClockAssumption DEF FeatureFlag, ZeroTime
  <2>3. PICK b : UpdateFlag(b) /\ b.id = id /\ b.updatedAt = copy[c].updatedAt
    BY DEF UpdateFromCopy, Body
  <2>4. id \in DOMAIN flags /\ flags[id].updatedAt = copy[c].updatedAt
    BY <2>2, <2>3, Accepted DEF UpdateFlag
  <2>5. SameButActive(flags[id], copy[c])
    BY <2>1, <2>4 DEF IInv, CopyFits
  <2>6. flags[id] \in FeatureFlag
    BY <2>4 DEF IInv, TypeOK
  <2>7. QED
    BY <2>1, <2>4, <2>5, <2>6 DEF SameButActive, FeatureFlag
<1>2. QED
  BY <1>1, Invariance, PTL DEF NoLostEdit

-----------------------------------------------------------------------------
(* The store implements the calendar.                                      *)

\* What the mapping needs of a map of ranges.
Sound(f) ==
    /\ Apart(f) /\ DOMAIN f \subseteq Nat \ {0}
    /\ \A k \in DOMAIN f : f[k].range \in TimeRange /\ f[k].name \in Names

InstantsOf(r) == {t \in Instants : IsValidInRange(t, r)}

LEMMA IInvSound == IInv => Sound(flags)
<1> SUFFICES ASSUME IInv PROVE Sound(flags)
  OBVIOUS
<1>1. DOMAIN flags \subseteq 1..MaxClock /\ flags \in [DOMAIN flags -> FeatureFlag]
  BY DEF IInv, TypeOK
<1>2. \A k \in DOMAIN flags : flags[k].range \in TimeRange /\ flags[k].name \in Names
  BY <1>1 DEF FeatureFlag
<1>3. DOMAIN flags \subseteq Nat \ {0}
  BY <1>1, ClockAssumption
<1>4. QED
  BY <1>2, <1>3 DEF IInv, NoOverlap, Sound

\* The owner of an instant is the range valid in it, 0 if there is none.
LEMMA OwnerIsHolder ==
    ASSUME NEW f, Sound(f), NEW n \in Names, NEW t \in Instants
    PROVE  /\ OwnerIn(f)[n][t] \in DOMAIN f \cup {0}
           /\ \A i \in DOMAIN f : OwnerIn(f)[n][t] = i <=> i \in Holders(f, n, t)
           /\ OwnerIn(f)[n][t] = 0 <=> Holders(f, n, t) = {}
<1> DEFINE H == Holders(f, n, t)
           o == OwnerIn(f)[n][t]
<1>1. o = IF H = {} THEN 0 ELSE CHOOSE i \in H : TRUE
  BY DEF OwnerIn, Owners
<1>2. H \subseteq DOMAIN f /\ 0 \notin H
  BY DEF Holders, Sound
<1>3. \A i, j \in H : i = j
  BY OneHolder DEF Sound
<1> HIDE DEF o, H
<1>4. CASE H = {}
  BY <1>1, <1>2, <1>4 DEF Sound, o, H
<1>5. CASE H # {}
  <2>1. o \in H
    BY <1>1, <1>5
  <2>2. QED
    BY <1>2, <1>3, <1>5, <2>1 DEF o, H
<1>6. QED
  BY <1>4, <1>5

\* The owners after a row has been written under id.
LEMMA OwnerAfterPut ==
    ASSUME NEW f, Sound(f), NEW id, NEW row,
           NEW g, g = [i \in DOMAIN f \cup {id} |-> IF i = id THEN row ELSE f[i]], Sound(g)
    PROVE  \A m \in Names, t \in Instants :
              OwnerIn(g)[m][t] =
                 IF m = row.name /\ t \in InstantsOf(row.range) THEN id
                 ELSE IF OwnerIn(f)[m][t] = id THEN 0 ELSE OwnerIn(f)[m][t]
<1> SUFFICES ASSUME NEW m \in Names, NEW t \in Instants
             PROVE  OwnerIn(g)[m][t] =
                      IF m = row.name /\ t \in InstantsOf(row.range) THEN id
                      ELSE IF OwnerIn(f)[m][t] = id THEN 0 ELSE OwnerIn(f)[m][t]
  OBVIOUS
<1>1. DOMAIN g = DOMAIN f \cup {id} /\ g[id] = row /\ \A i \in DOMAIN f \ {id} : g[i] = f[i]
  OBVIOUS
<1>2. CASE m = row.name /\ t \in InstantsOf(row.range)
  <2>1. id \in Holders(g, m, t)
    BY <1>1, <1>2 DEF Holders, InstantsOf
  <2>2. OwnerIn(g)[m][t] = id
    BY <1>1, <2>1, OwnerIsHolder
  <2>3. QED
    BY <1>2, <2>2
<1>3. CASE ~(m = row.name /\ t \in InstantsOf(row.range))
  <2>1. Holders(g, m, t) = Holders(f, m, t) \ {id}
    BY <1>1, <1>3 DEF Holders, InstantsOf
  <2>2. CASE Holders(g, m, t) = {}
    <3>1. OwnerIn(g)[m][t] = 0
      BY <2>2, OwnerIsHolder
    <3>2. Holders(f, m, t) \subseteq {id}
      BY <2>1, <2>2
    <3>3. OwnerIn(f)[m][t] \in {0, id}
      BY <3>2, OwnerIsHolder
    <3>4. QED
      BY <1>3, <3>1, <3>3
  <2>3. CASE Holders(g, m, t) # {}
    <3>1. PICK j \in Holders(g, m, t) : TRUE
      BY <2>3
    <3>2. j \in DOMAIN g /\ j \in DOMAIN f /\ j # id /\ j \in Holders(f, m, t)
      BY <2>1 DEF Holders
    <3>3. OwnerIn(g)[m][t] = j /\ OwnerIn(f)[m][t] = j
      BY <3>1, <3>2, OwnerIsHolder
    <3>4. QED
      BY <1>3, <3>2, <3>3
  <2>4. QED
    BY <2>2, <2>3
<1>4. QED
  BY <1>2, <1>3

\* The owners after the row under id has been taken away.
LEMMA OwnerAfterDelete ==
    ASSUME NEW f, Sound(f), NEW id,
           NEW g, g = [i \in DOMAIN f \ {id} |-> f[i]], Sound(g)
    PROVE  \A m \in Names, t \in Instants :
              OwnerIn(g)[m][t] = IF OwnerIn(f)[m][t] = id THEN 0 ELSE OwnerIn(f)[m][t]
<1> SUFFICES ASSUME NEW m \in Names, NEW t \in Instants
             PROVE  OwnerIn(g)[m][t] =
                      IF OwnerIn(f)[m][t] = id THEN 0 ELSE OwnerIn(f)[m][t]
  OBVIOUS
<1>1. Holders(g, m, t) = Holders(f, m, t) \ {id}
  BY DEF Holders
<1>2. CASE Holders(g, m, t) = {}
  <2>1. OwnerIn(g)[m][t] = 0
    BY <1>2 DEF OwnerIn, Owners
  <2>2. Holders(f, m, t) \subseteq {id}
    BY <1>1, <1>2
  <2>3. OwnerIn(f)[m][t] \in {0, id}
    BY <2>2, OwnerIsHolder
  <2>4. QED
    BY <2>1, <2>3
<1>3. CASE Holders(g, m, t) # {}
  <2>1. PICK j \in Holders(g, m, t) : TRUE
    BY <1>3
  <2>2. j \in DOMAIN g /\ j \in DOMAIN f /\ j # id /\ j \in Holders(f, m, t)
    BY <1>1 DEF Holders
  <2>3. OwnerIn(g)[m][t] = j /\ OwnerIn(f)[m][t] = j
    BY <2>1, <2>2, OwnerIsHolder
  <2>4. QED
    BY <2>2, <2>3
<1>4. QED
  BY <1>2, <1>3

\* Owners depend on names and ranges only.
LEMMA OwnerUnmoved ==
    ASSUME NEW f, NEW g, Sound(f), Sound(g), DOMAIN g = DOMAIN f,
           \A i \in DOMAIN f : g[i].name = f[i].name /\ g[i].range = f[i].range
    PROVE  OwnerIn(g) = OwnerIn(f)
<1>1. ASSUME NEW n \in Names, NEW t \in Instants
      PROVE  OwnerIn(g)[n][t] = OwnerIn(f)[n][t]
  <2>1. Holders(g, n, t) = Holders(f, n, t)
    BY DEF Holders
  <2>2. QED
    BY <2>1, OwnerIsHolder
<1>2. QED
  BY <1>1 DEF OwnerIn, Owners

\* The instants of a validated range are an interval of the calendar.
LEMMA RangeIsInterval ==
    ASSUME NEW r \in TimeRange
    PROVE  InstantsOf(r) \in Calendar!Intervals
<1>1. /\ r.from \in Instants /\ r.from \in Nat
      /\ r.to = NoEnd \/ (r.to \in Nat /\ r.from < r.to)
  BY RangeEnds
<1>2. r.from \in InstantsOf(r)
  BY <1>1 DEF InstantsOf, IsValidInRange, BeforeEnd
<1>3. ASSUME NEW x \in InstantsOf(r), NEW y \in InstantsOf(r), NEW t \in Instants,
             x =< t, t =< y
      PROVE  t \in InstantsOf(r)
  <2>1. x \in Nat /\ y \in Nat /\ t \in Nat
    BY InstantsAssumption DEF InstantsOf
  <2>2. QED
    BY <1>1, <1>3, <2>1 DEF InstantsOf, IsValidInRange, BeforeEnd
<1>4. QED
  BY <1>2, <1>3 DEF Calendar!Intervals, InstantsOf

\* A validated range that overlaps no other range of its flag finds its
\* instants free, or its own.
LEMMA RoomOnCalendar ==
    ASSUME NEW f, Sound(f), NEW id, NEW n \in Names, NEW r \in TimeRange,
           \A i \in DOMAIN f \ {id} : f[i].name = n => ~RangesOverlap(r, f[i].range)
    PROVE  \A t \in InstantsOf(r) : OwnerIn(f)[n][t] \in {0, id}
<1> SUFFICES ASSUME NEW t \in InstantsOf(r), OwnerIn(f)[n][t] \notin {0, id}
             PROVE  FALSE
  OBVIOUS
<1> DEFINE j == OwnerIn(f)[n][t]
<1>1. t \in Instants /\ IsValidInRange(t, r)
  BY DEF InstantsOf
<1>2. j \in DOMAIN f /\ j \in Holders(f, n, t) /\ j # id
  BY <1>1, OwnerIsHolder
<1>3. f[j].name = n /\ IsValidInRange(t, f[j].range) /\ f[j].range \in TimeRange
  BY <1>2 DEF Holders, Sound
<1>4. RangesOverlap(r, f[j].range)
  BY <1>1, <1>3, SharedInstant DEF OverlapIsSharedInstant
<1>5. QED
  BY <1>2, <1>3, <1>4

\* A stored range owns the instant it starts at.
LEMMA StoredOwns ==
    ASSUME NEW id \in DOMAIN flags, Sound(flags)
    PROVE  Calendar!Owns(id)
<1>1. flags[id].range \in TimeRange /\ flags[id].name \in Names
  BY DEF Sound
<1> DEFINE n == flags[id].name
           t == flags[id].range.from
<1>2. /\ t \in Instants /\ t \in Nat
      /\ flags[id].range.to = NoEnd \/ (flags[id].range.to \in Nat /\ t < flags[id].range.to)
  BY <1>1, RangeEnds
<1>3. IsValidInRange(t, flags[id].range)
  BY <1>2 DEF IsValidInRange, BeforeEnd
<1>4. id \in Holders(flags, n, t)
  BY <1>3 DEF Holders
<1>5. Owner[n][t] = id
  BY <1>1, <1>2, <1>4, OwnerIsHolder DEF Owner
<1>6. QED
  BY <1>1, <1>2, <1>5 DEF Calendar!Owns

LEMMA InitIsCalendarInit == Init => Calendar!Init
<1> SUFFICES ASSUME Init PROVE Calendar!Init
  OBVIOUS
<1>1. DOMAIN flags = {} /\ nextID = 1
  BY DEF Init
<1>2. \A n, t : Holders(flags, n, t) = {}
  BY <1>1 DEF Holders
<1>3. Owner = [n \in Names |-> [t \in Instants |-> 0]]
  BY <1>2 DEF Owner, OwnerIn, Owners
<1>4. Shown = {} /\ 1..(nextID - 1) = {}
  BY <1>1 DEF Shown, ShownOf
<1>5. QED
  BY <1>3, <1>4 DEF Calendar!Init

\* Creating a range books free instants under the next id.
LEMMA InsertIsBook ==
    ASSUME IInv, Sound(flags), Sound(flags'), NEW b \in Bodies(Targets), InsertFlag(b)
    PROVE  Calendar!Next
<1> DEFINE row == Stored(b, nextID, clock + 1, clock + 1)
           I == InstantsOf(b.range)
<1>a. /\ b.name \in Names /\ b.range \in RequestRange
  BY BodyType DEF IInv
<1>b. /\ ValidateTemporalRange(b.range)
      /\ \A i \in DOMAIN flags \ {b.id} :
            flags[i].name = b.name => ~RangesOverlap(b.range, flags[i].range)
  BY Accepted DEF InsertFlag
<1>c. /\ flags' = [i \in DOMAIN flags \cup {nextID} |-> IF i = nextID THEN row ELSE flags[i]]
      /\ nextID' = nextID + 1 /\ clock < MaxClock /\ b.id = 0
  BY DEF InsertFlag, Put
<1>d. /\ nextID \in Nat /\ nextID >= 1 /\ nextID =< MaxClock
      /\ nextID \notin DOMAIN flags /\ 0 \notin DOMAIN flags
  BY <1>c, ClockAssumption DEF IInv, TypeOK, StoredOK
<1>e. b.range \in TimeRange
  BY <1>a, <1>b DEF TimeRange
<1>f. row.name = b.name /\ row.range = b.range /\ row.active = TRUE
  BY <1>c DEF Stored
<1>1. I \in Calendar!Intervals
  BY <1>e, RangeIsInterval
<1>2. \A t \in I : Owner[b.name][t] = 0
  <2>1. \A i \in DOMAIN flags \ {0} :
            flags[i].name = b.name => ~RangesOverlap(b.range, flags[i].range)
    BY <1>b, <1>c
  <2>2. QED
    BY <1>a, <1>e, <2>1, RoomOnCalendar DEF Owner
<1> HIDE DEF row
<1>3. Owner' = [m \in Names |-> [t \in Instants |->
                  IF m = b.name /\ t \in I THEN nextID
                  ELSE IF Owner[m][t] = nextID THEN 0 ELSE Owner[m][t]]]
  <2>1. \A m \in Names, t \in Instants :
           OwnerIn(flags')[m][t] =
              IF m = row.name /\ t \in InstantsOf(row.range) THEN nextID
              ELSE IF OwnerIn(flags)[m][t] = nextID THEN 0 ELSE OwnerIn(flags)[m][t]
    BY <1>c, OwnerAfterPut
  <2>2. \A m \in Names, t \in Instants :
           Owner'[m][t] = IF m = b.name /\ t \in I THEN nextID
                          ELSE IF Owner[m][t] = nextID THEN 0 ELSE Owner[m][t]
    BY <1>f, <2>1 DEF Owner
  <2>3. QED
    BY <2>2 DEF Owner, OwnerIn, Owners
<1>4. Shown' = Shown \cup {nextID}
  BY <1>c, <1>d, <1>f DEF Shown, ShownOf
<1>5. 1..(nextID' - 1) = 1..(nextID - 1) \cup {nextID} /\ nextID \notin 1..(nextID - 1)
  BY <1>c, <1>d
<1>6. Calendar!Book(nextID, b.name, I)
  BY <1>2, <1>3, <1>4, <1>5 DEF Calendar!Book, Calendar!Assign
<1>7. nextID \in 1..MaxClock
  BY <1>d, ClockAssumption
<1>8. QED
  BY <1>a, <1>1, <1>6, <1>7 DEF Calendar!Next

\* Updating a range moves it to instants that are free or its own, and shows
\* or hides it.
LEMMA UpdateIsRebook ==
    ASSUME IInv, Sound(flags), Sound(flags'), NEW b \in Bodies(Targets), UpdateFlag(b)
    PROVE  Calendar!Next
<1> DEFINE row == Stored(b, b.id, flags[b.id].createdAt, clock + 1)
           I == InstantsOf(b.range)
<1>a. /\ b.name \in Names /\ b.range \in RequestRange /\ b.active \in BOOLEAN
  BY BodyType DEF IInv
<1>b. /\ ValidateTemporalRange(b.range)
      /\ \A i \in DOMAIN flags \ {b.id} :
            flags[i].name = b.name => ~RangesOverlap(b.range, flags[i].range)
      /\ b.id = 0 \/ b.id \in DOMAIN flags
  BY Accepted DEF UpdateFlag
<1>c. /\ flags' = [i \in DOMAIN flags \cup {b.id} |-> IF i = b.id THEN row ELSE flags[i]]
      /\ nextID' = nextID /\ b.id > 0
  BY DEF UpdateFlag, Put
<1>d. b.id \in DOMAIN flags /\ b.id \in 1..MaxClock /\ b.id # 0
  BY <1>b, <1>c, ClockAssumption DEF IInv, TypeOK
<1>e. b.range \in TimeRange
  BY <1>a, <1>b DEF TimeRange
<1>f. row.name = b.name /\ row.range = b.range /\ row.active = b.active
  BY <1>a, <1>d DEF Stored
<1>1. I \in Calendar!Intervals
  BY <1>e, RangeIsInterval
<1>2. \A t \in I : Owner[b.name][t] \in {0, b.id}
  BY <1>a, <1>b, <1>e, RoomOnCalendar DEF Owner
<1> HIDE DEF row
<1>3. Owner' = [m \in Names |-> [t \in Instants |->
                  IF m = b.name /\ t \in I THEN b.id
                  ELSE IF Owner[m][t] = b.id THEN 0 ELSE Owner[m][t]]]
  <2>1. \A m \in Names, t \in Instants :
           OwnerIn(flags')[m][t] =
              IF m = row.name /\ t \in InstantsOf(row.range) THEN b.id
              ELSE IF OwnerIn(flags)[m][t] = b.id THEN 0 ELSE OwnerIn(flags)[m][t]
    BY <1>c, OwnerAfterPut
  <2>2. \A m \in Names, t \in Instants :
           Owner'[m][t] = IF m = b.name /\ t \in I THEN b.id
                          ELSE IF Owner[m][t] = b.id THEN 0 ELSE Owner[m][t]
    BY <1>f, <2>1 DEF Owner
  <2>3. QED
    BY <2>2 DEF Owner, OwnerIn, Owners
<1>4. Shown' \in {Shown \cup {b.id}, Shown \ {b.id}}
  <2>1. CASE b.active
    <3>1. Shown' = Shown \cup {b.id}
      BY <1>c, <1>d, <1>f, <2>1 DEF Shown, ShownOf
    <3>2. QED
      BY <3>1
  <2>2. CASE ~b.active
    <3>1. Shown' = Shown \ {b.id}
      BY <1>c, <1>d, <1>f, <2>2 DEF Shown, ShownOf
    <3>2. QED
      BY <3>1
  <2>3. QED
    BY <1>a, <2>1, <2>2
<1>5. Calendar!Owns(b.id)
  BY <1>d, StoredOwns
<1>6. Calendar!Rebook(b.id, b.name, I)
  BY <1>c, <1>2, <1>3, <1>4, <1>5 DEF Calendar!Rebook, Calendar!Assign
<1>7. QED
  BY <1>a, <1>d, <1>1, <1>6 DEF Calendar!Next

\* Deleting a range releases it; deleting what is not there changes nothing.
LEMMA DeleteIsRelease ==
    ASSUME IInv, Sound(flags), Sound(flags'), NEW id, DeleteFlag(id)
    PROVE  [Calendar!Next]_Calendar!calendarVars
<1>a. flags' = [i \in DOMAIN flags \ {id} |-> flags[i]] /\ nextID' = nextID
  BY DEF DeleteFlag
<1>1. CASE id \in DOMAIN flags
  <2>1. Owner' = [m \in Names |-> [t \in Instants |->
                     IF Owner[m][t] = id THEN 0 ELSE Owner[m][t]]]
    <3>1. \A m \in Names, t \in Instants :
             Owner'[m][t] = IF Owner[m][t] = id THEN 0 ELSE Owner[m][t]
      BY <1>a, OwnerAfterDelete DEF Owner
    <3>2. QED
      BY <3>1 DEF Owner, OwnerIn, Owners
  <2>2. Shown' = Shown \ {id}
    BY <1>a DEF Shown, ShownOf
  <2>3. Calendar!Release(id)
    BY <1>a, <1>1, <2>1, <2>2, StoredOwns DEF Calendar!Release
  <2>4. id \in 1..MaxClock
    BY <1>1 DEF IInv, TypeOK
  <2>5. QED
    BY <2>3, <2>4 DEF Calendar!Next
<1>2. CASE id \notin DOMAIN flags
  <2>1. flags' = flags
    BY <1>a, <1>2 DEF IInv, TypeOK
  <2>2. QED
    BY <1>a, <2>1 DEF Calendar!calendarVars, Owner, Shown, ShownOf
<1>3. QED
  BY <1>1, <1>2

\* A change of the active flag shows or hides a range.
LEMMA ToggleIsShowOrHide ==
    ASSUME IInv, Sound(flags), Sound(flags'), NEW id, NEW active \in BOOLEAN,
           id \in DOMAIN flags, flags' = [flags EXCEPT ![id].active = active],
           nextID' = nextID
    PROVE  Calendar!Next
<1>a. flags \in [DOMAIN flags -> FeatureFlag]
  BY DEF IInv, TypeOK
<1>b. /\ DOMAIN flags' = DOMAIN flags
      /\ \A i \in DOMAIN flags :
            /\ flags'[i].name = flags[i].name /\ flags'[i].range = flags[i].range
            /\ flags'[i].active = IF i = id THEN active ELSE flags[i].active
  <2>1. DOMAIN flags' = DOMAIN flags
    OBVIOUS
  <2>2. ASSUME NEW i \in DOMAIN flags
        PROVE  /\ flags'[i].name = flags[i].name /\ flags'[i].range = flags[i].range
               /\ flags'[i].active = IF i = id THEN active ELSE flags[i].active
    <3>1. flags[i] \in FeatureFlag
      BY <1>a
    <3>2. flags'[i] = IF i = id THEN [flags[i] EXCEPT !.active = active] ELSE flags[i]
      OBVIOUS
    <3>3. QED
      BY <3>1, <3>2 DEF FeatureFlag
  <2>3. QED
    BY <2>1, <2>2
<1>1. Owner' = Owner
  BY <1>b, OwnerUnmoved DEF Owner
<1>2. Shown' = IF active THEN Shown \cup {id} ELSE Shown \ {id}
  BY <1>b DEF Shown, ShownOf
<1>3. Shown' \in {Shown \cup {id}, Shown \ {id}}
  BY <1>2
<1>4. Calendar!ShowOrHide(id)
  BY <1>1, <1>3, StoredOwns DEF Calendar!ShowOrHide
<1>5. id \in 1..MaxClock
  BY DEF IInv, TypeOK
<1>6. QED
  BY <1>4, <1>5 DEF Calendar!Next

LEMMA NextIsCalendarNext ==
    ASSUME IInv, IInv', [Next]_vars
    PROVE  [Calendar!Next]_Calendar!calendarVars
<1>a. Sound(flags)
  BY IInvSound
<1>b. Sound(flags')
  BY DEF IInv, TypeOK, NoOverlap, Sound, FeatureFlag
<1>1. ASSUME flags' = flags, nextID' = nextID
      PROVE  [Calendar!Next]_Calendar!calendarVars
  BY <1>1 DEF Calendar!calendarVars, Owner, Shown, ShownOf
<1>2. ASSUME NEW error \in Refusals, RejectUpsert(error)
      PROVE  [Calendar!Next]_Calendar!calendarVars
  BY <1>1, <1>2 DEF RejectUpsert
<1>3. ASSUME NEW b \in Bodies(Targets), InsertFlag(b)
      PROVE  [Calendar!Next]_Calendar!calendarVars
  BY <1>a, <1>b, <1>3, InsertIsBook
<1>4. ASSUME NEW b \in Bodies(Targets), UpdateFlag(b)
      PROVE  [Calendar!Next]_Calendar!calendarVars
  BY <1>a, <1>b, <1>4, UpdateIsRebook
<1>5. ASSUME NEW id, DeleteFlag(id)
      PROVE  [Calendar!Next]_Calendar!calendarVars
  BY <1>a, <1>b, <1>5, DeleteIsRelease
<1>6. ASSUME NEW id, ActivateFlag(id)
      PROVE  [Calendar!Next]_Calendar!calendarVars
  <2>1. /\ nextID' = nextID
        /\ flags' = flags \/ (id \in DOMAIN flags /\ flags' = [flags EXCEPT ![id].active = TRUE])
    BY <1>6 DEF ActivateFlag, ActivateError
  <2>2. QED
    BY <1>a, <1>b, <1>1, <2>1, ToggleIsShowOrHide
<1>7. ASSUME NEW id, DeactivateFlag(id)
      PROVE  [Calendar!Next]_Calendar!calendarVars
  <2>1. /\ nextID' = nextID
        /\ flags' = flags \/ (id \in DOMAIN flags /\ flags' = [flags EXCEPT ![id].active = FALSE])
    BY <1>7 DEF DeactivateFlag
  <2>2. QED
    BY <1>a, <1>b, <1>1, <2>1, ToggleIsShowOrHide
<1>8. ASSUME NEW c, NEW id, GetFlagByID(c, id)
      PROVE  [Calendar!Next]_Calendar!calendarVars
  BY <1>1, <1>8 DEF GetFlagByID
<1>9. CASE UNCHANGED vars
  BY <1>1, <1>9 DEF vars
<1>10. QED
  BY <1>2, <1>3, <1>4, <1>5, <1>6, <1>7, <1>8, <1>9 DEF Next

\* The in-memory store (memory_repository.go) implements FlagCalendar: every
\* call books, moves, releases, shows or hides one range, or changes nothing.
THEOREM StoreIsCalendar == Spec => ImplementsCalendar
<1>1. Init => Calendar!Init
  BY InitIsCalendarInit
<1>2. IInv /\ IInv' /\ [Next]_vars => [Calendar!Next]_Calendar!calendarVars
  BY NextIsCalendarNext
<1>3. QED
  BY <1>1, <1>2, Invariance, PTL DEF Spec, ImplementsCalendar, Calendar!Spec
=============================================================================
