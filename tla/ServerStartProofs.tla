------------------------- MODULE ServerStartProofs -------------------------
(***************************************************************************)
(* The safety properties of ServerStart, for any number of replicas and of *)
(* scripts, and however often replicas crash.  The strengthening says what *)
(* the holder of the lock knows at each of its places, and that the        *)
(* scripts applied are always those up to the version, or all but that.    *)
(***************************************************************************)
EXTENDS ServerStart, TLAPS

\* The lock is held by the replica that migrates.
LockInv == \A r \in Replicas : pc[r] \in Migrating <=> lock = r

\* The scripts applied are the first ones; the version is behind them by none,
\* or by the script that it was marked dirty for.
AppliedInv ==
    /\ CleanIsTrue
    /\ dirty => version # 0 /\ applied \in {1..version, 1..(version - 1)}

\* What the holder of the lock found and did.
HolderInv ==
    \A r \in Replicas :
        /\ At(r, "mark") => ~dirty /\ version # Scripts
        /\ At(r, "script") => dirty /\ applied = 1..(version - 1)
        /\ At(r, "clean") => dirty /\ applied = 1..version

\* Who is past the first look for a user has found the table of the last script.
PastTable ==
    \A r \in Replicas :
        pc[r] \in {"create admin", "find user", "create user", "listen", "serving"} => HasAuthUsers

IInv == TypeOK /\ LockInv /\ AppliedInv /\ HolderInv /\ PastTable

Guarded == {"create admin", "find user", "create user", "listen", "serving"}

-----------------------------------------------------------------------------

\* The initial states satisfy the strengthening.
LEMMA InitIInv == Init => IInv
<1>. SUFFICES ASSUME Init PROVE IInv
    OBVIOUS
<1>1. TypeOK
    <2>1. "down" \in Places
        BY DEF Places
    <2>2. version \in 0..Scripts /\ applied \subseteq 1..Scripts /\ users \subseteq {Admin, User}
          /\ faults \in 0..MaxFaults /\ signals \in 0..MaxSignals /\ deletes \in 0..MaxDeletes
        BY ScriptsAssumption, BoundsAssumption DEF Init
    <2>3. dirty \in BOOLEAN /\ lock \in Replicas \cup {Nobody} /\ pc \in [Replicas -> Places]
          /\ told \in [Replicas -> BOOLEAN]
        BY <2>1 DEF Init
    <2>. QED BY <2>2, <2>3 DEF TypeOK
<1>2. LockInv
    BY NobodyAssumption DEF Init, LockInv, Migrating
<1>3. AppliedInv
    <2>1. 1..0 = {}
        OBVIOUS
    <2>. QED BY <2>1 DEF Init, AppliedInv, CleanIsTrue
<1>4. HolderInv /\ PastTable
    BY DEF Init, HolderInv, PastTable, At
<1>. QED BY <1>1, <1>2, <1>3, <1>4 DEF IInv

\* The last script is there only with all the others: the ranges are proper.
LEMMA WholeSchema == IInv /\ HasAuthUsers => applied = 1..Scripts
<1>. SUFFICES ASSUME IInv, HasAuthUsers PROVE applied = 1..Scripts
    OBVIOUS
<1>1. version \in 0..Scripts /\ Scripts \in Nat \ {0} /\ Scripts \in applied
    BY ScriptsAssumption DEF IInv, TypeOK, HasAuthUsers
<1>2. applied = 1..version \/ (version # 0 /\ applied = 1..(version - 1))
    BY DEF IInv, AppliedInv, CleanIsTrue
<1>. QED BY <1>1, <1>2

\* A step of one replica that leaves the database as it is, and takes or gives
\* the lock as it should.
LEMMA MoveKeepsIInv ==
    ASSUME IInv, NEW r \in Replicas, NEW p \in Places, pc' = [pc EXCEPT ![r] = p],
           UNCHANGED <<version, dirty, applied>>, users' \subseteq {Admin, User},
           told' \in [Replicas -> BOOLEAN],
           faults' \in 0..MaxFaults, signals' \in 0..MaxSignals, deletes' \in 0..MaxDeletes,
           \/ lock' = lock /\ (p \in Migrating <=> pc[r] \in Migrating)
           \/ lock = Nobody /\ lock' = r /\ p \in Migrating
           \/ lock = r /\ lock' = Nobody /\ p \notin Migrating,
           p = "mark" => ~dirty /\ version # Scripts,
           p \notin {"script", "clean"},
           p \in Guarded => HasAuthUsers
    PROVE  IInv'
<1>1. TypeOK'
    <2>1. lock' \in Replicas \cup {Nobody} /\ pc' \in [Replicas -> Places]
        BY DEF IInv, TypeOK
    <2>. QED BY <2>1 DEF IInv, TypeOK
<1>2. LockInv'
    BY NobodyAssumption DEF IInv, TypeOK, LockInv
<1>3. AppliedInv'
    BY DEF IInv, AppliedInv, CleanIsTrue
<1>4. HolderInv'
    BY DEF IInv, TypeOK, HolderInv, At
<1>5. PastTable'
    BY DEF IInv, TypeOK, PastTable, HasAuthUsers, Guarded
<1>. QED BY <1>1, <1>2, <1>3, <1>4, <1>5 DEF IInv

\* Who the users are, and what is counted, is of no account.
LEMMA SameKeepsIInv ==
    ASSUME IInv, TypeOK', UNCHANGED <<version, dirty, applied, lock, pc>>
    PROVE  IInv'
<1>1. LockInv' /\ AppliedInv'
    BY DEF IInv, LockInv, AppliedInv, CleanIsTrue
<1>2. HolderInv' /\ PastTable'
    BY DEF IInv, HolderInv, PastTable, HasAuthUsers, At
<1>. QED BY <1>1, <1>2 DEF IInv

\* The end of a process.
LEMMA ExitKeepsIInv ==
    ASSUME IInv, NEW r \in Replicas, Exit(r),
           UNCHANGED <<version, dirty, applied>>, users' \subseteq {Admin, User},
           faults' \in 0..MaxFaults, signals' \in 0..MaxSignals, deletes' \in 0..MaxDeletes
    PROVE  IInv'
<1>1. "down" \in Places /\ "down" \notin Migrating
    BY DEF Places, Migrating
<1>2. told' \in [Replicas -> BOOLEAN]
    BY DEF Exit, IInv, TypeOK
<1>3. \/ lock' = lock /\ ("down" \in Migrating <=> pc[r] \in Migrating)
      \/ lock = r /\ lock' = Nobody /\ "down" \notin Migrating
    BY <1>1 DEF Exit, IInv, LockInv
<1>. QED BY <1>1, <1>2, <1>3, MoveKeepsIInv DEF Exit, Goto, Guarded

\* A step of the holder of the lock that changes version or scripts.
LEMMA MarkKeepsIInv == ASSUME IInv, NEW r \in Replicas, MarkDirty(r) PROVE IInv'
<1>1. /\ pc[r] = "mark" /\ lock = r /\ ~dirty /\ version # Scripts /\ applied = 1..version
      /\ version \in 0..Scripts /\ Scripts \in Nat
    BY ScriptsAssumption
       DEF MarkDirty, At, Goto, IInv, TypeOK, LockInv, AppliedInv, HolderInv, CleanIsTrue, Migrating
<1>2. version' = version + 1 /\ dirty' /\ applied' = 1..(version' - 1) /\ version' \in 1..Scripts
    BY <1>1 DEF MarkDirty
<1>3. TypeOK'
    <2>1. "script" \in Places
        BY DEF Places, Migrating
    <2>2. pc' \in [Replicas -> Places] /\ dirty' \in BOOLEAN
        BY <2>1 DEF MarkDirty, Goto, IInv, TypeOK
    <2>. QED BY <1>2, <2>2 DEF MarkDirty, IInv, TypeOK, counts
<1>4. LockInv'
    BY <1>1 DEF MarkDirty, Goto, IInv, TypeOK, LockInv, Migrating
<1>5. AppliedInv'
    BY <1>2 DEF AppliedInv, CleanIsTrue
<1>6. HolderInv'
    BY <1>1, <1>2 DEF MarkDirty, At, Goto, IInv, TypeOK, LockInv, HolderInv, Migrating
<1>7. PastTable'
    BY DEF MarkDirty, At, Goto, IInv, TypeOK, PastTable, HasAuthUsers
<1>. QED BY <1>3, <1>4, <1>5, <1>6, <1>7 DEF IInv

LEMMA ScriptKeepsIInv == ASSUME IInv, NEW r \in Replicas, RunScript(r) PROVE IInv'
<1>1. /\ pc[r] = "script" /\ lock = r /\ dirty /\ applied = 1..(version - 1)
      /\ version \in 1..Scripts /\ Scripts \in Nat
    BY ScriptsAssumption
       DEF RunScript, At, Goto, IInv, TypeOK, LockInv, AppliedInv, HolderInv, Migrating
<1>2. applied' = 1..version /\ UNCHANGED <<version, dirty>>
    BY <1>1 DEF RunScript
<1>3. TypeOK'
    BY <1>1, <1>2 DEF RunScript, Goto, IInv, TypeOK, counts, Places, Migrating
<1>4. LockInv'
    BY <1>1 DEF RunScript, Goto, IInv, TypeOK, LockInv, Migrating
<1>5. AppliedInv'
    BY <1>1, <1>2 DEF AppliedInv, CleanIsTrue
<1>6. HolderInv'
    BY <1>1, <1>2 DEF RunScript, At, Goto, IInv, TypeOK, LockInv, HolderInv, Migrating
<1>7. PastTable'
    BY DEF RunScript, At, Goto, IInv, TypeOK, PastTable, HasAuthUsers
<1>. QED BY <1>3, <1>4, <1>5, <1>6, <1>7 DEF IInv

LEMMA CleanKeepsIInv == ASSUME IInv, NEW r \in Replicas, SetClean(r) PROVE IInv'
<1>1. pc[r] = "clean" /\ lock = r /\ applied = 1..version
    BY DEF SetClean, At, Goto, IInv, TypeOK, LockInv, HolderInv, Migrating
<1>2. dirty' = FALSE /\ UNCHANGED <<version, applied>>
    BY DEF SetClean
<1>3. TypeOK'
    BY <1>2 DEF SetClean, Goto, IInv, TypeOK, counts, Places, Migrating
<1>4. LockInv'
    BY <1>1 DEF SetClean, Goto, IInv, TypeOK, LockInv, Migrating
<1>5. AppliedInv'
    BY <1>1, <1>2 DEF AppliedInv, CleanIsTrue
<1>6. HolderInv'
    BY <1>1, <1>2 DEF SetClean, At, Goto, IInv, TypeOK, LockInv, HolderInv, Migrating
<1>7. PastTable'
    BY DEF SetClean, At, Goto, IInv, TypeOK, PastTable, HasAuthUsers
<1>. QED BY <1>3, <1>4, <1>5, <1>6, <1>7 DEF IInv

\* The two halves of EnsureUser, whichever the user.
LEMMA FindKeepsIInv ==
    ASSUME IInv, NEW r \in Replicas, NEW name, NEW find, NEW create, NEW next,
           find \notin Migrating, create \in {"create admin", "create user"},
           next \in {"find user", "listen"}, FindUser(r, name, find, create, next)
    PROVE  IInv'
<1>1. /\ UNCHANGED <<version, dirty, applied, users, faults, signals, deletes>>
      /\ users' \subseteq {Admin, User} /\ pc[r] \notin Migrating
      /\ faults' \in 0..MaxFaults /\ signals' \in 0..MaxSignals /\ deletes' \in 0..MaxDeletes
    BY DEF FindUser, At, database, counts, IInv, TypeOK
<1>2. CASE ~HasAuthUsers
    BY <1>1, <1>2, ExitKeepsIInv DEF FindUser
<1>3. CASE HasAuthUsers
    <2>. DEFINE p == IF name \in users THEN next ELSE create
    <2>1. pc' = [pc EXCEPT ![r] = p] /\ UNCHANGED <<lock, told>>
        BY <1>3 DEF FindUser, Goto
    <2>2. p \in Places /\ p \notin Migrating /\ p \notin {"mark", "script", "clean"}
        BY DEF Places, Migrating
    <2>3. told' \in [Replicas -> BOOLEAN]
        BY <2>1 DEF IInv, TypeOK
    <2>. HIDE DEF p
    <2>. QED BY <1>1, <1>3, <2>1, <2>2, <2>3, MoveKeepsIInv
<1>. QED BY <1>2, <1>3

LEMMA CreateKeepsIInv ==
    ASSUME IInv, NEW r \in Replicas, NEW name, NEW create, NEW next,
           users' \subseteq {Admin, User},
           create \in {"create admin", "create user"}, next \in {"find user", "listen"},
           CreateUser(r, name, create, next)
    PROVE  IInv'
<1>1. /\ UNCHANGED <<version, dirty, applied, faults, signals, deletes>>
      /\ users' \subseteq {Admin, User} /\ pc[r] = create /\ pc[r] \notin Migrating
      /\ faults' \in 0..MaxFaults /\ signals' \in 0..MaxSignals /\ deletes' \in 0..MaxDeletes
    BY DEF CreateUser, At, counts, IInv, TypeOK, Migrating
<1>2. CASE name \in users
    BY <1>1, <1>2, ExitKeepsIInv DEF CreateUser
<1>3. CASE name \notin users
    <2>1. pc' = [pc EXCEPT ![r] = next] /\ UNCHANGED <<lock, told>>
        BY <1>3 DEF CreateUser, Goto
    <2>2. next \in Places /\ next \notin Migrating /\ next \notin {"mark", "script", "clean"}
        BY DEF Places, Migrating
    <2>3. told' \in [Replicas -> BOOLEAN]
        BY <2>1 DEF IInv, TypeOK
    <2>4. HasAuthUsers
        BY <1>1 DEF IInv, PastTable
    <2>. QED BY <1>1, <2>1, <2>2, <2>3, <2>4, MoveKeepsIInv
<1>. QED BY <1>2, <1>3
-----------------------------------------------------------------------------

\* A step of a replica that is not one of the migrations.
LEMMA StepKeepsIInv ==
    ASSUME IInv, NEW r \in Replicas,
           Start(r) \/ NewPool(r) \/ EnsureUser(r) \/ Listen(r) \/ Shutdown(r)
    PROVE  IInv'
<1>1. users \subseteq {Admin, User} /\ told \in [Replicas -> BOOLEAN]
      /\ faults \in 0..MaxFaults /\ signals \in 0..MaxSignals /\ deletes \in 0..MaxDeletes
    BY DEF IInv, TypeOK
<1>2. CASE Start(r)
    <2>1. "lock" \in Places /\ "lock" \notin Migrating /\ "down" \notin Migrating
        BY DEF Places, Migrating
    <2>. QED BY <1>1, <1>2, <2>1, MoveKeepsIInv DEF Start, At, Goto, database, counts, Guarded
<1>3. CASE NewPool(r)
    <2>1. "find admin" \in Places /\ "find admin" \notin Migrating /\ "pool" \notin Migrating
        BY DEF Places, Migrating
    <2>. QED BY <1>1, <1>3, <2>1, MoveKeepsIInv DEF NewPool, At, Goto, database, counts, Guarded
<1>4. CASE Listen(r)
    <2>1. "serving" \in Places /\ "serving" \notin Migrating /\ "listen" \notin Migrating
        BY DEF Places, Migrating
    <2>2. HasAuthUsers
        BY <1>4 DEF Listen, At, IInv, PastTable
    <2>. QED BY <1>1, <1>4, <2>1, <2>2, MoveKeepsIInv DEF Listen, At, Goto, database, counts
<1>5. CASE Shutdown(r)
    BY <1>1, <1>5, ExitKeepsIInv DEF Shutdown, database, counts
<1>6. CASE EnsureUser(r)
    <2>1. "find admin" \notin Migrating /\ "find user" \notin Migrating
        BY DEF Migrating
    <2>. DEFINE next == IF User = Admin THEN "listen" ELSE "find user"
    <2>2. next \in {"find user", "listen"}
        OBVIOUS
    <2>. HIDE DEF next
    <2>3. CASE FindUser(r, Admin, "find admin", "create admin", next)
        BY <2>1, <2>2, <2>3, FindKeepsIInv
    <2>4. CASE CreateUser(r, Admin, "create admin", next)
        <3>1. users' \subseteq {Admin, User}
            BY <1>1, <2>4 DEF CreateUser
        <3>. QED BY <2>2, <2>4, <3>1, CreateKeepsIInv
    <2>5. CASE FindUser(r, User, "find user", "create user", "listen")
        BY <2>1, <2>5, FindKeepsIInv
    <2>6. CASE CreateUser(r, User, "create user", "listen")
        <3>1. users' \subseteq {Admin, User}
            BY <1>1, <2>6 DEF CreateUser
        <3>. QED BY <2>6, <3>1, CreateKeepsIInv
    <2>. QED BY <1>6, <2>3, <2>4, <2>5, <2>6 DEF EnsureUser, next
<1>. QED BY <1>2, <1>3, <1>4, <1>5, <1>6

LEMMA MigrateKeepsIInv == ASSUME IInv, NEW r \in Replicas, Migrate(r) PROVE IInv'
<1>1. users \subseteq {Admin, User} /\ told \in [Replicas -> BOOLEAN]
      /\ faults \in 0..MaxFaults /\ signals \in 0..MaxSignals /\ deletes \in 0..MaxDeletes
    BY DEF IInv, TypeOK
<1>2. /\ "version" \in Places /\ "mark" \in Places /\ "pool" \in Places
      /\ "version" \in Migrating /\ "mark" \in Migrating
      /\ "lock" \notin Migrating /\ "pool" \notin Migrating
    BY DEF Places, Migrating
<1>3. CASE Lock(r)
    BY <1>1, <1>2, <1>3, MoveKeepsIInv DEF Lock, Goto, database, counts, Guarded
<1>4. CASE LockTimesOut(r)
    BY <1>1, <1>2, <1>4, MoveKeepsIInv DEF LockTimesOut, At, Goto, database, counts, Guarded
<1>5. CASE ReadVersion(r)
    <2>1. pc[r] \in Migrating /\ lock = r
        BY <1>2, <1>5 DEF ReadVersion, At, IInv, LockInv
    <2>2. /\ UNCHANGED <<version, dirty, applied, users, told, faults, signals, deletes>>
          /\ "pool" \notin {"mark", "script", "clean"} /\ "pool" \notin Guarded
          /\ "mark" \notin {"script", "clean"} /\ "mark" \notin Guarded
        BY <1>5 DEF ReadVersion, database, counts, Guarded
    <2>3. CASE dirty \/ version = Scripts
        <3>1. lock' = Nobody /\ pc' = [pc EXCEPT ![r] = "pool"]
            BY <1>5, <2>3 DEF ReadVersion, Goto
        <3>. QED BY <1>1, <1>2, <2>1, <2>2, <3>1, MoveKeepsIInv
    <2>4. CASE ~(dirty \/ version = Scripts)
        <3>1. lock' = lock /\ pc' = [pc EXCEPT ![r] = "mark"]
            BY <1>5, <2>4 DEF ReadVersion, Goto
        <3>. QED BY <1>1, <1>2, <2>1, <2>2, <2>4, <3>1, MoveKeepsIInv
    <2>. QED BY <2>3, <2>4
<1>. QED
    BY <1>3, <1>4, <1>5, MarkKeepsIInv, ScriptKeepsIInv, CleanKeepsIInv DEF Migrate

\* Signals, failures, crashes, and the admins of a replica that serves.
LEMMA OutsideKeepsIInv ==
    ASSUME IInv, NEW r \in Replicas, Signal(r) \/ Fail(r) \/ Crash(r) \/ DeleteUser(r)
    PROVE  IInv'
<1>1. users \subseteq {Admin, User} /\ told \in [Replicas -> BOOLEAN]
      /\ faults \in 0..MaxFaults /\ signals \in 0..MaxSignals /\ deletes \in 0..MaxDeletes
    BY DEF IInv, TypeOK
<1>2. CASE Signal(r)
    <2>1. TypeOK'
        BY <1>1, <1>2, BoundsAssumption DEF Signal, database, IInv, TypeOK
    <2>2. UNCHANGED <<version, dirty, applied, lock, pc>>
        BY <1>2 DEF Signal, database
    <2>. QED BY <2>1, <2>2, SameKeepsIInv
<1>3. CASE DeleteUser(r)
    <2>1. TypeOK'
        BY <1>1, <1>3, BoundsAssumption DEF DeleteUser, IInv, TypeOK
    <2>2. UNCHANGED <<version, dirty, applied, lock, pc>>
        BY <1>3 DEF DeleteUser
    <2>. QED BY <2>1, <2>2, SameKeepsIInv
<1>4. CASE Crash(r)
    BY <1>1, <1>4, BoundsAssumption, ExitKeepsIInv DEF Crash, database
<1>5. CASE Fail(r)
    <2>1. faults' \in 0..MaxFaults /\ UNCHANGED <<version, dirty, applied, users, signals, deletes>>
        BY <1>1, <1>5, BoundsAssumption DEF Fail, database
    <2>2. CASE pc[r] \in {"lock"} \cup Migrating
        <3>1. "pool" \in Places /\ "pool" \notin Migrating /\ "pool" \notin Guarded
              /\ "pool" \notin {"mark", "script", "clean"} /\ "lock" \notin Migrating
            BY DEF Places, Migrating, Guarded
        <3>2. pc' = [pc EXCEPT ![r] = "pool"] /\ told' = told
              /\ lock' = IF lock = r THEN Nobody ELSE lock
            BY <1>5, <2>2 DEF Fail, Goto
        <3>3. \/ lock' = lock /\ ("pool" \in Migrating <=> pc[r] \in Migrating)
              \/ lock = r /\ lock' = Nobody /\ "pool" \notin Migrating
            BY <3>1, <3>2 DEF IInv, LockInv
        <3>. QED BY <1>1, <2>1, <3>1, <3>2, <3>3, MoveKeepsIInv
    <2>3. CASE pc[r] \notin {"lock"} \cup Migrating
        BY <1>1, <1>5, <2>1, <2>3, ExitKeepsIInv DEF Fail
    <2>. QED BY <2>2, <2>3
<1>. QED BY <1>2, <1>3, <1>4, <1>5

\* The strengthening is inductive.
LEMMA NextIInv == IInv /\ [Next]_vars => IInv'
<1>. SUFFICES ASSUME IInv, [Next]_vars PROVE IInv'
    OBVIOUS
<1>1. CASE UNCHANGED vars
    BY <1>1 DEF vars, database, counts, IInv, TypeOK, LockInv, AppliedInv, CleanIsTrue, HolderInv,
                PastTable, HasAuthUsers, At
<1>2. CASE Next
    <2>. PICK r \in Replicas :
            Step(r) \/ Signal(r) \/ Fail(r) \/ Crash(r) \/ DeleteUser(r)
        BY <1>2 DEF Next
    <2>. QED BY StepKeepsIInv, MigrateKeepsIInv, OutsideKeepsIInv DEF Step
<1>. QED BY <1>1, <1>2

-----------------------------------------------------------------------------
(* Theorems.                                                               *)

\* The strengthening holds of every state.
LEMMA Strengthening == Spec => []IInv
BY InitIInv, NextIInv, PTL DEF Spec

\* Every value has its type, whatever the numbers of replicas and scripts.
THEOREM TypeCorrect == Spec => []TypeOK
BY Strengthening, PTL DEF IInv

\* Who serves has the tables of every script: the start goes on after a failed
\* migration (app.go:67-69), and stops at the first user (service.go:66-81).
THEOREM ServesWholeSchemaHolds == Spec => []ServesWholeSchema
<1>1. IInv => ServesWholeSchema
    BY WholeSchema DEF IInv, PastTable, ServesWholeSchema, At
<1>. QED BY <1>1, Strengthening, PTL

\* Each script runs over the effects of exactly those before it (migrate.go:46).
THEOREM ScriptsInOrderHolds == Spec => []ScriptsInOrder
<1>1. IInv => ScriptsInOrder
    BY DEF IInv, HolderInv, ScriptsInOrder
<1>. QED BY <1>1, Strengthening, PTL

\* A version that is not dirty tells the scripts that were applied.
THEOREM CleanIsTrueHolds == Spec => []CleanIsTrue
<1>1. IInv => CleanIsTrue
    BY DEF IInv, AppliedInv
<1>. QED BY <1>1, Strengthening, PTL
=============================================================================
