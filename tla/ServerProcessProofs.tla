------------------------ MODULE ServerProcessProofs ------------------------
(***************************************************************************)
(* Proofs about the life of the server's requests, for any number of       *)
(* connections and any pool.  That nobody is cut off in time rests on two  *)
(* facts: a connection with a request is open, and the shutdown leaves     *)
(* "draining" without being overdue only when none is open any more.       *)
(***************************************************************************)
EXTENDS ServerProcess, FiniteSetTheorems, TLAPS

RequestsAreOpen ==
    /\ DOMAIN todo = Connections /\ todo = [s \in Connections |-> todo[s]]
    /\ \A s \in Connections : todo[s] # <<>> => s \in open

DrainedFirst == phase \in {"closing", "gone"} /\ cutting = "no" => open = {}

IInv == RequestsAreOpen /\ DrainedFirst

-----------------------------------------------------------------------------
(* Who is cut off.                                                         *)

LEMMA InitIInv == Init => IInv
BY DEF Init, IInv, RequestsAreOpen, DrainedFirst

\* A handler that goes on closes its connection at its end only.
LEMMA ContinueKeepsIInv ==
    ASSUME IInv, NEW s \in Connections, NEW rest, todo[s] # <<>>, Continue(s, rest),
           UNCHANGED Process
    PROVE  IInv'
<1>1. /\ DOMAIN todo' = Connections /\ todo' = [z \in Connections |-> todo'[z]]
      /\ \A z \in Connections : todo'[z] = IF z = s THEN rest ELSE todo[z]
  BY DEF Continue, IInv, RequestsAreOpen
<1>2. RequestsAreOpen'
  BY <1>1 DEF Continue, IInv, RequestsAreOpen
<1>3. DrainedFirst'
  BY DEF Continue, IInv, DrainedFirst, Process
<1>4. QED
  BY <1>2, <1>3 DEF IInv

LEMMA NextKeepsIInv == IInv /\ [Next]_vars => IInv'
<1> SUFFICES ASSUME IInv, [Next]_vars PROVE IInv'
  OBVIOUS
<1>1. CASE UNCHANGED vars
  BY <1>1 DEF vars, IInv, RequestsAreOpen, DrainedFirst
<1>2. ASSUME NEW s \in Connections, Accept(s) PROVE IInv'
  BY <1>2 DEF Accept, Process, IInv, RequestsAreOpen, DrainedFirst
<1>3. ASSUME NEW s \in Connections, Leave(s) \/ CloseIdle(s) PROVE IInv'
  BY <1>3 DEF Leave, CloseIdle, Process, IInv, RequestsAreOpen, DrainedFirst
<1>4. ASSUME NEW s \in Connections, Receive(s) PROVE IInv'
  <2>1. PICK steps \in Handlers : todo' = [todo EXCEPT ![s] = steps]
    BY <1>4 DEF Receive
  <2>2. QED
    BY <1>4, <2>1 DEF Receive, Process, IInv, RequestsAreOpen, DrainedFirst
<1>5. ASSUME NEW s \in Connections, Lock(s) \/ Unlock(s) \/ Asked(s) PROVE IInv'
  BY <1>5, ContinueKeepsIInv DEF Lock, Unlock, Asked, Does, Process
<1>6. ASSUME NEW s \in Connections, GiveUp(s) PROVE IInv'
  BY <1>6, ContinueKeepsIInv DEF GiveUp, Does, Process
<1>7. ASSUME NEW s \in Connections, Acquire(s) PROVE IInv'
  BY <1>7 DEF Acquire, Process, IInv, RequestsAreOpen, DrainedFirst
<1>8. CASE Signal
  BY <1>8 DEF Signal, IInv, RequestsAreOpen, DrainedFirst
<1>9. CASE ServeFails \/ Overdue
  BY <1>9 DEF ServeFails, Overdue, IInv, RequestsAreOpen, DrainedFirst
<1>10. CASE Drained \/ PoolClosed
  BY <1>10 DEF Drained, PoolClosed, IInv, RequestsAreOpen, DrainedFirst
<1>11. QED
  BY <1>1, <1>2, <1>3, <1>4, <1>5, <1>6, <1>7, <1>8, <1>9, <1>10 DEF Next, Close

\* A request that came in before the signal is cut off only when it took
\* longer than Run waits, or when the listener had failed (app.go:254-262).
THEOREM NobodyCutInTime == Spec => []CutOnlyOverdue
<1>1. IInv => CutOnlyOverdue
  BY DEF IInv, RequestsAreOpen, DrainedFirst, CutOnlyOverdue
<1>2. QED
  BY <1>1, InitIInv, NextKeepsIInv, PTL DEF Spec
-----------------------------------------------------------------------------
(* What a handler still does, the mutex and the pool.                      *)

Steps == {"ask", "lock", "unlock"}
Asks == {t \in Seq({"ask"}) : Len(t) <= 2 + MaxAsks}
BeforeLock == {<<"ask", "lock", "unlock">>, <<"lock", "unlock">>, <<"lock", "ask", "unlock">>}
Holding == {<<"ask", "unlock">>, <<"unlock">>}

\* What is left of any handler after any of its steps.
Left == Asks \cup BeforeLock \cup Holding

MutexHeld == \A s \in Connections : mutex = s <=> todo[s] \in Holding

PoolOK ==
    /\ IsFiniteSet(asking) /\ Cardinality(asking) <= MaxConns
    /\ asking \subseteq {s \in Connections : todo[s] # <<>> /\ Head(todo[s]) = "ask"}

TInv ==
    /\ phase \in {"serving", "draining", "closing", "gone"}
    /\ cutting \in {"no", "overdue", "broken"}
    /\ open \subseteq Connections
    /\ todo \in [Connections -> Left]
    /\ mutex \in Connections \cup {Nobody}
    /\ MutexHeld
    /\ PoolOK

\* A handler is a short sequence that ends holding no mutex.
LEMMA LeftTypes ==
    /\ <<>> \in Left \ Holding
    /\ \A t \in Left : t \in Seq(Steps) /\ Len(t) <= 5 + MaxAsks
<1>1. <<>> \in Asks /\ <<>> \notin Holding
  BY BoundsAssumption DEF Asks, Holding
<1>2. ASSUME NEW t \in Asks PROVE t \in Seq(Steps) /\ Len(t) <= 5 + MaxAsks
  BY BoundsAssumption DEF Asks, Steps
<1>3. ASSUME NEW t \in BeforeLock \cup Holding PROVE t \in Seq(Steps) /\ Len(t) <= 3
  <2>1. CASE t = <<"unlock">>
    BY <2>1 DEF Steps
  <2>2. CASE t = <<"ask", "unlock">>
    BY <2>2 DEF Steps
  <2>3. CASE t = <<"lock", "unlock">>
    BY <2>3 DEF Steps
  <2>4. CASE t = <<"ask", "lock", "unlock">>
    BY <2>4 DEF Steps
  <2>5. CASE t = <<"lock", "ask", "unlock">>
    BY <2>5 DEF Steps
  <2>6. QED
    BY <1>3, <2>1, <2>2, <2>3, <2>4, <2>5 DEF BeforeLock, Holding
<1>4. QED
  BY <1>1, <1>2, <1>3, BoundsAssumption DEF Left

LEMMA AsksHoldNothing == Asks \cap Holding = {}
<1>1. ASSUME NEW t \in Asks, NEW i \in 1..Len(t) PROVE t[i] = "ask"
  BY DEF Asks
<1>2. <<"unlock">>[1] = "unlock" /\ Len(<<"unlock">>) = 1
  OBVIOUS
<1>3. <<"ask", "unlock">>[2] = "unlock" /\ Len(<<"ask", "unlock">>) = 2
  OBVIOUS
<1>4. <<"unlock">> \notin Asks
  BY <1>1, <1>2
<1>5. <<"ask", "unlock">> \notin Asks
  BY <1>1, <1>3
<1>6. QED
  BY <1>4, <1>5 DEF Holding

LEMMA HandlersAreLeft == Handlers \subseteq Left \ Holding
<1>1. ASSUME NEW k \in 1..(2 + MaxAsks) PROVE [n \in 1..k |-> "ask"] \in Asks
  BY <1>1, BoundsAssumption DEF Asks
<1>2. AdminSteps \subseteq Asks
  BY <1>1, BoundsAssumption DEF AdminSteps
<1>3. <<"ask">> \in Asks /\ <<"ask", "ask">> \in Asks
  BY BoundsAssumption DEF Asks
<1>4. Asks \cap Holding = {}
  BY AsksHoldNothing
<1>5. BeforeLock \cap Holding = {}
  BY DEF BeforeLock, Holding
<1>6. LoginSteps \cup LogoutSteps \cup RefreshSteps \subseteq Asks \cup BeforeLock
  BY <1>3 DEF LoginSteps, LogoutSteps, RefreshSteps, BeforeLock
<1>7. EvaluateSteps \subseteq Asks
  BY <1>3 DEF EvaluateSteps
<1>8. QED
  BY <1>2, <1>4, <1>5, <1>6, <1>7 DEF Handlers, Left

\* Only a lock step leaves a handler holding the mutex, and it holds it until
\* it unlocks.
LEMMA StepsOfLeft ==
    ASSUME NEW t \in Left, t # <<>>
    PROVE  /\ Head(t) = "lock" => Tail(t) \in Holding /\ t \notin Holding
           /\ Head(t) = "unlock" => Tail(t) = <<>> /\ t \in Holding
           /\ Head(t) = "ask" => Tail(t) \in Left /\ (Tail(t) \in Holding <=> t \in Holding)
<1>1. CASE t \in Asks
  <2>1. Head(t) = "ask" /\ Tail(t) \in Asks
    <3>1. t \in Seq({"ask"}) /\ Len(t) <= 2 + MaxAsks /\ Len(t) \in Nat \ {0}
      BY <1>1 DEF Asks
    <3>2. Tail(t) \in Seq({"ask"}) /\ Len(Tail(t)) = Len(t) - 1 /\ Head(t) = "ask"
      BY <3>1
    <3>3. QED
      BY <3>1, <3>2, BoundsAssumption DEF Asks
  <2>2. QED
    BY <1>1, <2>1, AsksHoldNothing DEF Left
<1>2. CASE t \in BeforeLock \cup Holding
  <2>1. CASE t = <<"unlock">>
    <3>1. Head(t) = "unlock" /\ Tail(t) = <<>>
      BY <2>1
    <3>2. QED
      BY <2>1, <3>1 DEF Holding
  <2>2. CASE t = <<"ask", "unlock">>
    <3>1. Head(t) = "ask" /\ Tail(t) = <<"unlock">>
      BY <2>2
    <3>2. QED
      BY <2>2, <3>1 DEF Holding, Left
  <2>3. CASE t = <<"lock", "unlock">>
    <3>1. Head(t) = "lock" /\ Tail(t) = <<"unlock">> /\ t \notin Holding
      BY <2>3 DEF Holding
    <3>2. QED
      BY <3>1 DEF Holding
  <2>4. CASE t = <<"lock", "ask", "unlock">>
    <3>1. Head(t) = "lock" /\ Tail(t) = <<"ask", "unlock">> /\ t \notin Holding
      BY <2>4 DEF Holding
    <3>2. QED
      BY <3>1 DEF Holding
  <2>5. CASE t = <<"ask", "lock", "unlock">>
    <3>1. Head(t) = "ask" /\ Tail(t) = <<"lock", "unlock">> /\ t \notin Holding
      BY <2>5 DEF Holding
    <3>2. <<"lock", "unlock">> \notin Holding
      BY DEF Holding
    <3>3. QED
      BY <3>1, <3>2 DEF BeforeLock, Left
  <2>6. QED
    BY <1>2, <2>1, <2>2, <2>3, <2>4, <2>5 DEF BeforeLock, Holding
<1>3. QED
  BY <1>1, <1>2 DEF Left

\* A step of the handler of s that takes the mutex, gives it back or neither.
LEMMA ContinueKeepsTInv ==
    ASSUME TInv, NEW s \in Connections, NEW rest \in Left, todo[s] # <<>>, Continue(s, rest),
           UNCHANGED Process, asking' = asking \ {s},
           mutex' \in Connections \cup {Nobody},
           mutex' = s <=> rest \in Holding,
           mutex' # mutex => s \in {mutex, mutex'} /\ Nobody \in {mutex, mutex'}
    PROVE  TInv'
<1>1. /\ todo' \in [Connections -> Left]
      /\ \A z \in Connections : todo'[z] = IF z = s THEN rest ELSE todo[z]
  BY DEF Continue, TInv
<1>2. open' \subseteq Connections
  BY DEF Continue, TInv
<1>3. MutexHeld'
  <2> SUFFICES ASSUME NEW z \in Connections PROVE mutex' = z <=> todo'[z] \in Holding
    BY DEF MutexHeld
  <2>1. CASE z = s
    BY <1>1, <2>1
  <2>2. CASE z # s
    <3>1. mutex' = z <=> mutex = z
      BY <2>2, NobodyAssumption
    <3>2. QED
      BY <1>1, <2>2, <3>1 DEF TInv, MutexHeld
  <2>3. QED
    BY <2>1, <2>2
<1>4. PoolOK'
  <2>1. IsFiniteSet(asking \ {s}) /\ Cardinality(asking \ {s}) <= MaxConns
    <3>1. IsFiniteSet(asking) /\ Cardinality(asking) \in Nat /\ Cardinality(asking) <= MaxConns
      BY FS_CardinalityType DEF TInv, PoolOK
    <3>2. /\ IsFiniteSet(asking \ {s})
          /\ Cardinality(asking \ {s}) =
                IF s \in asking THEN Cardinality(asking) - 1 ELSE Cardinality(asking)
      BY <3>1, FS_RemoveElement, Zenon
    <3>3. QED
      BY <3>1, <3>2, BoundsAssumption
  <2>2. \A z \in asking \ {s} : z \in Connections /\ todo'[z] # <<>> /\ Head(todo'[z]) = "ask"
    BY <1>1 DEF TInv, PoolOK
  <2>3. QED
    BY <2>1, <2>2 DEF PoolOK
<1>5. QED
  BY <1>1, <1>2, <1>3, <1>4 DEF TInv, Process

LEMMA InitTInv == Init => TInv
<1> SUFFICES ASSUME Init PROVE TInv
  OBVIOUS
<1>1. PoolOK
  BY FS_EmptySet, BoundsAssumption DEF Init, PoolOK
<1>2. MutexHeld
  BY LeftTypes, NobodyAssumption DEF Init, MutexHeld
<1>3. QED
  BY <1>1, <1>2, LeftTypes DEF Init, TInv

LEMMA NextKeepsTInv == TInv /\ [Next]_vars => TInv'
<1> SUFFICES ASSUME TInv, [Next]_vars PROVE TInv'
  OBVIOUS
<1>a. ASSUME NEW s \in Connections, todo[s] # <<>>, Head(todo[s]) # "ask" PROVE asking \ {s} = asking
  BY <1>a DEF TInv, PoolOK
<1>1. CASE UNCHANGED <<todo, asking, mutex>> /\ open' \subseteq Connections
           /\ phase' \in {"serving", "draining", "closing", "gone"}
           /\ cutting' \in {"no", "overdue", "broken"}
  BY <1>1 DEF TInv, MutexHeld, PoolOK
<1>2. ASSUME NEW s \in Connections, Receive(s) PROVE TInv'
  <2>1. PICK steps \in Handlers : todo' = [todo EXCEPT ![s] = steps]
    BY <1>2 DEF Receive
  <2>2. steps \in Left \ Holding
    BY HandlersAreLeft
  <2>3. /\ todo' \in [Connections -> Left]
        /\ \A z \in Connections : todo'[z] = IF z = s THEN steps ELSE todo[z]
    BY <2>1, <2>2 DEF TInv
  <2>4. MutexHeld'
    BY <1>2, <2>2, <2>3, LeftTypes DEF Receive, TInv, MutexHeld
  <2>5. PoolOK'
    BY <1>2, <2>3 DEF Receive, TInv, PoolOK
  <2>6. QED
    BY <1>2, <2>3, <2>4, <2>5 DEF Receive, Process, TInv
<1>3. ASSUME NEW s \in Connections, Lock(s) PROVE TInv'
  <2>1. Tail(todo[s]) \in Holding /\ Tail(todo[s]) \in Left /\ todo[s] # <<>>
    BY <1>3, StepsOfLeft DEF Lock, Does, TInv, Left
  <2>2. asking \ {s} = asking
    BY <1>3, <1>a DEF Lock, Does
  <2>3. QED
    BY <1>3, <2>1, <2>2, ContinueKeepsTInv DEF Lock, Process
<1>4. ASSUME NEW s \in Connections, Unlock(s) PROVE TInv'
  <2>1. Tail(todo[s]) = <<>> /\ todo[s] \in Holding /\ todo[s] # <<>>
    BY <1>4, StepsOfLeft DEF Unlock, Does, TInv
  <2>2. asking \ {s} = asking
    BY <1>4, <1>a DEF Unlock, Does
  <2>3. mutex = s
    BY <2>1 DEF TInv, MutexHeld
  <2>4. QED
    BY <1>4, <2>1, <2>2, <2>3, LeftTypes, ContinueKeepsTInv, NobodyAssumption DEF Unlock, Process
<1>5. ASSUME NEW s \in Connections, Asked(s) PROVE TInv'
  <2>1. /\ Tail(todo[s]) \in Left /\ todo[s] # <<>>
        /\ Tail(todo[s]) \in Holding <=> todo[s] \in Holding
    BY <1>5, StepsOfLeft DEF Asked, Does, TInv
  <2>2. mutex = s <=> todo[s] \in Holding
    BY DEF TInv, MutexHeld
  <2>3. mutex \in Connections \cup {Nobody}
    BY DEF TInv
  <2>4. QED
    BY <1>5, <2>1, <2>2, <2>3, ContinueKeepsTInv DEF Asked, Process
<1>6. ASSUME NEW s \in Connections, GiveUp(s) PROVE TInv'
  <2> DEFINE rest == IF mutex = s THEN <<"unlock">> ELSE <<>>
  <2>1. rest \in Left /\ (rest \in Holding <=> mutex = s)
    BY LeftTypes DEF Holding, Left
  <2>2. mutex \in Connections \cup {Nobody}
    BY DEF TInv
  <2>3. Continue(s, rest) /\ todo[s] # <<>> /\ asking' = asking \ {s} /\ UNCHANGED <<phase, cutting, mutex>>
    BY <1>6 DEF GiveUp, Does, Process
  <2> HIDE DEF rest
  <2>4. QED
    BY <2>1, <2>2, <2>3, ContinueKeepsTInv DEF Process
<1>7. ASSUME NEW s \in Connections, Acquire(s) PROVE TInv'
  <2>1. IsFiniteSet(asking) /\ Cardinality(asking) \in Nat /\ Cardinality(asking) < MaxConns
    BY <1>7, FS_CardinalityType DEF Acquire, TInv, PoolOK
  <2>2. IsFiniteSet(asking \cup {s}) /\ Cardinality(asking \cup {s}) <= MaxConns
    BY <2>1, FS_AddElement, BoundsAssumption
  <2>3. PoolOK'
    BY <1>7, <2>2 DEF Acquire, Does, TInv, PoolOK
  <2>4. MutexHeld'
    BY <1>7 DEF Acquire, TInv, MutexHeld
  <2>5. QED
    BY <1>7, <2>3, <2>4 DEF Acquire, Process, TInv
<1>8. ASSUME NEW s \in Connections, Accept(s) \/ Leave(s) \/ CloseIdle(s) PROVE TInv'
  BY <1>1, <1>8 DEF Accept, Leave, CloseIdle, Process, TInv
<1>9. CASE Signal \/ ServeFails \/ Drained \/ Overdue \/ PoolClosed
  BY <1>1, <1>9 DEF Signal, ServeFails, Drained, Overdue, PoolClosed, TInv
<1>10. CASE UNCHANGED vars
  BY <1>1, <1>10 DEF vars, TInv
<1>11. QED
  BY <1>2, <1>3, <1>4, <1>5, <1>6, <1>7, <1>8, <1>9, <1>10 DEF Next, Close

LEMMA TInvariance == Spec => []TInv
BY InitTInv, NextKeepsTInv, PTL DEF Spec

\* Types: no statement has a connection without asking for one, and the pool
\* lends no more than it has.
THEOREM TypeCorrect == Spec => []TypeOK
<1>1. TInv => TypeOK
  BY LeftTypes DEF TInv, PoolOK, TypeOK, Steps
<1>2. QED
  BY <1>1, TInvariance, PTL

\* Whatever returns early, fails or is cancelled, the mutex of the token manager
\* is unlocked once by who has locked it (manager.go:116-157).
THEOREM UnlockedByHolder == Spec => []MutexInOrder
<1>1. ASSUME TInv, NEW s \in Connections
      PROVE  /\ mutex = s => todo[s] # <<>> /\ todo[s][Len(todo[s])] = "unlock"
             /\ todo[s] # <<>> /\ Head(todo[s]) = "unlock" => mutex = s
  <2>1. todo[s] \in Left /\ (mutex = s <=> todo[s] \in Holding)
    BY <1>1 DEF TInv, MutexHeld
  <2>2. \A t \in Holding : t # <<>> /\ t[Len(t)] = "unlock"
    BY DEF Holding
  <2>3. QED
    BY <2>1, <2>2, StepsOfLeft
<1>2. TInv => MutexInOrder
  BY <1>1 DEF MutexInOrder
<1>3. QED
  BY <1>2, TInvariance, PTL

\* Requests never all wait for each other: who holds the mutex needs a
\* connection at most, and who has a connection needs nothing more
\* (manager.go:123-151).
THEOREM NoStandstill == Spec => []SomebodyGoesOn
<1>1. ASSUME TInv, NEW z \in Connections, todo[z] # <<>>
      PROVE  \E s \in Connections : todo[s] # <<>> /\
                \/ Head(todo[s]) = "unlock"
                \/ Head(todo[s]) = "lock" /\ mutex = Nobody
                \/ Head(todo[s]) = "ask" /\
                    (s \in asking \/ Cardinality(asking) < MaxConns \/ phase = "closing")
  <2>1. CASE asking # {}
    BY <1>1, <2>1 DEF TInv, PoolOK
  <2>2. CASE asking = {} /\ Head(todo[z]) \in {"ask", "unlock"}
    <3>1. Cardinality(asking) < MaxConns
      BY <2>2, FS_EmptySet, BoundsAssumption
    <3>2. QED
      BY <1>1, <2>2, <3>1
  <2>3. CASE asking = {} /\ Head(todo[z]) = "lock"
    <3>1. CASE mutex = Nobody
      BY <1>1, <2>3, <3>1
    <3>2. CASE mutex # Nobody
      <4>1. mutex \in Connections /\ todo[mutex] \in Holding
        BY <1>1, <3>2 DEF TInv, MutexHeld
      <4>2. \A t \in Holding : t # <<>> /\ Head(t) \in {"ask", "unlock"}
        BY DEF Holding
      <4>3. Cardinality(asking) < MaxConns
        BY <2>3, FS_EmptySet, BoundsAssumption
      <4>4. QED
        BY <4>1, <4>2, <4>3
    <3>3. QED
      BY <3>1, <3>2
  <2>4. todo[z] \in Seq(Steps) /\ Head(todo[z]) \in Steps
    BY <1>1, LeftTypes DEF TInv
  <2>5. QED
    BY <2>1, <2>2, <2>3, <2>4 DEF Steps
<1>2. TInv => SomebodyGoesOn
  BY <1>1 DEF SomebodyGoesOn
<1>3. QED
  BY <1>2, TInvariance, PTL
=============================================================================
