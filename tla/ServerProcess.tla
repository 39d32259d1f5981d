--------------------------- MODULE ServerProcess ---------------------------
(***************************************************************************)
(* What the requests of one server share: the connections of the pool, of  *)
(* which a statement takes one for as long as it runs, and the mutex of    *)
(* the token manager, which a refresh holds while it asks for the user;    *)
(* and the end of the process, app.Run after a signal.                     *)
(*                                                                         *)
(* A handler is the sequence of what it asks for: "ask" is a statement on  *)
(* a connection of its own, "lock" and "unlock" are those of the mutex.    *)
(* What it reads and writes is in the modules of the stores.               *)
(***************************************************************************)
EXTENDS Sequences, Integers, FiniteSets

CONSTANTS
    Connections,    \* of clients, each with one request at a time
    Nobody,         \* the holder of a mutex that is free
    MaxConns,       \* of the pool
    MaxAsks         \* bound on the statements of an admin request

ASSUME NobodyAssumption == Nobody \notin Connections
ASSUME BoundsAssumption == MaxConns \in Nat \ {0} /\ MaxAsks \in Nat

VARIABLES
    phase,      \* of the process
    open,       \* the connections of clients that are open
    todo,       \* todo[s]: what the handler of the request on s still does
    asking,     \* the requests whose statement has a connection of the pool
    mutex,      \* who holds the mutex of the token manager
    cutting     \* why Run no longer waits for requests

vars == <<phase, open, todo, asking, mutex, cutting>>

\* Wrong password, or not; expired or unknown token, or not; and so on: an early
\* return is a shorter sequence.
LoginSteps == {<<"ask">>, <<"ask", "lock", "unlock">>}
LogoutSteps == {<<"lock", "unlock">>}
\* The user of the token is asked for and refused, or admitted and the flag asked
\* for; an admin request asks for the user, and then up to six times more: a switch.
EvaluateSteps == {<<"ask">>, <<"ask", "ask">>}
AdminSteps == {[n \in 1..asks |-> "ask"] : asks \in 1..MaxAsks}

\* (mutant) The new pair is issued by IssueTokens, which locks.
RefreshLocksTwice == {<<"lock", "unlock">>, <<"lock", "ask", "lock", "unlock", "unlock">>}

RefreshSteps == {<<"lock", "unlock">>, <<"lock", "ask", "unlock">>}

Handlers == LoginSteps \cup RefreshSteps \cup LogoutSteps \cup EvaluateSteps \cup AdminSteps

TypeOK ==
    /\ phase \in {"serving", "draining", "closing", "gone"}
    /\ open \subseteq Connections
    /\ \A s \in Connections : Len(todo[s]) <= 5 + MaxAsks /\ todo[s] \in Seq({"ask", "lock", "unlock"})
    /\ asking \subseteq {s \in Connections : todo[s] # <<>> /\ Head(todo[s]) = "ask"}
    /\ Cardinality(asking) <= MaxConns
    /\ mutex \in Connections \cup {Nobody}
    /\ cutting \in {"no", "overdue", "broken"}

Does(s, step) == phase # "gone" /\ todo[s] # <<>> /\ Head(todo[s]) = step
Process == <<phase, cutting>>

\* The rest of the handler is rest; the answer to a request that ends while the
\* server shuts down closes its connection.
Continue(s, rest) ==
    /\ todo' = [todo EXCEPT ![s] = rest]
    /\ open' = IF rest = <<>> /\ (phase = "draining" \/ cutting = "overdue")
               THEN open \ {s} ELSE open

-----------------------------------------------------------------------------
(* Requests.                                                               *)

Accept(s) ==
    /\ phase = "serving" /\ s \notin open
    /\ open' = open \cup {s}
    /\ UNCHANGED <<Process, todo, asking, mutex>>

Leave(s) ==
    /\ phase # "gone" /\ s \in open /\ todo[s] = <<>>
    /\ open' = open \ {s}
    /\ UNCHANGED <<Process, todo, asking, mutex>>

Receive(s) ==
    /\ phase # "gone" /\ s \in open /\ todo[s] = <<>>
    /\ \E steps \in Handlers : todo' = [todo EXCEPT ![s] = steps]
    /\ UNCHANGED <<Process, open, asking, mutex>>

Lock(s) ==
    /\ Does(s, "lock")
    /\ mutex = Nobody
    /\ mutex' = s
    /\ Continue(s, Tail(todo[s]))
    /\ UNCHANGED <<Process, asking>>

Unlock(s) ==
    /\ Does(s, "unlock")
    /\ mutex' = Nobody
    /\ Continue(s, Tail(todo[s]))
    /\ UNCHANGED <<Process, asking>>

Acquire(s) ==
    /\ Does(s, "ask") /\ s \notin asking
    /\ phase # "closing"
    /\ Cardinality(asking) < MaxConns
    /\ asking' = asking \cup {s}
    /\ UNCHANGED <<Process, open, todo, mutex>>

Asked(s) ==
    /\ Does(s, "ask") /\ s \in asking
    /\ asking' = asking \ {s}
    /\ Continue(s, Tail(todo[s]))
    /\ UNCHANGED <<Process, mutex>>

\* (mutant) The rows of a statement that fails are not closed.
GiveUpAsking(s) ==
    /\ Does(s, "ask")
    /\ Continue(s, IF mutex = s THEN <<"unlock">> ELSE <<>>)
    /\ UNCHANGED <<Process, asking, mutex>>

\* (mutant) The unlock is not deferred.
GiveUpKeepsMutex(s) ==
    /\ Does(s, "ask")
    /\ asking' = asking \ {s}
    /\ Continue(s, <<>>)
    /\ UNCHANGED <<Process, mutex>>

\* The statement fails, the client is gone while it runs or waits for a
\* connection, or the pool is closed while it waits: the handler returns, and
\* what it has deferred is done.
GiveUp(s) ==
    /\ Does(s, "ask")
    /\ asking' = asking \ {s}
    /\ Continue(s, IF mutex = s THEN <<"unlock">> ELSE <<>>)
    /\ UNCHANGED <<Process, mutex>>

-----------------------------------------------------------------------------
(* The end.                                                                *)

\* (mutant) The pool is closed when the signal comes.
SignalClosesPool ==
    /\ phase = "serving"
    /\ phase' = "closing"
    /\ UNCHANGED <<open, todo, asking, mutex, cutting>>

\* SIGINT or SIGTERM: no connection is accepted any more.
Signal ==
    /\ phase = "serving"
    /\ phase' = "draining"
    /\ UNCHANGED <<open, todo, asking, mutex, cutting>>

\* The connections without a request are closed.
CloseIdle(s) ==
    /\ phase = "draining" /\ s \in open /\ todo[s] = <<>>
    /\ open' = open \ {s}
    /\ UNCHANGED <<Process, todo, asking, mutex>>

Drained ==
    /\ phase = "draining" /\ open = {}
    /\ phase' = "closing"
    /\ UNCHANGED <<open, todo, asking, mutex, cutting>>

\* The 5 seconds are over.
Overdue ==
    /\ phase = "draining" /\ open # {}
    /\ phase' = "closing" /\ cutting' = "overdue"
    /\ UNCHANGED <<open, todo, asking, mutex>>

\* The listener fails: Run returns at once.
ServeFails ==
    /\ phase = "serving"
    /\ phase' = "closing" /\ cutting' = "broken"
    /\ UNCHANGED <<open, todo, asking, mutex>>

\* The pool waits for its statements; then the process exits.
PoolClosed ==
    /\ phase = "closing" /\ asking = {}
    /\ phase' = "gone"
    /\ UNCHANGED <<open, todo, asking, mutex, cutting>>

Init ==
    /\ phase = "serving"
    /\ open = {}
    /\ todo = [s \in Connections |-> <<>>]
    /\ asking = {}
    /\ mutex = Nobody
    /\ cutting = "no"

Go(s) == Unlock(s) \/ Asked(s) \/ GiveUp(s)
Close == (\E s \in Connections : CloseIdle(s)) \/ Drained \/ Overdue \/ PoolClosed

Next ==
    \/ \E s \in Connections :
        \/ Accept(s) \/ Leave(s) \/ Receive(s)
        \/ Lock(s) \/ Acquire(s) \/ Unlock(s) \/ Asked(s) \/ GiveUp(s)
    \/ Signal \/ ServeFails \/ Close

\* A handler goes on, a statement ends in the end, and the shutdown goes on.
\* The mutex (which is handed to who has waited for long) and the pool (whose
\* waiters queue) are fair.  Clients owe nothing.
Fairness ==
    /\ \A s \in Connections :
        /\ WF_vars(Unlock(s)) /\ SF_vars(Lock(s))
        /\ WF_vars((s \in asking) /\ (Asked(s) \/ GiveUp(s)))
        /\ SF_vars(Acquire(s)) /\ WF_vars(phase = "closing" /\ GiveUp(s))
    /\ WF_vars(Close)

Spec == Init /\ [][Next]_vars /\ Fairness

-----------------------------------------------------------------------------
(* Properties.                                                             *)

\* Every request is answered unless the process ends first: no early return
\* keeps the mutex, no handler locks it twice or waits for a second connection
\* with one in its hands, and a refresh that waits for a connection, with the
\* mutex, waits for nobody who waits for the mutex (manager.go:123-151).
AllAnswered == \A s \in Connections : (todo[s] # <<>>) ~> (todo[s] = <<>> \/ phase = "gone")

\* The mutex is held by a request that has yet to unlock it, whichever of its
\* returns it takes, and nobody unlocks for another: an unlock that is left out
\* would stop every login, one too many would end the process
\* (manager.go:116-157).
MutexInOrder ==
    \A s \in Connections :
        /\ mutex = s => todo[s] # <<>> /\ todo[s][Len(todo[s])] = "unlock"
        /\ todo[s] # <<>> /\ Head(todo[s]) = "unlock" => mutex = s

\* Requests never all wait for each other: while one is not answered, some
\* handler has or may take what its next step needs, be it the mutex or a
\* connection, or learns that the pool is closed; a refresh needs both at a
\* time (manager.go:123-151), so a second lock would stop them all.
SomebodyGoesOn ==
    phase # "gone" /\ (\E s \in Connections : todo[s] # <<>>) =>
        \E s \in Connections : todo[s] # <<>> /\
            \/ Head(todo[s]) = "unlock"
            \/ Head(todo[s]) = "lock" /\ mutex = Nobody
            \/ Head(todo[s]) = "ask" /\
                (s \in asking \/ Cardinality(asking) < MaxConns \/ phase = "closing")

\* A request that came in before the signal is cut off, by a closed pool or the
\* exit, only when it took longer than Run waits (app.go:254-262), or when the
\* listener had failed.
CutOnlyOverdue ==
    phase \in {"closing", "gone"} /\ cutting = "no" => \A s \in Connections : todo[s] = <<>>

\* After a signal the process ends, whatever requests it has.
Stops == (phase # "serving") ~> (phase = "gone")
=============================================================================
