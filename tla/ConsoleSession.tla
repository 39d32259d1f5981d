--------------------------- MODULE ConsoleSession ---------------------------
(***************************************************************************)
(* The session of the admin console, composed with the server of           *)
(* TokenManager: src/frontend/src/context/AuthContext.tsx.  Each tab of a  *)
(* browser keeps a pair of tokens in its state; all tabs share one entry   *)
(* of localStorage, which a tab reads when it is loaded and writes, but    *)
(* never hears of, afterwards.  Pairs are named by their number in pairs;  *)
(* 0 is null.                                                              *)
(*                                                                         *)
(* A call of the browser is a request on a connection of TokenManager that *)
(* travels, is served, and is answered or lost, each some time later;      *)
(* calls on two connections overtake each other.  What a tab does with an  *)
(* answer it does whatever it shows by then.                               *)
(***************************************************************************)
EXTENDS TokenManager, FiniteSets

CONSTANTS
    Tabs,
    Nobody,             \* the tab of a call whose page is gone
    MaxReloads          \* bound on the reloads of a behaviour

ASSUME NobodyAssumption == Nobody \notin Tabs
ASSUME MaxReloadsAssumption == MaxReloads \in Nat

VARIABLES
    shown,      \* shown[t]: the pair in the state of tab t
    armed,      \* armed[t]: the timer set for that state has not fired
    stored,     \* the pair in localStorage
    calls,      \* calls[s]: what the browser knows of the request on s
    reloads     \* reloads so far

browser == <<shown, armed, stored, calls, reloads>>
allVars == <<vars, browser>>

\* pair is that of an answer; 0 when the request failed or brings none.
Call == [tab : Tabs \cup {Nobody}, request : RequestType, pair : Nat,
         at : {"none", "sent", "server", "answered"}]
NoCall == [tab |-> Nobody, request |-> Idle, pair |-> 0, at |-> "none"]

SessionTypeOK ==
    /\ TypeOK
    /\ shown \in [Tabs -> 0..Len(pairs)]
    /\ armed \in [Tabs -> BOOLEAN] /\ \A t \in Tabs : armed[t] => shown[t] # 0
    /\ stored \in 0..Len(pairs)
    /\ calls \in [Sessions -> Call]
    /\ \A s \in Sessions :
        calls[s].pair \in 0..Len(pairs) /\ calls[s].request.token \in 0..Len(pairs)
    /\ reloads \in 0..MaxReloads

-----------------------------------------------------------------------------
(* A tab.                                                                  *)

\* The effect on a new state: the timer of the old one is cleared, and one is
\* set for the new one, or the refresh is sent at once when the access token
\* has expired.  Either way it is sent some time later, once.
Show(t, n) ==
    /\ shown' = [shown EXCEPT ![t] = n]
    /\ armed' = [armed EXCEPT ![t] = n # 0]

saveState(t, n) ==
    /\ Show(t, n)
    /\ stored' = n

Free(s) == calls[s] = NoCall /\ At(s, "idle")
Calling(t, op) == {s \in Sessions : calls[s].tab = t /\ calls[s].request.op = op}

Send(t, r) ==
    /\ \E s \in Sessions : Free(s)
    /\ calls' = [calls EXCEPT ![CHOOSE s \in Sessions : Free(s)] =
                    [tab |-> t, request |-> r, pair |-> 0, at |-> "sent"]]
    /\ UNCHANGED <<vars, stored, reloads>>

\* The bound MaxPairs: what may bring a pair, a login or a token to be replaced,
\* is sent while there is room for it, so that no call is stuck in the server.
Issuing(r) == r.op \in {"login", "refresh"}
Due(r, s) == IF r.op = "login" THEN <<r.op, s>> ELSE <<r.op, r.token>>
DuePairs ==
    {Due(calls[s].request, s) : s \in {z \in Sessions : Issuing(calls[z].request)}}
    \cup {Due(req[s], s) : s \in {z \in Sessions : Issuing(req[z])}}
Room(due) == Len(pairs) + Cardinality(DuePairs \cup {due}) <= MaxPairs
IsLive(n) == n \in DOMAIN refreshTokens /\ n > oldRefresh

\* The form is shown to who is signed out, and waits for its answer.
Login(t) ==
    /\ shown[t] = 0 /\ Calling(t, "login") = {}
    /\ Room(<<"login", Nobody>>)
    /\ \E u \in Users, p \in Passwords : Send(t, Request("login", 0, u, p, NotGiven))
    /\ UNCHANGED <<shown, armed>>

\* The timer fires: at its time, or late, after the computer has slept.
refreshSession(t) ==
    /\ armed[t]
    /\ Room(<<"refresh", shown[t]>>) \/ ~IsLive(shown[t])
    /\ Send(t, Request("refresh", shown[t], NotGiven, NotGiven, NotGiven))
    /\ armed' = [armed EXCEPT ![t] = FALSE]
    /\ UNCHANGED shown

Logout(t) ==
    /\ shown[t] # 0
    /\ Send(t, Request("logout", shown[t], NotGiven, NotGiven, NotGiven))
    /\ UNCHANGED <<shown, armed>>

\* The page is loaded anew: what it waited for is forgotten, and the state is
\* what is stored, unless that has expired.
Reload(t) ==
    /\ reloads < MaxReloads
    /\ reloads' = reloads + 1
    /\ Show(t, IF stored > oldRefresh THEN stored ELSE 0)
    /\ calls' = [s \in Sessions |->
                    IF calls[s].tab = t THEN [calls[s] EXCEPT !.tab = Nobody] ELSE calls[s]]
    /\ UNCHANGED <<vars, stored>>

-----------------------------------------------------------------------------
(* Calls.                                                                  *)

Arrive(s) ==
    /\ calls[s].at = "sent"
    /\ Receive(s, calls[s].request)
    /\ calls' = [calls EXCEPT ![s].at = "server"]
    /\ UNCHANGED <<begun, shown, armed, stored, reloads>>

\* A statement of the server; the last one answers.
Serve(s) ==
    /\ Statement(s) \/ Fail(s)
    /\ calls' = IF calls[s].at = "server" /\ req'[s].pc = "idle"
                THEN [calls EXCEPT ![s].at = "answered",
                                   ![s].pair = IF pairs' = pairs THEN 0 ELSE Len(pairs')]
                ELSE calls
    /\ UNCHANGED <<shown, armed, stored, reloads>>

\* (mutant) A refresh that fails is reported and nothing more.
SettleKeepsState(s, n) ==
    /\ LET c == calls[s]
       IN  IF c.tab = Nobody \/ (Issuing(c.request) /\ n = 0)
           THEN UNCHANGED <<shown, armed, stored>>
           ELSE saveState(c.tab, n)
    /\ calls' = [calls EXCEPT ![s] = NoCall]
    /\ UNCHANGED <<vars, reloads>>

\* (mutant) Of a logout the entry is removed, and the state is left to the answer
\* of the next refresh.
SettleLogoutToStored(s, n) ==
    /\ LET c == calls[s]
       IN  IF c.tab = Nobody \/ (c.request.op = "login" /\ n = 0)
           THEN UNCHANGED <<shown, armed, stored>>
           ELSE IF c.request.op = "logout"
                THEN stored' = 0 /\ UNCHANGED <<shown, armed>>
                ELSE saveState(c.tab, n)
    /\ calls' = [calls EXCEPT ![s] = NoCall]
    /\ UNCHANGED <<vars, reloads>>

\* The call settles with pair n, or fails.  A login that fails leaves the form as
\* it is; a refresh that fails, and a logout whether it fails or not, save null.
Settle(s, n) ==
    /\ LET c == calls[s]
       IN  IF c.tab = Nobody \/ (c.request.op = "login" /\ n = 0)
           THEN UNCHANGED <<shown, armed, stored>>
           ELSE saveState(c.tab, n)
    /\ calls' = [calls EXCEPT ![s] = NoCall]
    /\ UNCHANGED <<vars, reloads>>

Deliver(s) ==
    /\ calls[s].at = "answered"
    /\ Settle(s, calls[s].pair)

\* The connection breaks, before, while or after the request is served; what the
\* server has received of it goes on.
Lose(s) ==
    /\ calls[s].at # "none"
    /\ Settle(s, 0)

\* Time passes, or the server restarts; a call it had received is then lost.
Outside ==
    /\ ExpireRefresh \/ Restart
    /\ UNCHANGED browser

-----------------------------------------------------------------------------

SessionInit ==
    /\ Init
    /\ shown = [t \in Tabs |-> 0]
    /\ armed = [t \in Tabs |-> FALSE]
    /\ stored = 0
    /\ calls = [s \in Sessions |-> NoCall]
    /\ reloads = 0

SessionNext ==
    \/ \E t \in Tabs : Login(t) \/ refreshSession(t) \/ Logout(t) \/ Reload(t)
    \/ \E s \in Sessions : Arrive(s) \/ Lose(s) \/ Serve(s) \/ Deliver(s)
    \/ Outside

\* The browser runs its timers, and has connections enough; every call is
\* answered or lost in the end, and its promise then runs.  Nobody has to log
\* in, log out or reload, and nothing has to expire, break or restart.
SessionFairness ==
    /\ \A t \in Tabs : SF_allVars(refreshSession(t))
    /\ \A s \in Sessions : WF_allVars(Arrive(s) \/ Serve(s) \/ Deliver(s) \/ Lose(s))

SessionSpec == SessionInit /\ [][SessionNext]_allVars /\ SessionFairness

-----------------------------------------------------------------------------
(* Properties.                                                             *)

\* A tab that shows a login has something under way that will tell when it has
\* ended, a timer or a refresh of its own that has not settled, in whatever
\* order its calls settle (AuthContext.tsx:100-121).
NobodyStranded ==
    \A t \in Tabs : shown[t] # 0 => armed[t] \/ Calling(t, "refresh") # {}

\* A tab whose login has ended on the server, by another tab, a restart, a
\* lost answer or expiry, does not go on showing it: its timer fires and the
\* refusal signs it out (AuthContext.tsx:100-121).
DeadTabsLeave ==
    \A t \in Tabs : \A n \in 1..MaxPairs :
        (shown[t] = n /\ ~IsLive(n)) ~> (shown[t] # n)

\* Who logs out comes to the login form, whatever becomes of the call and of a
\* refresh that is under way (AuthContext.tsx:138-147).  A page that is loaded
\* anew forgets that it was to log out, so it is stated for when none is any more.
LogoutLeaves ==
    \A t \in Tabs : (Calling(t, "logout") # {} /\ reloads = MaxReloads) ~> (shown[t] = 0)
=============================================================================
