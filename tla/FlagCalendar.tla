---------------------------- MODULE FlagCalendar ----------------------------
(***************************************************************************)
(* What a flag store promises, whatever holds its rows: the timeline of    *)
(* every flag is a calendar in which each instant belongs to at most one   *)
(* range.  The Repository interface of src/internal/flag/model.go states   *)
(* it as "validates non-overlapping ranges".  A range is booked, rebooked, *)
(* released, shown and hidden as a whole, and the id of a range that was   *)
(* released is never handed out again.                                     *)
(***************************************************************************)
EXTENDS Integers

CONSTANTS Names, Instants, Ids, Free

VARIABLES
    owner,  \* owner[n][t]: the range of flag n that holds instant t, or Free
    shown,  \* the ranges an evaluation may answer with
    spent   \* every id ever handed out

calendarVars == <<owner, shown, spent>>

Intervals ==
    {I \in SUBSET Instants :
        /\ I # {}
        /\ \A x, y \in I : \A t \in Instants : x =< t /\ t =< y => t \in I}

Owns(i) == \E n \in Names : \E t \in Instants : owner[n][t] = i

Init ==
    /\ owner = [n \in Names |-> [t \in Instants |-> Free]]
    /\ shown = {}
    /\ spent = {}

Assign(i, n, I) ==
    owner' = [m \in Names |-> [t \in Instants |->
                IF m = n /\ t \in I THEN i
                ELSE IF owner[m][t] = i THEN Free ELSE owner[m][t]]]

Book(i, n, I) ==
    /\ i \notin spent
    /\ \A t \in I : owner[n][t] = Free
    /\ Assign(i, n, I)
    /\ shown' = shown \cup {i}
    /\ spent' = spent \cup {i}

Rebook(i, n, I) ==
    /\ Owns(i)
    /\ \A t \in I : owner[n][t] \in {Free, i}
    /\ Assign(i, n, I)
    /\ shown' \in {shown \cup {i}, shown \ {i}}
    /\ UNCHANGED spent

Release(i) ==
    /\ Owns(i)
    /\ owner' = [m \in Names |-> [t \in Instants |->
                    IF owner[m][t] = i THEN Free ELSE owner[m][t]]]
    /\ shown' = shown \ {i}
    /\ UNCHANGED spent

ShowOrHide(i) ==
    /\ Owns(i)
    /\ shown' \in {shown \cup {i}, shown \ {i}}
    /\ UNCHANGED <<owner, spent>>

Next ==
    \E i \in Ids :
        \/ \E n \in Names, I \in Intervals : Book(i, n, I) \/ Rebook(i, n, I)
        \/ Release(i)
        \/ ShowOrHide(i)

Spec == Init /\ [][Next]_calendarVars
=============================================================================
