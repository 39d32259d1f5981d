----------------------------- MODULE TimeRanges -----------------------------
(***************************************************************************)
(* The half-open validity ranges of a feature flag, as computed by         *)
(* src/internal/flag/temporal.go and by the overlap predicate of the SQL   *)
(* statements in src/internal/flag/postgres_repository.go.                 *)
(***************************************************************************)
EXTENDS Integers

CONSTANTS
    Instants,   \* the instants a range may start or end at
    NoEnd       \* a nil ValidTo: the range never ends

ZeroTime == 0   \* time.Time{}: a ValidFrom the request leaves out

ASSUME InstantsAssumption == Instants \subseteq Nat \ {ZeroTime}
ASSUME NoEndAssumption == NoEnd \notin Nat

\* What a request may carry; only some of it passes ValidateTemporalRange.
RequestRange == [from : Instants \cup {ZeroTime}, to : Instants \cup {NoEnd}]

\* time.Time.Before against a *time.Time that may be nil.
BeforeEnd(t, to) == to = NoEnd \/ t < to

\* (mutant) Only the start of the new range is looked for in the others.
StartInside(a, b) == a.from >= b.from /\ BeforeEnd(a.from, b.to)

RangesOverlap(a, b) == BeforeEnd(a.from, b.to) /\ BeforeEnd(b.from, a.to)

IsValidInRange(at, r) == at >= r.from /\ BeforeEnd(at, r.to)

ValidateTemporalRange(r) == r.from # ZeroTime /\ BeforeEnd(r.from, r.to)

\* The WHERE clause of CheckOverlap and of checkActiveOverlap: $5 and $6 are
\* the ends of the range asked about, a comparison with NULL is not true.
SqlLess(t, to) == to # NoEnd /\ t < to

SqlOverlap(row, asked) ==
    /\ SqlLess(row.from, asked.to) \/ asked.to = NoEnd \/ row.from < asked.from
    /\ row.to = NoEnd \/ row.to > asked.from

-----------------------------------------------------------------------------
(* Facts about them, proved where the stores need them.                    *)

TimeRange == {r \in RequestRange : ValidateTemporalRange(r)}

\* Two validated ranges overlap exactly when some instant is valid in both:
\* RangesOverlap (temporal.go:17) compares the ends only, IsValidInRange
\* (temporal.go:29) is what an evaluation asks.
OverlapIsSharedInstant ==
    \A a, b \in TimeRange :
        RangesOverlap(a, b) <=>
            \E t \in Instants : IsValidInRange(t, a) /\ IsValidInRange(t, b)

\* The overlap predicate written in SQL agrees with the one written in Go on
\* every validated range, whichever of the two the store uses.
SqlAgreesWithGo ==
    \A row, asked \in TimeRange :
        SqlOverlap(row, asked) <=> RangesOverlap(asked, row)

-----------------------------------------------------------------------------
(* The calendar that the rows f of a store make: an instant belongs to the *)
(* range it is valid in, to 0 if there is none.                            *)

Holders(f, n, t) == {i \in DOMAIN f : f[i].name = n /\ IsValidInRange(t, f[i].range)}

Owners(f, names) ==
    [n \in names |-> [t \in Instants |->
        IF Holders(f, n, t) = {} THEN 0 ELSE CHOOSE i \in Holders(f, n, t) : TRUE]]

ShownOf(f) == {i \in DOMAIN f : f[i].active}
=============================================================================
