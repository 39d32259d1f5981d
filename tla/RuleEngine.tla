----------------------------- MODULE RuleEngine -----------------------------
(***************************************************************************)
(* What a stored flag is checked for and what it answers: validateFlag of  *)
(* src/internal/flag/memory_repository.go, which both stores call before   *)
(* they write, and Evaluate of src/internal/flag/evaluator.go, which never *)
(* checks again what it reads.                                             *)
(*                                                                         *)
(* A value is a record of its kind and its data.  Texts are compared by a  *)
(* given relation, weights and points are multiples of one small unit.     *)
(* The flag's own key, which every route requires too, is left out.        *)
(***************************************************************************)
EXTENDS Integers, Sequences

CONSTANTS
    Nothing,        \* "", nil and the absent rollout
    VariationLists, \* what a request may bring: variations,
    DefaultKeys,    \* default keys
    RuleLists,      \* and rules
    Contexts,       \* the attributes evaluations bring, functions to values
    TextMatch,      \* <<operator, attribute value, condition value>> that match
    Hashes,         \* FNV-1a as functions from <<seed, value>> to Points
    Points,         \* Sum32() % 10000 / 100, in units
    Total,          \* 100 per cent
    Slack           \* the 0.0001 by which the weights may miss it

ASSUME TotalAssumption == Total \in Nat /\ Slack \in Nat
\* 99.99, the last point, is below the least total that is accepted.
ASSUME PointsAssumption == Points \subseteq Nat /\ \A p \in Points : p < Total - Slack

IsSeq(s) == Len(s) \in Nat /\ DOMAIN s = 1..Len(s)
ASSUME RuleListsAssumption ==
    \A rules \in RuleLists : IsSeq(rules) /\ \A i \in DOMAIN rules :
        /\ IsSeq(rules[i].conditions)
        /\ rules[i].rollout # Nothing =>
            /\ IsSeq(rules[i].rollout.buckets)
            /\ \A j \in DOMAIN rules[i].rollout.buckets :
                rules[i].rollout.buckets[j].weight \in Int

VARIABLE flag   \* the stored flag

Requests == [enabled : BOOLEAN, defaultKey : DefaultKeys,
             variations : VariationLists, rules : RuleLists]

First(S) == CHOOSE i \in S : \A j \in S : i =< j

-----------------------------------------------------------------------------
(* Validation.                                                             *)

Kinds == {"boolean", "string", "number", "object"}

validateVariation(v) == v.type \in Kinds /\ v.value.kind = v.type

validateCondition(c) ==
    \/ c.operator = "exists"
    \/ c.operator \in {"equals", "not_equals"} /\ c.value.kind # "null"
    \/ c.operator \in {"contains", "starts_with", "ends_with"} /\ c.value.kind = "string"
    \/ c.operator \in {"greater_than", "less_than"} /\ c.value.kind = "number"
    \/ c.operator = "in" /\ c.value.kind = "list" /\ c.value.data # {}

\* The float additions of the validation and of the evaluation are the same
\* ones in the same order, so they give the same sums.
Cumulative(buckets) ==
    LET sum[i \in 0..Len(buckets)] ==
            IF i = 0 THEN 0 ELSE sum[i - 1] + buckets[i].weight
    IN  sum

\* (mutants) A rollout of unknown variations; of weights with any total.
RolloutOfAnything(r, keys) ==
    /\ r.attribute # Nothing
    /\ Len(r.buckets) > 0
    /\ \A i \in DOMAIN r.buckets : r.buckets[i].weight > 0
    /\ Cumulative(r.buckets)[Len(r.buckets)] \in (Total - Slack)..(Total + Slack)
RolloutOfAnyTotal(r, keys) ==
    /\ r.attribute # Nothing
    /\ Len(r.buckets) > 0
    /\ \A i \in DOMAIN r.buckets : r.buckets[i].weight > 0 /\ r.buckets[i].variationKey \in keys

validateRollout(r, keys) ==
    /\ r.attribute # Nothing
    /\ Len(r.buckets) > 0
    /\ \A i \in DOMAIN r.buckets : r.buckets[i].weight > 0 /\ r.buckets[i].variationKey \in keys
    /\ Cumulative(r.buckets)[Len(r.buckets)] \in (Total - Slack)..(Total + Slack)

validateRule(rule, keys) ==
    /\ \A i \in DOMAIN rule.conditions :
        rule.conditions[i].attribute # Nothing /\ validateCondition(rule.conditions[i])
    /\ IF rule.rollout # Nothing
       THEN rule.variationKey = Nothing /\ validateRollout(rule.rollout, keys)
       ELSE rule.variationKey # Nothing /\ rule.variationKey \in keys

KeysOf(f) == {f.variations[i].key : i \in DOMAIN f.variations}

validateFlag(f) ==
    /\ f.variations # <<>>
    /\ Nothing \notin KeysOf(f)
    /\ \A i, j \in DOMAIN f.variations : f.variations[i].key = f.variations[j].key => i = j
    /\ \A i \in DOMAIN f.variations : validateVariation(f.variations[i])
    /\ f.defaultKey \in KeysOf(f)
    /\ \A i \in DOMAIN f.rules : validateRule(f.rules[i], KeysOf(f))

-----------------------------------------------------------------------------
(* Evaluation.                                                             *)

Numbers(x, y) == x.kind = "number" /\ y.kind = "number"

\* One case of the switch in conditionsMatch, the attribute being there.
Satisfies(x, c) ==
    \/ c.operator = "exists"
    \/ c.operator = "equals" /\ x = c.value
    \/ c.operator = "not_equals" /\ x # c.value
    \/ <<c.operator, x, c.value>> \in TextMatch
    \/ c.operator = "greater_than" /\ Numbers(x, c.value) /\ x.data > c.value.data
    \/ c.operator = "less_than" /\ Numbers(x, c.value) /\ x.data < c.value.data
    \/ c.operator = "in" /\ c.value.kind = "list" /\ x \in c.value.data

Operators == {"exists", "equals", "not_equals", "contains", "starts_with", "ends_with",
              "greater_than", "less_than", "in"}

conditionOutcome(c, attrs) ==
    IF c.operator \notin Operators THEN "error"
    ELSE IF c.attribute \in DOMAIN attrs /\ Satisfies(attrs[c.attribute], c)
    THEN "matched" ELSE "unmatched"

\* The first condition that does not hold decides, also when a later one is
\* in error.
conditionsMatch(conditions, attrs) ==
    LET broken == {i \in DOMAIN conditions : conditionOutcome(conditions[i], attrs) # "matched"}
    IN  IF broken = {} THEN "matched" ELSE conditionOutcome(conditions[First(broken)], attrs)

\* buildResultFromKey: a key that is not defined is an error.
buildResult(key, keys, reason) ==
    [key |-> key, reason |-> IF key \in keys THEN reason ELSE "error"]

Unmatched == [key |-> Nothing, reason |-> "unmatched"]

\* (mutant) The comparison is not strict.
AtOrAbove(buckets, point) == {i \in DOMAIN buckets : point =< Cumulative(buckets)[i]}

\* The buckets whose cumulative weight is above the point: the loop stops at
\* the first of them and falls back to the last bucket if there is none.
Above(buckets, point) == {i \in DOMAIN buckets : point < Cumulative(buckets)[i]}

\* (mutant) The heaviest bucket is served first.
HeaviestFirst(buckets, point) ==
    LET heaviest == First({i \in DOMAIN buckets : \A j \in DOMAIN buckets :
                            buckets[j].weight =< buckets[i].weight})
        others == DOMAIN buckets \ {heaviest}
    IN  IF point < buckets[heaviest].weight \/ others = {} THEN heaviest ELSE First(others)

BucketOf(buckets, point) ==
    IF Above(buckets, point) # {} THEN First(Above(buckets, point)) ELSE Len(buckets)

evaluateRollout(r, attrs, hash, keys) ==
    IF r.attribute \notin DOMAIN attrs THEN Unmatched
    ELSE LET point == hash[<<r.seed, attrs[r.attribute]>>]
         IN  buildResult(r.buckets[BucketOf(r.buckets, point)].variationKey, keys,
                         "PERCENTAGE_ROLLOUT")

evaluateRule(rule, attrs, hash, keys) ==
    LET outcome == conditionsMatch(rule.conditions, attrs) IN
    IF outcome # "matched" THEN [key |-> Nothing, reason |-> outcome]
    ELSE IF rule.rollout # Nothing THEN evaluateRollout(rule.rollout, attrs, hash, keys)
    ELSE buildResult(rule.variationKey, keys, "TARGET_MATCH")

Evaluate(f, attrs, hash) ==
    LET outcome(i) == evaluateRule(f.rules[i], attrs, hash, KeysOf(f))
        deciding == {i \in DOMAIN f.rules : outcome(i) # Unmatched}
    IN  IF ~f.enabled THEN buildResult(f.defaultKey, KeysOf(f), "DISABLED")
        ELSE IF deciding = {} THEN buildResult(f.defaultKey, KeysOf(f), "DEFAULT")
        ELSE outcome(First(deciding))

-----------------------------------------------------------------------------
(* A store that holds one range, rewritten by upserts.                     *)

UpsertFlag(f) == validateFlag(f) /\ flag' = f

Init == flag \in {f \in Requests : validateFlag(f)}
Next == \E f \in Requests : UpsertFlag(f)
Spec == Init /\ [][Next]_flag

-----------------------------------------------------------------------------
(* Properties.                                                             *)

\* Whatever the validation lets into a store can be evaluated: no context
\* and no hash makes Evaluate return an error or a variation that the flag
\* does not have (evaluator.go:61, :110), which the API would answer with a
\* 500 on every request for the flag.
EvaluationNeverFails ==
    \A attrs \in Contexts, hash \in Hashes :
        LET result == Evaluate(flag, attrs, hash)
        IN  /\ result.reason \in {"DISABLED", "DEFAULT", "TARGET_MATCH", "PERCENTAGE_ROLLOUT"}
            /\ result.key \in KeysOf(flag)

Rollouts == {flag.rules[i].rollout : i \in DOMAIN flag.rules} \ {Nothing}

\* The fallback to the last bucket (evaluator.go:270) is never taken: the
\* tolerance on the total is smaller than the distance of the last point
\* from 100, so no user lands behind the buckets.
FallbackNeverTaken ==
    \A r \in Rollouts, p \in Points : Above(r.buckets, p) # {}

\* A rollout serves the shares it was asked for: where the cumulative weights
\* are points, a bucket takes exactly the points between its neighbours'
\* (the strict comparison of evaluator.go:261).
SharesAreWeights ==
    \A r \in Rollouts : \A i \in DOMAIN r.buckets :
        LET sum == Cumulative(r.buckets)
        IN  {p \in Points : BucketOf(r.buckets, p) = i} =
            {p \in Points : sum[i - 1] =< p /\ p < sum[i]}

\* q is r with other weights, none of its first bucket taken away.
Widens(q, r) ==
    /\ q # Nothing /\ r # Nothing
    /\ q.attribute = r.attribute /\ q.seed = r.seed
    /\ DOMAIN q.buckets = DOMAIN r.buckets
    /\ \A i \in DOMAIN r.buckets : q.buckets[i].variationKey = r.buckets[i].variationKey
    /\ q.buckets[1].weight >= r.buckets[1].weight

\* A gradual rollout only grows: widening the first bucket of a rollout takes
\* the variation from nobody who had it, because the point of a user depends
\* on seed and attribute alone and the first bucket starts at zero
\* (evaluator.go:251).
WideningKeepsUsers ==
    [][\A i \in DOMAIN flag.rules \cap DOMAIN flag'.rules :
        LET r == flag.rules[i].rollout
            q == flag'.rules[i].rollout
        IN  Widens(q, r) => \A p \in Points :
                BucketOf(r.buckets, p) = 1 => BucketOf(q.buckets, p) = 1]_flag
=============================================================================
