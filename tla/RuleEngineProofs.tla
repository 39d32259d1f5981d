-------------------------- MODULE RuleEngineProofs --------------------------
(***************************************************************************)
(* Proofs about validation and evaluation, for any variations, rules,      *)
(* contexts, text relation and hash, and any tolerance smaller than the    *)
(* distance of the last point from 100 per cent.  The inductive invariant  *)
(* is that the stored flag is one that a request brought and validateFlag  *)
(* accepted; what the properties say then follows for any such flag.       *)
(***************************************************************************)
EXTENDS RuleEngine, WellFoundedInduction, TLAPS

\* The inductive invariant.
Accepted == flag \in Requests /\ validateFlag(flag)

-----------------------------------------------------------------------------
(* Lemmas.                                                                 *)

\* The loops of the evaluation stop at an index of what they walk.
LEMMA FirstIsLeast ==
    ASSUME NEW S, S \subseteq Nat, S # {}
    PROVE  First(S) \in S /\ \A j \in S : First(S) =< j
<1>1. PICK i \in S : \A j \in S : <<j, i>> \notin OpToRel(<, Nat)
  BY WFMin, NatLessThanWellFounded, Zenon
<1>2. \A j \in S : ~(j < i)
  BY <1>1, Zenon DEF OpToRel
<1>3. \A j \in S : i =< j
  BY <1>2
<1>4. QED
  BY <1>3, Zenon DEF First

\* Whatever the point, a rollout with buckets serves one of them.
LEMMA BucketExists ==
    ASSUME NEW buckets, IsSeq(buckets), Len(buckets) > 0, NEW point
    PROVE  BucketOf(buckets, point) \in DOMAIN buckets
<1>1. DOMAIN buckets \subseteq Nat /\ Len(buckets) \in DOMAIN buckets
  BY DEF IsSeq
<1>2. CASE Above(buckets, point) = {}
  BY <1>1, <1>2 DEF BucketOf
<1>3. CASE Above(buckets, point) # {}
  <2>1. Above(buckets, point) \subseteq DOMAIN buckets
    BY DEF Above
  <2>2. First(Above(buckets, point)) \in Above(buckets, point)
    BY <1>1, <1>3, <2>1, FirstIsLeast
  <2>3. QED
    BY <1>3, <2>1, <2>2 DEF BucketOf
<1>4. QED
  BY <1>2, <1>3

\* Conditions that passed validation are matched or not, but never in error.
LEMMA ConditionsNeverFail ==
    ASSUME NEW conditions, IsSeq(conditions), NEW attrs,
           \A i \in DOMAIN conditions : validateCondition(conditions[i])
    PROVE  conditionsMatch(conditions, attrs) \in {"matched", "unmatched"}
<1> DEFINE broken == {i \in DOMAIN conditions :
                        conditionOutcome(conditions[i], attrs) # "matched"}
<1>1. \A i \in DOMAIN conditions :
        conditionOutcome(conditions[i], attrs) \in {"matched", "unmatched"}
  BY Zenon DEF validateCondition, conditionOutcome, Operators
<1>2. CASE broken = {}
  BY <1>2 DEF conditionsMatch
<1>3. CASE broken # {}
  <2>1. broken \subseteq Nat
    BY DEF IsSeq
  <2>2. First(broken) \in DOMAIN conditions
    BY <1>3, <2>1, FirstIsLeast
  <2>3. conditionsMatch(conditions, attrs) = conditionOutcome(conditions[First(broken)], attrs)
    BY <1>3, Zenon DEF conditionsMatch
  <2>4. QED
    BY <1>1, <2>2, <2>3
<1>4. QED
  BY <1>2, <1>3

Served(result, keys) ==
    /\ result.reason \in {"DISABLED", "DEFAULT", "TARGET_MATCH", "PERCENTAGE_ROLLOUT"}
    /\ result.key \in keys

\* A rule that passed validation is passed over or serves a variation.
LEMMA RuleNeverFails ==
    ASSUME NEW rule, NEW keys, NEW attrs, NEW hash, validateRule(rule, keys),
           IsSeq(rule.conditions), rule.rollout # Nothing => IsSeq(rule.rollout.buckets)
    PROVE  \/ evaluateRule(rule, attrs, hash, keys) = Unmatched
           \/ Served(evaluateRule(rule, attrs, hash, keys), keys)
<1> DEFINE outcome == conditionsMatch(rule.conditions, attrs)
<1>1. outcome \in {"matched", "unmatched"}
  BY ConditionsNeverFail DEF validateRule
<1>2. CASE outcome = "unmatched"
  BY <1>2 DEF evaluateRule, Unmatched
<1>3. CASE outcome = "matched" /\ rule.rollout = Nothing
  <2>1. rule.variationKey \in keys
    BY <1>3 DEF validateRule
  <2>2. evaluateRule(rule, attrs, hash, keys) = buildResult(rule.variationKey, keys, "TARGET_MATCH")
    BY <1>3 DEF evaluateRule
  <2>3. QED
    BY <2>1, <2>2 DEF buildResult, Served
<1>4. CASE outcome = "matched" /\ rule.rollout # Nothing
  <2> DEFINE r == rule.rollout
             point == hash[<<r.seed, attrs[r.attribute]>>]
             key == r.buckets[BucketOf(r.buckets, point)].variationKey
  <2>1. evaluateRule(rule, attrs, hash, keys) = evaluateRollout(r, attrs, hash, keys)
    BY <1>4 DEF evaluateRule
  <2>2. validateRollout(r, keys)
    BY <1>4 DEF validateRule
  <2>3. BucketOf(r.buckets, point) \in DOMAIN r.buckets
    BY <1>4, <2>2, BucketExists DEF validateRollout
  <2>4. key \in keys
    BY <2>2, <2>3 DEF validateRollout
  <2>5. evaluateRollout(r, attrs, hash, keys) \in
            {Unmatched, buildResult(key, keys, "PERCENTAGE_ROLLOUT")}
    BY DEF evaluateRollout
  <2>6. QED
    BY <2>1, <2>4, <2>5 DEF buildResult, Served
<1>5. QED
  BY <1>1, <1>2, <1>3, <1>4

\* A flag that was accepted serves one of its variations.
LEMMA AcceptedIsServed ==
    ASSUME NEW f \in Requests, validateFlag(f), NEW attrs, NEW hash
    PROVE  Served(Evaluate(f, attrs, hash), KeysOf(f))
<1> DEFINE outcome(i) == evaluateRule(f.rules[i], attrs, hash, KeysOf(f))
           deciding == {i \in DOMAIN f.rules : outcome(i) # Unmatched}
           result == Evaluate(f, attrs, hash)
<1>1. f.defaultKey \in KeysOf(f)
  BY DEF validateFlag
<1>2. Evaluate(f, attrs, hash) =
        IF ~f.enabled THEN buildResult(f.defaultKey, KeysOf(f), "DISABLED")
        ELSE IF deciding = {} THEN buildResult(f.defaultKey, KeysOf(f), "DEFAULT")
        ELSE outcome(First(deciding))
  BY Zenon DEF Evaluate
<1>3. IsSeq(f.rules) /\ \A i \in DOMAIN f.rules :
        /\ IsSeq(f.rules[i].conditions)
        /\ f.rules[i].rollout # Nothing => IsSeq(f.rules[i].rollout.buckets)
  BY RuleListsAssumption DEF Requests
<1>4. \A i \in DOMAIN f.rules : outcome(i) = Unmatched \/ Served(outcome(i), KeysOf(f))
  BY <1>3, RuleNeverFails DEF validateFlag
<1>5. CASE ~f.enabled \/ deciding = {}
  BY <1>1, <1>2, <1>5 DEF buildResult, Served
<1>6. CASE f.enabled /\ deciding # {}
  <2>1. deciding \subseteq Nat
    BY <1>3 DEF IsSeq
  <2>2. First(deciding) \in deciding
    BY <1>6, <2>1, FirstIsLeast
  <2>3. Served(outcome(First(deciding)), KeysOf(f))
    BY <1>4, <2>2
  <2>4. Evaluate(f, attrs, hash) = outcome(First(deciding))
    BY <1>2, <1>6
  <2>5. QED
    BY <2>3, <2>4
<1>7. QED
  BY <1>5, <1>6

\* The last cumulative weight of an accepted rollout is above every point.
LEMMA LastBucketIsAbove ==
    ASSUME NEW r, NEW keys, validateRollout(r, keys), IsSeq(r.buckets), NEW p \in Points
    PROVE  Len(r.buckets) \in Above(r.buckets, p)
<1> DEFINE total == Cumulative(r.buckets)[Len(r.buckets)]
<1>1. total \in (Total - Slack)..(Total + Slack)
  BY DEF validateRollout
<1>2. Len(r.buckets) \in DOMAIN r.buckets
  BY DEF validateRollout, IsSeq
<1>3. p \in Nat /\ p < Total - Slack
  BY PointsAssumption
<1> HIDE DEF total
<1>4. p < total
  BY <1>1, <1>3, TotalAssumption
<1>5. QED
  BY <1>2, <1>4, Zenon DEF Above, total

-----------------------------------------------------------------------------
(* The cumulative weights.  Induction is by the least counterexample.       *)

Weighted(buckets) ==
    IsSeq(buckets) /\ \A i \in DOMAIN buckets : buckets[i].weight \in Int

\* The equation that Cumulative solves, up to bucket k.
SumsUpTo(sum, buckets, k) ==
    \A i \in 0..k : sum[i] = IF i = 0 THEN 0 ELSE sum[i - 1] + buckets[i].weight

\* It can be solved up to any bucket.
LEMMA SumsExist ==
    ASSUME NEW buckets, Weighted(buckets)
    PROVE  \A k \in 0..Len(buckets) : \E sum \in [0..k -> Int] : SumsUpTo(sum, buckets, k)
<1> DEFINE Solved(k) == \E sum \in [0..k -> Int] : SumsUpTo(sum, buckets, k)
           bad == {k \in 0..Len(buckets) : ~Solved(k)}
<1>1. Len(buckets) \in Nat /\ \A i \in 1..Len(buckets) : buckets[i].weight \in Int
  BY DEF Weighted, IsSeq
<1>2. Solved(0)
  <2>1. [i \in 0..0 |-> 0] \in [0..0 -> Int]
    OBVIOUS
  <2>2. SumsUpTo([i \in 0..0 |-> 0], buckets, 0)
    BY DEF SumsUpTo
  <2>3. QED
    BY <2>1, <2>2
<1>3. ASSUME NEW k \in 1..Len(buckets), Solved(k - 1)
      PROVE  Solved(k)
  <2>1. PICK sum \in [0..(k - 1) -> Int] : SumsUpTo(sum, buckets, k - 1)
    BY <1>3
  <2> DEFINE longer == [i \in 0..k |-> IF i = k THEN sum[k - 1] + buckets[k].weight ELSE sum[i]]
  <2>2. k \in Nat /\ k > 0 /\ buckets[k].weight \in Int /\ sum[k - 1] \in Int
    BY <1>1
  <2>3. longer \in [0..k -> Int]
    BY <2>2
  <2>4. ASSUME NEW i \in 0..k
        PROVE  longer[i] = IF i = 0 THEN 0 ELSE longer[i - 1] + buckets[i].weight
    <3>1. CASE i = k
      BY <2>2, <3>1
    <3>2. CASE i # k
      <4>1. i \in 0..(k - 1) /\ (i # 0 => i - 1 \in 0..k /\ i - 1 # k)
        BY <2>2, <3>2
      <4>2. sum[i] = IF i = 0 THEN 0 ELSE sum[i - 1] + buckets[i].weight
        BY <2>1, <4>1 DEF SumsUpTo
      <4>3. QED
        BY <3>2, <4>1, <4>2
    <3>3. QED
      BY <3>1, <3>2
  <2> HIDE DEF longer
  <2>5. SumsUpTo(longer, buckets, k)
    BY <2>4 DEF SumsUpTo
  <2>6. QED
    BY <2>3, <2>5
<1> HIDE DEF Solved
<1>4. ASSUME bad # {}
      PROVE  FALSE
  <2>1. bad \subseteq Nat
    BY <1>1
  <2>2. First(bad) \in bad /\ \A k \in bad : First(bad) =< k
    BY <1>4, <2>1, FirstIsLeast
  <2>3. First(bad) \in 1..Len(buckets) /\ First(bad) - 1 \notin bad
    BY <1>1, <1>2, <2>2
  <2>4. Solved(First(bad) - 1)
    BY <1>1, <2>3
  <2>5. QED
    BY <1>3, <2>2, <2>3, <2>4
<1>5. QED
  BY <1>4 DEF Solved

\* So Cumulative is what its definition says: each cumulative weight is the
\* one before it and the weight of its bucket.
LEMMA CumulativeSums ==
    ASSUME NEW buckets, Weighted(buckets)
    PROVE  /\ Cumulative(buckets)[0] = 0
           /\ \A i \in DOMAIN buckets :
                Cumulative(buckets)[i] = Cumulative(buckets)[i - 1] + buckets[i].weight
<1> DEFINE n == Len(buckets)
           Step(sum) == [i \in 0..n |-> IF i = 0 THEN 0 ELSE sum[i - 1] + buckets[i].weight]
<1>1. n \in Nat /\ DOMAIN buckets = 1..n
  BY DEF Weighted, IsSeq
<1>2. PICK f \in [0..n -> Int] : SumsUpTo(f, buckets, n)
  BY <1>1, SumsExist
<1>3. f = Step(f)
  BY <1>2 DEF SumsUpTo
<1>4. Cumulative(buckets) = CHOOSE sum : sum = Step(sum)
  BY DEF Cumulative
<1>5. Cumulative(buckets) = Step(Cumulative(buckets))
  <2> HIDE DEF Step
  <2>1. QED
    BY <1>3, <1>4, Zenon
<1>6. \A i \in 0..n : Step(Cumulative(buckets))[i] =
        IF i = 0 THEN 0 ELSE Cumulative(buckets)[i - 1] + buckets[i].weight
  OBVIOUS
<1> HIDE DEF Step
<1>7. \A i \in 0..n : Cumulative(buckets)[i] =
        IF i = 0 THEN 0 ELSE Cumulative(buckets)[i - 1] + buckets[i].weight
  BY <1>5, <1>6
<1>8. QED
  BY <1>1, <1>7

\* Cumulative weights are numbers, and under positive weights they rise from
\* each bucket to the next and from each to any later one.
LEMMA SumsRise ==
    ASSUME NEW buckets, Weighted(buckets), \A i \in DOMAIN buckets : buckets[i].weight > 0
    PROVE  /\ \A i \in 0..Len(buckets) : Cumulative(buckets)[i] \in Int
           /\ \A j \in 0..Len(buckets) : \A i \in 0..Len(buckets) :
                i < j => Cumulative(buckets)[i] < Cumulative(buckets)[j]
<1> DEFINE n == Len(buckets)
           sum == Cumulative(buckets)
           Fine(j) == sum[j] \in Int /\ \A i \in 0..n : i < j => sum[i] < sum[j]
           bad == {j \in 0..n : ~Fine(j)}
<1>1. n \in Nat /\ DOMAIN buckets = 1..n
  BY DEF Weighted, IsSeq
<1>2. sum[0] = 0 /\ \A j \in 1..n : sum[j] = sum[j - 1] + buckets[j].weight
  BY <1>1, CumulativeSums
<1>3. \A j \in 1..n : buckets[j].weight \in Int /\ buckets[j].weight > 0
  BY <1>1 DEF Weighted
<1> HIDE DEF sum, n
<1>4. Fine(0)
  BY <1>1, <1>2
<1>5. ASSUME NEW j \in 1..n, \A k \in 0..n : k < j => Fine(k)
      PROVE  Fine(j)
  <2>1. j - 1 \in 0..n /\ j - 1 < j /\ Fine(j - 1)
    BY <1>1, <1>5
  <2>2. sum[j] \in Int /\ sum[j - 1] \in Int /\ sum[j - 1] < sum[j]
    BY <1>2, <1>3, <2>1
  <2>3. ASSUME NEW i \in 0..n, i < j
        PROVE  sum[i] < sum[j]
    <3>1. i = j - 1 \/ i < j - 1
      BY <1>1, <2>3
    <3>2. sum[i] \in Int
      BY <1>5, <2>3
    <3>3. QED
      BY <2>1, <2>2, <3>1, <3>2
  <2>4. QED
    BY <2>2, <2>3
<1> HIDE DEF Fine
<1>6. ASSUME bad # {}
      PROVE  FALSE
  <2>1. bad \subseteq Nat
    BY <1>1
  <2>2. First(bad) \in bad /\ \A k \in bad : First(bad) =< k
    BY <1>6, <2>1, FirstIsLeast
  <2>3. First(bad) \in 1..n
    BY <1>1, <1>4, <2>2
  <2>4. ASSUME NEW k \in 0..n, k < First(bad)
        PROVE  Fine(k)
    BY <1>1, <2>2, <2>3, <2>4
  <2>5. QED
    BY <1>5, <2>2, <2>3, <2>4
<1>7. QED
  BY <1>6 DEF Fine, sum, n

\* Which bucket a point falls into: the one whose cumulative weight is the
\* first above it.  The last one being above it is what LastBucketIsAbove
\* says of accepted rollouts.
LEMMA BucketIsBetweenSums ==
    ASSUME NEW buckets, Weighted(buckets), \A i \in DOMAIN buckets : buckets[i].weight > 0,
           NEW p \in Nat, Len(buckets) \in Above(buckets, p), NEW i \in DOMAIN buckets
    PROVE  BucketOf(buckets, p) = i <=>
             Cumulative(buckets)[i - 1] =< p /\ p < Cumulative(buckets)[i]
<1> DEFINE n == Len(buckets)
           sum == Cumulative(buckets)
           above == Above(buckets, p)
           b == BucketOf(buckets, p)
<1>1. n \in Nat /\ DOMAIN buckets = 1..n
  BY DEF Weighted, IsSeq
<1>2. above = {j \in 1..n : p < sum[j]}
  BY <1>1 DEF Above
<1>3. b = First(above)
  BY DEF BucketOf
<1>4. above \subseteq Nat /\ above # {}
  BY <1>1, <1>2
<1>5. b \in above /\ \A j \in above : b =< j
  BY <1>3, <1>4, FirstIsLeast
<1>6. sum[0] = 0
  BY CumulativeSums
<1>7. /\ \A j \in 0..n : sum[j] \in Int
      /\ \A j \in 0..n : \A k \in 0..n : k < j => sum[k] < sum[j]
  BY SumsRise
<1> HIDE DEF n, sum, above, b
<1>8. ASSUME b = i
      PROVE  sum[i - 1] =< p /\ p < sum[i]
  <2>1. p < sum[i] /\ i \in 1..n
    BY <1>2, <1>5, <1>8
  <2>2. i - 1 \notin above
    BY <1>1, <1>5, <1>8, <2>1
  <2>3. i = 1 \/ i - 1 \in 1..n
    BY <1>1, <2>1
  <2>4. CASE i = 1
    BY <1>6, <2>1, <2>4
  <2>5. CASE i - 1 \in 1..n
    BY <1>2, <1>7, <2>1, <2>2, <2>5
  <2>6. QED
    BY <2>3, <2>4, <2>5
<1>9. ASSUME sum[i - 1] =< p, p < sum[i]
      PROVE  b = i
  <2>1. i \in 1..n /\ b \in 1..n /\ p < sum[b]
    BY <1>1, <1>2, <1>5
  <2>2. b =< i
    BY <1>2, <1>5, <1>9, <2>1
  <2>3. ASSUME b < i
        PROVE  FALSE
    <3>1. i - 1 \in 0..n /\ b \in 0..n /\ (b = i - 1 \/ b < i - 1)
      BY <1>1, <2>1, <2>3
    <3>2. sum[b] =< sum[i - 1] /\ sum[b] \in Int /\ sum[i - 1] \in Int
      BY <1>7, <3>1
    <3>3. QED
      BY <1>9, <2>1, <3>2
  <2>4. QED
    BY <1>1, <2>1, <2>2, <2>3
<1>10. QED
  BY <1>8, <1>9 DEF sum, b

-----------------------------------------------------------------------------
(* Theorems.                                                               *)

\* Only accepted flags are ever stored.
LEMMA AcceptedInvariant == Spec => []Accepted
<1>1. Init => Accepted
  BY DEF Init, Accepted
<1>2. Accepted /\ [Next]_flag => Accepted'
  BY DEF Accepted, Next, UpsertFlag
<1>3. QED
  BY <1>1, <1>2, PTL DEF Spec

\* No flag that validateFlag lets into a store makes an evaluation fail.
THEOREM StoredFlagsEvaluate == Spec => []EvaluationNeverFails
<1>1. Accepted => EvaluationNeverFails
  BY AcceptedIsServed, Zenon DEF Accepted, EvaluationNeverFails, Served
<1>2. QED
  BY <1>1, AcceptedInvariant, PTL

\* The fallback to the last bucket is dead code behind validateRollout.
THEOREM NoFallback == Spec => []FallbackNeverTaken
<1>1. ASSUME Accepted, NEW r \in Rollouts, NEW p \in Points
      PROVE  Above(r.buckets, p) # {}
  <2>1. PICK i \in DOMAIN flag.rules : r = flag.rules[i].rollout
    BY DEF Rollouts
  <2>2. r # Nothing
    BY DEF Rollouts
  <2>3. IsSeq(r.buckets)
    BY <1>1, <2>1, <2>2, RuleListsAssumption DEF Accepted, Requests
  <2>4. validateRollout(r, KeysOf(flag))
    BY <1>1, <2>1, <2>2 DEF Accepted, validateFlag, validateRule
  <2>5. QED
    BY <2>3, <2>4, LastBucketIsAbove
<1>2. Accepted => FallbackNeverTaken
  BY <1>1 DEF FallbackNeverTaken
<1>3. QED
  BY <1>2, AcceptedInvariant, PTL

\* What the theorems about shares need of the rollouts of an accepted flag.
LEMMA AcceptedRollouts ==
    ASSUME NEW f \in Requests, validateFlag(f), NEW i \in DOMAIN f.rules,
           f.rules[i].rollout # Nothing
    PROVE  LET r == f.rules[i].rollout IN
           /\ Weighted(r.buckets)
           /\ \A j \in DOMAIN r.buckets : r.buckets[j].weight > 0
           /\ 1 \in DOMAIN r.buckets
           /\ \A p \in Points : p \in Nat /\ Len(r.buckets) \in Above(r.buckets, p)
<1> DEFINE r == f.rules[i].rollout
<1>1. Weighted(r.buckets)
  BY RuleListsAssumption DEF Requests, Weighted
<1>2. validateRollout(r, KeysOf(f))
  BY DEF validateFlag, validateRule
<1>3. \A j \in DOMAIN r.buckets : r.buckets[j].weight > 0
  BY <1>2 DEF validateRollout
<1>4. 1 \in DOMAIN r.buckets
  BY <1>1, <1>2 DEF validateRollout, Weighted, IsSeq
<1>5. \A p \in Points : p \in Nat /\ Len(r.buckets) \in Above(r.buckets, p)
  BY <1>1, <1>2, LastBucketIsAbove, PointsAssumption DEF Weighted
<1>6. QED
  BY <1>1, <1>3, <1>4, <1>5

\* Each bucket of a stored rollout serves the points of its share, whatever
\* the weights are.
THEOREM Shares == Spec => []SharesAreWeights
<1>1. ASSUME Accepted, NEW r \in Rollouts, NEW i \in DOMAIN r.buckets, NEW p \in Points
      PROVE  BucketOf(r.buckets, p) = i <=>
               Cumulative(r.buckets)[i - 1] =< p /\ p < Cumulative(r.buckets)[i]
  <2>1. PICK k \in DOMAIN flag.rules : r = flag.rules[k].rollout
    BY DEF Rollouts
  <2>2. r # Nothing
    BY DEF Rollouts
  <2>3. /\ Weighted(r.buckets)
        /\ \A j \in DOMAIN r.buckets : r.buckets[j].weight > 0
        /\ p \in Nat /\ Len(r.buckets) \in Above(r.buckets, p)
    BY <1>1, <2>1, <2>2, AcceptedRollouts DEF Accepted
  <2>4. QED
    BY <1>1, <2>3, BucketIsBetweenSums, Zenon
<1>2. Accepted => SharesAreWeights
  BY <1>1 DEF SharesAreWeights
<1>3. QED
  BY <1>2, AcceptedInvariant, PTL

\* The first bucket serves the points below its weight.
LEMMA FirstBucket ==
    ASSUME NEW f \in Requests, validateFlag(f), NEW i \in DOMAIN f.rules,
           f.rules[i].rollout # Nothing, NEW p \in Points
    PROVE  LET buckets == f.rules[i].rollout.buckets IN
           /\ BucketOf(buckets, p) = 1 <=> p < buckets[1].weight
           /\ buckets[1].weight \in Int
<1> DEFINE buckets == f.rules[i].rollout.buckets
<1>1. /\ Weighted(buckets) /\ 1 \in DOMAIN buckets
      /\ \A j \in DOMAIN buckets : buckets[j].weight > 0
      /\ p \in Nat /\ Len(buckets) \in Above(buckets, p)
  BY AcceptedRollouts
<1> HIDE DEF buckets
<1>2. BucketOf(buckets, p) = 1 <=> Cumulative(buckets)[1 - 1] =< p /\ p < Cumulative(buckets)[1]
  BY <1>1, BucketIsBetweenSums, Zenon
<1>3. Cumulative(buckets)[0] = 0 /\ Cumulative(buckets)[1] = Cumulative(buckets)[1 - 1] + buckets[1].weight
  BY <1>1, CumulativeSums, Zenon
<1>4. buckets[1].weight \in Int
  BY <1>1 DEF Weighted
<1>5. 1 - 1 = 0
  OBVIOUS
<1>6. QED
  BY <1>1, <1>2, <1>3, <1>4, <1>5 DEF buckets

\* Widening the first bucket takes its variation from nobody, because both
\* the flag that is replaced and the one that replaces it were validated.
THEOREM GradualRollout == Spec => WideningKeepsUsers
<1>1. ASSUME Accepted, Next,
             NEW i \in DOMAIN flag.rules \cap DOMAIN flag'.rules,
             Widens(flag'.rules[i].rollout, flag.rules[i].rollout),
             NEW p \in Points, BucketOf(flag.rules[i].rollout.buckets, p) = 1
      PROVE  BucketOf(flag'.rules[i].rollout.buckets, p) = 1
  <2> DEFINE r == flag.rules[i].rollout
             q == flag'.rules[i].rollout
  <2>1. /\ flag \in Requests /\ validateFlag(flag)
        /\ flag' \in Requests /\ validateFlag(flag')
    BY <1>1 DEF Accepted, Next, UpsertFlag
  <2>2. q # Nothing /\ r # Nothing /\ q.buckets[1].weight >= r.buckets[1].weight
    BY <1>1 DEF Widens
  <2>3. p < r.buckets[1].weight /\ r.buckets[1].weight \in Int
    BY <1>1, <2>1, <2>2, FirstBucket
  <2>4. /\ BucketOf(q.buckets, p) = 1 <=> p < q.buckets[1].weight
        /\ q.buckets[1].weight \in Int
    BY <2>1, <2>2, FirstBucket
  <2>5. p \in Int
    BY PointsAssumption
  <2>6. QED
    BY <2>2, <2>3, <2>4, <2>5
<1>2. Accepted /\ [Next]_flag =>
        [\A i \in DOMAIN flag.rules \cap DOMAIN flag'.rules :
          LET r == flag.rules[i].rollout
              q == flag'.rules[i].rollout
          IN  Widens(q, r) => \A p \in Points :
                BucketOf(r.buckets, p) = 1 => BucketOf(q.buckets, p) = 1]_flag
  BY <1>1, Zenon
<1>3. QED
  BY <1>2, AcceptedInvariant, PTL DEF Spec, WideningKeepsUsers
=============================================================================
