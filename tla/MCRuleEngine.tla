---------------------------- MODULE MCRuleEngine ----------------------------
EXTENDS RuleEngine, SequencesExt

Text(t) == [kind |-> "string", data |-> t]
Number(n) == [kind |-> "number", data |-> n]
Null == [kind |-> "null", data |-> 0]
List(S) == [kind |-> "list", data |-> S]

MCPoints == {0, 2, 4}
MCTextMatch == {<<"starts_with", Text("bob"), Text("b")>>}
MCValues == {Text("bob"), Text("eve"), Number(3)}
MCContexts == UNION {[A -> MCValues] : A \in SUBSET {"user"}}
MCHashes == [{"seed"} \X MCValues -> MCPoints]

Variation(k, t, v) == [key |-> k, type |-> t, value |-> v]
On == Variation("on", "string", Text("on"))
Off == Variation("off", "string", Text("off"))
MCVariationLists ==
    {<<On, Off>>, <<On>>, <<>>, <<On, On>>, <<On, Variation(Nothing, "string", Text("x"))>>,
     <<On, Variation("off", "number", Text("x"))>>}
MCDefaultKeys == {"on", "off", Nothing}

Rollout(keys, weights) ==
    [attribute |-> "user", seed |-> "seed",
     buckets |-> [i \in DOMAIN weights |->
                    [variationKey |-> keys[i], weight |-> weights[i]]]]
OnOff(weights) == Rollout([i \in 1..3 |-> IF i = 1 THEN "on" ELSE "off"], weights)
MCRollouts ==
    {OnOff(<<2, 4>>), OnOff(<<4, 2>>), OnOff(<<1, 5>>), OnOff(<<3, 4>>), OnOff(<<2, 2, 2>>),
     OnOff(<<5>>), OnOff(<<6>>), OnOff(<<4>>), OnOff(<<0, 6>>), OnOff(<<>>), OnOff(<<7, 1>>),
     [OnOff(<<6>>) EXCEPT !.attribute = Nothing]}

Condition(a, o, v) == [attribute |-> a, operator |-> o, value |-> v]
MCConditions ==
    {Condition("user", "exists", Null), Condition("user", "equals", Text("bob")),
     Condition("user", "not_equals", Text("bob")), Condition("user", "not_equals", Null),
     Condition("user", "starts_with", Text("b")), Condition("user", "ends_with", Number(3)),
     Condition("user", "greater_than", Number(2)), Condition("user", "less_than", Text("b")),
     Condition("user", "in", List({Text("eve"), Number(3)})), Condition("user", "in", List({})),
     Condition("user", "like", Text("b")), Condition(Nothing, "exists", Null)}

Rule(conditions, key, rollout) ==
    [conditions |-> conditions, variationKey |-> key, rollout |-> rollout]
MCRules ==
    {Rule(<<c>>, "on", Nothing) : c \in MCConditions} \cup
    {Rule(<<>>, Nothing, r) : r \in MCRollouts} \cup
    {Rule(<<>>, "off", Nothing), Rule(<<>>, Nothing, Nothing), Rule(<<>>, "on", OnOff(<<6>>)),
     Rule(<<Condition("user", "exists", Null), Condition("user", "less_than", Number(3))>>,
          "off", Nothing)}
MCRuleLists == BoundedSeq(MCRules, 1) \cup
    {<<Rule(<<c>>, "off", Nothing), Rule(<<>>, Nothing, r)>> : c \in MCConditions, r \in MCRollouts}
=============================================================================
