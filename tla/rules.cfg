CONSTANTS
    Nothing = Nothing
    VariationLists <- MCVariationLists
    DefaultKeys <- MCDefaultKeys
    RuleLists <- MCRuleLists
    Contexts <- MCContexts
    TextMatch <- MCTextMatch
    Hashes <- MCHashes
    Points <- MCPoints
    Total = 6
    Slack = 1
SPECIFICATION Spec
INVARIANTS EvaluationNeverFails FallbackNeverTaken SharesAreWeights
PROPERTIES WideningKeepsUsers
