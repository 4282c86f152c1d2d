SPECIFICATION FairSpec
CONSTANTS
    Rules = {r1}
    Infos = {i1}
    MaxEdits = 3
    MaxVersion = 2
    MaxGen = 0
    MaxInFlight = 2
    MaxCrashes = 0
    DbMayFail = FALSE
    AlwaysDue = TRUE
    NoRule = NoRule
    NoDef = NoDef
    NoInfo = NoInfo
INVARIANT StateMatchesVersion
PROPERTIES
    RuleIsEvaluated
    DeletedRuleIsForgotten
    LatestVersionTakesOver
