SPECIFICATION Spec
CONSTANTS
    Rules = {r1}
    Infos = {i1, i2}
    MaxEdits = 3
    MaxVersion = 1
    MaxGen = 0
    MaxInFlight = 1
    MaxCrashes = 1
    DbMayFail = TRUE
    AlwaysDue = FALSE
    NoRule = NoRule
    NoDef = NoDef
    NoInfo = NoInfo
SYMMETRY Symmetry
INVARIANTS
    TypeOK
    DeletedRuleHasNoState
    DeletedRuleEndsItsAlerts
    NoLeakedRoutine
