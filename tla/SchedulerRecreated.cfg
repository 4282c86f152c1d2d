SPECIFICATION Spec
CONSTANTS
    Rules = {r1}
    Infos = {i1}
    MaxEdits = 3
    MaxVersion = 1
    MaxGen = 1
    MaxInFlight = 2
    MaxCrashes = 0
    DbMayFail = FALSE
    AlwaysDue = TRUE
    NoRule = NoRule
    NoDef = NoDef
    NoInfo = NoInfo
PROPERTY NoChangesMeansNoChanges
