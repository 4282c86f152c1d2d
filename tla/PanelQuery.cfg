SPECIFICATION Spec
CONSTANTS
    MaxRuns = 2
    Sources = {s1, s2}
    Keys = {A, B}
    MergesDashData = TRUE
    None = None
CONSTRAINT FirstSource
INVARIANTS
    TypeOK
    QueryIsOwned
    NothingIsMissing
    SpinnerIsHonest
PROPERTIES
    NeverGoesBack
    SpinnerStops
    LastRunIsShown
CHECK_DEADLOCK FALSE
