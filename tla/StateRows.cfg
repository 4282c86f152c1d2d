SPECIFICATION Spec
CONSTANTS
    Series = {s1, s2}
    Interval = 1
    ResendDelay = 2
    RuleConfigs <- FewConfigs
    StartTime = 1
    MaxTime = 4
    MaxSkip = 2
    MaxUpsets = 1
    MaxLag = 0
    None = None
INVARIANTS
    TypeOK
    RestartLosesNothing
