SPECIFICATION Spec
CONSTANTS
    Series = {s1}
    Interval = 1
    ResendDelay = 2
    RuleConfigs <- SomeConfigs
    StartTime = 1
    MaxTime = 6
    MaxSkip = 2
    MaxUpsets = 2
    MaxLag = 1
    None = None
INVARIANTS
    FiringReachesAM
    ResolvedIsAnnounced
    GhostsExpire
PROPERTY FiringAfterFor
