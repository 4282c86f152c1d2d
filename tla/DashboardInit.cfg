SPECIFICATION Spec
CONSTANTS
    v = v
    w = w
    x = x
    Dashboards = {A, B}
    Caught = {A}
    Variables = {v, w, x}
    DependsOn <- Chained
    Refreshed = {v, w}
    MaxVisits = 3
    None = None
INVARIANTS
    TypeOK
    OneTransaction
    DashboardHasVariables
PROPERTIES
    VariablesEnd
    LoadingEnds
CHECK_DEADLOCK FALSE
