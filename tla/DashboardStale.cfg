\* The run must find a violation.
SPECIFICATION Spec
CONSTANTS
    v = v
    w = w
    x = x
    Dashboards = {A, B}
    Caught = {A}
    Variables = {v, w, x}
    DependsOn <- Chained
    Refreshed = {v, w}
    MaxVisits = 2
    None = None
PROPERTIES
    PreviousIsNotContinued
CHECK_DEADLOCK FALSE
