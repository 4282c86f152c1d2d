\* The run must find a violation.
SPECIFICATION Spec
CONSTANTS
    m0=m0
    m1=m1
    f=f
    e1=e1
    e2=e2
    e3=e3
    z=z
    cm=cm
    cf=cf
    ce=ce
    cz=cz
    r1=r1
    r2=r2
    NoId = NoId
    Ids <- MCIds
    DataQueries <- MCIds
    RequestIds = {r1, r2}
    Consumers = {cm, cf, ce, cz}
    CallsOf <- MCCalls
    RequestId <- MCRid
    LoginPing <- MCPing
    MaxParallel = 3
INVARIANT SlotsAreHeld
CHECK_DEADLOCK FALSE
