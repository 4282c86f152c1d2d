SPECIFICATION Spec
CONSTANTS
    a1=a1
    a2=a2
    b1=b1
    c1=c1
    d1=d1
    p=p
    A=A
    B=B
    C=C
    D=D
    r1=r1
    r2=r2
    NoId = NoId
    Ids <- MCIds
    DataQueries <- MCData
    RequestIds = {r1, r2}
    Consumers = {A,B,C,D}
    CallsOf <- MCCalls
    RequestId <- MCRid
    LoginPing <- MCPing
    MaxParallel = 2
INVARIANT
    RetryIsNotAborted
CHECK_DEADLOCK FALSE
