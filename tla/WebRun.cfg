SPECIFICATION Spec
CONSTANTS
    w1 = w1
    w2 = w2
    c1 = c1
    c2 = c2
    i1 = i1
    WebSources = {w1, w2}
    Chunks = {c1, c2}
    Items = {i1}
    ItemOf <- MCItemOf
    None = None
    MaxRows = 2
    CallLimits = {1, 2}
    SearchCosts = {1, 2}
    Tokens = {0, 3}
    MaxFaults = 1
INVARIANTS
    TypeOK
    CitationsResolve
    CostAddsUp
    FailureIsDurable
PROPERTIES
    PromisesOfBilledRun
CHECK_DEADLOCK FALSE
