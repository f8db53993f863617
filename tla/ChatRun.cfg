SPECIFICATION FairSpec
CONSTANTS
    Evidence = {e1, e2}
    None = None
    CallTokens <- MCCallTokens
    MaxTokens = 4
    Limits = {1, 2}
    MaxAttempts = 3
    MaxFaults = 2
INVARIANTS
    TypeOK
    OnlyLastCallOverruns
    CostIsToldRightly
    StoredRunIsTruthful
    EventMatchesStoredRun
PROPERTIES
    PromisesOfBilledRun
    RequestEnds
CHECK_DEADLOCK FALSE
