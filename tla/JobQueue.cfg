SPECIFICATION FairSpec
CONSTANTS
    Jobs = {j1, j2}
    Workers = {w1, w2}
    None = None
    MaxFaults = 2
INVARIANTS
    TypeOK
    AcceptedIsTracked
    FinalStatusIsTrue
PROPERTIES
    SubmittedIsSettled
CHECK_DEADLOCK FALSE
