SPECIFICATION Spec
CONSTANTS
    Partitions = {p1}
    Messages <- MCOne
    None = None
    MaxAttempts = 2
    Retention = 3
    MaxLog = 2
    MaxFaults = 3
INVARIANTS
    CommittedOnlyAfterOutcome
