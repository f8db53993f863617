SPECIFICATION Spec
CONSTANTS
    Partitions = {p1}
    Messages <- MCMessages
    None = None
    MaxAttempts = 2
    Retention = 2
    MaxLog = 3
    MaxFaults = 3
INVARIANTS
    TypeOK
    CommitFollowsOutcome
    RowsTraceToMessages
    RetentionKeepsNewest
PROPERTIES
    FirstOutcomeSticks
