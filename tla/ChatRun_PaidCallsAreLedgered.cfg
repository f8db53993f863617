SPECIFICATION Spec
CONSTANTS
    Evidence = {e1, e2}
    None = None
    CallTokens <- MCCallTokens
    MaxTokens = 4
    Limits = {1, 2}
    MaxAttempts = 3
    MaxFaults = 1
INVARIANTS
    PaidCallsAreLedgered
CHECK_DEADLOCK FALSE
