SPECIFICATION Spec
CONSTANTS
    Jobs = {j1, j2}
    Workers = {w1, w2}
    None = None
    MaxFaults = 0
PROPERTIES
    FinalStatusStays
CHECK_DEADLOCK FALSE
