SPECIFICATION Spec
CONSTANTS
    r1 = r1
    r2 = r2
    r3 = r3
    c1 = c1
    c2 = c2
    Requests = {r1, r2}
    Old = old
    Contents = {c1}
    None = None
    MaxFaults = 0
INVARIANT
    ReingestIsIdempotent
CHECK_DEADLOCK FALSE
