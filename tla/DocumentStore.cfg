SPECIFICATION Spec
CONSTANTS
    r1 = r1
    r2 = r2
    r3 = r3
    c1 = c1
    c2 = c2
    Requests = {r1, r2, r3}
    Old = old
    Contents = {c1, c2}
    None = None
    MaxFaults = 1
SYMMETRY Symmetry
INVARIANTS
    TypeOK
    NothingLeftBehind
    StoredSourceIsComplete
    RepliesAreTrue
    PurgedHistoryIsGone
    OnlyWaitersAreHeldUp
    StuckOnlyOnSameContent
CHECK_DEADLOCK FALSE
