SPECIFICATION Spec
CONSTANTS
    Pids = {p1, p2}
    NoPid = NoPid
    MaxStarts = 2
INVARIANTS
    OneCopy
CHECK_DEADLOCK FALSE
