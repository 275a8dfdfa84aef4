SPECIFICATION Spec
CONSTANTS
    Pids = {p1, p2, p3}
    NoPid = NoPid
    MaxStarts = 4
SYMMETRY PidSymmetry
INVARIANTS
    LoneCopy
    Undisturbed
PROPERTIES
    StopStops
CHECK_DEADLOCK FALSE
