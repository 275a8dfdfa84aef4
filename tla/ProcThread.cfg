SPECIFICATION FairSpec
CONSTANTS
    a = a
    b = b
    s = s
    Items = {a, b, s}
    Priorities <- Asked
    Stubborn = {s}
    MaxRepeats = 1
    PipeCap = 2
    MayKill = TRUE
    NoItem = NoItem
INVARIANTS
    TypeOK
    Awake
    NothingAbove
    OnePlace
PROPERTIES
    AcceptedFinish
    NextMessageKills
CHECK_DEADLOCK FALSE
