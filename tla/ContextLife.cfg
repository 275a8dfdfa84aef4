SPECIFICATION FairSpec
CONSTANTS
    N = 3
INVARIANTS
    TypeOK
    QueuesThere
    NoLostWakeUp
    KillTouchesLive
PROPERTIES
    StartEnds
    StopEnds
CHECK_DEADLOCK FALSE
