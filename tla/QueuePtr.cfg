SPECIFICATION FairSpec
CONSTANTS
    Queues = {q1, q2}
    Msgs = {m1, m2, m3, m4}
    PipeCap = 1
    NoMsg = NoMsg
INVARIANTS
    HelperSafe
    Reclaimed
PROPERTIES
    ImplementsFifo
    AcceptedArrives
CHECK_DEADLOCK FALSE
