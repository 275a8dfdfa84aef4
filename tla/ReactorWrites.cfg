SPECIFICATION Spec
CONSTANTS
    Workers = {w1, w2}
    Esockets = {e1}
    Msgs = {m1, m2}
    Greeting = greeting
    Greeters = {e1}
    Once = {e1}
    QueueCap = 2
    MaxRequests = 2
    NoWorker = NoWorker
    Null = Null
SYMMETRY Symmetry
INVARIANTS
    WriteOrder
    BufferedIsArmed
CHECK_DEADLOCK FALSE
