SPECIFICATION Spec
CONSTANTS
    Workers = {w1, w2}
    Esockets = {e1, e2}
    Msgs = {}
    Greeting = greeting
    Greeters = {}
    Once = {e1}
    QueueCap = 1
    MaxRequests = 2
    NoWorker = NoWorker
    Null = Null
SYMMETRY Symmetry
INVARIANTS
    TypeOK
    TableConsistent
    ReadyBacked
    Accounted
PROPERTIES
    ImplementsOwnership
    ScanCloses
CHECK_DEADLOCK FALSE
