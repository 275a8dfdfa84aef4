SPECIFICATION FairSpec
CONSTANTS
    Workers = {w1, w2}
    Esockets = {e1}
    Msgs = {}
    Greeting = greeting
    Greeters = {}
    Once = {e1}
    QueueCap = 1
    MaxRequests = 2
    NoWorker = NoWorker
    Null = Null
PROPERTIES
    HandOverArrives
    DeleteTakesEffect
CHECK_DEADLOCK FALSE
