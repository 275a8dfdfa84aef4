SPECIFICATION Spec
CONSTANTS
    Workers = {w1, w2}
    Esockets = {e1, e2}
    Msgs = {}
    Greeting = greeting
    Greeters = {}
    Once = {e1}
    QueueCap = 2
    MaxRequests = 1
    NoWorker = NoWorker
    Null = Null
PROPERTIES
    DeleteReportTruthful
CHECK_DEADLOCK FALSE
