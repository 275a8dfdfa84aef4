SPECIFICATION FairSpec
CONSTANTS
    Clients = {c1, c2}
    NoClient = NoClient
    Pages = 2
    FileParts = 2
    Menu <- MCMenu
    Backlog = 2
    SockBuf = 1
    MaxRequests = 3
INVARIANTS
    PatientInStep
    AnswersInOrder
    ShiftsOwnOrOlder
    PagesFitShifts
PROPERTIES
    PatientAnswered
    EveryTurn
CHECK_DEADLOCK FALSE
