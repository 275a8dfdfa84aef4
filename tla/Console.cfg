SPECIFICATION FairSpec
CONSTANTS
    c1 = c1
    c2 = c2
    Clients = {c1, c2}
    Commands <- CommandLines
    Known = {"get"}
    MaxPosts <- Posts
INVARIANTS
    RunsAsAsked
    OkMeansAnswered
PROPERTIES
    PostEnds
    SessionEnds
    EveryTurn
CHECK_DEADLOCK FALSE
