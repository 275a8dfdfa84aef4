SPECIFICATION Spec
CONSTANTS
    c1 = c1
    c2 = c2
    Clients = {c1, c2}
    Commands <- CommandLines
    Known = {"get"}
    MaxPosts <- Posts
INVARIANT ServerSurvives
CHECK_DEADLOCK FALSE
