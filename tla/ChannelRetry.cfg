\* Does the down channel always retry?
SPECIFICATION FairSpec
CHECK_DEADLOCK FALSE
CONSTANTS
    FrontOfEmpty <- MCNullRead
    SpuriousWakeups = FALSE
    Down = TRUE
    User = user
    Listeners = {l1}
    Retriers = {r1, r2}
    UserStops = FALSE
    DropInStart = FALSE
    MaxConn = 2
    MaxQueue = 1
PROPERTIES
    RetryFollowsLoss
