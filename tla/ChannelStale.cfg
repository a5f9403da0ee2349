\* A notification in flight when the application stops the channel.
SPECIFICATION FairSpec
CHECK_DEADLOCK FALSE
CONSTANTS
    FrontOfEmpty <- MCNullRead
    SpuriousWakeups = FALSE
    Down = FALSE
    User = user
    Listeners = {l1}
    Retriers = {r1, r2}
    UserStops = TRUE
    DropInStart = TRUE
    MaxConn = 2
    MaxQueue = 1
INVARIANTS
    InvalidOnlyAfterOpen
