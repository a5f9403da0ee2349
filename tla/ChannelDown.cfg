\* The down channel of an application that never stops it.
SPECIFICATION FairSpec
CHECK_DEADLOCK FALSE
CONSTANTS
    FrontOfEmpty <- MCNullRead
    SpuriousWakeups = FALSE
    Down = TRUE
    User = user
    Listeners = {l1}
    Retriers = {r1, r2}
    UserStops = FALSE
    DropInStart = TRUE
    MaxConn = 3
    MaxQueue = 1
INVARIANTS
    TypeOK
    CrashOnlyIfOverlap
    OneLiveSocket
    NoUseAfterClose
    ReportsAlternate
    OneHeartbeat
    ChannelInv
PROPERTIES
    ImplementsReport
