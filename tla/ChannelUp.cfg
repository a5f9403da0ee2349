\* The up channel of an application that never stops it.
SPECIFICATION FairSpec
CHECK_DEADLOCK FALSE
CONSTANTS
    FrontOfEmpty <- MCNullRead
    SpuriousWakeups = FALSE
    Down = FALSE
    User = user
    Listeners = {l1}
    Retriers = {r1, r2}
    UserStops = FALSE
    DropInStart = FALSE
    MaxConn = 4
    MaxQueue = 2
PROPERTIES
    ImplementsReport
    RetryUnlessSilent
    ReconnectedUnlessOpenFails
