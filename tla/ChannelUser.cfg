\* The up channel of an application that stops it at any time.
SPECIFICATION FairSpec
CHECK_DEADLOCK FALSE
CONSTANTS
    FrontOfEmpty <- MCNullRead
    SpuriousWakeups = FALSE
    Down = FALSE
    User = user
    Listeners = {l1}
    Retriers = {r1, r2}
    UserStops = TRUE
    DropInStart = TRUE
    MaxConn = 2
    MaxQueue = 1
INVARIANTS
    CrashOnlyIfOverlap
PROPERTIES
    StopLeavesNoThread
