\* An empty queue's slot may read as a stale pointer; every wakeup is notified.
SPECIFICATION FairSpec
CHECK_DEADLOCK FALSE
CONSTANTS
    FrontOfEmpty <- MCAnyRead
    SpuriousWakeups = FALSE
    MaxPut = 5
INVARIANTS
    SendPathInv
    StopExplains
PROPERTIES
    InOrder
    LossOnlyWhileStopping
    ImplementsLink
