\* An empty queue's slot reads as a null pointer; wakeups may be spurious.
SPECIFICATION FairSpec
CHECK_DEADLOCK FALSE
CONSTANTS
    FrontOfEmpty <- MCNullRead
    SpuriousWakeups = TRUE
    MaxPut = 5
INVARIANTS
    TypeOK
    SendPathInv
PROPERTIES
    NothingSkipped
    EventuallySent
    ImplementsLink
