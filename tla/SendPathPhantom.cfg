\* The queue as it is: is what the send thread takes always what was put?
SPECIFICATION FairSpec
CHECK_DEADLOCK FALSE
CONSTANTS
    FrontOfEmpty <- MCAnyRead
    SpuriousWakeups = FALSE
    MaxPut = 2
INVARIANTS
    NoPhantomSend
