\* Every message type, texts of every length that matters; and streams of three
\* messages cut before, in and behind the type, the header, the data that may be
\* taken for them, and the body.
SPECIFICATION FramingSpec
CHECK_DEADLOCK FALSE
CONSTANTS
    VersionTexts <- MCVersions
    UserTexts <- MCUsers
    PassCounts = {0, 1, 3}
    WheelCounts = {0, 4}
    Stale = {0, 1, 255}
    Stamps <- MCStamps
    Bodies <- MCBodies
    MaxStream = 3
    Cuts = {1, 6, 7, 11, 16}
INVARIANTS
    WireFillsBuffer
    InhWholeOrHeader
    RoundTrip
    CutDownStaysEmpty
    AnswerHasCause
PROPERTIES
    WholeIsDelivered
    GotIsGenuine
