\* Every day of 2000 .. 2099, and every text of up to six characters.
SPECIFICATION Spec
CHECK_DEADLOCK FALSE
CONSTANTS
    HexChars <- MCHexChars
    DecChars <- MCDecChars
    ByteValues <- MCByteValues
    Behind <- MCBehind
    MaxText = 6
    Sizes = {1, 2, 3}
    LastYear = 99
    Times <- MCTimes
INVARIANTS
    HexIsLongestPrefix
    HexRoundTrip
    BcdIsRightAligned
    TimeMatchesCalendar
