\* The application over connections that are lost at any time; each timer is
\* created twice, and any start may fail.
SPECIFICATION FairSpec
CHECK_DEADLOCK FALSE
CONSTANTS
    Timers <- MCTimers
    MaxStarts = 2
    Reporter = reporter
    Receiver = receiver
    Handlers = {h1}
INVARIANTS
    TypeOK
    AnswerEndsRetries
    TimersMatchReports
    DeleteTwiceNeedsRace
PROPERTIES
    GiveUpAfterThree
    RetriesEnd
