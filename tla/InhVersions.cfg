\* The message of Test::test<Veh2CloudInh>.
SPECIFICATION Spec
CHECK_DEADLOCK FALSE
CONSTANTS
    VersionTexts <- MCTestVersions
    UserTexts <- MCTestUsers
    PassCounts = {0}
    WheelCounts = {0}
    Stale = {0}
INVARIANTS
    VersionsSurvive
