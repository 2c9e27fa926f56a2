CONSTANTS
    Counts = {0, 1, 2}
    Times = {0, 1, 2}
    MaxClock = 4
    MaxCalls = 3
SPECIFICATION Spec
INVARIANTS
    OneStartPerReset
    SkippedOnlyIfLowered
    OneStartAfterPause
PROPERTIES
    StartIsEarned
