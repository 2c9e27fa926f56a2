CONSTANTS
    MaxCount = 2
    MaxTime = 2
    MaxUpdates = 3

SPECIFICATION FairSpec
CHECK_DEADLOCK FALSE

INVARIANTS
    CallbackAfterQuietNap
    MissedOnlyByLateReset

PROPERTIES
    DestructorReturns
    WorkerEnds
