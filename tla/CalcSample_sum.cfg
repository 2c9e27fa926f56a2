CONSTANTS
    Class = "FPS"
    NB_SAMPLE = 2
    TIME_INTERVAL = 3
    Sizes = {0}
    MaxTick = 5
    MaxUpdates = 4
SPECIFICATION Spec
CHECK_DEADLOCK FALSE
INVARIANTS
    SumOfCachedSamples
