CONSTANTS
    Logging = {t1, t2, t3}
    Path = {p1, p2}
    DefaultPath = p0
    Torn = torn
    Users = {u1, u2, u3}
    MaxReleases = 2
    MaxOnes = 2
    Callers = {c1, c2}
    Paths <- PathsGiven
    Class = "Bitrate"
    NB_SAMPLE = 3
    TIME_INTERVAL = 3
    Sizes = {0, 5}
    MaxTick = 6
    MaxUpdates = 5
SPECIFICATION PartsSpec
CHECK_DEADLOCK FALSE
INVARIANTS
    LogsWhereSet
    ReleasedOnce
    FieldsAreTheHeader
    DirectoryIsThere
    RingAndSum
    NoTrapInFirstRound
PROPERTIES
    LogReturns
