CONSTANTS
    Mode = "CALLER"
    IoFlag = "WRITE"
    NAddrs = 2
    RwTimeout = FALSE
    ListenTimeout = FALSE
    PostOptions = FALSE
    MaxSock = 2
    MaxEpoll = 4
    FileBlocks = 2
SPECIFICATION PushFairSpec
CHECK_DEADLOCK FALSE
INVARIANTS
    EndsClean
PROPERTIES
    ProgramEnds
