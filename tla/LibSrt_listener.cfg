CONSTANTS
    Mode = "LISTENER"
    IoFlag = "WRITE"
    NAddrs = 2
    RwTimeout = FALSE
    ListenTimeout = TRUE
    PostOptions = FALSE
    MaxSock = 3
    MaxEpoll = 4
SPECIFICATION FairSpec
INVARIANTS
    NoEpollLeak
    ListenerNeverOpens
PROPERTIES
    CallsReturn
