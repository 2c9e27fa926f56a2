CONSTANTS
    Mode = "RENDEZVOUS"
    IoFlag = "READ"
    NAddrs = 2
    RwTimeout = TRUE
    ListenTimeout = FALSE
    PostOptions = TRUE
    MaxSock = 3
    MaxEpoll = 4

SPECIFICATION FairSpec

INVARIANTS
    TypeOK
    OpenedHandleUsable

PROPERTIES
    ImplementsHandle
    CallsReturn
