CONSTANTS
    Mode = "CALLER"
    IoFlag = "READ"
    NAddrs = 2
    RwTimeout = FALSE
    ListenTimeout = FALSE
    PostOptions = TRUE
    MaxSock = 3
    MaxEpoll = 4

SPECIFICATION FairSpec

INVARIANTS
    NoSocketLeak
    NothingHeldAtRest
    AtMostOneIoAfterQuit
    IoOnAwaitedSocket

PROPERTIES
    QuitInterrupts
    ImplementsFairHandle
