CONSTANTS
    Mode = "CALLER"
    IoFlag = "WRITE"
    NAddrs = 1
    RwTimeout = FALSE
    ListenTimeout = FALSE
    PostOptions = FALSE
    MaxSock = 1
    MaxEpoll = 2
SPECIFICATION Spec
PROPERTIES
    WriteOnlyHandleWrites
