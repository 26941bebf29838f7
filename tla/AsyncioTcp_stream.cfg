SPECIFICATION FairSpec
CONSTANTS
    Workers = {w1}
    Home = w1
    w1 = w1
    w2 = w2
    t1 = t1
    t2 = t2
    CommandCapacity = 1
    SpawnMayFail = FALSE
    Channels = {"control", "lane"}
    Sends <- TwoAndOne
    Terminal = TRUE
    OutboundLimit = 3
    BatchLimit = 2
    Incoming <- Handshake
    FirstLimit = 2
    ActiveLimit = 1
    Closers = {}
    Commands = 0
    PeerCloses = FALSE
    MayReset = TRUE
    MayStop = FALSE
INVARIANTS
    WrittenInOrder
    NeverOverrun
PROPERTIES
    AdmittedIsWritten
    IncomingIsReceived
CHECK_DEADLOCK FALSE
