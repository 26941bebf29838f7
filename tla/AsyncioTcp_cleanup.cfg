SPECIFICATION FairSpec
CONSTANTS
    Workers = {w1, w2}
    Home = w1
    w1 = w1
    w2 = w2
    CommandCapacity = 1
    SpawnMayFail = TRUE
    Channels = {"control"}
    Sends <- OneRecord
    Terminal = FALSE
    OutboundLimit = 1
    BatchLimit = 2
    Incoming <- NoFrame
    FirstLimit = 1
    ActiveLimit = 1
    Closers = {t1, t2}
    t1 = t1
    t2 = t2
    Commands = 1
    PeerCloses = TRUE
    MayReset = FALSE
    MayStop = TRUE
INVARIANTS
    SocketOutlivesTasks
PROPERTIES
    
    ClosedIsReleased
CHECK_DEADLOCK FALSE
