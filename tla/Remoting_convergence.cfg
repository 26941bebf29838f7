SPECIFICATION Spec
CONSTANTS
    a = a
    b = b
    b2 = b2
    Null = Null
    Procs = {a, b, b2}
    NameOf <- Names
    Uid <- Uids
    Generation <- Restarted
    Conns <- Two
    Initiator <- RestartedConnects
    Messages = {1}
    From <- FromAlpha
    To <- ToBeta
    Resolver = Null
    PendingLimit = 2
    OutboundLimit = 1
    InboundLimit = 1
    Faults = {"connect", "associate", "handshake", "close", "break", "crash"}
    MaxFaults = 1
INVARIANTS
    ConvergesOnOne
PROPERTIES
    IncarnationsAdvance
CHECK_DEADLOCK FALSE
