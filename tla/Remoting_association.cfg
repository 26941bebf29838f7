SPECIFICATION FairSpec
CONSTANTS
    a = a
    b = b
    b2 = b2
    Null = Null
    Procs = {a, b}
    NameOf <- NamesOfTwo
    Uid <- UidsOfTwo
    Generation <- NotRestarted
    Conns <- One
    Initiator <- OneConnects
    Messages = {1, 2}
    From <- FromAlpha
    To <- ToBeta
    Resolver = b
    PendingLimit = 2
    OutboundLimit = 1
    InboundLimit = 1
    Faults = {"handshake", "resolve", "listener", "stop"}
    MaxFaults = 1

    
PROPERTIES
    RequestSettles
    StopCompletes
CHECK_DEADLOCK FALSE
