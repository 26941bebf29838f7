SPECIFICATION FairSpec
CONSTANTS
    seed = seed
    a1 = a1
    a2 = a2
    Null = Null
    Coordinator = seed
    Joiners <- Members
    NameOf <- Names
    MemberLimit = 2
    RetiredLimit = 1
    ControlQueueCapacity <- SingleSlots
    MaxHeartbeats <- NoHeartbeats
INVARIANTS
    TablesAgree
PROPERTIES
    
    JoinSettles
CHECK_DEADLOCK FALSE
