SPECIFICATION Spec
CONSTANTS
    seed = seed
    a1 = a1
    a2 = a2
    Null = Null
    Coordinator = seed
    Joiners <- Members
    NameOf <- Names
    MemberLimit = 3
    RetiredLimit = 1
    ControlQueueCapacity <- ReorderingQueues
    MaxHeartbeats <- OneHeartbeat
INVARIANTS
    RevisionNamesMembership
    OneIncarnation
    UpWasConfirmed
CHECK_DEADLOCK FALSE
