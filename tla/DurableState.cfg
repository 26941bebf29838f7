SPECIFICATION FairSpec
CONSTANTS
    pid1 = pid1
    a1 = a1
    a2 = a2
    op1 = op1
    op2 = op2
    content1 = content1
    content2 = content2
    Deleted = Deleted
    Null = Null
    Empty = Empty
    Pids <- OnePid
    Actors <- TwoActors
    PidOf <- SamePid
    Commands <- ClientCommands
    OperationCapacity = 2
    ByteCapacity = 1
    MaxGenerations = 2
    MaxCommands = 2
    MaxCrashes = 1
INVARIANTS AcknowledgedIsDurable RunningIsCommitted AppliedOnce
PROPERTIES EffectSettles
CHECK_DEADLOCK FALSE
