SPECIFICATION Spec
CONSTANTS
    pid1 = pid1
    pid2 = pid2
    r1 = r1
    r2 = r2
    Deleted = Deleted
    Null = Null
    Pids <- TwoPids
    Runners <- TwoRunners
    Wanted <- WantedOf
    Modes <- ModesOf
    InitialOffsets <- Initials
    OperationCapacity = 2
    ByteCapacity = 2
    RunnerCapacity = 2
    BatchSlots = 1
    BatchSize = 2
    ScanLimit = 2
    CompactionLimit = 1
    MaxWrites = 2
    MaxStarts = 2
    MaxFailures = 1
    MaxCompactions = 1
    MaxCrashes = 1
INVARIANTS NothingSkipped ExactlyOnce HistoryIsThere ReopenAccepts
CHECK_DEADLOCK FALSE
