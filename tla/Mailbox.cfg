SPECIFICATION Spec
CONSTANTS
    spawner = spawner
    t1 = t1
    w1 = w1
    w2 = w2
    Threads = {spawner, t1}
    Spawner = spawner
    Workers = {w1, w2}
    Traffic <- MixedTraffic
    MaxSends = 2
    Capacity = 2
    Throughput = 2
SYMMETRY WorkerSymmetry
INVARIANTS
    AnswerIsKept
    CapacityRespected
    
PROPERTIES
    InboxSpec
CHECK_DEADLOCK FALSE
