CONSTANTS
    one = one
    two = two
    t1 = t1
    t2 = t2
    nobody = nobody
    Keys = {one, two}
    Threads = {t1, t2}
    NoThread = nobody
    AtCreate <- Factories
    AtStart <- Starts
    Preparable = {one, two}
    Blocking = {two}
    MaxLookups <- Lookups
    MaxFaults = 2
SPECIFICATION FairSpec
CHECK_DEADLOCK FALSE
INVARIANTS
    NothingLeftRunning
PROPERTIES
    DependentsStopFirst
    CallsReturn
