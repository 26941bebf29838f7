CONSTANTS
    root = root
    parent = parent
    c = c
    d = d
    none = none
    Actors = {root, parent, c, d}
    Root = root
    NoActor = none
    Parent <- TreeParent
    Path <- SharedPath
    MaxActors = 4
    MaxEvents = 1
    ForeignSpawns = TRUE
SPECIFICATION FairSpec
CHECK_DEADLOCK FALSE
INVARIANT PostStopBottomUp
PROPERTIES
    NoResurrection
    RestartWaitsForChildren
    ActorSettles
