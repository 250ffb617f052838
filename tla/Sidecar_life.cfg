CONSTANTS
    w1 = w1
    MaxProcs = 2
    Paths = {w1}
    MaxIds = 2
SPECIFICATION FairSpec
CHECK_DEADLOCK FALSE
INVARIANTS
    TypeOK
    WatchedWhileOpen
    Reachable
PROPERTIES
    IdsAreStable
    SidecarEnds
    StatusCatchesUp
