CONSTANTS
    c1 = c1
    c2 = c2
    c3 = c3
    none = none
    Calls = {c1, c2}
    NoCall = none
    PipeRoom = 1
    MaxFrames = 4
    MaxOversize = 1
SPECIFICATION FairSpec
CHECK_DEADLOCK FALSE
INVARIANTS
    TypeOK
    RoutingIsSafe
PROPERTIES
    CallsReturn
    ImplementsCallService
