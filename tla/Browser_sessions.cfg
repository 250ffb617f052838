CONSTANTS
    s1 = s1
    s2 = s2
    x1 = x1
    x2 = x2
    x3 = x3
    Sessions = {s1}
    Shots = {x1, x2}
    ShotOf <- MCShotOf
    Readers = {r1}
    Closers = {c1, c2}
    Browsers = {b1, b2}
    RingSize = 1
    MaxFails = 1
    None = None
SPECIFICATION FairSpec
CHECK_DEADLOCK FALSE
INVARIANTS
    TypeOK
    FilesMatchRings
    BrowsersAreHeld
PROPERTIES
    CloseReturns
