CONSTANTS
    s1 = s1
    s2 = s2
    k1 = k1
    k2 = k2
    none = none
    Sessions = {s1}
    Killers = {k1, k2}
    NoSession = none
    MaxChunks = 2
SPECIFICATION FairSpec
CHECK_DEADLOCK FALSE
INVARIANTS
    TypeOK
    StreamIsComplete
    LiveIsListed
PROPERTIES
    EndsAreAnnounced
