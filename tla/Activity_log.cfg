CONSTANTS
    s1 = s1
    s2 = s2
    c1 = c1
    c2 = c2
    c3 = c3
    u1 = u1
    Sessions = {s1, s2}
    Callers = {c1, c2, c3}
    SessionOf <- MCSessionOf
    Subs = {u1}
    RingSize = 1
    SubRoom = 1
    MaxFails = 1
    MaxRuns = 2
    MaxTime = 1
    ShortLogs <- MCShortLogs
SPECIFICATION FairSpec
CHECK_DEADLOCK FALSE
INVARIANTS
    TypeOK
    LogIsFaithful
    ReplayIsRight
PROPERTIES
    AppendReturns
    ImplementsEventLog
