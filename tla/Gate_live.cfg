CONSTANTS
    c1 = c1
    c2 = c2
    d1 = d1
    d2 = d2
    w1 = w1
    none = none
    Calls = {c1, c2}
    Deciders = {d1}
    Workspaces = {w1}
    Commands <- MCCommands
    Dangerous <- MCDangerous
    Allowlist <- MCAllowlist
    NoCall = none
    SendBuffer = 1
    MaxModeChanges = 1
SPECIFICATION FairSpec
CHECK_DEADLOCK FALSE
PROPERTIES
    GateSettles
