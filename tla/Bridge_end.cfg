CONSTANTS
    a1 = a1
    r1 = r1
    r2 = r2
    r3 = r3
    u1 = u1
    note = note
    shoot = shoot
    List = List
    Nobody = Nobody
    Agents = {a1}
    Requests = {r2, r3}
    AgentOf <- MCAgentOf
    Asks <- MCAsks
    Native = {note}
    Annotate = note
    Upstreams = {u1}
    Advertised <- MCAdvertised
    MaxSent = 2
SPECIFICATION ProxyFairSpec
CHECK_DEADLOCK FALSE
PROPERTIES
    BridgeReturns
