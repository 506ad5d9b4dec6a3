SPECIFICATION MCFairSpec
CONSTANTS
    b1 = b1
    b2 = b2
    b3 = b3
    p1 = p1
    p2 = p2
    p3 = p3
    s1 = s1
    Brokers = {b1, b2, b3}
    Blacklisted = {b3}
    Plans = {p1, p2, p3}
    BrokerOf <- MCBrokerOf
    Scopes = {s1}
    Public = Public
    Visibilities = {v1, v2}
    None = None
    Shapes <- MCShapes
    ChunkSizes = {0, 1}
    MaxDisturbances = 2
INVARIANTS VisTypeOK RoundGrants RoundInv
PROPERTIES NeverTakesAway OthersKept AccessConverges
