SPECIFICATION MCSpec
CONSTANTS
    b1 = b1
    b2 = b2
    p1 = p1
    p2 = p2
    p3 = p3
    s1 = s1
    s2 = s2
    v1 = v1
    Brokers = {b1, b2}
    Blacklisted = {b2}
    Plans = {p1, p2, p3}
    BrokerOf <- MCBrokerOf
    Scopes = {s1, s2}
    Public = Public
    Visibilities = {v1, v2}
    None = None
    Shapes <- MCShapes
    ChunkSizes = {0}
    MaxDisturbances = 2
    Patches <- MCPatches
    MaxQueued = 2
INVARIANTS HandlerTypeOK VisCaughtUp
PROPERTIES HealedByResync
