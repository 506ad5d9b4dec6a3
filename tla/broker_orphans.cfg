SPECIFICATION MCSpec
CONSTANTS
    b1 = b1
    b2 = b2
    n1 = n1
    n2 = n2
    c1 = c1
    g1 = g1
    g2 = g2
    Brokers = {b1, b2}
    Names = {n1, n2}
    Blacklist = {n2}
    Guids = {g1, g2, g3, g4}
    Issued = {c1, c2, c3, c4}
    Default = Default
    Own = Own
    None = None
    Shapes <- MCShapes
    Options <- MCOptions
    MaxParallel = 2
    MaxDisturbances = 0
INVARIANT OrphansDeleted
