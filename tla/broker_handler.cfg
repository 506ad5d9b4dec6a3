SPECIFICATION MCSpec
CONSTANTS
    b1 = b1
    n1 = n1
    n2 = n2
    n3 = n3
    c1 = c1
    g1 = g1
    Brokers = {b1}
    Names = {n1, n2, n3}
    Blacklist = {n3}
    Guids = {g1, g2, g3}
    Issued = {c1, c2, c3, c4}
    Default = Default
    Own = Own
    None = None
    Shapes <- MCShapes
    Options <- MCOptions
    MaxParallel = 1
    MaxDisturbances = 3
    MaxQueued = 3
INVARIANTS HandlerTypeOK CaughtUp LoginUnlessMishap
PROPERTIES OnlyReplaysDuplicate OnlyMatchingTakenOver
