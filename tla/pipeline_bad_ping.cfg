SPECIFICATION Spec
CONSTANTS
    k1 = k1
    k2 = k2
    Keys <- OneKey
    MaxRev = 1
    QueueSize = 1
    Events <- BadPingEvents
INVARIANT AlwaysStartsWithResync
CHECK_DEADLOCK FALSE
