SPECIFICATION FairSpec
CONSTANTS
    k1 = k1
    k2 = k2
    Keys <- MCKeys
    MaxRev = 2
    QueueSize = 1
    Events <- NoTimerEvents
PROPERTIES Converges ResyncServed
