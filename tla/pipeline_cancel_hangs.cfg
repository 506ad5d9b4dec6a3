SPECIFICATION FairSpec
CONSTANTS
    k1 = k1
    k2 = k2
    Keys <- OneKey
    MaxRev = 1
    QueueSize = 1
    Events <- CancelOnly
PROPERTY CancelReleasesGroup
CHECK_DEADLOCK FALSE
