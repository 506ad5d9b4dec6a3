SPECIFICATION Spec
CONSTANTS
    k1 = k1
    k2 = k2
    Keys <- MCKeys
    MaxRev = 3
    QueueSize = 2
    Events <- NetworkEvents
SYMMETRY MCSymmetry
INVARIANTS TypeOK NoLostUpdate OrderedDelivery ResyncBeforeStream
PROPERTIES ConsumedOnceInOrder ImplementsUpdateFeed
