SPECIFICATION LifecycleFairSpec
CONSTANTS
    k1 = k1
    Keys <- OneKey
    MaxRev = 1
    QueueSize = 1
    Events <- EveryEvent
INVARIANTS NeverCutOff NothingLeftBehind
PROPERTIES RepairedByTimer StopsUnlessSignalling EndsAfterCancel ImplementsPipeline
CHECK_DEADLOCK FALSE
