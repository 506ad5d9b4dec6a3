SPECIFICATION FairSpec
CONSTANTS
    Tasks = {t1, t2, t3}
    MaxParallel = 2
INVARIANTS TypeOK BoundedParallelism AwaitIsComplete
PROPERTIES NoSlotLost AwaitEnds
CHECK_DEADLOCK FALSE
