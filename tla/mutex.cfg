CONSTANTS
    t1 = t1
    t2 = t2
    NoTask = NoTask
    Tasks <- TwoTasks
    Lease = 3
    GiveUp = 3
    MaxLost = 1
    Reuse = TRUE
SPECIFICATION FairSpec
INVARIANTS
    Exclusion
    GiveUpNeedsTurnover
PROPERTIES
    KeyNotStolen
    LockReturns
