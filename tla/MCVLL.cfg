CONSTANTS
    Threads = {t1, t2}
    NoThread = NoThread
    KeyHash = {0, 1, 2}
    TableSize = 2
    MaxKeys = 2
    MaxAttempts = 1
    Parts = {"vll", "aof"}
    MaxWrites = 2
    MaxAofEvents = 3
    AofPolicies = {"always", "everysec"}
    RewriteWhileOff = FALSE
    DieInFlush = FALSE
SPECIFICATION MCSpec
INVARIANTS MutualExclusion TableCountsLocks AllOrNothing
   
PROPERTIES ImplementsLockService AcquireDoesNotDeadlock WaitEnds
