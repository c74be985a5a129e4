CONSTANTS
    Threads = {t1, t2}
    NoThread = NoThread
    KeyHash = {0, 1}
    TableSize = 2
    MaxKeys = 2
    MaxAttempts = 1
    Parts = {"aof"}
    MaxWrites = 1
    MaxAofEvents = 3
    AofPolicies = {"always"}
    RewriteWhileOff = TRUE
    DieInFlush = FALSE
SPECIFICATION MCSpec
INVARIANT HistoryIsHarmless
