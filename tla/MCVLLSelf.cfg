CONSTANTS
    Threads = {t1, t2}
    NoThread = NoThread
    KeyHash = {0, 1}
    TableSize = 2
    MaxKeys = 2
    MaxAttempts = 1
    Parts = {"vll"}
    MaxWrites = 0
    MaxAofEvents = 0
    AofPolicies = {"always"}
    RewriteWhileOff = FALSE
    DieInFlush = FALSE
SPECIFICATION MCSpec
INVARIANT RefusedOnlyByOthers
