CONSTANTS
    k1 = k1  k2 = k2  k3 = k3
    Keys = {k1, k2, k3}
    Values = {v1}
    TTLs = {0, 1}
    Bucket <- MCBucket
    Fp <- MCFp
    ShardOf <- MCShardOf
    BucketSlots = 2
    N_SEGMENTS = 2
    SegmentItems = 2
    MaxTime = 2
    None = None  OK = OK  ERROR = ERROR
    Parts = {"segcache", "dash", "ttl"}
SPECIFICATION MCSpec
INVARIANTS   DashExactAccounts
PROPERTIES OthersUntouched ExpiredReturned 
CHECK_DEADLOCK FALSE
