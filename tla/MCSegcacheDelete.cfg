CONSTANTS
    k1 = k1  k2 = k2  k3 = k3
    Keys = {k1, k2}
    Values = {v1}
    TTLs = {0, 1}
    Bucket <- MCBucket2
    Fp <- MCFp2
    ShardOf <- OneShard
    BucketSlots = 2
    N_SEGMENTS = 2
    SegmentItems = 2
    MaxTime = 3
    None = None  OK = OK  ERROR = ERROR
    Parts = {"segcache"}
SPECIFICATION MCSpec
PROPERTY DeleteThenMiss
CHECK_DEADLOCK FALSE
