CONSTANTS
    Parts = {"keyspace"}
    k1 = k1  k2 = k2  c1 = c1  c2 = c2
    Dbs = {0, 1}
    Keys = {k1, k2}
    Values = {v}
    Hashes <- MCHashes
    TTLs = {0, 1}
    MaxCount = 1
    MaxTime = 2
    None = None
SPECIFICATION MCSpec
INVARIANT FlushedIsGone
