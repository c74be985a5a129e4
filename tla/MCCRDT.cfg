CONSTANTS
    Nodes = {0, 1, 2}
    MaxCount = 3
    Deltas = {2}
    Elements = {a, b}
    TagSpace = 8
    MaxTime = 3
    MaxUpdates = 3
    Threads = {t1, t2}
    MaxThreads = 2
    Addresses = {o1, o2}
    Threshold = 1
    o1 = o1
    NULL = NULL
SPECIFICATION MCSpec
INVARIANTS ExactCount ObservedRemove LastWriteWins
INVARIANTS UsedIsAllocated OneOwner
SYMMETRY Symmetry
CONSTRAINT StillAgree
