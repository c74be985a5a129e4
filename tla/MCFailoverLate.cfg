CONSTANTS
    Primary = p
    Replicas = {r1, r2}
    Voters = {v1, v2}
    MaxEvents = 0
    Shard = {1, 2, 3}
    First = 2
    Observers = {4}
    NoNode = 0
    MaxEpoch = 3
    MaxConfigEpoch = 2
    MaxFailovers = 0
    MaxInFlight = 0
SPECIFICATION Spec
INVARIANT EveryElectedEpochUnique
SYMMETRY Symmetry
CHECK_DEADLOCK FALSE
