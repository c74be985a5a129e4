CONSTANTS
    Primary = p
    Replicas = {r1, r2}
    Voters = {v1, v2}
    MaxEvents = 1
    Shard = {1, 2, 3}
    First = 2
    Observers = {4}
    NoNode = 0
    MaxEpoch = 3
    MaxConfigEpoch = 3
    MaxFailovers = 2
    MaxInFlight = 1
SPECIFICATION Spec
INVARIANTS   WinBeatsClaims  NoReplicationCycle
SYMMETRY Symmetry
CHECK_DEADLOCK FALSE
