CONSTANTS
    c1 = c1  c2 = c2  c3 = c3  c4 = c4  c5 = c5  ka = ka  kb = kb  v1 = v1
    Cmds = {c1, c2, c3, c4, c5}
    Type <- MCType
    Key <- MCKey
    Value <- MCValue
    Keys = {ka, kb}
    WorkerOf <- MCWorkerOf
    NumWorkers = 2
    None = None
    Producers = {p1, p2}
    Consumers = {worker}
    Nodes = {m1, m2, m3}
    Stub = Stub  NULL = NULL
SPECIFICATION MCSpec
INVARIANTS ExecutesInOrder OnePlace QueueIsWhole
PROPERTIES QuietAfterStop EngineProgress QueueImplementsFifo QueueEventuallyReturned
CHECK_DEADLOCK FALSE
