CONSTANTS
    Producers = {p1}
    Consumers = {c1, c2}
    Nodes = {m1, m2}
    Stub = Stub
    NULL = NULL
SPECIFICATION QueueSpec
INVARIANT OwnedOnce
