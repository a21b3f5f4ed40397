SPECIFICATION FairSpec
CONSTANTS
    p = p
    q = q
    r = r
    u = u
    Packets <- MCPackets
    Tcp <- MCTcp
    Size <- MCSize
    Capacity = 5
    Atomic = 3
    Misread = {0, 1, 3}
    MaxBatch = 3
    Garbage = garbage
INVARIANTS
    InOrder
PROPERTIES
    FlowGoesOn
    IsQueue
CHECK_DEADLOCK FALSE
