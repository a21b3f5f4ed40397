SPECIFICATION FairSpec
CONSTANTS
    Wnd = 3
    SndBuf = 3
    RecvBuf = 2
    MaxUp = 4
    MaxDown = 5
INVARIANTS
    NothingStalls
PROPERTIES
    FreedPcbReported
    RelaysInOrder
    ClientGoneFreed
    BytesDelivered
CHECK_DEADLOCK FALSE
