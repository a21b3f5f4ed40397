SPECIFICATION FairSpec
CONSTANTS
    ReadLen = 2
    Room = 2
    MaxBytes = 3
INVARIANTS
    BytesKept
PROPERTIES
    Forwards
    Closes
CHECK_DEADLOCK FALSE
