SPECIFICATION PathLiveSpec
CONSTANTS
    wifi = wifi
    cell = cell
    other = other
    none = none
    NoPath = NoPath
    Usable <- MCUsable
    Unusable <- MCUnusable
    MaxTimers = 3
INVARIANTS
    FollowsPath
PROPERTIES
    ChangeIsAsked
CHECK_DEADLOCK FALSE
