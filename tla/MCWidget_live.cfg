SPECIFICATION WidgetFairSpec
CONSTANTS
    Ports = {a, b}
    NoPort = none
    MaxCalls = 3
INVARIANTS
    OpenIsEnded
PROPERTIES
    StatusFollows
CHECK_DEADLOCK FALSE
