SPECIFICATION Spec
CONSTANTS
    Ports = {1, 2}
    MaxWidgetStops = 1
    MaxKeepalives = 1
    MaxConns = 1
PROPERTY
    FreedConfigUnused
