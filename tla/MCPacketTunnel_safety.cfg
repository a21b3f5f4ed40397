SPECIFICATION FairSpec
CONSTANTS
    Ports = {1, 2, 3}
    MaxWidgetStops = 1
    MaxKeepalives = 1
    MaxConns = 1
INVARIANTS
    ProxyChain
    StartMeansReady
    StopClearsStatus
    StopAnswerAfterLoop
PROPERTIES
    ImplementsContract
    StopEnds
    StartAnswered
