SPECIFICATION Spec
SYMMETRY CspSymmetry
CONSTANTS
    Csps = {c1, c2, c3, c4}
    MaxLog = 2
    MaxClients = 3
    NoCsp = NoCsp
INVARIANTS
    LogLive
    ServedLive
    LimitsHold
