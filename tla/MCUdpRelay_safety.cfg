SPECIFICATION UdpSpec
CONSTANTS
    Locals = {x, y}
    Remotes = {r, s}
    MaxFlight = 2
    Nobody = nobody
SYMMETRY Symmetry
INVARIANTS
    AnswersAddressed
CHECK_DEADLOCK FALSE
