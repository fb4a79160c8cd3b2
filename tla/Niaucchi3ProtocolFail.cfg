\* Two tunnels, one id, no faults.
SPECIFICATION Spec
CONSTANTS
    Ids = {i1}
    Tunnels = 2
    Writes <- ClientOnce
    Window = 2
    Count = 1
    LowMark = 1
    HighMark = 1
    AcceptCap = 1
    Faults = 0
INVARIANTS
    ErrProtocolFailMeansViolation
CHECK_DEADLOCK FALSE
