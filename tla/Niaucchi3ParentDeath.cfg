\* One tunnel that nobody writes to, one fault, and fairness.
SPECIFICATION FairSpec
CONSTANTS
    Ids = {i1}
    Tunnels = 1
    Writes <- ClientOnce
    Window = 2
    Count = 1
    LowMark = 1
    HighMark = 1
    AcceptCap = 1
    Faults = 1
PROPERTIES
    ParentDeathClosesWire
CHECK_DEADLOCK FALSE
