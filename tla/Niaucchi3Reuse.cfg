\* Two tunnels, with ids of their own or one after the other on the same id;
\* the client writes; no faults but those the two ends bring about.
SPECIFICATION Spec
CONSTANTS
    Ids = {i1, i2}
    Tunnels = 2
    Writes <- ClientOnce
    Window = 2
    Count = 1
    LowMark = 1
    HighMark = 1
    AcceptCap = 1
    Faults = 0
INVARIANTS
    StreamIntegrity
PROPERTIES
    FailuresExplained
CHECK_DEADLOCK FALSE
