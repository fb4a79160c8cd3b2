\* Two wires and two tunnels that share an id or not; the client writes; one
\* fault, and fairness.
SPECIFICATION FairSpec
CONSTANTS
    Ids = {i1}
    Budgets <- MCBudgets
    Window = 2
    Count = 1
    LowMark = 1
    HighMark = 1
    AcceptCap = 1
INVARIANTS
    TypeOK
    StreamIntegrity
PROPERTIES
    FailuresExplained
    SessionDies
CHECK_DEADLOCK FALSE
