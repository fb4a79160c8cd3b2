\* One tunnel, the client fills its window, the server answers; one fault, and
\* fairness.
SPECIFICATION FairSpec
CONSTANTS
    Ids = {i1}
    Tunnels = 1
    Writes <- ClientFills
    Window = 2
    Count = 1
    LowMark = 1
    HighMark = 1
    AcceptCap = 1
    Faults = 1
INVARIANTS
    TypeOK
    StreamIntegrity
    NothingAfterClos
PROPERTIES
    UploadImplementsFlow
    DownloadImplementsFlow
    TeardownCompletes
    IdsReturn
CHECK_DEADLOCK FALSE
