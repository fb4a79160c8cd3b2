SPECIFICATION FairSpec
CONSTANTS
    Window = 8
    Count = 2
    LowMark = 1
    HighMark = 3
INVARIANTS
    TypeOK
    NoIcwdOverflow
    CreditNeverLost
    NoStall
PROPERTIES
    OverfullOnlyOnUnreadClose
    WindowReopens
    CloseArrives
CHECK_DEADLOCK FALSE
