SPECIFICATION FairSpec
CONSTANTS
    Sessions = {s1, s2}
    MB = 2
    InitFree = 1
    Plenty = 5
    MaxBytes = 3
    DbFaults = 1
INVARIANTS
    TypeOK
    NoLostCharge
    NeverOvercharged
    CutForAReason
PROPERTIES
    ExhaustedIsCut
CHECK_DEADLOCK FALSE
