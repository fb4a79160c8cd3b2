SPECIFICATION Spec
CONSTANTS
    Sessions = {s1}
    MB = 2
    InitFree = 2
    Plenty = 5
    MaxBytes = 3
    DbFaults = 0
PROPERTIES
    EveryByteSettled
CHECK_DEADLOCK FALSE
