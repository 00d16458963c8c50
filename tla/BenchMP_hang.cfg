SPECIFICATION FairSpec
CONSTANTS
    P = 2
    Reps = 1
    Chunks = 1
    HasCleanup = TRUE
    Nested = TRUE
    MaxShort = 1
    Faults = {"crash"}
    MaxFaults = 1
PROPERTY ErrorsEnd
CHECK_DEADLOCK FALSE
