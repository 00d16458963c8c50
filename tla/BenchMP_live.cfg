SPECIFICATION FairSpec
CONSTANTS
    P = 3
    Reps = 1
    Chunks = 2
    HasCleanup = FALSE
    Nested = TRUE
    MaxShort = 1
    Faults = {"kill"}
    MaxFaults = 1
PROPERTIES Completes OrphansDie
