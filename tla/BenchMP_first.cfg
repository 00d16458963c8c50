SPECIFICATION FairSpec
CONSTANTS
    P = 1
    Reps = 2
    Chunks = 2
    HasCleanup = TRUE
    Nested = FALSE
    MaxShort = 3
    Faults = {"crash", "fork", "malloc", "term", "kill"}
    MaxFaults = 3
PROPERTIES Ends
