SPECIFICATION Spec
CONSTANTS
    P = 1
    Reps = 1
    Chunks = 1
    HasCleanup = TRUE
    Nested = FALSE
    MaxShort = 1
    Faults = {"crash"}
    MaxFaults = 1
PROPERTY DeathsAllowed
