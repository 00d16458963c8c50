SPECIFICATION Spec
CONSTANTS
    P = 2
    Reps = 1
    Chunks = 1
    HasCleanup = TRUE
    Nested = TRUE
    MaxShort = 1
    Faults = {}
    MaxFaults = 0
INVARIANT OthersRunBenchmark
