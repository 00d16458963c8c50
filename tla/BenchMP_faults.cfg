SPECIFICATION Spec
CONSTANTS
    P = 3
    Reps = 1
    Chunks = 2
    HasCleanup = TRUE
    Nested = TRUE
    MaxShort = 1
    Faults = {"crash", "fork", "malloc", "term", "kill"}
    MaxFaults = 2
INVARIANTS TypeOK MeasuredUnderLoad LoadOutlastsMeasurement SignalsInStep ResultsWhole HarnessInv
PROPERTY PromiseKept
CHECK_DEADLOCK FALSE
