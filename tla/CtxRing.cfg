SPECIFICATION FairSpec
CONSTANTS
    Procs = 4
    Batches = 3
    Iterations = 2
    Faults = {"pipe", "fork", "crash", "kill"}
    MaxFaults = 2
INVARIANTS TypeOK OneRound ReadyWhenTimed NoneLeftBehind FailsForAReason
PROPERTIES DaemonsFollow HeadEnds
\* A daemon that dies after the handler is gone leaves the head blocked.
CHECK_DEADLOCK FALSE
