SPECIFICATION ServicesSpec
CONSTANTS
    Services <- MCServices
    Clients = {c1, c2}
    Rounds = 2
    Size = 2
    MaxTries = 1
    MaxStreamFaults = 1
    Programs <- MCPrograms
    Peers = {p1, p2}
    Calls = 2
    Attempts = 2
    MaxMishaps = 1
INVARIANTS ServicesTypeOK StopsOnRequest WaitNeverBlocks RoundsHold
PROPERTY EveryoneEnds
CHECK_DEADLOCK FALSE
