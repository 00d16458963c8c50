SPECIFICATION FairSpec
CONSTANTS
    Parallel = 2
    Repetitions = 3
    Enough = 5000
    Short = 20000
    Tries = 2
    IterCap = 10000
    IterCapNeg = 1000
    Costs <- MCCosts
    Noise <- MCNoise
    Overhead = 10
INVARIANTS TypeOK ResultsDescend WithinCapacity NothingLost TimeMatchesCount LoadMeasured
PROPERTY CallEnds
