SPECIFICATION Spec
CONSTANTS
    Parallel = 2
    Repetitions = 2
    Enough = 5000
    Short = 20000
    Tries = 2
    IterCap = 10000
    IterCapNeg = 1000
    Costs <- MCCosts
    Noise <- MCWide
    Overhead = 10
INVARIANT MedianReported
