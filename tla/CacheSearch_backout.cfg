SPECIFICATION SearchSpec
CONSTANTS
    Samples = 9
    PageUnits = 4
    Times = {0, 10, 16, 25}
    Fan = 3
    MaxFixups = 1
    Passes = 2
    IntSize = 4
    WordSize = 8
    TlbStart = 2
    TlbPages = 16
PROPERTY BacksOut
\* The search stops when it is done.
CHECK_DEADLOCK FALSE
