SPECIFICATION SuiteSpec
CONSTANTS
    Benchmarks <- MCBenchmarks
    Intervals = 2
    Laps = 2
    MaxHookFaults = 3
    Commands <- MCCommands
    Words = 16
    RepeatSize = 2
    MaxDdFaults = 2
    Layouts <- MCLayouts
    Addresses = {1, 2}
    Unroll = 3
    Builds = 2
    Uses = 3
    Samples = 8
    PageUnits = 2
    Times = {0, 10, 25}
    Fan = 2
    MaxFixups = 1
    Passes = 2
    IntSize = 4
    WordSize = 8
    TlbStart = 2
    TlbPages = 16
    Hosts <- MCHosts
    IntBits = 8
    LongBits = 16
INVARIANTS OnlyOwnChildren NothingLeft OneHandover CopyFaithful OffsetsApart ChainCovers WalkOnChain PagesKept SearchComplete OwnProcessor
PROPERTY EveryProgramEnds
\* Every program stops when it has ended.
CHECK_DEADLOCK FALSE
