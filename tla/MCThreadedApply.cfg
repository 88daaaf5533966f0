SPECIFICATION FairSpecCall
CONSTANTS
    Dims <- MCDims
    OuterDims = 2
    MaxThreads = 3
INVARIANTS
    ThreadsKeepTheirArguments
    EachElementOnce
    SequentialError
    ReleasesAll
    CallGivesBack
PROPERTIES
    CallReturns
CHECK_DEADLOCK FALSE
