SPECIFICATION Spec
CONSTANTS
    MaxParts = 13
    MaxDims = 3
    MaxShape = 3
    Ranks <- SmallRanks
    Shapes = {0, 1, 2}
    Steps <- SmallSteps
    MaxCuts = 3
    Extent = 4
INVARIANTS
    Partition
    KernelFits
    StridedVisitsAll
    KernelIsTheCalls
    ResultsAreExact
    LoopsAreLinked
    ElementwiseResult
CHECK_DEADLOCK FALSE
