SPECIFICATION Spec
CONSTANTS
    MaxParts = 0
    MaxDims = 1
    MaxShape = 0
    Ranks <- SmallRanks
    Shapes = {2}
    Steps <- SmallSteps
    MaxCuts = 2
    Extent = 2
INVARIANTS
    OuterDimsAreTraversed
CHECK_DEADLOCK FALSE
