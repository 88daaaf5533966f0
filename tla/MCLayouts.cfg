SPECIFICATION Spec
CONSTANTS
    MaxSize = 255
    MaxAlign = 16
    NDT_MAX_DIM = 3
    MaxTags = 2
    MaxCount = 15
    Bits = 4
    NaN = NaN
    Inf = Inf
    MinusInf = MinusInf
    BlockSize = 4
    UnsignedBits = 5
    MaxItems = 40
    Lefts = {0, 1, 2, 3, 5, 100}
INVARIANTS
    LayoutsFit
    UnifiedHoldsBoth
    CopiesAreEqual
    EachValueHasItsBit
    BoundsCoverAllValues
    ReshapeKeepsItems
    ArithmeticIsExact
    EachItemOnce
CHECK_DEADLOCK FALSE
