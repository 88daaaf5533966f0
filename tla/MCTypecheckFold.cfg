CONSTANTS
  Calls <- FoldCalls
  ItemSize <- MCItemSize
SPECIFICATION Spec
INVARIANT OutputStaysInside
CHECK_DEADLOCK FALSE
