CONSTANTS
  Types <- Variant
  Containers <- Blocks
  Values <- AllValues
  EmptyBudgets = {9}
  Budgets = {9}
  Copies <- Distinct
  MaxBlocks = 12
SPECIFICATION Spec
INVARIANT PointersValid
CHECK_DEADLOCK FALSE
