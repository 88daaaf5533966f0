CONSTANTS
  Types <- Checked
  Containers <- Blocks
  Values <- AllValues
  EmptyBudgets = {0, 1, 9}
  Budgets = {0, 1, 2, 9}
  Copies <- Distinct
  MaxBlocks = 14
SPECIFICATION Spec
INVARIANTS EachBlockOwnedOnce NoBadAccess CopyKeepsValue
CHECK_DEADLOCK FALSE
