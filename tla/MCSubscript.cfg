CONSTANTS
  Arrays <- MCArrays
  Keys <- MCKeys
SPECIFICATION Spec
INVARIANTS ReadsNeverFail
PROPERTY ImplementsNestedLists
CHECK_DEADLOCK FALSE
