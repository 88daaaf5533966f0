CONSTANTS
  Calls <- MCCalls
  ItemSize <- MCItemSize
SPECIFICATION Spec
INVARIANTS AcceptsWhatFits BroadcastReads OutputsHaveTheirPlaces ChecksAgree
CHECK_DEADLOCK FALSE
