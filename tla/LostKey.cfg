SPECIFICATION Spec
CONSTANTS
  MaxKeys = 4
  MaxMode = 1
INVARIANTS EveryKeyCounts
CHECK_DEADLOCK FALSE
