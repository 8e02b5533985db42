CONSTANTS
  N = 5
  Keys <- ThreeKeys
SPECIFICATION Spec
CHECK_DEADLOCK FALSE
INVARIANT LockOrderSorted
