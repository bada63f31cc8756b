SPECIFICATION Spec
CONSTANTS
  M = 3
  N = 3
  Window = 2
  MaxAcceptErrors = 0
INVARIANT OthersNotFlooded
CHECK_DEADLOCK FALSE
