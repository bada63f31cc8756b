SPECIFICATION FairSpec
CONSTANTS
  Count = 4
  Start <- MCStart
  Probed = {1, 4}
  Cap = 3
  W = 8
  MaxErrors = 2
  CanStop = TRUE
INVARIANTS TypeOK DeliveredIntact WithinBuffer
PROPERTIES ImplementsFifo EveryMessageArrives
CHECK_DEADLOCK FALSE
