\* No power failure, no hardware failure.
CONSTANTS
  MaxRetries = 3
  HwFails = FALSE
  MaxOutages = 0
SPECIFICATION Spec
PROPERTIES PromiseKept
CHECK_DEADLOCK FALSE
