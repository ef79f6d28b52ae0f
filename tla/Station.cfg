\* Wi-Fi start-up may fail; two power failures at any point.
CONSTANTS
  MaxRetries = 3
  HwFails = TRUE
  MaxOutages = 2
SPECIFICATION Spec
INVARIANTS LeavesApConfigured
PROPERTIES SavedWhileWaitingReboots ReachesAirOrSetup
CHECK_DEADLOCK FALSE
