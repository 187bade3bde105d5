SPECIFICATION Spec
CONSTANTS
  Loads = 2
CHECK_DEADLOCK FALSE
INVARIANTS ExitedMeansWoken
