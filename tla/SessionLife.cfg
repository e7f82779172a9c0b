SPECIFICATION Spec
CONSTANTS
  DBus = TRUE
  MaxEvents = 2
INVARIANTS ExitStatusExplained EndsStopped
PROPERTIES ReadyMeansUp StopIsHeeded
CHECK_DEADLOCK FALSE
