SPECIFICATION Spec
CONSTANTS
  DBus = TRUE
  MaxEvents = 1
PROPERTY ShutdownCompletes
CHECK_DEADLOCK FALSE
