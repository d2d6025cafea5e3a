CONSTANTS
  Renewable = {TRUE, FALSE}
  ServeMayFail = TRUE
SPECIFICATION Spec
PROPERTIES ShutdownCompletes
CHECK_DEADLOCK FALSE
