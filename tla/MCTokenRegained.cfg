CONSTANTS
  Renewable = {TRUE}
  ServeMayFail = FALSE
SPECIFICATION MaxTTLSpec
PROPERTIES TokenRegained
CHECK_DEADLOCK FALSE
