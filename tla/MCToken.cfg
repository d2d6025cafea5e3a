CONSTANTS
  Renewable = {TRUE, FALSE}
  ServeMayFail = TRUE
SPECIFICATION Spec
INVARIANTS RevokedBeforeExit OneLoginAttempt
PROPERTIES LoginRetried ShutdownStopsRenewal
CHECK_DEADLOCK FALSE
