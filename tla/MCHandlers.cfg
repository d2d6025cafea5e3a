SPECIFICATION Spec

CONSTANT Scrapes <- MCScrapes
INVARIANTS AlarmsShown OkHasReason 
CHECK_DEADLOCK FALSE
