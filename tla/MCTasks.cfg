SPECIFICATION Spec

CONSTANTS
  Devices <- MCDevices
  Requests <- MCRequests
  InventoryLimit = 3
INVARIANTS WholeOrNothing PartialAsFull DrivesNotMissed
CHECK_DEADLOCK FALSE
