CONSTANTS
  Concurrency = 2
  MaxTasks = 4
  MaxHandlers = 2
  Unset = Unset
SPECIFICATION CSpec
INVARIANTS RunsInOrder ScanReadsResults UpExplained PartialSeries
PROPERTIES ImplementsPoolSpec WorkersExit UpReported
CHECK_DEADLOCK FALSE
