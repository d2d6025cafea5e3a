SPECIFICATION Spec

CONSTANTS
  Tasks = 3
  MaxRetries = 3
INVARIANTS WaitsOnlyOnItself BodyIsAnswer UpMeansAllExported
PROPERTIES CallsEnd
CHECK_DEADLOCK FALSE
