SPECIFICATION InTurn
CONSTANTS
  Workers <- Four
  Conns <- Four
  URIs <- OneUri
  Requests <- ReadsAndWrites
  Initial <- AbsentOrForbidden
  InitServed <- Garbage
  Chunks = 1
  IntRange = 8
  Failures = FALSE
PROPERTIES
  EveryConnectionCloses
CHECK_DEADLOCK FALSE
