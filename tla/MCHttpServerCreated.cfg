SPECIFICATION Spec
CONSTANTS
  Workers = {w1, w2}
  Conns <- Three
  URIs <- OneUri
  Requests <- Puts
  Initial <- Absent
  InitServed <- Zeroed
  Chunks = 1
  IntRange = 8
  Failures = FALSE
INVARIANTS
  CreatedOnce
CHECK_DEADLOCK FALSE
