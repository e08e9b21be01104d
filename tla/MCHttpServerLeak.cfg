SPECIFICATION Spec
CONSTANTS
  Workers = {w1, w2}
  Conns <- Three
  URIs <- OneUri
  Requests <- Puts
  Initial <- Refused
  InitServed <- Zeroed
  Chunks = 1
  IntRange = 8
  Failures = FALSE
INVARIANTS
  PutReleases
CHECK_DEADLOCK FALSE
