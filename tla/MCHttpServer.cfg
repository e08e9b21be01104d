SPECIFICATION Spec
CONSTANTS
  Workers = {w1, w2, w3}
  Conns <- Three
  URIs <- TwoUris
  Requests <- WithErrors
  Initial <- BadNeighbour
  InitServed <- Garbage
  Chunks = 2
  IntRange = 8
  Failures = TRUE
SYMMETRY Alike
INVARIANTS
  TypeOK
  OneLockPerUri
  StableWhileSending
  OneUploadPerFile
  LogReplays
  FilesClosed
CHECK_DEADLOCK FALSE
