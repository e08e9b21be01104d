SPECIFICATION Spec
CONSTANTS
  Inputs <- MCInputs
  Names <- MCNames
  Contents <- MCContents
  LINE = 3
  CHUNK = 2
  MAX_CONTENT_SIZE = 3
  Runs = 3
INVARIANTS
  Remembers
  FailuresKeepPrefix
CHECK_DEADLOCK FALSE
