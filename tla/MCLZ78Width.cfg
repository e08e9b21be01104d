SPECIFICATION Spec
CONSTANTS
  BITS = 2
  BLOCK = 16
  MAX_CODE = 15
  Inputs <- Long
  MaxStale = 0
INVARIANTS
  EveryFileComesBack
CHECK_DEADLOCK FALSE
