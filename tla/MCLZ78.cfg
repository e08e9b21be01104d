SPECIFICATION Spec
CONSTANTS
  BITS = 3
  BLOCK = 3
  MAX_CODE = 6
  Inputs <- Long
  MaxStale = 2
INVARIANTS
  TypeOK
  Restores
  InStep
  RoundTrip
  NeverOverruns
CHECK_DEADLOCK FALSE
