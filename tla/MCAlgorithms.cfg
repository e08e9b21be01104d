SPECIFICATION Spec
CONSTANTS
  BYTE = 2
  Arrays <- SomeArrays
  Numbers <- SomeNumbers
  KeyPairs <- SomeKeys
  Files <- SomeFiles
  Pixels <- SomePixels
  Rotations <- SomeRotations
  Columns = {0, 63, 64}
  Worlds <- SomeWorlds
INVARIANTS
  SortsSort
  ArithmeticRight
  PrimalityTest
  DecryptInverts
  LifeEvolves
  FramesShown
CHECK_DEADLOCK FALSE
