SPECIFICATION HFairSpec
CONSTANTS
  Threads = {t1, t2, t3, t4}
  Priorities = {"READERS", "WRITERS", "N_WAY"}
  NWays = {1, 2}
  InitServed <- Garbage
  MaxServed = 4
  Spurious = TRUE
INVARIANTS
  TypeOK
  CountersMatch
  MutualExclusion
  NoStrandedWriter
  NoStrandedReader
  OvertakeBound
PROPERTIES
  ImplementsRWLock
  WriterProgress
  ReaderProgress
