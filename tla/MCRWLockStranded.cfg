SPECIFICATION FairSpec
CONSTANTS
  Threads = {t1, t2, t3, t4}
  Priorities = {"N_WAY"}
  NWays = {1}
  InitServed = {0}
  MaxServed = 4
  Spurious = FALSE
INVARIANT ReaderNeverStranded
CHECK_DEADLOCK FALSE
