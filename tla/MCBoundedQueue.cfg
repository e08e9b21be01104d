SPECIFICATION FairSpec
CONSTANTS
  Producers = {p1, p2}
  Consumers = {c1, c2}
  Elems = {a, b}
  Capacity = 2
  Null = NULL
INVARIANTS
  TypeOK
  SlotsAccountedFor
  RingExclusive
PROPERTIES
  ImplementsFIFO
  QueueMoves
