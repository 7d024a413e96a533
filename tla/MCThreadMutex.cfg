SPECIFICATION MutexFairSpec
CONSTANTS
  p1 = p1  p2 = p2  c1 = c1  c2 = c2  c3 = c3
  Producers = {p1, p2}
  Consumers = {c1, c2, c3}
  M = 3
INVARIANT EveryIncrementCounts
PROPERTY HandedOver
PROPERTY GoesOn
