SPECIFICATION FairSpec
CONSTANTS
  num_packets = 4
  P = 1000
  TTL = 2
  Strays <- MCStrays
  MaxDoubled = 1
  MaxStrays = 1
INVARIANT CountedWasForwarded
INVARIANT LossCostsItself
PROPERTY GeneratorEnds
CHECK_DEADLOCK FALSE
