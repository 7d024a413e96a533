SPECIFICATION FairSpec
CONSTANTS
  Producers = {1, 2}
  Consumers = {3, 4}
  Free = 0
  N = 3
  Items = {0, 1}
  Zero = 0
  MaxProducers = 2
  MaxConsumers = 2
  MaxDeletes = 1
  MaxSpurious = 1
INVARIANT NoLostWakeup
PROPERTY ImplementsQueue
PROPERTY ItemsMove
CHECK_DEADLOCK FALSE
