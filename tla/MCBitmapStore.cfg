SPECIFICATION Spec
CONSTANTS
  p1 = p1  p2 = p2
  Procs = {p1, p2}
  Cap = 3
  Sizes = {1, 3, 4}
  MaxCalls = 6
  MaxCrashes = 1
INVARIANT SuperSound
INVARIANT OneBlockPerCrash
PROPERTY NeverHandedTwice
PROPERTY ChecksFailForCause
CHECK_DEADLOCK FALSE
