SPECIFICATION FairSpec
CONSTANTS
  p1 = p1  p2 = p2  p3 = p3
  Procs = {p1, p2, p3}
  Menu <- MCMenu
  SEMVMX = 3
  MaxSems = 2
  MaxStarts = 3
  MaxKills = 1
INVARIANT UndoBalances
INVARIANT MutualExclusion
PROPERTY WaiterServed
CHECK_DEADLOCK FALSE
