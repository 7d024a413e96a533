SPECIFICATION FairSpec
CONSTANTS
  p1 = p1  p2 = p2  n1 = n1  n2 = n2  c1 = c1  c2 = c2
  Procs = {p1}
  NB = 6
  NE = 3
  Names = {n1, n2}
  LongNames = {}
  Contents = {c1, c2}
  MaxLen = 2
  NoName = NoName  NoContent = NoContent  SuperContent = SuperContent
  Menu <- MCMenuAll
  MaxStarts = 5
  MaxCrashes = 1
  Fragile = {"mymkfs", "mycopyTo", "mymkdir"}
INVARIANT NoUnderflow
INVARIANT ChainsApart
INVARIANT FilesWhole
INVARIANT NoLeak
PROPERTY ImplementsStore
PROPERTY EveryCommandEnds
PROPERTY RmRemoves
CHECK_DEADLOCK FALSE
