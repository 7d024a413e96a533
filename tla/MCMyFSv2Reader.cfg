SPECIFICATION Spec
CONSTANTS
  p1 = p1  p2 = p2  n1 = n1  n2 = n2  c1 = c1  c2 = c2
  Procs = {p1, p2}
  NB = 8
  NE = 1
  Names = {n1, n2}
  LongNames = {}
  Contents = {c1, c2}
  MaxLen = 2
  NoName = NoName  NoContent = NoContent  SuperContent = SuperContent
  Menu <- MCMenuReader
  MaxStarts = 4
  MaxCrashes = 1
  Fragile = {"mymkfs", "mycopyTo", "mymkdir"}
INVARIANT ChainsApart
INVARIANT ReaderSeesWhole
CHECK_DEADLOCK FALSE
