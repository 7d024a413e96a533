SPECIFICATION Spec
CONSTANTS
  n1 = n1  n2 = n2  c1 = c1  c2 = c2
  NB = 5
  NE = 3
  Width = 8
  Names = {n1, n2}
  NoName = NoName
  Chunks = {c1, c2}
  Zero = Zero
  Files <- MCFiles
  Menu <- MCMenu
  MaxStarts = 6
  MaxCrashes = 1
  Fragile = {"mymkfs", "mycopyto"}
INVARIANT CountDrift
PROPERTY ReadsBack
PROPERTY ImplementsStore
CHECK_DEADLOCK FALSE
