SPECIFICATION Spec
CONSTANTS
  w = w  r = r  n1 = n1  n2 = n2  n2x = n2x  n3 = n3
  c0 = c0  c1 = c1  c2 = c2  cbig = cbig
  Procs = {w, r}
  MB = 2
  EB = 2
  Names = {n1, n2, n2x, n3}
  Clip <- MCClip
  Contents = {c0, c1, c2, cbig}
  Size <- MCSize
  MaxSize = 2
  NoName = NoName  Junk = Junk  NoContent = NoContent
  Menu <- MCMenu
  MaxStarts = 5
  MaxCrashes = 1
  Fragile <- MCFragile
PROPERTY CopyWithRoomIsStored
PROPERTY ReadsWhole
PROPERTY ImplementsStore
CHECK_DEADLOCK FALSE
