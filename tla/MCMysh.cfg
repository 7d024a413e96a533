SPECIFICATION FairSpec
CONSTANTS
  Menu <- MCMenu
  Depth = 3
  Openable = {"f", "g"}
  Capacity = 1
  MaxLines = 2
  MaxFailures = 1
INVARIANT NothingLeftBehind
INVARIANT RunsByStatus
INVARIANT TerminalKept
PROPERTY EveryLineEnds
CHECK_DEADLOCK FALSE
