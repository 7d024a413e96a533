SPECIFICATION ChatFairSpec
CONSTANTS Bytes <- MCBytes
          Lines <- MCLines
          BUFFER_SIZE = 4
          Capacity = 4
INVARIANT ShowsToTheEnd
PROPERTY ByeEndsBoth
CHECK_DEADLOCK FALSE
