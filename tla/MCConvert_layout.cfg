CONSTANTS
  Signatures <- PixelList
  Paths <- SyncPath
  Reordered <- PixelOnly
  ValuesOf <- Values
  MaxLen = 2
SPECIFICATION Spec
\* One call is made; it ends.
CHECK_DEADLOCK FALSE
INVARIANTS
  EveryListArrives
