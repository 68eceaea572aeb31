SPECIFICATION FairSpec
CONSTANTS
  RingCap = 3
  Chunk = 2
  KeepBehind = 1
  FileLen = 4
  MaxLen = 2
  MaxReconnects = 1
  BadReplies = FALSE
INVARIANTS
  ServedRight
  StallsOnlyAtEdge
  KeptIsClean
PROPERTIES
  WaitsEnd
