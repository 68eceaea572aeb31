SPECIFICATION FairSpec
CONSTANTS
  Frames = 3
  AudioFrames = 2
  Skew = 2
  Remote = TRUE
  Gated = TRUE
  FqSlots = 2
  StartFrames = 1
  StartAudio = 2
  Low = 1
  High = 2
  RingCap = 3
  Resume = 2
  EmptyFrames = 1
  MaxSeeks = 1
  MaxPauses = 1
INVARIANTS
  QueueIsFresh
PROPERTIES
  StreamGoesOn
CHECK_DEADLOCK FALSE
