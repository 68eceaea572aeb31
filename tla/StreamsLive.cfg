SPECIFICATION StreamsFair
CONSTANTS
  LiveKinds = {TRUE, FALSE}
  Fmp4Kinds = {FALSE}
  Last = 1
  Window = 1
  Faults = {"body", "edge"}
  MaxFaults = 1
  Disc = {}
  SegRing = 1
  Budget = 1
  Huge = {1}
  Depth = 1
  PrefSlots = 1
  MaxShifts = 1
  MaxSeeks = 1
  Segs = 2
  PrefetchSlots = 2
  Tries = 2
  MaxFails = 0
  MaxTimelines = 2
  Ring = 3
  Grain = 2
  Repaid = 1
  DebtMax = 3
  Width = 16
  High = 1
  Packet = 2
  Guarded = TRUE
  Track = 4
  MaxGrains = 3
  MaxHolds = 1
  MaxSessions = 0
  Parts = {"segments", "rendition"}
PROPERTIES
  StreamsEnd
CHECK_DEADLOCK FALSE
