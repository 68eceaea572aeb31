SPECIFICATION StreamsSpec
CONSTANTS
  LiveKinds = {TRUE, FALSE}
  Fmp4Kinds = {TRUE, FALSE}
  Last = 3
  Window = 2
  Faults = {"fetch"}
  MaxFaults = 1
  Disc = {1}
  SegRing = 2
  Budget = 2
  Huge = {1}
  Depth = 2
  PrefSlots = 2
  MaxShifts = 1
  MaxSeeks = 1
  Segs = 3
  PrefetchSlots = 2
  Tries = 2
  MaxFails = 1
  MaxTimelines = 2
  Ring = 3
  Grain = 2
  Repaid = 1
  DebtMax = 3
  Width = 16
  High = 1
  Packet = 2
  Guarded = TRUE
  Track = 4
  MaxGrains = 3
  MaxHolds = 1
  MaxSessions = 2
  Parts = {"segments", "rendition", "sound"}
INVARIANTS
  NothingIsMisnamed
  AbortIsLifted
  RenditionIsSound
  ClockIsHeard
  OutputIsSound
PROPERTIES
  PlaysInOrder
CHECK_DEADLOCK FALSE
