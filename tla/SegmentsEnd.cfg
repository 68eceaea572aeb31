SPECIFICATION FairSpec
CONSTANTS
  LiveKinds = {FALSE}
  Fmp4Kinds = {FALSE}
  Last = 2
  Window = 1
  Faults = {}
  MaxFaults = 0
  Disc = {}
  SegRing = 2
  Budget = 3
  Huge = {}
  Depth = 1
  PrefSlots = 1
  MaxShifts = 0
  MaxSeeks = 0
PROPERTIES
  FilmEnds
CHECK_DEADLOCK FALSE
