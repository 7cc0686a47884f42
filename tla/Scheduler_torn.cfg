SPECIFICATION LocalSpec
CONSTANTS
  Run = {r1, r2}
  Unknown = unknown
  MaxFaults = 0
  MayDrop = TRUE
CHECK_DEADLOCK FALSE
PROPERTIES
  EveryRunEnds
