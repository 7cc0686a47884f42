SPECIFICATION Spec
CONSTANTS
  Run = {r1, r2}
  Unknown = unknown
  MaxFaults = 0
  MayDrop = TRUE
CHECK_DEADLOCK FALSE
INVARIANTS
  OneHost
