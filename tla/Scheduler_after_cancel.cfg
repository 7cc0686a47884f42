SPECIFICATION Spec
CONSTANTS
  Run = {r1, r2}
  Unknown = unknown
  MaxFaults = 0
  MayDrop = FALSE
CHECK_DEADLOCK FALSE
INVARIANTS
  CancelStaysLocal
