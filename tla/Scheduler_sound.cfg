SPECIFICATION LocalSpec
CONSTANTS
  Run = {r1, r2, r3}
  Unknown = unknown
  MaxFaults = 1
  MayDrop = TRUE
CHECK_DEADLOCK FALSE
INVARIANTS
  OwnAnswer
  FailuresHaveCause
PROPERTIES
  HolderCancelReturns
  EveryRunEndsUnlessTorn
