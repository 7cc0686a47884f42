SPECIFICATION LocalSpec
CONSTANTS
  Backend <- AllBackends
  Message = {m1}
  Viewer = {v1}
  MaxEvents = 2
CHECK_DEADLOCK FALSE
INVARIANTS
  ViewsReplayTheRun
  ResultTellsWhatHappened
  SettledMeansStopped
PROPERTIES
  RunsSettle
