SPECIFICATION FairSpec
CONSTANTS
  Task = {t1, t2}
  NoTask = NoTask
  MaxParallelTasks = 0
  PersistMayFail = TRUE
  MaxCrashes = 1
PROPERTIES
  RestartKeepsOutcomes
  EveryTaskSettles
  CancelBeatsResult
