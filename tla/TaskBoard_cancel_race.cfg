SPECIFICATION Spec
CONSTANTS
  Task = {t1, t2}
  NoTask = NoTask
  MaxParallelTasks = 1
  PersistMayFail = FALSE
  MaxCrashes = 0
PROPERTIES
  CancelledNeverCompletes
