SPECIFICATION Spec
CONSTANTS
  Task = {t1, t2, t3}
  NoTask = NoTask
  MaxParallelTasks = 2
  PersistMayFail = FALSE
  MaxCrashes = 1
SYMMETRY TaskSymmetry
INVARIANTS
  SlotAccounting
  StoreMatchesBoard
PROPERTIES
  ReportedIsFinal
  SpawnedOnlyFromQueue
  ImplementsLifecycle
