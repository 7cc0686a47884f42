SPECIFICATION Spec
CONSTANTS
  Tree <- TwoTasks
  Root = {1, 2}
  Parallel = {}
  Providers = {"GitFileSystem"}
  Changes <- InOrNothing
  MaxAttempts = 0
  MaxFaults = 0
CHECK_DEADLOCK FALSE
INVARIANTS
  FailuresHaveCause
