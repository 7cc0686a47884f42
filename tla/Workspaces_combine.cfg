SPECIFICATION Spec
CONSTANTS
  Tree <- Nested
  Root = {1}
  Parallel = {1}
  Providers = {"GitFileSystem"}
  Changes <- InOrNothing
  MaxAttempts = 0
  MaxFaults = 0
CHECK_DEADLOCK FALSE
INVARIANTS
  CombineKeepsAcceptedWork
