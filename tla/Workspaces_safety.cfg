SPECIFICATION Spec
CONSTANTS
  Tree <- Nested
  Root = {1}
  Parallel = {1}
  Providers = {"Memory", "GitFileSystem"}
  Changes <- InOrOut
  MaxAttempts = 1
  MaxFaults = 1
CHECK_DEADLOCK FALSE
INVARIANTS
  RegistryAgreesWithGit
  CandidatesKeepTheirBranch
  ReportLeavesNothing
  FailuresHaveCause
