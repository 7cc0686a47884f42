SPECIFICATION Spec
CONSTANTS
  MaxNodes = 5
  MaxItems = 2
  DepthBound = 2
  Key = {k1}
  RootKey = k0
  Path = {p}
  RootScope = {p}
  AllowWrite = TRUE
  Output <- PlainOutput
  NoArtifact = NoArtifact
  MaxAttempts = 1
  MaxDecompositionDepth = 3
CHECK_DEADLOCK FALSE
INVARIANTS
  CombinesCompleteGroups
  QuestionsReachTheReport
  NothingOutlivesTheReport
  MemoIsBacked
