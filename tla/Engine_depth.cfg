SPECIFICATION Spec
CONSTANTS
  MaxNodes = 3
  MaxItems = 1
  DepthBound = 2
  Key = {k1}
  RootKey = k0
  Path = {p}
  RootScope = {p}
  AllowWrite = TRUE
  Output <- PlainOutput
  NoArtifact = NoArtifact
  MaxAttempts = 1
  MaxDecompositionDepth = 1
CHECK_DEADLOCK FALSE
INVARIANTS
  DepthLimited
