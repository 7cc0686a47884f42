SPECIFICATION Spec
CONSTANTS
  MaxNodes = 3
  MaxItems = 2
  DepthBound = 1
  Key = {k1}
  RootKey = k0
  Path = {p, q}
  RootScope = {p, q}
  AllowWrite = TRUE
  Output <- SomeOutput
  NoArtifact = NoArtifact
  MaxAttempts = 2
  MaxDecompositionDepth = 3
CHECK_DEADLOCK FALSE
INVARIANTS
  ReuseStaysInScope
