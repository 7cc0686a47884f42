SPECIFICATION Spec
CONSTANTS
  MaxNodes = 1
  MaxItems = 1
  DepthBound = 0
  Key = {k1}
  RootKey = k0
  Path = {p}
  RootScope = {p}
  AllowWrite = TRUE
  Output <- SomeOutput
  NoArtifact = NoArtifact
  MaxAttempts = 2
  MaxDecompositionDepth = 3
CHECK_DEADLOCK FALSE
PROPERTIES
  CommitIsFinal
