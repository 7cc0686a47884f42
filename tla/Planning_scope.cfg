SPECIFICATION Spec
CONSTANTS
  None = None
  Garbled = Garbled
  Heading = Heading
  Slug <- SlugOf
  Provider = "GitFileSystem"
  RootKey = k0
  RootScope <- Everywhere
  MaxAttempts = 2
  MaxDecompositionDepth = 3
  SpecifyArgs <- SomeSizes
  PlanArgs <- WideningPlans
  WorkArgs <- SomeWork
  VerdictArgs <- SomeVerdicts
  Universe <- SomePaths
  Width <- Widths
  MaxSetbacks = 1
CHECK_DEADLOCK FALSE
INVARIANT ScopesNeverWiden
