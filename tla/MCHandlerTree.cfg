SPECIFICATION Spec
CONSTANTS
  g1 = g1
  g2 = g2
  Goroutines = {g1, g2}
  Nodes = {1, 2, 3, 4, 5}
  Root = 1
  Trees <- SomeTrees
  MaxCalls = 3
INVARIANTS
  LogOutcome
  FlushCovers
  CloseComplete
PROPERTIES
  SilentAfterClose
SYMMETRY Interchangeable
CHECK_DEADLOCK FALSE
