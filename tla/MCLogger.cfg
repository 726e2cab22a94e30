SPECIFICATION Spec
CONSTANTS
  g1 = g1
  g2 = g2
  e1 = e1
  e2 = e2
  e3 = e3
  root = root
  child1 = child1
  child2 = child2
  sync = sync
  queued = queued
  None = None
  Goroutines = {g1, g2}
  Loggers = {root, child1}
  Root = root
  Handlers = {sync, queued}
  Async = {queued}
  Entries = {e1, e2, e3}
  MaxCalls = 3
  SetAfter = {0, 1}
INVARIANTS
  PoolExclusive
  HandlersSeeCall
  Propagation
SYMMETRY Interchangeable
CHECK_DEADLOCK FALSE
