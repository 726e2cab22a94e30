SPECIFICATION FairSpec
CONSTANTS
  g1 = g1
  g2 = g2
  g3 = g3
  Goroutines = {g1, g2}
  Flushers = {g1}
  BufSizes = {0, 1}
  Orderly = TRUE
  MaxEntries = 3
  MaxFlushes = 2
  MaxCloses = 1
INVARIANTS
  OrderlyShutdown
PROPERTIES
  FlushReturns
  CloseReturns
  LogDelivered
CHECK_DEADLOCK FALSE
