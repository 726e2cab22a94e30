SPECIFICATION FairSpec
CONSTANTS
  g1 = g1
  g2 = g2
  g3 = g3
  Goroutines = {g1, g2}
  Flushers = {g1}
  BufSizes = {2}
  Orderly = FALSE
  MaxEntries = 1
  MaxFlushes = 1
  MaxCloses = 1
PROPERTIES
  CloseReturns
CHECK_DEADLOCK FALSE
