SPECIFICATION Spec
CONSTANTS
  g1 = g1
  g2 = g2
  g3 = g3
  Goroutines = {g1, g2, g3}
  Flushers = {g1, g2, g3}
  BufSizes = {0, 2}
  Orderly = FALSE
  MaxEntries = 3
  MaxFlushes = 2
  MaxCloses = 2
INVARIANTS
  ChannelFIFO
  CloseSafety
PROPERTIES
  FlushBarrier
  SinkSpec
SYMMETRY Interchangeable
CHECK_DEADLOCK FALSE
