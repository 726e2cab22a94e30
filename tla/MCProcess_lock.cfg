SPECIFICATION FairSpec
CONSTANTS
  p1 = p1
  p2 = p2
  p3 = p3
  None = None
  Procs = {p1, p2}
  Pid <- SameLength
  Programs <- AnyProgram
  NotifierCap = 1
  MaxStarts = 3
  MaxSignals = 2
INVARIANTS
  MutualExclusion
  CleanExit
  PidFileExact
PROPERTIES
  LockKept
  TermEnds
CHECK_DEADLOCK FALSE
