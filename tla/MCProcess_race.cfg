SPECIFICATION Spec
CONSTANTS
  p1 = p1
  p2 = p2
  p3 = p3
  None = None
  Procs = {p1, p2, p3}
  Pid <- SameLength
  Programs <- SignalOrExit
  NotifierCap = 1
  MaxStarts = 3
  MaxSignals = 1
INVARIANTS
  OneProcess
CHECK_DEADLOCK FALSE
