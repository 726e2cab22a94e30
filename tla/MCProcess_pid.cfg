SPECIFICATION Spec
CONSTANTS
  p1 = p1
  p2 = p2
  p3 = p3
  None = None
  Procs = {p1, p2}
  Pid <- MixedLength
  Programs <- ExitOnly
  NotifierCap = 1
  MaxStarts = 2
  MaxSignals = 0
INVARIANTS
  PidFileNamesHolder
CHECK_DEADLOCK FALSE
