SPECIFICATION OptSpec
CONSTANTS
  Flags = {"-a", "-n", "--num", "--help"}
  Words = {"x", "7"}
  Numeric = {"7"}
  Empty = ""
  Added <- SomeAdded
  Tables <- SomeTables
  Halts <- SomeHalts
  MaxArgs = 3
INVARIANT RequiredRaised
CHECK_DEADLOCK FALSE
