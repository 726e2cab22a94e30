SPECIFICATION AcceptSpec
CONSTANTS
  Headers <- SomeHeaders
  Star = "*"
  Family <- SomeFamily
  ByPrefix <- SomePrefixes
  Values <- SomeValues
  NoNumber = 99
  Huge = 1000
INVARIANT AcceptsByRfc
CHECK_DEADLOCK FALSE
