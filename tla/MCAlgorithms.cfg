SPECIFICATION AlgorithmsSpec
CONSTANTS
  Numbers <- SomeNumbers
  Bounds <- SomeBounds
  Randoms = {0, 1, 4, 6}
  Colon = 10
  Bar = 11
  Backslash = 12
  Names <- SomeNames
  Contents <- SomeContents
  Keys = {1, 2}
  Durations = {0, 1, 2}
  MaxTime = 5
  Secrets = {"s", "t"}
  Digest <- SomeDigests
  Iterations = {0, 1, 3}
  Lengths = {0, 1, 4, 5}
  MaxSettings = 2
  Inputs <- SomeInputs
  Hi = 4
  Lo = 3
  Long = 2
  TableSize = 4
  MaxSize = 28
  Plain <- SomePlain
  Quoted <- SomeQuoted
  Safes = {{}, {47}, {43}, {37, 32}}
  QuoteSafe = QuoteSafe
  Nobody = Nobody
  Flags = {"-a", "--all", "--num", "-o", "-h"}
  Words = {"run", "7"}
  Numeric = {"7"}
  Empty = ""
  Added <- SomeAdded
  Tables <- SomeTables
  Halts <- SomeHalts
  MaxArgs = 4
  WordBytes = 2
  ByteBits = 2
  UintMax = 31
  Sizes = {0, 3, 4, 5, 30}
  Indices = {0, 1, 3, 4, 7, 8}
  Headers <- SomeHeaders
  Star = "*"
  Family <- SomeFamily
  ByPrefix <- SomePrefixes
  Values <- SomeValues
  NoNumber = 99
  Huge = 1000
INVARIANTS
  PicksRight
  IronKept
  RoundTrip
  ParsedRight
  CompletionAgrees
  Unquoted
  PreferenceRight
  BitsRight
  KeyStandard
  Validates
CHECK_DEADLOCK FALSE
