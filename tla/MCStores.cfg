SPECIFICATION StoresSpec
SYMMETRY Interchangeable
CONSTANTS
  s1 = s1
  s2 = s2
  s3 = s3
  Strings = {s1, s2, s3}
  Empty = s3
  Amounts <- SomeAmounts
  Starts = {0, 2}
  MaxRef = 3
  k1 = k1
  k2 = k2
  k3 = k3
  k4 = k4
  Key = {k1, k2, k3, k4}
  Val = {1, 2}
  Keys <- SomeTreeKeys
  Values = {1, 2}
  MaxCalls = 5
  Slots = {0, 1}
  Hash <- SomeHash
  na = na
  nb = nb
  nc = nc
  Nodes = {na, nb, nc}
  Ids = {0, 1, 2, 3, 4, 5, 6, 7, 8, 9, 10}
  Digests <- SomeDigests
  Default = 2
  BucketCounts = {0, 1, 5}
  FirstNodes <- SomeStarts
INVARIANTS
  Inverses
  Agrees
  MatchesAgree
  RingShape
  FindNearest
  Successors
PROPERTIES
  NeverReissued
  ImplementsMap
  MinimalMovement
  Takeover
CHECK_DEADLOCK FALSE
