CONSTANTS
  Downloads = {d1, d2}
  Cancelled = {d1}
  Workers = {w1}
  MaxFaults = 1
  x1 = x1
  x2 = x2
  x3 = x3
  Latest = 3
  Post <- TwoOfOne
  Layouts <- Places
  Ceiling = 1
  Requests = {x1, x2, x3}
  Kind <- MCKind
  MaxSteers = 1
  MaxLosses = 1
SPECIFICATION MCFairSpec
INVARIANTS
  OverlapOnlyAfterWriteOff
  LibrarySound
PROPERTY EverythingSettles
CHECK_DEADLOCK FALSE
