CONSTANTS
  j1 = j1
  j2 = j2
  j3 = j3
  a = a
  b = b
  w1 = w1
  x1 = x1
  x2 = x2
  Jobs = {j1, j2, j3}
  Ids = {a, b}
  IdOf <- MCIdOf
  Items = {x1}
  Workers = {w1, w2}
  QueueSize = 1
  History = 1
  MaxRestarts = 1
  Null = Null
  Transferring = {j1, j2}
  Versions = {"v1", "v2", "v3"}
  Length <- MCLength
  Mirrors = 2
  Ceiling = 2
  MaxResumes = 2
  MaxWaits = 1
  MaxFaults = 3
  MaxReplaced = 1
SPECIFICATION MCFairSpec
INVARIANTS
  TableSound
  WholeUnderItsName
PROPERTIES
  EveryJobEnds
  ImplementsSidecar
CHECK_DEADLOCK FALSE
