CONSTANTS
  r1 = r1
  r2 = r2
  b1 = b1
  Replicas = {r1, r2}
  Presses = {b1}
  Home <- MCHome
  Platforms = {1, 2}
  Route <- MCRoute
  Proxies = {x1}
  Direct = Direct
  DirectCounts <- MCDirectCounts
  OwnMin <- MCOwnMin
  OwnTarget <- MCOwnTarget
  PoolMin = 1
  PoolTarget = 2
  BackoffInitial = 1
  BackoffMax = 2
  Ids = {1, 2, 3, 4, 5}
  MaxTroubles = 2
  MaxFaults = 2
  MaxExpiries = 1
  Null = Null
SPECIFICATION MCFairSpec
INVARIANT MintsApart
PROPERTY RefillsUnlessStuck
CHECK_DEADLOCK FALSE
