CONSTANTS
  e1 = e1
  e2 = e2
  Slots = {s1, s2}
  Identities = {i1}
  Endpoints <- TwoEndpoints
  LeaseIds = {l1, l2, l3}
  Cost = 1
  Capacity <- MCCapacity
  Refill <- MCRefill
  InflightTTL = 1
  BucketTTL = 3
  MaxLag = 1
  MaxClock = 3
SPECIFICATION Spec
SYMMETRY Symmetry
INVARIANTS
  OneRequestPerIdentity
  LockHasHolder
  BudgetAccounting
