CONSTANTS
  r1 = r1
  r2 = r2
  e1 = e1
  Requests = {r1, r2}
  Endpoint <- OneEndpoint
  Protected = {r1}
  Ttl = 1
  ProbeTicks = 1
  Policies <- PoliciesDef
  Warms = {TRUE}
  MaxFaults = 1
  MaxChanges = 1
  Null = Null
SPECIFICATION Spec
INVARIANT OffMeansOff
CHECK_DEADLOCK FALSE
