CONSTANTS
  Callers = {c1, c2, c3}
  QueueMax = 2
  MaxExpiries = 1
  MaxFaults = 1
  Null = Null
  Waiters = {w1, w2}
  Patience = 4
  BlockTicks = 2
  SignalTTL = 3
  Processes = {p1}
  Admins = {a1, a2}
  Records = {"channels"}
  Scalars = {}
  Values = {1}
  MaxWrites = 2
  SettingFaults = 1
  Raisers = {c1, c2}
  Operators = {}
  Channels = {h1}
  Window = 3
  MaxAttempts = 2
  MaxLate = 1
  AlertFaults = 1
  c1 = c1
  o1 = o1
  h1 = h1
  Clients = {r1, r2, r3}
  Jar <- ThreeJars
  Capacity = 1
  OpenTicks = 1
  PageFaults = 1
  Requests = {r1, r2}
  Endpoint <- TwoEndpoints
  Protected = {r1}
  Ttl = 2
  ProbeTicks = 1
  Policies <- AnyPolicy
  Warms = {TRUE, FALSE}
  SignerFaults = 1
  MaxChanges = 1
  r1 = r1
  r2 = r2
  r3 = r3
SPECIFICATION MCFairSpec
INVARIANTS
  ClaimsSound
  WakeUpsSound
  SigningSound
  SettingsSound
  OpenForAReason
PROPERTIES
  ClaimBeforeWork
  NoStorm
  EveryCallerIsAnswered
  OperationRecovers
CHECK_DEADLOCK FALSE
