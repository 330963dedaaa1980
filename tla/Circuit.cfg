CONSTANTS
  a1 = a1
  u1 = u1
  r1 = r1
  r2 = r2
  r3 = r3
  First = First
  Null = Null
  Users = {a1, a2, u1}
  Requests = {r1, r2, r3}
  AccountKinds = {"login", "guess", "password", "reset", "role", "delete", "create", "logout"}
  MaxFailures = 2
  MaxDeaths = 1
  Boots = {b1, b2}
  MaxAttempts = 2
  MaxExpiries = 1
  DemoKinds = {"login", "on", "off", "inherit", "rotate", "revoke"}
  Slots = {s1, s2}
  Identities = {i1, i2}
  RiskThreshold = 60
  MinSamples = 2
  MinIdentities = 2
  OpenTicks = 3
  ProbeTicks = 2
  WindowTicks = 1
  MaxLag = 1
  MaxSamples = 2
SPECIFICATION MCFairSpec
INVARIANTS
  OpenMeansManyIdentities
  AccountsSound
PROPERTIES
  ProbesSpaced
  HealthyCloses
CHECK_DEADLOCK FALSE
