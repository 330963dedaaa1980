CONSTANTS
  Identities = {i1}
  Others = 1
  Sessions = {s1, s2}
  BehindProxy = {i1}
  CooldownBase = 2
  CooldownMax = 3
  ProxyTicks = 1
  MaxFailStreak = 1
  RetireStreak = 2
  MaxFails = 2
  a1 = a1
  a2 = a2
  r1 = r1
  r2 = r2
  First = First
  Null = Null
SPECIFICATION MCFairSpec
INVARIANT RetiredHasNoJar
PROPERTY NothingIsStuck
CHECK_DEADLOCK FALSE
