CONSTANTS
  login = login
  guest = guest
  other = other
  f1 = f1
  f2 = f2
  Identities = {login, guest, other}
  Logins = {login}
  Fetchers = {f1, f2}
  Mixes <- MixesDef
  Null = Null
SPECIFICATION FairSpec
INVARIANT RightIdentity
PROPERTIES
  RefusalCools
  EveryFetchEnds
CHECK_DEADLOCK FALSE
