CONSTANTS
  t1 = t1
  t2 = t2
  w1 = w1
  w2 = w2
  None = None
  Requests = {t1, t2, t3}
  Refreshers = {t2, t3}
  Slots = {w1, w2}
  MaxClaims = 2
  QueueSize = 1
  HistorySize = 2
  MaxTroubles = 1
  MaxCancels = 1
  Dead = Dead
  Targets = {t1}
  Unknown = {}
  Intervals = {1, 3}
  MaxBackoff = 2
  BackoffAfter = 2
  Batch = 1
  SweepEvery = 1
  MaxFails = 3
  MaxSweeps = 1
  Changes = 1
  Faults = 1
  Backups = {t1, t2}
  Restores = {w1, w2}
  Creatable <- SampleRows
  Administrator <- SampleAdmin
  Secrets = {1, 2}
  MaxSecond = 1
  MaxCrashes = 1
  MaxMoves = 1
SPECIFICATION MCFairSpec
INVARIANTS
  CollectingSound
  BackupsSound
PROPERTIES
  TranscriptsKept
  OncePerInterval
  NothingIsLeftWaiting
  RestoreAddsAll
CHECK_DEADLOCK FALSE
