CONSTANTS
  Tasks = {t1}
  Workers = {w1, w2}
  Sweepers = {s1}
  MaxAttempts = 1
  MaxFaults = 2
  Null = Null
SPECIFICATION FairSpec
INVARIANTS
  ClaimableHasRow
  NothingVanishes
  ExecutionsBounded
PROPERTY EverySubmissionSettles
