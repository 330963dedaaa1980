CONSTANTS
  Backups = {b1}
  Restores = {r1}
  Rows <- MCRows
  Admin <- MCAdmin
  Secrets = {1, 2}
  MaxSecond = 0
  MaxFaults = 0
  MaxMoves = 1
  None = None
SPECIFICATION Spec
INVARIANT EveryRestoreLoads
CHECK_DEADLOCK FALSE
