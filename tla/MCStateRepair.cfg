\* Three rows of one account, a kill, a backfill beside it, keys lost at will.
CONSTANTS
  a1 = a1
  Accounts = {a1}
  NoState = NoState
  NoScore = NoScore
  Rows <- TiedRows
  MaxQueue = 2
  MaxRestarts = 1
  MaxBackfills = 1
SPECIFICATION FairRepairSpec
INVARIANTS
  RepairedIsFold
PROPERTIES
  MirrorNeverBackInTime
  EveryRowReachesMirror
CHECK_DEADLOCK FALSE
