\* One live request thread against Pathway, with a kill, a backfill and lost keys.
CONSTANTS
  a1 = a1
  Accounts = {a1}
  NoState = NoState
  NoScore = NoScore
  None = None
  Threads = {t1}
  Txns <- LiveTxns
  Rows <- StagedRows
  MaxBatch = 1
  MaxRequests = 1
  MaxQueue = 1
  MaxRestarts = 1
  MaxBackfills = 1
SPECIFICATION OnlineSpec
INVARIANTS
  RepairIsEffective
  MirrorIsStagedOnly
CHECK_DEADLOCK FALSE
