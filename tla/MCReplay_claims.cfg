\* README, section 4: claims about a replay beside the batch features.
CONSTANTS
  a1 = a1
  a2 = a2
  Accounts = {a1, a2}
  NoState = NoState
  NoScore = NoScore
  None = None
  Threads = {t1, t2}
  Txns <- FileEvents
  MaxBatch = 0
  MaxRequests = 0
  HourUs = 4
  Files <- OneFile
  BatchSize = 2
  Limits = {2, 4}
  MaxRuns = 1
SYMMETRY ThreadSymmetry
SPECIFICATION ReplaySpec
INVARIANTS
  ServedEqualsGold
  SameTimestamps
CHECK_DEADLOCK FALSE
