\* README, section 4: claims about concurrent and late transactions.
CONSTANTS
  a1 = a1
  a2 = a2
  Accounts = {a1}
  NoState = NoState
  NoScore = NoScore
  None = None
  Threads = {t1, t2}
  Txns <- OneAccount
  MaxBatch = 1
  MaxRequests = 2
SPECIFICATION ScorerSpec
INVARIANTS
  NoLostUpdate
  ScoreIsAnchors
CHECK_DEADLOCK FALSE
