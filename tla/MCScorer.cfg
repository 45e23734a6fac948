\* Two threads, two accounts: two requests of up to three transactions.
CONSTANTS
  a1 = a1
  a2 = a2
  Accounts = {a1, a2}
  NoState = NoState
  NoScore = NoScore
  None = None
  Threads = {t1, t2}
  Txns <- TwoAccounts
  MaxBatch = 3
  MaxRequests = 2
SYMMETRY ThreadSymmetry
SPECIFICATION ScorerSpec
INVARIANTS
  StoredCoherent
  SerialFoldIsExact
  NeverOvercounts
  AnsweredIsDurable
PROPERTIES
  NeverBackInTime
CHECK_DEADLOCK FALSE
