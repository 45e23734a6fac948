\* Every notebook with up to four kernel restarts; the shared algorithms on
\* three transactions and four scored rows.
CONSTANTS
  MaxRestarts = 4
  MasterModels <- MCMasterModels
  Accounts = {a, b}
  Amounts = {10, 12}
  Hours = 2
  Windows = {1, 2}
  TrainEnd = 2
  Folds = {1, 2}
  LastStep = 3
  MaxRows = 3
  Unit = 3
  Sums = {4, 10}
  Betas = {4, 6, 7, 8}
  Budget = 2
  OneIn = 2
  Points = 2
  MaxScored = 4
SPECIFICATION NotebooksSpec
INVARIANTS
  DecisionsBlind
  ArtifactsMatch
  BetaMonotone
  EvIsExpectedNbv
  RulesAreSound
PROPERTIES
  FeaturesSettle
CHECK_DEADLOCK FALSE
