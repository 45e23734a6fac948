\* Claims of the notebooks and their tables that the notebooks do not keep; by hand,
\* one at a time or with -continue.
CONSTANTS
  MaxRestarts = 4
  MasterModels <- MCMasterModels
  Accounts = {a, b}
  Amounts = {10, 12}
  Hours = 2
  Windows = {1, 2}
  TrainEnd = 2
  Folds = {1, 2}
  LastStep = 3
  MaxRows = 3
  Unit = 3
  Sums = {4, 10}
  Betas = {4, 6, 7, 8}
  Budget = 2
  OneIn = 2
  Points = 2
  MaxScored = 4
SPECIFICATION NotebooksSpec
INVARIANTS
  ResolvedPairMatches
  CalibrationReserved
  FrameIsAsAsked
  ProfileNamesItsData
  PolicyRowsHeldOut
  PlannedIsEvaluated
  EncodingIsOfTrainRows
  SelectionIsBlind
  CapacityIsKept
CHECK_DEADLOCK FALSE
