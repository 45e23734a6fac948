\* The hourly run while bronze is reloaded by two people, with two faults.
CONSTANTS
  Csvs <- TwoFiles
  Dag = Dag
  Manual = {m1, m2}
  ManualJobs = {"bronze"}
  None = None
  MaxManual = 2
  MaxFaults = 2
SPECIFICATION FairWarehouseSpec
INVARIANTS
  TablesAreWhole
  StagedIsWhole
  CheckedIsExported
PROPERTIES
  EveryRunEnds
  StagingCatchesUp
CHECK_DEADLOCK FALSE
