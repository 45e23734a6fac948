\* Looking for runs that only overlap and yet fail.
CONSTANTS
  Csvs <- TwoFiles
  Dag = Dag
  Manual = {m1, m2}
  ManualJobs = {"bronze"}
  None = None
  MaxManual = 2
  MaxFaults = 0
SPECIFICATION WarehouseSpec
INVARIANTS
  OverlapIsHarmless
CHECK_DEADLOCK FALSE
