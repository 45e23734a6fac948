\* One file, loaded once, nothing fails: what the first scored event does.
CONSTANTS
  Csvs <- TwoFiles
  Dag = Dag
  Manual = {m1}
  ManualJobs = {"bronze"}
  None = None
  MaxManual = 1
  MaxFaults = 0
SPECIFICATION OperationsSpec
PROPERTIES
  StagingCatchesUp
CHECK_DEADLOCK FALSE
