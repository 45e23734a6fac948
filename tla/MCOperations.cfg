\* All schedules over one person's reload of bronze, with one fault.
CONSTANTS
  Csvs <- TwoFiles
  Dag = Dag
  Manual = {m1}
  ManualJobs = {"bronze"}
  None = None
  MaxManual = 2
  MaxFaults = 1
SPECIFICATION OperationsSpec
INVARIANTS
  AlarmsAreTrue
  StatsAreOfOneFile
CHECK_DEADLOCK FALSE
