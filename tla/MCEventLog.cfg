\* Two threads of one worker, one turn of the hour, two faults.
CONSTANTS
  w1 = w1
  t1 = t1
  t2 = t2
  e1 = e1
  e2 = e2
  Workers = {w1}
  Threads = {t1, t2}
  Events = {e1, e2}
  None = None
  MaxHour = 1
  MaxAppends = 3
  MaxFaults = 2
SPECIFICATION FairEventLogSpec
INVARIANTS
  EventLogInv
  LineInItsHour
  ConsumedIsStored
PROPERTIES
  EveryLineIngested
CHECK_DEADLOCK FALSE
