\* A promotion that is rolled back, over a restart that is not confirmed and its
\* retry; a signal at any time, children that drain, calls that fail but not for
\* ever.
CONSTANTS
  v1 = v1
  v2 = v2
  v3 = v3
  Versions = {v1, v2}
  Compatible = {v1, v2}
  NoVersion = NoVersion
  Torn = Torn
  MaxMoves = 3
  MaxSpawns = 4
  MaxCrashes = 0
  MaxSlow = 1
SPECIFICATION DrainingSupervisorSpec
PROPERTIES
  ShutdownCompletes
  EventuallyServesChampion
CHECK_DEADLOCK FALSE
