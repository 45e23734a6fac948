\* Two promotions among three versions, one incompatible; failing calls, a
\* crash, a slow boot and a signal.
CONSTANTS
  v1 = v1
  v2 = v2
  v3 = v3
  Versions = {v1, v2, v3}
  Compatible = {v1, v2}
  NoVersion = NoVersion
  Torn = Torn
  MaxMoves = 2
  MaxSpawns = 3
  MaxCrashes = 1
  MaxSlow = 1
SPECIFICATION SupervisorSpec
INVARIANTS
  ActiveRefIsVerified
  BootIsPinned
  NoOrphan
  OneServer
  NoFalseExit
PROPERTIES
  ImplementsRollout
CHECK_DEADLOCK FALSE
