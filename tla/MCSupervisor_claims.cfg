\* README, section 4: claims of the supervisor and the model contract, one at a time
\* or with -continue.
CONSTANTS
  v1 = v1
  v2 = v2
  v3 = v3
  Versions = {v1, v2}
  Compatible = {v1, v2}
  NoVersion = NoVersion
  Torn = Torn
  MaxMoves = 3
  MaxSpawns = 4
  MaxCrashes = 0
  MaxSlow = 1
SPECIFICATION FairSupervisorSpec
INVARIANTS
  LabelIsLoaded
  FallbackIsUsable
  SkipOnlyWhenServed
  AuditMeansObserved
PROPERTIES
  DrainEscalates
CHECK_DEADLOCK FALSE
