\* A session that scores, promotes and labels while others do.
CONSTANTS
  v1 = v1
  v2 = v2
  ps1 = ps1
  Versions = {v1, v2}
  Compatible = {v1, v2}
  CsvIds = {ps1}
  Down = Down
  None = None
  MaxClicks = 2
  MaxOthers = 1
  MaxRows = 2
SPECIFICATION ConsoleSpec
INVARIANTS
  FormIdsUnique
PROPERTIES
  OnlyChosenOrRaced
  PromotionAcknowledged
CHECK_DEADLOCK FALSE
