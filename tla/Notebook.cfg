SPECIFICATION FairSpec
CONSTANTS
  PageSize = 2
  MaxPages = 2
  MaxAttempts = 2
  LastId = 4
  Litter = 2
  MaxFaults = 1
  MaxDrops = 1
  MaxResets = 1
  MaxRepairs = 1
CHECK_DEADLOCK FALSE
INVARIANTS
  TypeOK
  RecordIsTrue
PROPERTIES
  AddedOnce
  SparesTheUsed
  Settles
