SPECIFICATION FairSpec
CONSTANTS
  MaxAttempts = 2
  MaxFaults = 2
  MaxCrash = 1
  MaxHands = 1
  MaxToggles = 1
CHECK_DEADLOCK FALSE
INVARIANTS
  TypeOK
  RecordIsTrue
  NeverDropped
PROPERTIES
  PutRight
