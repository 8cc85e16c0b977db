SPECIFICATION FairSpec
CONSTANTS
  Copies = 3
  Reworded <- RewordedReleases
  MaxTried = 2
  MaxAttempts = 2
  MaxFaults = 2
  MaxResets = 1
CHECK_DEADLOCK FALSE
INVARIANTS
  TypeOK
  OneDownload
  GivesUpForCause
PROPERTIES
  HoldsOn
  Settles
