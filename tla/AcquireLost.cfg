SPECIFICATION Spec
CONSTANTS
  Copies = 3
  Reworded <- RewordedReleases
  MaxTried = 2
  MaxAttempts = 2
  MaxFaults = 1
  MaxResets = 0
CHECK_DEADLOCK FALSE
INVARIANT LostIsRequeued
