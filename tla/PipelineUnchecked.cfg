CONSTANTS
  fiction = fiction
  Category = {fiction}
  MaxAttempts <- Two
  MaxRescans = 1
  Weather = {"good", "lost", "bad"}
  LeavesWorkers = FALSE
  Calm = TRUE
  MaxCrash = 0
  MaxRetries = 0
  MaxMoves = 0
SPECIFICATION Spec
PROPERTIES
  NeverShelvedUnproved
