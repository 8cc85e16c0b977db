CONSTANTS
  fiction = fiction
  Category = {fiction}
  MaxAttempts <- Budget
  MaxRescans = 1
  Weather = {"good", "lost"}
  LeavesWorkers = FALSE
  Calm = TRUE
  MaxCrash = 1
  MaxRetries = 1
  MaxMoves = 1
SPECIFICATION FairSpec
PROPERTIES
  
  LostIsParked
