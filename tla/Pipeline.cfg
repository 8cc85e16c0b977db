CONSTANTS
  fiction = fiction
  Category = {fiction}
  MaxAttempts <- Budget
  MaxRescans = 1
  Weather = {"good", "bad"}
  LeavesWorkers = FALSE
  Calm = TRUE
  MaxCrash = 0
  MaxRetries = 0
  MaxMoves = 0
SPECIFICATION FairSpec
INVARIANTS
  TypeOK
  ProofIsCurrent
  ShelfIsCurrent
PROPERTIES
  FinishedStaysFinished
  KeepsContract
  
