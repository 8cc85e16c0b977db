SPECIFICATION FairSpec
CONSTANTS
  Category <- Categories
  Folder <- Folders4
  Notebook <- Notebooks4
  MaxEdits = 2
  MaxCuts = 2
  MaxBackfills = 1
  MaxLosses = 1
CHECK_DEADLOCK FALSE
INVARIANTS
  TypeOK
  OneCopy
  Agrees
  Serviced

  
