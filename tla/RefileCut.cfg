SPECIFICATION Spec
CONSTANTS
  Category <- Categories
  Folder <- Folders4
  Notebook <- Notebooks4
  MaxEdits = 1
  MaxCuts = 1
  MaxBackfills = 0
  MaxLosses = 0
CHECK_DEADLOCK FALSE
INVARIANTS
  ResumesServices
