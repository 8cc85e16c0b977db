CONSTANTS
  b1 = b1
  b2 = b2
  Book = {b1, b2}
  None = None
  Threshold = 1
  CoolBase = 1
  CoolMax = 1
  ProbeStale = 0
  Window = 0
  Grace = 1
  MaxAttempts = 1
  MaxSettle = 0
  Restarts = TRUE
  MaxActs = 0
  Outcomes = {"ok", "nothing", "waiting", "unasked", "skipped", "local", "failed", "forgiven"}
  Weather = {TRUE, FALSE}
SPECIFICATION FairSpec
PROPERTY HeldBooksReturn
