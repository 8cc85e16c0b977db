CONSTANTS
  b1 = b1
  b2 = b2
  Book = {b1, b2}
  None = None
  Threshold = 2
  CoolBase = 2
  CoolMax = 3
  ProbeStale = 1
  Window = 0
  Grace = 1
  MaxAttempts = 1
  MaxSettle = 0
  Restarts = FALSE
  MaxActs = 1
  Outcomes = {"ok", "unreached", "local", "unnamed", "failed", "forgiven"}
  Weather = {FALSE}
SPECIFICATION Spec
SYMMETRY Symmetry
INVARIANTS
  TypeOK
  ProbeExclusive
  VerdictIsTheClaimants
  FailedProbeIsRecorded
  FailureUnderHoldIsOld
PROPERTIES
  HoldEndsOnAVerdict
  KeepsPromise
  NoFailureSurvivesTheTrip
