CONSTANTS
  a = a
  b = b
  c = c
  t1 = t1
  t2 = t2
  Book = {a, b, c}
  Thread = {t1, t2}
  Hanging = {t2}
  Phases <- Health
  Rest <- Interval
  MaxOdd = 1
SPECIFICATION FairSpec
CHECK_DEADLOCK FALSE
INVARIANTS
  TypeOK
  InFlightIsHeld
  OneHolder
PROPERTIES
  TakesTurns
