SPECIFICATION FairSpec
CONSTANTS
  s1 = s1
  s2 = s2
  s3 = s3
  f1 = f1
  f2 = f2
  Slots = {s1, s2, s3}
  Fns = {f1, f2}
  Ticks = {0, 2}
  Most <- TwiceAndOnce
  MaxLate = 1
  NONE = NONE
  SCAN = SCAN
INVARIANTS
  WellFormed
  Accounted
  NoPanic
PROPERTIES
  TimersSpec
  Met
