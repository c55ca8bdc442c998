SPECIFICATION Spec
CONSTANTS
  a = a
  p = p
  Active = a
  Passive = p
  M = 64
  iss <- NearEnd
  ISSINCR = 2
  hiwat = 2
  maxseg = 1
  MAXRXTSHIFT = 2
  Plans <- Trailing
INVARIANT LastSent
CHECK_DEADLOCK FALSE
