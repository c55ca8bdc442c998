SPECIFICATION FairSpec
CONSTANTS
  a = a
  b = b
  c = c
  x = x
  y = y
  Requests = {a, b, c, x, y}
  Buffers = {a, b, c}
  b_cylin <- Cylinder
  Drives = {0, 1}
  bupbuf <- Tables
  unit <- Unit
  Fresh = {0}
  Retries = 2
  RecalAt = {2}
  OffsetAt = 1
  MaxParts = 1
  MaxLosses = 1
  NONE = NONE
INVARIANTS
  ReadySound
  EndsWhatRuns
  NeverIdle
PROPERTIES
  OrderSpec
  Drains
