SPECIFICATION Spec
CONSTANTS
  p1 = p1
  p2 = p2
  b1 = b1
  b2 = b2
  b3 = b3
  d1 = d1
  Procs = {p1, p2}
  Bufs = {b1, b2, b3}
  Devs = {d1}
  Sectors = {0, 1, 2, 3, 4, 5}
  Ops = {"bread", "bawrite"}
  ClSectors = 1
  InitBufsize <- RaceMemory
  InitFsize <- RaceBlocks
  MaxSize = 2
  ReadAhead <- NoReadAhead
  IOErrors = FALSE
  NODEV = NODEV
  FREELIST = FREELIST
  NONE = NONE
SYMMETRY RaceSymmetry
INVARIANTS
  SoleMapping
