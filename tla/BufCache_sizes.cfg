SPECIFICATION Spec
CONSTANTS
  p1 = p1
  p2 = p2
  b1 = b1
  b2 = b2
  b3 = b3
  d1 = d1
  Procs = {p1}
  Bufs = {b1, b2, b3}
  Devs = {d1}
  Sectors = {0, 1, 2}
  Ops = {"bawrite", "breada", "getblk", "extend", "alloc", "bdwrite"}
  ClSectors = 2
  InitBufsize <- EvenMemory
  InitFsize <- MixedBlocks
  MaxSize = 3
  ReadAhead <- NextReadAhead
  IOErrors = FALSE
  NODEV = NODEV
  FREELIST = FREELIST
  NONE = NONE
SYMMETRY Symmetry
INVARIANTS
  MemorySound
  NoPanic
