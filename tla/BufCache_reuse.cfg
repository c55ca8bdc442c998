SPECIFICATION Spec
CONSTANTS
  p1 = p1
  p2 = p2
  b1 = b1
  b2 = b2
  b3 = b3
  d1 = d1
  Procs = {p1, p2}
  Bufs = {b1, b2}
  Devs = {d1}
  Sectors = {0, 1}
  Ops = {"bread", "blkflush", "sync", "close", "bdwrite", "bawrite", "bwrite"}
  ClSectors = 1
  InitBufsize <- EvenMemory
  InitFsize <- UnitBlocks
  MaxSize = 1
  ReadAhead <- NoReadAhead
  IOErrors = TRUE
  NODEV = NODEV
  FREELIST = FREELIST
  NONE = NONE
SYMMETRY Symmetry
INVARIANTS
  LockSound
  SoleMapping
  Coherent
  NothingDropped
PROPERTIES
  OwnedStable
  FlushReachesDisk
