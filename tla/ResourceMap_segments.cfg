SPECIFICATION Spec
CONSTANTS
  p1 = p1
  p2 = p2
  Procs = {p1, p2}
  MapSize = 6
  InitSegs <- Registers
  InitHeld <- None
  Sizes = {1, 2, 3}
  Gets <- Windows
  Swap = FALSE
  DMMAX = 4
SYMMETRY Symmetry
INVARIANTS
  Coalesced
  NobodyWaitsInVain
PROPERTY PoolSpec
