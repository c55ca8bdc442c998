SPECIFICATION Spec
CONSTANTS
  p1 = p1
  p2 = p2
  Procs = {p1}
  MapSize = 5
  InitSegs <- HalfPiece
  InitHeld <- Pieces
  Sizes = {1, 2, 3, 4}
  Gets <- None
  Swap = TRUE
  DMMAX = 4
INVARIANTS
  Disjoint
  Conserved
  SwapUncut
  NoPanic
  WithinMap
