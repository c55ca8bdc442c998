SPECIFICATION Spec
CONSTANTS
  p1 = p1
  p2 = p2
  a = a
  Procs = {p1, p2}
  Inodes = 2
  Inos = {1, 2, 3}
  Names = {a}
  Ops = {"open", "creat", "unlink", "sync"}
  BadInos = {3}
  NONE = NONE
SYMMETRY Symmetry
INVARIANTS
  SlotsSound
  LocksSound
  Kept
PROPERTY
  StaysThatFile
CHECK_DEADLOCK FALSE
