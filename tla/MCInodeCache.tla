---------------------------- MODULE MCInodeCache ----------------------------
(***************************************************************************)
(* Small instances of InodeCache.                                          *)
(***************************************************************************)
EXTENDS InodeCacheProps, TLC

CONSTANTS p1, p2, a

Symmetry == Permutations(Procs)
=============================================================================
