--------------------------- MODULE MCResourceMap ----------------------------
(***************************************************************************)
(* Small instances of ResourceMap.                                         *)
(***************************************************************************)
EXTENDS ResourceMapProps, TLC

CONSTANTS p1, p2

Symmetry == Permutations(Procs)

None     == {}
Nowhere  == <<>>

(* swapmap on one disk of 11 blocks in pieces of 4 (swfree): the first     *)
(* half piece is for argmap; the later pieces are freed one by one.        *)
HalfPiece == <<Seg(2, 2)>>
Pieces    == {Seg(4, 4), Seg(8, 3)}

(* The UNIBUS memory of an interface: two registers each, anywhere.        *)
Windows  == { Seg(a, 2) : a \in 1..6 }
Registers == <<Seg(1, 7)>>
=============================================================================
