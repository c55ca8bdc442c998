---------------------------- MODULE MCBufCache ------------------------------
(***************************************************************************)
(* Instances of BufCache for TLC.                                          *)
(***************************************************************************)
EXTENDS BufCacheProps, TLC

CONSTANTS b1, b2, b3, p1, p2, d1

(* Processes are alike; so are headers with as much memory.                *)
Symmetry     == Permutations(Procs) \cup Permutations(Bufs)
RaceSymmetry == Permutations(Procs) \cup Permutations({b2, b3})

(* Memory of the headers: bufpages clusters spread over nbuf headers, as   *)
(* binit does it, with none left over or one.                              *)
EvenMemory == [bp \in Bufs |-> ClSectors]
RaceMemory == [bp \in Bufs |-> IF bp = b1 THEN 2 * ClSectors ELSE ClSectors]

(* Every sector is a block of its own; a block of two sectors and then one *)
(* of one; two blocks of two sectors and then two of one.                  *)
UnitBlocks  == [s \in AllSectors |-> 1]
MixedBlocks == [s \in AllSectors |-> IF s[2] = 0 THEN 2
                                     ELSE IF s[2] = 2 THEN 1 ELSE 0]
RaceBlocks  == [s \in AllSectors |-> IF s[2] \in {0, 2} THEN 2
                                     ELSE IF s[2] \in {4, 5} THEN 1 ELSE 0]

(* Reading ahead: never; the block two sectors further on.                 *)
NoReadAhead   == [s \in AllSectors |-> NONE]
NextReadAhead == [s \in AllSectors |->
                    IF s[2] + 2 \in Sectors THEN s[2] + 2 ELSE NONE]

=============================================================================
