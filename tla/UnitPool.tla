------------------------------ MODULE UnitPool ------------------------------
(***************************************************************************)
(* What a resource map promises its users: a pool of numbered units, given *)
(* out in contiguous blocks and given back.  Units may get lost when a     *)
(* block comes back, never when one is given out, and a unit is never in   *)
(* two hands.                                                              *)
(***************************************************************************)
EXTENDS Integers

CONSTANTS
  Sizes,     (* the sizes of blocks that are asked for                     *)
  InitFree,  (* the units in the pool at first                             *)
  InitHeld   (* the blocks in use at first                                 *)

VARIABLES
  free,      (* the units in the pool                                      *)
  held       (* the blocks given out: [addr, size]                         *)

Units(g) == g.addr..(g.addr + g.size - 1)

Init == free = InitFree /\ held = InitHeld

Take ==
  \E n \in Sizes, a \in free :
    LET g == [addr |-> a, size |-> n] IN
    /\ Units(g) \subseteq free
    /\ \A h \in held : Units(g) \cap Units(h) = {}
    /\ free' = free \ Units(g)
    /\ held' = held \cup {g}

Give ==
  \E g \in held :
    /\ held' = held \ {g}
    /\ free' \subseteq free \cup Units(g)

Next == Take \/ Give

Spec == Init /\ [][Next]_<<free, held>>

=============================================================================
