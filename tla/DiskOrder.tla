----------------------------- MODULE DiskOrder ------------------------------
(***************************************************************************)
(* What a disk driver promises those who queue buffers: whatever order it  *)
(* prefers, requests for the same place are done one after the other in    *)
(* the order in which they came, each of them once.                        *)
(***************************************************************************)
EXTENDS Sequences, SequencesExt

CONSTANTS
  Buffers,   (* the requests                                               *)
  Places,    (* places on the drives                                       *)
  place      (* [Buffers -> Places]                                        *)

VARIABLE line   (* the requests for each place, the oldest first           *)

Init == line = [x \in Places |-> <<>>]

Strategy(bp) ==
  /\ ~ Contains(line[place[bp]], bp)
  /\ line' = [line EXCEPT ![place[bp]] = Append(@, bp)]

Iodone(x) == line[x] # <<>> /\ line' = [line EXCEPT ![x] = Tail(@)]

Next == (\E bp \in Buffers : Strategy(bp)) \/ (\E x \in Places : Iodone(x))

Spec == Init /\ [][Next]_line

=============================================================================
