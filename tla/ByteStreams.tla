----------------------------- MODULE ByteStreams ----------------------------
(***************************************************************************)
(* What a connection promises, seen from outside: a stream of bytes each   *)
(* way.  The bytes of a stream are 1, 2, ... in the order they are         *)
(* written; the reader gets them in that order, each once, and is told     *)
(* that it has reached the end only when it has; the writer gets rid of a  *)
(* byte only when the reader has got it.                                   *)
(***************************************************************************)
EXTENDS Integers, Sequences

CONSTANT Ends

VARIABLES
  written,   (* bytes each end has written                                  *)
  shut,      (* the ends that will write no more                            *)
  released,  (* bytes each end has got rid of                               *)
  got,       (* what each end has got                                       *)
  ended      (* the ends that have been told of the end                     *)

vars == <<written, shut, released, got, ended>>

Other(e)  == CHOOSE f \in Ends : f # e
Stream(n) == [i \in 1..n |-> i]

Init ==
  /\ written = [e \in Ends |-> 0] /\ released = [e \in Ends |-> 0]
  /\ got = [e \in Ends |-> <<>>]
  /\ shut = {} /\ ended = {}

Write(e) ==
  /\ e \notin shut
  /\ written' = [written EXCEPT ![e] = @ + 1]
  /\ UNCHANGED <<shut, released, got, ended>>

(* The user of e ends its stream, or the connection is lost.               *)
Shut(e) == shut' = shut \cup {e} /\ UNCHANGED <<written, released, got, ended>>

(* Something reaches e: more of the stream, its end, news of what the      *)
(* other end has got, or of the connection's end.                          *)
Reach(e) ==
  /\ \E n \in Len(got[e])..written[Other(e)] :
       /\ got' = [got EXCEPT ![e] = Stream(n)]
       /\ e \in ended => n = Len(got[e])
       /\ \/ ended' = ended
          \/ Other(e) \in shut /\ n = written[Other(e)] /\ ended' = ended \cup {e}
  /\ \E n \in released[e]..Len(got[Other(e)]) : released' = [released EXCEPT ![e] = n]
  /\ shut' \in {shut, shut \cup {e}}
  /\ UNCHANGED written

Next == \E e \in Ends : Write(e) \/ Shut(e) \/ Reach(e)

Spec == Init /\ [][Next]_vars

=============================================================================
