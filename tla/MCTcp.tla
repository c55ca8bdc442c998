------------------------------- MODULE MCTcp --------------------------------
(***************************************************************************)
(* Small instances of Tcp.                                                 *)
(***************************************************************************)
EXTENDS TcpProps

CONSTANTS a, p

(* Initial numbers near the end of the sequence space, of 64: numbers wrap *)
(* among the bytes that are sent, or between them and the FIN.             *)
NearEnd == (a :> 61) @@ (p :> 62)

P(m, n, x, y, f) ==
  [mode |-> (a :> m) @@ (p :> n), bytes |-> (a :> x) @@ (p :> y), faults |-> f]

(* The users' plans: bytes to write each way, how each closes, faults.     *)
Streaming ==
  { P("linger", "serve", 3, 0, 1), P("half", "serve", 0, 1, 1),
    P("half", "half", 0, 0, 1), P("half", "half", 1, 1, 0),
    P("serve", "linger", 0, 1, 1), P("linger", "linger", 3, 0, 0),
    P("linger", "drop", 1, 0, 1), P("drop", "drop", 0, 0, 4) }

(* One end has shut down and reads on; the other writes more than the      *)
(* window admits, and closes.  Nothing goes wrong.                         *)
Trailing == { P("half", "linger", 0, 4, 0) }
=============================================================================
