------------------------------ MODULE TcpProps ------------------------------
(***************************************************************************)
(* What a TCP connection promises.                                         *)
(***************************************************************************)
EXTENDS Tcp

(* Whatever is lost, repeated, overtaken or sent again, the users see two  *)
(* streams of bytes: nothing twice, nothing out of order, no end before    *)
(* its time, and no byte dropped from sb_snd that has not arrived.         *)
Streams == INSTANCE ByteStreams WITH
             written  <- [e \in Ends |-> conn[e].base + conn[e].snd],
             shut     <- { e \in Ends : "CANTSEND" \in conn[e].so },
             released <- [e \in Ends |-> conn[e].base],
             got      <- [e \in Ends |-> conn[e].got],
             ended    <- { e \in Ends : conn[e].eof }
StreamSpec == Streams!Spec

(* What one end knows of the other is not ahead of it: rcv_nxt lies        *)
(* between the sender's snd_una and snd_max.  It may be beyond them by     *)
(* what went out with a forced byte and is not counted in snd_max: a FIN,  *)
(* and in LAST_ACK, where an acknowledgement leaves the persist timer on   *)
(* and a window of -1, that is of 65535, the rest of a full segment.       *)
(* (In SYN_RECEIVED an end may have begun anew, at the copy of a SYN, when *)
(* the other is still in the connection that was given up.)                *)
Joined(c) == Synced(c) /\ c.st # "SYN_RECEIVED"
Agreed ==
  \A e \in Ends :
    LET c == conn[e]  d == conn[Peer(e)] IN
    Joined(c) /\ Joined(d) =>
      /\ Diff(d.rnxt, c.una) >= 0
      /\ Diff(d.rnxt, c.max) <= (IF d.eof THEN 1 ELSE 0)
                                  + IF c.st = "LAST_ACK" THEN maxseg - 1 ELSE 0

(* The retransmission timer runs whenever something sent is not yet        *)
(* acknowledged (tcp_timer.h), never together with the persist timer, for  *)
(* then tcp_setpersist panics; and 2MSL runs alone, in TIME_WAIT.          *)
Watched ==
  \A e \in Ends :
    LET c == conn[e] IN
    /\ Off(c) > 0 => "REXMT" \in c.timers
    /\ "REXMT" \in c.timers => Diff(c.max, c.una) > 0
    /\ \A x, y \in c.timers : x = y
    /\ c.st \in {"CLOSED", "LISTEN"} => c.timers = {}
    /\ "2MSL" \in c.timers <=> c.st = "TIME_WAIT"

(* The protocol control blocks are sound.                                  *)
BlocksSound == Agreed /\ Watched

(* Once both ends are connected, what one writes reaches the other in      *)
(* full, and its end too, although a segment be lost, repeated or          *)
(* overtaken or a timer expire early: unless the writer drops the          *)
(* connection, or the reader goes before it has read to the end.           *)
Connected == \A e \in Ends : conn[e].st = "ESTABLISHED"
Arrives ==
  \A e \in Ends :
    /\ Connected /\ plan.mode[e] # "drop" /\ plan.mode[Peer(e)] \in {"half", "serve"}
    ~> conn[Peer(e)].eof /\ plan.bytes[e] = 0

(* The protocol comes to rest, and when both ends have been connected, and *)
(* neither drops the connection, it ends: none waits for ever in close().  *)
AtRest  == \A e \in Ends : Ticking(e) = {}
Over    == \A e \in Ends : conn[e].st = "CLOSED"
Settles ==
  /\ <>[]AtRest
  /\ (Connected /\ \A e \in Ends : plan.mode[e] # "drop") ~> []Over

(* In LAST_ACK, too, a timer runs until the last of the data is sent: "if  *)
(* all previous transmissions have been acknowledged ... and the window is *)
(* shut, then we start the TCPT_PERSIST timer" (tcp_timer.h), or the data  *)
(* can be sent.  (tcp_input takes it that an acknowledgement that comes in *)
(* LAST_ACK is one of the FIN.)                                            *)
LastSent ==
  \A e \in Ends :
    LET c == conn[e] IN
    c.st = "LAST_ACK" /\ c.snd > 0 => c.timers \cap {"REXMT", "PERSIST"} # {}

=============================================================================
