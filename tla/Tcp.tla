--------------------------------- MODULE Tcp --------------------------------
(***************************************************************************)
(* A TCP connection: netinet/tcp_input.c, tcp_output.c, tcp_timer.c,       *)
(* tcp_usrreq.c and the part of tcp_subr.c they use, with the calls of     *)
(* sys/uipc_socket.c that lead there, on two machines that run this code,  *)
(* over a network that loses, repeats and reorders segments.               *)
(*                                                                         *)
(* All of TCP runs at splnet: a step is a segment that comes in, a timer   *)
(* that expires, or a call of the user's, with all the output it causes.   *)
(* Data is known by its place in the stream: a segment carries the bytes   *)
(* from+1 .. from+len of what its sender's user has written.               *)
(***************************************************************************)
EXTENDS Integers, FiniteSets, SequencesExt

CONSTANTS
  Active, Passive,  (* the ends: one connects, the other listens            *)
  M,                (* 2^32 in the code: sequence numbers wrap there        *)
  iss,              (* first initial sequence number of each end            *)
  ISSINCR,          (* from one of them to the next                         *)
  hiwat,            (* sb_hiwat of the socket buffers                       *)
  maxseg,           (* t_maxseg                                             *)
  MAXRXTSHIFT,      (* retransmissions before giving up                     *)
  Plans             (* bounds, and what the users do: see Plan              *)

Ends    == {Active, Passive}
Peer(e) == IF e = Active THEN Passive ELSE Active

(* What a user does: it writes its bytes, one at a time, reads whatever    *)
(* comes, and closes: when everything is written, letting it drain (SO_    *)
(* LINGER) or not; or when it has read to the end, having shut down its    *)
(* own side before, or not.                                                *)
Modes == {"linger", "drop", "half", "serve"}

(* bytes: still to be written.  faults: how often a segment is lost,       *)
(* repeated or overtaken, or a timer expires with segments on their way.   *)
Plan == [bytes : [Ends -> Nat], mode : [Ends -> Modes], faults : Nat]

ASSUME TcpAssumption ==
  /\ Active # Passive
  /\ M \in Nat \ {0} /\ iss \in [Ends -> 0..M-1] /\ ISSINCR \in Nat
  /\ {hiwat, maxseg, MAXRXTSHIFT} \subseteq Nat \ {0}
  /\ Plans \subseteq Plan

VARIABLES
  conn,    (* protocol control block and socket of each end                 *)
  net,     (* segments on their way to each end                             *)
  plan     (* what is left of the plan                                      *)

vars == <<conn, net, plan>>

-----------------------------------------------------------------------------
(* Sequence numbers (tcp_seq.h).                                           *)
Sq(n)       == n % M
Diff(a, b)  == IF 2 * Sq(a - b) >= M THEN Sq(a - b) - M ELSE Sq(a - b)
Later(a, b) == IF Diff(a, b) > 0 THEN a ELSE b
Less(a, b)  == IF a < b THEN a ELSE b

(* A tcpcb and its socket.  snd, rcv: sb_cc of the buffers; base: bytes    *)
(* that have left the send buffer; got: the bytes presented to the user.   *)
Blank(n) == [st |-> "CLOSED", iss |-> n, una |-> 0, nxt |-> 0, max |-> 0,
             wnd |-> 0, wl1 |-> 0, wl2 |-> 0, rnxt |-> 0, adv |-> 0,
             reass |-> {}, flags |-> {}, timers |-> {}, shift |-> 0, snd |-> 0,
             base |-> 0, rcv |-> 0, got |-> <<>>, eof |-> FALSE, so |-> {}]

Synced(c) == c.st \notin {"CLOSED", "LISTEN", "SYN_SENT"}
Space(c)  == hiwat - c.rcv

(* soisconnected, soisdisconnecting, soisdisconnected.                     *)
Isconnected(c)     == [c EXCEPT !.so = (@ \ {"CONNECTING"}) \cup {"CONNECTED"}]
Isdisconnecting(c) == [c EXCEPT !.so = @ \cup {"DISCONNECTING", "CANTSEND", "CANTRCV"}]
Isdisconnected(c)  ==
  [c EXCEPT !.so = (@ \ {"CONNECTING", "CONNECTED", "DISCONNECTING"})
                     \cup {"CANTSEND", "CANTRCV"}]

(* tcp_close.  A connection that nobody has accepted leaves a listener.    *)
Closed(c) ==
  IF c.so = {} THEN [Blank(Sq(c.iss + ISSINCR)) EXCEPT !.st = "LISTEN"]
  ELSE Isdisconnected([Blank(c.iss) EXCEPT !.snd = c.snd, !.base = c.base,
                         !.rcv = c.rcv, !.got = c.got, !.eof = c.eof, !.so = c.so])

-----------------------------------------------------------------------------
(* tcp_output.  A result is the new c, the segments that go out, and       *)
(* whether there is more to be sent.                                       *)
Res(c, out)   == [c |-> c, out |-> out, more |-> FALSE]
Off(c)        == Diff(c.nxt, c.una)
Wanted(c, f)  == Less(c.snd, c.wnd + f) - Off(c)

(* tcp_outflags; FIN only with the last of the data.  (The numbers are     *)
(* compared as they are, not modulo M.)                                    *)
Finishes(c, len) == Sq(c.nxt + len) >= Sq(c.una + c.snd)
(* (Variant: FIN with any data.)                                           *)
OutflagsEager(c, len) ==
  CASE c.st = "CLOSED"       -> {"RST", "ACK"}
    [] c.st = "SYN_SENT"     -> {"SYN"}
    [] c.st = "SYN_RECEIVED" -> {"SYN", "ACK"}
    [] c.st \in {"FIN_WAIT_1", "CLOSING", "LAST_ACK"} -> {"FIN", "ACK"}
    [] OTHER                 -> {"ACK"}
Outflags(c, len) ==
  CASE c.st = "CLOSED"       -> {"RST", "ACK"}
    [] c.st = "SYN_SENT"     -> {"SYN"}
    [] c.st = "SYN_RECEIVED" -> {"SYN", "ACK"}
    [] c.st \in {"FIN_WAIT_1", "CLOSING", "LAST_ACK"} /\ Finishes(c, len)
                             -> {"FIN", "ACK"}
    [] OTHER                 -> {"ACK"}

(* A window update worth a segment, and the window a segment announces.    *)
Opened(c) == Space(c) > 0 /\ 100 * (Space(c) - Diff(c.adv, c.rnxt)) >= 35 * hiwat
Win(c)    == IF Space(c) < hiwat \div 4 THEN 0 ELSE Space(c)

(* Is a segment of len bytes worth sending?                                *)
Worth(c, len, f) ==
  \/ Outflags(c, len) \cap {"SYN", "RST", "FIN"} # {}
  \/ len > 0 /\ \/ len = maxseg \/ Off(c) + len >= c.snd
                \/ len * 4 >= c.wnd \/ f = 1
  \/ "ACKNOW" \in c.flags
  \/ Opened(c)

Segment(c, len) ==
  [flags |-> Outflags(c, len), seq |-> c.nxt, ack |-> c.rnxt,
   len |-> len, from |-> c.base + Off(c), win |-> Win(c)]

(* Sequence numbers and timers after a segment; a forced one only counts   *)
(* as sent.                                                                *)
Advanced(c, len) ==
  LET n == Sq(c.nxt + len + IF Outflags(c, len) \cap {"SYN", "FIN"} = {} THEN 0 ELSE 1)
      starts == "REXMT" \notin c.timers /\ n # c.una
  IN  [c EXCEPT !.nxt = n, !.max = Later(n, @),
                !.timers = (@ \ {"PERSIST"}) \cup {x \in {"REXMT"} : starts},
                !.shift = IF starts THEN 0 ELSE @]
(* (Variant: a forced byte does not count as sent.)                        *)
ForcedUncounted(c) == c
Forced(c)  == [c EXCEPT !.max = Later(Sq(c.una + 1), @)]
Announced(c) ==
  [c EXCEPT !.adv = IF Win(c) > 0 THEN Later(Sq(c.rnxt + Win(c)), @) ELSE @,
            !.flags = @ \ {"ACKNOW", "DELACK"}]

(* With nothing worth sending: the polling of a closed window begins.      *)
(* (Variant: it does not begin.)                                           *)
PollingNever(c) == c
Polling(c) ==
  IF c.wnd = 0 /\ c.snd > 0 /\ c.timers \cap {"REXMT", "PERSIST"} = {}
    THEN [c EXCEPT !.timers = @ \cup {"PERSIST"}] ELSE c

OutputOne(c, f) ==
  LET len == Less(Wanted(c, f), maxseg) IN
  IF len < 0 THEN Res(c, <<>>)
  ELSE IF ~Worth(c, len, f) THEN Res(Polling(c), <<>>)
  ELSE [c    |-> Announced(IF f = 1 THEN Forced(c) ELSE Advanced(c, len)),
        out  |-> <<Segment(c, len)>>,
        more |-> len < Wanted(c, f) /\ f = 0]

OutputForced(c, f) ==
  LET again[n \in 0..(hiwat \div maxseg)] ==
        IF n = 0 THEN OutputOne(c, f)
        ELSE IF ~again[n - 1].more THEN again[n - 1]
        ELSE LET r == OutputOne(again[n - 1].c, f)
             IN  [r EXCEPT !.out = again[n - 1].out \o @]
  IN  again[hiwat \div maxseg]
Output(c) == OutputForced(c, 0)

(* tcp_drop.                                                               *)
Drop(c) ==
  Res(Closed(c), IF Synced(c) THEN Output([c EXCEPT !.st = "CLOSED"]).out ELSE <<>>)

(* tcp_respond: an acknowledgement (dropafterack); a reset for whoever has *)
(* sent s (dropwithreset).                                                 *)
Respond(c) ==
  <<[flags |-> {"ACK"}, seq |-> c.nxt, ack |-> c.rnxt,
     len |-> 0, from |-> 0, win |-> Space(c)]>>
Reset(s) ==
  LET acks == "ACK" \in s.flags IN
  IF "RST" \in s.flags THEN <<>>
  ELSE <<[len |-> 0, from |-> 0, win |-> 0,
          flags |-> IF acks THEN {"RST"} ELSE {"RST", "ACK"},
          seq   |-> IF acks THEN s.ack ELSE 0,
          ack   |-> IF acks THEN 0
                    ELSE Sq(s.seq + s.len + IF "SYN" \in s.flags THEN 1 ELSE 0)]>>

-----------------------------------------------------------------------------
(* What the window admits of a segment.  "CUT" marks one that has lost the *)
(* end of its data, and the FIN with it.                                   *)
EndOf(s)     == Sq(s.seq + s.len)
Behead(s, n) == [s EXCEPT !.seq = Sq(@ + n), !.len = @ - n, !.from = @ + n]
Curtail(s, n) == [s EXCEPT !.len = @ - n, !.flags = @ \cup {"CUT"}]

(* A SYN that comes before rcv_nxt is an old one.                          *)
Old(c, s)     == Diff(c.rnxt, s.seq)
Unsyn(c, s)   ==
  IF Space(c) > 0 /\ Old(c, s) > 0 /\ "SYN" \in s.flags
    THEN [s EXCEPT !.flags = @ \ {"SYN"}, !.seq = Sq(@ + 1)] ELSE s
Headless(c, s) == LET f == Unsyn(c, s)
                  IN  IF Old(c, s) > 0 THEN Behead(f, Old(c, f)) ELSE f
Excess(c, s)  == Diff(EndOf(s), c.rnxt + Space(c))

AllOld(c, s) ==
  LET f == Unsyn(c, s) IN
  Old(c, s) > 0 /\ (Old(c, f) > f.len \/ (Old(c, f) = f.len /\ "FIN" \notin f.flags))
AllBeyond(c, s) == LET n == Excess(c, Headless(c, s))
                   IN  n > 0 /\ n >= Headless(c, s).len

Unacceptable(c, s) == IF Space(c) = 0 THEN s.seq # c.rnxt
                      ELSE AllOld(c, s) \/ AllBeyond(c, s)
Trimmed(c, s) ==
  IF Space(c) = 0 THEN (IF s.len > 0 THEN Curtail(s, s.len) ELSE s)
  ELSE LET h == Headless(c, s)
       IN  IF Excess(c, h) > 0 THEN Curtail(h, Excess(c, h)) ELSE h

-----------------------------------------------------------------------------
(* tcp_reass.  The segments of the queue do not overlap: a new one yields  *)
(* to the one before it, those behind it yield to the new one.             *)
Insert(Q, s) ==
  LET before == {q \in Q : Diff(q.seq, s.seq) <= 0}
      n      == LET O == {Diff(EndOf(q), s.seq) : q \in before} \cup {0}
                IN  CHOOSE i \in O : \A j \in O : j <= i
      t      == Behead(s, n)
      over(q) == Diff(EndOf(t), q.seq)
  IN  IF n > 0 /\ n >= s.len THEN Q
      ELSE {t} \cup before \cup {q \in Q \ before : over(q) <= 0}
             \cup {Behead(q, over(q)) : q \in {r \in Q \ before : 0 < over(r) /\ over(r) < r.len}}

(* One segment whose time has come goes to the user; a result is the new   *)
(* c and whether the last segment presented had a FIN.                     *)
Take(c, q) ==
  [c EXCEPT !.rnxt = EndOf(q), !.reass = @ \ {q},
            !.got  = @ \o [i \in 1..q.len |-> q.from + i],
            !.rcv  = IF "CANTRCV" \in c.so THEN @ ELSE @ + q.len]
Present(c) ==
  LET taken[n \in 0..Cardinality(c.reass)] ==
        IF n = 0 THEN [c |-> c, fin |-> FALSE]
        ELSE LET d    == taken[n - 1].c
                 next == {q \in d.reass : q.seq = d.rnxt}
             IN  IF next = {} THEN taken[n - 1]
                 ELSE LET q == CHOOSE r \in next : TRUE
                      IN  [c |-> Take(d, q), fin |-> q.fin]
  IN  taken[Cardinality(c.reass)]

Queued(s) == [seq |-> s.seq, len |-> s.len, from |-> s.from,
              fin |-> "FIN" \in s.flags /\ "CUT" \notin s.flags]

(* The text of a segment, and the FIN that may have been reached with it.  *)
Timewait(c) == [Isdisconnected(c) EXCEPT !.st = "TIME_WAIT", !.timers = {"2MSL"}]
Finned(c) ==
  LET d == [c EXCEPT !.so = @ \cup {"CANTRCV"}, !.flags = @ \cup {"ACKNOW"},
                     !.rnxt = Sq(@ + 1), !.eof = TRUE]
  IN  CASE c.st = "ESTABLISHED" -> [d EXCEPT !.st = "CLOSE_WAIT"]
        [] c.st = "FIN_WAIT_1"  -> [d EXCEPT !.st = "CLOSING"]
        [] c.st = "FIN_WAIT_2"  -> Timewait(d)
        [] OTHER                -> d
Text(c, s) ==
  IF (s.len = 0 /\ "FIN" \notin s.flags) \/ c.st = "TIME_WAIT" THEN c
  ELSE LET r == Present([c EXCEPT !.reass = Insert(@, Queued(s)),
                                  !.flags = @ \cup {"DELACK"}])
       IN  IF r.fin THEN Finned(r.c) ELSE r.c

(* Window information.                                                     *)
Newer(c, s) ==
  \/ Diff(c.wl1, s.seq) < 0
  \/ c.wl1 = s.seq /\ (Diff(c.wl2, s.ack) < 0 \/ (c.wl2 = s.ack /\ s.win > c.wnd))
Window(c, s) ==
  IF Newer(c, s)
    THEN [c EXCEPT !.wnd = s.win, !.wl1 = s.seq, !.wl2 = s.ack,
                   !.timers = IF s.win > 0 THEN @ \ {"PERSIST"} ELSE @]
    ELSE c

(* An acknowledgement of something new (snd_wnd is a u_short).  The FIN is *)
(* acknowledged when more than the buffer held is.                         *)
Acks(c, s)      == Diff(s.ack, c.una)
FinAcked(c, s)  == Acks(c, s) > c.snd
Acked(c, s) ==
  LET n == Less(Acks(c, s), c.snd)
      d == [c EXCEPT !.una = s.ack, !.nxt = Later(s.ack, @),
                     !.snd = @ - n, !.base = @ + n,
                     !.wnd = IF FinAcked(c, s) THEN @ ELSE (@ - n) % 65536,
                     !.timers = IF s.ack = c.max THEN @ \ {"REXMT"} ELSE @ \cup {"REXMT"},
                     !.shift = IF s.ack = c.max THEN @ ELSE 0]
  IN  IF ~FinAcked(c, s) THEN d
      ELSE CASE c.st = "FIN_WAIT_1" -> [(IF "CANTRCV" \in d.so THEN Isdisconnected(d) ELSE d)
                                          EXCEPT !.st = "FIN_WAIT_2"]
             [] c.st = "CLOSING"    -> Timewait(d)
             [] c.st = "LAST_ACK"   -> Closed(d)
             [] OTHER               -> d

(* An acknowledgement of our SYN makes the connection.                     *)
Made(c, s) == [Isconnected(c) EXCEPT !.st = "ESTABLISHED", !.una = Sq(@ + 1),
                 !.nxt = Later(Sq(c.una + 1), @), !.timers = @ \ {"REXMT"},
                 !.wl1 = Sq(s.seq - 1)]

Step6(c, s) == Output(Text(Window(c, s), s))

-----------------------------------------------------------------------------
(* tcp_input, one action for each of its ends.  Segments arrive in the     *)
(* order they were sent, but for the plan's faults: one may overtake those *)
(* before it, and one may be kept and come again.                          *)
Spend(n) == plan.faults >= n /\ plan' = [plan EXCEPT !.faults = @ - n]
Becomes(e, r, q) ==
  /\ conn' = [conn EXCEPT ![e] = r.c]
  /\ net' = [net EXCEPT ![e] = q, ![Peer(e)] = @ \o r.out]
(* q: the segments left on their way to e.                                 *)
Ignore(e, q)     == Becomes(e, Res(conn[e], <<>>), q)
Dropwithreset(e, s, q, c) == Becomes(e, Res(c, Reset(s)), q)

(* No pcb, or one without a connection.                                    *)
InputClosed(e, s, q) == conn[e].st = "CLOSED" /\ Dropwithreset(e, s, q, conn[e])

InputListen(e, s, q) ==
  LET c == conn[e] IN
  /\ c.st = "LISTEN"
  /\ CASE "RST" \in s.flags -> Ignore(e, q)
       [] "ACK" \in s.flags /\ "RST" \notin s.flags -> Dropwithreset(e, s, q, c)
       [] s.flags = {"SYN"} ->
            Becomes(e, Step6([c EXCEPT !.st = "SYN_RECEIVED", !.una = c.iss,
                                    !.nxt = c.iss, !.max = c.iss,
                                    !.rnxt = Sq(s.seq + 1), !.wl1 = s.seq],
                              [s EXCEPT !.seq = Sq(@ + 1)]), q)

(* Only a listener answers here, so a SYN comes with an acknowledgement    *)
(* (of our SYN).                                                           *)
InputSynSent(e, s, q) ==
  LET c    == conn[e]
      acks == "ACK" \in s.flags
  IN
  /\ c.st = "SYN_SENT"
  /\ IF acks /\ (Diff(s.ack, c.iss) < 0 \/ Diff(s.ack, c.max) > 0)
       THEN Dropwithreset(e, s, q, c)
     ELSE IF "RST" \in s.flags THEN IF acks THEN Becomes(e, Drop(c), q) ELSE Ignore(e, q)
     ELSE IF "SYN" \notin s.flags THEN Ignore(e, q)
     ELSE Becomes(e, Step6([Isconnected(c) EXCEPT !.st = "ESTABLISHED",
                                  !.una = s.ack, !.nxt = Later(s.ack, @),
                                  !.timers = @ \ {"REXMT"}, !.flags = @ \cup {"ACKNOW"},
                                  !.rnxt = Sq(s.seq + 1), !.wl1 = s.seq],
                            [s EXCEPT !.seq = Sq(@ + 1)]), q)

(* dropafterack: nothing of the segment can be used.                       *)
Silent(s, t) == "RST" \in t.flags \/ (s.len = 0 /\ t.flags \cap {"SYN", "FIN"} = {})
Dropafterack(e, s, q, t) ==
  Becomes(e, Res(conn[e], IF Silent(s, t) THEN <<>> ELSE Respond(conn[e])), q)
InputUnacceptable(e, s, q) ==
  LET c == conn[e] IN
  /\ Synced(c) /\ Unacceptable(c, s)
  /\ Dropafterack(e, s, q, Unsyn(c, s))

(* Data for a user who is gone.                                            *)
Closing  == {"FIN_WAIT_1", "CLOSING", "LAST_ACK", "FIN_WAIT_2", "TIME_WAIT"}
Orphan(c, t) == "NOFDREF" \in c.so /\ c.st \in Closing /\ t.len > 0
Admitted(e, s) == Synced(conn[e]) /\ ~Unacceptable(conn[e], s)
InputOrphan(e, s, q) ==
  /\ Admitted(e, s) /\ Orphan(conn[e], Trimmed(conn[e], s))
  /\ Dropwithreset(e, s, q, Closed(conn[e]))

InputRst(e, s, q) ==
  LET c == conn[e] IN
  /\ Admitted(e, s) /\ ~Orphan(c, Trimmed(c, s)) /\ "RST" \in s.flags
  /\ Becomes(e, IF c.st \in {"CLOSING", "LAST_ACK", "TIME_WAIT"}
                   THEN Res(Closed(c), <<>>) ELSE Drop(c), q)

(* A SYN in the window.                                                    *)
InputSyn(e, s, q) ==
  LET c == conn[e]  t == Trimmed(c, s)  d == Drop(c) IN
  /\ Admitted(e, s) /\ ~Orphan(c, t) /\ "RST" \notin s.flags /\ "SYN" \in t.flags
  /\ Becomes(e, Res(d.c, d.out \o Reset(t)), q)

(* The rest of a segment, which acknowledges something.  (No other is sent *)
(* without a SYN or RST.)                                                  *)
Usable(e, s) ==
  LET t == Trimmed(conn[e], s) IN
  /\ Admitted(e, s) /\ ~Orphan(conn[e], t)
  /\ "ACK" \in t.flags /\ t.flags \cap {"SYN", "RST"} = {}

InputBadAck(e, s, q) ==
  LET c == conn[e] IN
  /\ Usable(e, s)
  /\ \/ /\ c.st = "SYN_RECEIVED"
        /\ Acks(c, s) < 0 \/ Diff(s.ack, c.max) > 0
        /\ Dropwithreset(e, s, q, c)
     \/ /\ c.st # "SYN_RECEIVED"
        /\ Acks(c, s) > 0 /\ Diff(s.ack, c.max) > 0
        /\ Dropafterack(e, s, q, Trimmed(c, s))

InputLastAck(e, s, q) ==
  LET c == conn[e] IN
  /\ Usable(e, s) /\ c.st = "LAST_ACK"
  /\ Acks(c, s) > 0 /\ Diff(s.ack, c.max) <= 0
  /\ Becomes(e, Res(Acked(c, s), <<>>), q)

(* (In TIME_WAIT nothing is left to be acknowledged.)                      *)
InputText(e, s, q) ==
  LET c == conn[e]
      t == Trimmed(c, s)
      d == IF c.st = "SYN_RECEIVED" THEN Made(c, t) ELSE c
  IN  /\ Usable(e, s)
      /\ c.st = "SYN_RECEIVED" => Acks(c, s) >= 0
      /\ c.st = "LAST_ACK" => Acks(c, s) <= 0
      /\ Acks(c, s) > 0 => Diff(s.ack, c.max) <= 0
      /\ Becomes(e, Step6(IF Acks(d, s) > 0 THEN Acked(d, s) ELSE d, t), q)

-----------------------------------------------------------------------------
(* tcp_fasttimo, tcp_timers.  A timer that expires with segments on their  *)
(* way is early, or the segments late.  Otherwise they expire in the order *)
(* of their times: 0.2 seconds for a delayed acknowledgement; for a        *)
(* retransmission 1 to 30, by t_rxtshift (measured round trips are taken   *)
(* for shorter); 60 for 2MSL.                                              *)
Step(e, r)  == Becomes(e, r, net[e])
Quiet       == \A e \in Ends : net[e] = <<>>
Ticking(e)  == conn[e].timers \cup (conn[e].flags \cap {"DELACK"})
Sooner(e, x) ==
  CASE x = "REXMT" -> {"DELACK"} \cup {y \in {"REXMT"} : conn[Peer(e)].shift < conn[e].shift}
    [] x = "2MSL"  -> {"DELACK", "REXMT"}
    [] OTHER       -> {}
Due(e, x) ==
  /\ x \in Ticking(e)
  /\ \/ Quiet /\ UNCHANGED plan
        /\ Sooner(e, x) \cap (Ticking(Peer(e)) \cup (Ticking(e) \ {x})) = {}
     \/ ~Quiet /\ x # "2MSL" /\ Spend(1)

Fasttimo(e) ==
  /\ Due(e, "DELACK")
  /\ Step(e, Output([conn[e] EXCEPT !.flags = (@ \ {"DELACK"}) \cup {"ACKNOW"}]))

Rexmt(e) ==
  LET c == conn[e] IN
  /\ Due(e, "REXMT")
  /\ Step(e, IF c.shift = MAXRXTSHIFT THEN Drop(c)
             ELSE Output([c EXCEPT !.shift = @ + 1, !.nxt = c.una]))

Persist(e) == Due(e, "PERSIST") /\ Step(e, OutputForced(conn[e], 1))

Msl2(e) == Due(e, "2MSL") /\ Step(e, Res(Closed(conn[e]), <<>>))

-----------------------------------------------------------------------------
(* The users.                                                              *)
User(e, r) == Step(e, r) /\ UNCHANGED plan
Idle(e)    == conn[e].so # {} /\ conn[e].so \cap {"CONNECTING", "INCLOSE", "NOFDREF"} = {}

MayConnect == conn[Active].st = "CLOSED" /\ conn[Active].so = {}
Connect ==
  LET c == conn[Active] IN
  /\ MayConnect
  /\ User(Active, Output([c EXCEPT !.st = "SYN_SENT", !.so = {"CONNECTING"},
                                    !.una = c.iss, !.nxt = c.iss, !.max = c.iss]))

(* sosend, PRU_SEND.                                                       *)
MaySend(e) ==
  /\ Idle(e) /\ plan.bytes[e] > 0 /\ conn[e].snd < hiwat
  /\ "CONNECTED" \in conn[e].so /\ "CANTSEND" \notin conn[e].so
Send(e) ==
  /\ MaySend(e)
  /\ Step(e, Output([conn[e] EXCEPT !.snd = @ + 1]))
  /\ plan' = [plan EXCEPT !.bytes[e] = @ - 1]

(* soreceive, PRU_RCVD.                                                    *)
MayReceive(e) == Idle(e) /\ conn[e].rcv > 0
Receive(e) ==
  LET c == [conn[e] EXCEPT !.rcv = 0] IN
  /\ MayReceive(e)
  /\ User(e, IF c.st = "CLOSED" THEN Res(c, <<>>) ELSE Output(c))

(* tcp_usrclosed, for a socket that has been connected.                    *)
(* (Variant: in CLOSE_WAIT nothing follows.)                               *)
UsrclosedWaiting(c) ==
  CASE c.st = "ESTABLISHED" -> [c EXCEPT !.st = "FIN_WAIT_1"]
    [] c.st \in {"FIN_WAIT_2", "TIME_WAIT"} -> Isdisconnected(c)
    [] OTHER -> c
Usrclosed(c) ==
  CASE c.st = "ESTABLISHED" -> [c EXCEPT !.st = "FIN_WAIT_1"]
    [] c.st = "CLOSE_WAIT"  -> [c EXCEPT !.st = "LAST_ACK"]
    [] c.st \in {"FIN_WAIT_2", "TIME_WAIT"} -> Isdisconnected(c)
    [] OTHER -> c

Written(e) == plan.bytes[e] = 0 \/ "CANTSEND" \in conn[e].so
AtEnd(e)   == conn[e].rcv = 0 /\ "CANTRCV" \in conn[e].so

(* soshutdown, PRU_SHUTDOWN.                                               *)
MayShutdown(e) ==
  Idle(e) /\ plan.mode[e] = "half" /\ Written(e) /\ "CANTSEND" \notin conn[e].so
Shutdown(e) ==
  /\ MayShutdown(e)
  /\ User(e, Output(Usrclosed([conn[e] EXCEPT !.so = @ \cup {"CANTSEND"}])))

(* tcp_disconnect, and soclose: it sleeps as long as the connection is     *)
(* there, and then leaves the socket to the protocol.                      *)
Disconnect(e, c) ==
  IF plan.mode[e] = "drop" THEN Drop(c)
  ELSE Output(Usrclosed([Isdisconnecting(c) EXCEPT !.rcv = 0]))
Detach(e, r) ==
  LET d == IF r.c.st = "CLOSED" THEN Res(r.c, <<>>) ELSE Disconnect(e, r.c)
  IN  Res([d.c EXCEPT !.so = (@ \ {"INCLOSE"}) \cup {"NOFDREF"}], r.out \o d.out)
Soclose(e, r) ==
  IF "CONNECTED" \in r.c.so THEN Res([r.c EXCEPT !.so = @ \cup {"INCLOSE"}], r.out)
  ELSE Detach(e, r)

MayClose(e) ==
  /\ Idle(e) /\ Written(e)
  /\ plan.mode[e] = "half" => "CANTSEND" \in conn[e].so
  /\ plan.mode[e] \in {"half", "serve"} => AtEnd(e)
Close(e) ==
  LET c == conn[e] IN
  /\ MayClose(e)
  /\ User(e, Soclose(e, IF "CONNECTED" \in c.so THEN Disconnect(e, c) ELSE Res(c, <<>>)))

Woken(e) == "INCLOSE" \in conn[e].so /\ "CONNECTED" \notin conn[e].so
CloseWoken(e) == Woken(e) /\ User(e, Detach(e, Res(conn[e], <<>>)))

-----------------------------------------------------------------------------
Lose(e) ==
  /\ Spend(1)
  /\ \E i \in DOMAIN net[e] : net' = [net EXCEPT ![e] = RemoveAt(@, i)]
  /\ UNCHANGED conn

Init ==
  /\ conn = [e \in Ends |-> [Blank(iss[e]) EXCEPT !.st = IF e = Active THEN "CLOSED" ELSE "LISTEN"]]
  /\ net = [e \in Ends |-> <<>>]
  /\ plan \in Plans

Handled(e, s, q) ==
  \/ InputClosed(e, s, q) \/ InputListen(e, s, q) \/ InputSynSent(e, s, q)
  \/ InputUnacceptable(e, s, q) \/ InputOrphan(e, s, q) \/ InputRst(e, s, q)
  \/ InputSyn(e, s, q) \/ InputBadAck(e, s, q) \/ InputLastAck(e, s, q) \/ InputText(e, s, q)
Arrive(e) ==
  \E i \in DOMAIN net[e], kept \in BOOLEAN :
    /\ Spend((IF i > 1 THEN 1 ELSE 0) + IF kept THEN 1 ELSE 0)
    /\ Handled(e, net[e][i], IF kept THEN net[e] ELSE RemoveAt(net[e], i))
Timers(e) == Fasttimo(e) \/ Rexmt(e) \/ Persist(e) \/ Msl2(e)
Calls(e)  == \/ Send(e) \/ Receive(e) \/ Shutdown(e) \/ Close(e) \/ CloseWoken(e)
             \/ e = Active /\ Connect

Next == \E e \in Ends : Arrive(e) \/ Lose(e) \/ Timers(e) \/ Calls(e)

Spec == Init /\ [][Next]_vars

(* The network delivers something, clocks run, a retransmission timer that *)
(* stays on expires, and users go on: weak fairness, written out with what *)
(* enables each.                                                           *)
Running == \E e \in Ends : Ticking(e) # {}
May(e)  == \/ MaySend(e) \/ MayReceive(e) \/ MayShutdown(e) \/ MayClose(e) \/ Woken(e)
           \/ e = Active /\ MayConnect
FairSpec ==
  /\ Spec
  /\ []<>Quiet \/ []<><<\E e \in Ends : Arrive(e)>>_vars
  /\ []<>~(Quiet /\ Running) \/ []<><<\E e \in Ends : Timers(e)>>_vars
  /\ \A e \in Ends : []<>("REXMT" \notin conn[e].timers) \/ []<><<Rexmt(e)>>_vars
  /\ \A e \in Ends : []<>~May(e) \/ []<><<Calls(e)>>_vars

=============================================================================
