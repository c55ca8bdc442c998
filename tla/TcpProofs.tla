----------------------------- MODULE TcpProofs ------------------------------
(***************************************************************************)
(* The timers of a connection always watch what is outstanding, for any    *)
(* sequence space that is more than twice the buffers, any buffers,        *)
(* segments and plans: whatever is lost, repeated, overtaken or late.      *)
(***************************************************************************)
EXTENDS TcpProps, SequenceTheorems, FiniteSetTheorems, TLAPS

-----------------------------------------------------------------------------
(* Lists, numbers and sums.                                                *)

(* What the operators of Sequences do, a fact each.                        *)
LEMMA Cat ==
  ASSUME NEW S, NEW c \in Seq(S), NEW d \in Seq(S)
  PROVE  c \o d \in Seq(S)
OBVIOUS

LEMMA CatLen ==
  ASSUME NEW S, NEW c \in Seq(S), NEW d \in Seq(S)
  PROVE  Len(c \o d) = Len(c) + Len(d)
OBVIOUS

LEMMA CatElement ==
  ASSUME NEW S, NEW c \in Seq(S), NEW d \in Seq(S), NEW i \in 1..(Len(c) + Len(d))
  PROVE  (c \o d)[i] = IF i <= Len(c) THEN c[i] ELSE d[i - Len(c)]
OBVIOUS

LEMMA Sub ==
  ASSUME NEW S, NEW s \in Seq(S), NEW a \in 1..(Len(s) + 1), NEW b \in 0..Len(s)
  PROVE  SubSeq(s, a, b) \in Seq(S)
OBVIOUS

LEMMA SubLen ==
  ASSUME NEW S, NEW s \in Seq(S), NEW a \in 1..(Len(s) + 1), NEW b \in 0..Len(s), a <= b + 1
  PROVE  Len(SubSeq(s, a, b)) = b + 1 - a
OBVIOUS

LEMMA SubElement ==
  ASSUME NEW S, NEW s \in Seq(S), NEW a \in 1..(Len(s) + 1), NEW b \in 0..Len(s), a <= b + 1,
         NEW i \in 1..(b + 1 - a)
  PROVE  SubSeq(s, a, b)[i] = s[a + i - 1]
OBVIOUS

(* A list without its i-th element.                                        *)
LEMMA RemoveAtSeq ==
  ASSUME NEW S, NEW s \in Seq(S), NEW k \in 1..Len(s)
  PROVE  /\ RemoveAt(s, k) \in Seq(S)
         /\ Len(RemoveAt(s, k)) = Len(s) - 1
         /\ \A i \in 1..(Len(s) - 1) :
              RemoveAt(s, k)[i] = IF i < k THEN s[i] ELSE s[i + 1]
<1> DEFINE c == SubSeq(s, 1, k - 1)
           d == SubSeq(s, k + 1, Len(s))
<1>1. Len(s) \in Nat /\ k \in Nat \ {0} /\ k <= Len(s) /\ k - 1 \in 0..Len(s)
  OBVIOUS
<1>2. c \in Seq(S) /\ d \in Seq(S)
  BY <1>1, Sub
<1>3. Len(c) = k - 1 /\ Len(d) = Len(s) - k
  <2>1. Len(c) = k - 1 + 1 - 1
    BY <1>1, SubLen
  <2>2. Len(d) = Len(s) + 1 - (k + 1)
    BY <1>1, SubLen
  <2> QED BY <1>1, <2>1, <2>2
<1>4. ASSUME NEW i \in 1..(k - 1) PROVE c[i] = s[i]
  <2>1. i \in 1..(k - 1 + 1 - 1)
    BY <1>1
  <2>2. c[i] = s[1 + i - 1]
    BY <1>1, <2>1, SubElement
  <2> QED BY <1>1, <2>2
<1>5. ASSUME NEW i \in 1..(Len(s) - k) PROVE d[i] = s[k + i]
  <2>1. i \in 1..(Len(s) + 1 - (k + 1)) /\ k + 1 + i - 1 = k + i
    BY <1>1
  <2>2. d[i] = s[k + 1 + i - 1]
    BY <1>1, <2>1, SubElement
  <2> QED BY <2>1, <2>2
<1>6. RemoveAt(s, k) = c \o d
  BY Zenon DEF RemoveAt
<1> HIDE DEF c, d
<1>7. c \o d \in Seq(S)
  BY <1>2, Cat
<1>8. Len(c \o d) = Len(s) - 1
  <2>1. Len(c \o d) = Len(c) + Len(d)
    BY <1>2, CatLen
  <2> QED BY <1>1, <1>3, <2>1
<1>9. ASSUME NEW i \in 1..(Len(s) - 1)
      PROVE  (c \o d)[i] = IF i < k THEN s[i] ELSE s[i + 1]
  <2>1. i \in 1..(Len(c) + Len(d))
    BY <1>1, <1>3
  <2>2. (c \o d)[i] = IF i <= k - 1 THEN c[i] ELSE d[i - (k - 1)]
    BY <1>2, <1>3, <2>1, CatElement
  <2>3. i <= k - 1 => c[i] = s[i]
    BY <1>1, <1>4
  <2>4. i > k - 1 => d[i - (k - 1)] = s[k + (i - (k - 1))]
    BY <1>1, <1>5
  <2>5. k + (i - (k - 1)) = i + 1
    BY <1>1
  <2> QED BY <1>1, <2>2, <2>3, <2>4, <2>5
<1> QED BY <1>6, <1>7, <1>8, <1>9

(* A set of numbers has a least one.                                       *)
LEMMA NatLeast ==
  ASSUME NEW T, T \subseteq Nat, T # {}
  PROVE  \E x \in T : \A y \in T : x <= y
<1> DEFINE R == OpToRel(<, Nat)
<1>1. IsWellFoundedOn(R, Nat)
  BY NatLessThanWellFounded, Zenon
<1>2. \A x, y \in Nat : y < x => <<y, x>> \in R
  BY DEF OpToRel
<1> HIDE DEF R
<1>3. PICK x \in T : \A y \in T : ~ (<<y, x>> \in R)
  BY <1>1, WFMin, Zenon
<1>4. ASSUME NEW y \in T PROVE x <= y
  <2>1. x \in Nat /\ y \in Nat
    OBVIOUS
  <2>2. ~ (y < x)
    BY <1>2, <1>3, <2>1, Zenon
  <2> QED BY <2>1, <2>2
<1> QED BY <1>4, Zenon

-----------------------------------------------------------------------------
(* Sequence numbers.                                                       *)

Seqs == 0..(M - 1)

(* The window is much smaller than the space of the sequence numbers.      *)
Roomy == 2 * (hiwat + 4) < M

LEMMA Constants ==
  /\ M \in Nat \ {0} /\ ISSINCR \in Nat /\ hiwat \in Nat \ {0} /\ maxseg \in Nat \ {0}
  /\ MAXRXTSHIFT \in Nat \ {0} /\ Active # Passive /\ iss \in [Ends -> Seqs]
BY TcpAssumption DEF Seqs

LEMMA SqType ==
  ASSUME NEW n \in Int
  PROVE  Sq(n) \in Seqs
BY Constants DEF Sq, Seqs

LEMMA SqNear ==
  ASSUME NEW n \in Int
  PROVE  /\ 0 <= n /\ n < M => Sq(n) = n
         /\ M <= n /\ n < 2 * M => Sq(n) = n - M
         /\ 0 - M <= n /\ n < 0 => Sq(n) = n + M
BY Constants DEF Sq

LEMMA DiffBounds ==
  ASSUME NEW a \in Int, NEW b \in Int
  PROVE  Diff(a, b) \in Int /\ 2 * Diff(a, b) < M /\ 2 * Diff(a, b) >= 0 - M
<1>1. Sq(a - b) \in Seqs
  BY SqType
<1> HIDE DEF Seqs
<1>2. Sq(a - b) \in Int /\ Sq(a - b) >= 0 /\ Sq(a - b) < M
  BY <1>1, Constants DEF Seqs
<1>3. CASE 2 * Sq(a - b) >= M
  <2>1. Diff(a, b) = Sq(a - b) - M
    BY <1>3 DEF Diff
  <2> QED BY <1>2, <1>3, <2>1, Constants
<1>4. CASE ~ (2 * Sq(a - b) >= M)
  <2>1. Diff(a, b) = Sq(a - b)
    BY <1>4 DEF Diff
  <2> QED BY <1>2, <1>4, <2>1, Constants
<1> QED BY <1>3, <1>4

LEMMA DiffRange ==
  ASSUME NEW a \in Seqs, NEW b \in Seqs
  PROVE  Diff(a, b) \in Int /\ 2 * Diff(a, b) < M /\ 2 * Diff(a, b) >= 0 - M
<1>1. a \in Int /\ b \in Int
  BY Constants DEF Seqs
<1> QED BY <1>1, DiffBounds

LEMMA DiffNear ==
  ASSUME NEW a \in Seqs, NEW b \in Seqs
  PROVE  \/ Diff(a, b) = a - b
         \/ a < b /\ Diff(a, b) = a - b + M
         \/ a > b /\ Diff(a, b) = a - b - M
<1>1. a \in Int /\ b \in Int /\ a - b < M /\ a - b > 0 - M
  BY Constants DEF Seqs
<1>2. a - b \in Int /\ (a >= b => 0 <= a - b) /\ (a < b => 0 - M <= a - b /\ a - b < 0)
  BY <1>1, Constants
<1>3. a >= b => Sq(a - b) = a - b
  BY <1>1, <1>2, SqNear
<1>4. a < b => Sq(a - b) = a - b + M
  BY <1>2, SqNear
<1> QED BY <1>1, <1>3, <1>4, Constants DEF Diff, Seqs

(* The number k beyond a.                                                  *)
LEMMA DiffBeyond ==
  ASSUME NEW a \in Seqs, NEW k \in Int, 2 * k < M, 2 * k >= 0 - M
  PROVE  Sq(a + k) \in Seqs /\ Diff(Sq(a + k), a) = k
<1>1. Sq(a + k) \in Seqs /\ a \in Int /\ a + k < 2 * M /\ a + k >= 0 - M
  BY SqType, Constants DEF Seqs
<1>2. \/ Sq(a + k) = a + k
      \/ Sq(a + k) = a + k - M
      \/ Sq(a + k) = a + k + M
  BY <1>1, SqNear, Constants DEF Seqs
<1>3. Diff(Sq(a + k), a) \in Int /\ 2 * Diff(Sq(a + k), a) < M /\ 2 * Diff(Sq(a + k), a) >= 0 - M
  BY <1>1, DiffRange
<1>4. \/ Diff(Sq(a + k), a) = Sq(a + k) - a
      \/ Diff(Sq(a + k), a) = Sq(a + k) - a + M
      \/ Diff(Sq(a + k), a) = Sq(a + k) - a - M
  BY <1>1, DiffNear
<1> QED BY <1>1, <1>2, <1>3, <1>4, Constants DEF Seqs

(* Of two numbers that lie k and j beyond a, one lies k - j beyond the     *)
(* other, if that is not too far.                                          *)
LEMMA DiffDiff ==
  ASSUME NEW a \in Seqs, NEW b \in Seqs, NEW c \in Seqs,
         2 * (Diff(b, a) - Diff(c, a)) < M, 2 * (Diff(b, a) - Diff(c, a)) >= 0 - M
  PROVE  Diff(b, c) = Diff(b, a) - Diff(c, a)
<1>1. Diff(b, a) \in Int /\ Diff(c, a) \in Int /\ Diff(b, c) \in Int
      /\ 2 * Diff(b, c) < M /\ 2 * Diff(b, c) >= 0 - M
  BY DiffRange
<1>2. /\ \/ Diff(b, a) = b - a \/ Diff(b, a) = b - a + M \/ Diff(b, a) = b - a - M
      /\ \/ Diff(c, a) = c - a \/ Diff(c, a) = c - a + M \/ Diff(c, a) = c - a - M
      /\ \/ Diff(b, c) = b - c \/ Diff(b, c) = b - c + M \/ Diff(b, c) = b - c - M
  BY DiffNear
<1> QED BY <1>1, <1>2, Constants DEF Seqs

LEMMA DiffSelf ==
  ASSUME NEW a \in Seqs
  PROVE  Diff(a, a) = 0
BY DiffNear, Constants DEF Seqs

LEMMA DiffZero ==
  ASSUME NEW a \in Seqs, NEW b \in Seqs, Diff(a, b) = 0
  PROVE  a = b
BY DiffNear, Constants DEF Seqs

(* A number is known by how far it lies beyond another.                    *)
LEMMA DiffSame ==
  ASSUME NEW a \in Seqs, NEW b \in Seqs, NEW c \in Seqs, Diff(b, a) = Diff(c, a)
  PROVE  b = c
BY DiffNear, Constants DEF Seqs

(* The later of two.                                                       *)
LEMMA LaterIs ==
  ASSUME NEW a \in Seqs, NEW b \in Seqs, NEW c \in Seqs,
         2 * (Diff(b, a) - Diff(c, a)) < M, 2 * (Diff(b, a) - Diff(c, a)) >= 0 - M
  PROVE  /\ Later(b, c) \in Seqs
         /\ Diff(Later(b, c), a) = IF Diff(b, a) > Diff(c, a) THEN Diff(b, a) ELSE Diff(c, a)
<1>1. Diff(b, c) = Diff(b, a) - Diff(c, a)
  BY DiffDiff
<1>2. Diff(b, a) \in Int /\ Diff(c, a) \in Int
  BY DiffRange
<1> QED BY <1>1, <1>2 DEF Later

-----------------------------------------------------------------------------
(* Types.                                                                  *)
States   == {"CLOSED", "LISTEN", "SYN_SENT", "SYN_RECEIVED", "ESTABLISHED", "CLOSE_WAIT",
             "FIN_WAIT_1", "CLOSING", "LAST_ACK", "FIN_WAIT_2", "TIME_WAIT"}
SoStates == {"CONNECTING", "CONNECTED", "DISCONNECTING", "CANTSEND", "CANTRCV",
             "INCLOSE", "NOFDREF"}
Fragment == [seq : Seqs, len : Nat, from : Int, fin : BOOLEAN]
Fragments == { Q \in SUBSET Fragment : IsFiniteSet(Q) }
Tcb ==
  [st : States, iss : Seqs, una : Seqs, nxt : Seqs, max : Seqs,
   wnd : Int, wl1 : Int, wl2 : Int, rnxt : Seqs, adv : Int,
   reass : Fragments, flags : SUBSET {"ACKNOW", "DELACK"},
   timers : SUBSET {"REXMT", "PERSIST", "2MSL"}, shift : Nat, snd : Nat,
   base : Nat, rcv : Nat, got : Seq(Int), eof : BOOLEAN, so : SUBSET SoStates]
Segments ==
  [flags : SUBSET {"SYN", "ACK", "FIN", "RST", "CUT"}, seq : Seqs, ack : Seqs,
   len : Nat, from : Int, win : Int]

-----------------------------------------------------------------------------
(* A connection by itself: what is outstanding, and its state.             *)
Ahead(c)  == Diff(c.max, c.una)
Half(c)   == c.st \in {"SYN_SENT", "SYN_RECEIVED"}
Unused(c) == c.st \in {"CLOSED", "LISTEN"}
Done(c)   == c.st \in {"FIN_WAIT_2", "TIME_WAIT"}

(* snd_nxt lies between snd_una and snd_max, and that no further ahead     *)
(* than the buffer and a SYN or FIN.  The retransmission timer runs while  *)
(* anything is outstanding, but for one byte that was forced; and only     *)
(* then.                                                                   *)
Counted(c) ==
  /\ 0 <= Off(c) /\ Off(c) <= Ahead(c) /\ Ahead(c) <= c.snd + 1 /\ c.snd <= hiwat
  /\ Off(c) > 0 \/ Ahead(c) > 1 => "REXMT" \in c.timers
  /\ "REXMT" \in c.timers => Ahead(c) > 0
(* Timers exclude each other; which may run follows from the state.        *)
Clocked(c) ==
  /\ \A x, y \in c.timers : x = y
  /\ "2MSL" \in c.timers <=> c.st = "TIME_WAIT"
  /\ Done(c) => c.snd = 0 /\ Off(c) = 0 /\ Ahead(c) <= 1 /\ "REXMT" \notin c.timers
  /\ Unused(c) => c.timers = {} /\ c.flags = {}
  /\ Half(c) => c.snd = 0 /\ c.una = c.iss
  /\ Half(c) \/ Unused(c) => c.wnd >= 0

(* Ready: tcp_output may be called.  Sound: as it leaves the block.        *)
Ready(c) == c \in Tcb /\ Counted(c) /\ Clocked(c)
Sound(c) == Ready(c) /\ (Half(c) => Off(c) = 1)

(* The block and its socket: which states an end and its socket can be in, *)
(* and that whoever is closing has been told to send no more.              *)
Called(e, c) ==
  /\ e = Active  => /\ c.st \notin {"LISTEN", "SYN_RECEIVED"}
                    /\ c.so = {} => c.st = "CLOSED"
                    /\ c.iss = iss[Active]
  /\ e = Passive => /\ c.st # "SYN_SENT"
                    /\ c.so = {} <=> c.st \in {"LISTEN", "SYN_RECEIVED"}
                    /\ c.st = "SYN_RECEIVED" => c.rnxt = Sq(iss[Active] + 1)
  /\ c.so = {} => c.snd = 0
  /\ c.st = "SYN_SENT" => c.so = {"CONNECTING"}
  /\ "CONNECTED" \in c.so => ~Half(c) /\ ~Unused(c)
  /\ c.st \in Closing \/ (c.st = "CLOSED" /\ c.so # {}) => "CANTSEND" \in c.so

Fine(e, c) == Sound(c) /\ Called(e, c)

(* A segment on its way to e.  A SYN is the first of the active end's, or  *)
(* the listener's answer to it.                                            *)
Travels(e, s) ==
  /\ s \in Segments
  /\ s.flags = {"SYN"} \/ s.flags \cap {"ACK", "RST"} # {}
  /\ "SYN" \in s.flags =>
       /\ s.len = 0 /\ s.win >= 0
       /\ e = Passive => s.flags = {"SYN"} /\ s.seq = iss[Active]
       /\ e = Active => s.flags = {"SYN", "ACK"} /\ s.ack = Sq(iss[Active] + 1)

TcpInv ==
  /\ conn \in [Ends -> Tcb] /\ net \in [Ends -> Seq(Segments)]
  /\ \A e \in Ends : Fine(e, conn[e]) /\ \A i \in DOMAIN net[e] : Travels(e, net[e][i])

LEMMA TcbFields ==
  ASSUME NEW c \in Tcb
  PROVE  /\ c.st \in States /\ c.iss \in Seqs /\ c.una \in Seqs /\ c.nxt \in Seqs /\ c.max \in Seqs
         /\ c.wnd \in Int /\ c.wl1 \in Int /\ c.wl2 \in Int /\ c.rnxt \in Seqs /\ c.adv \in Int
         /\ c.reass \in Fragments /\ c.flags \in SUBSET {"ACKNOW", "DELACK"}
         /\ c.timers \in SUBSET {"REXMT", "PERSIST", "2MSL"} /\ c.shift \in Nat /\ c.snd \in Nat
         /\ c.base \in Nat /\ c.rcv \in Nat /\ c.got \in Seq(Int) /\ c.eof \in BOOLEAN
         /\ c.so \in SUBSET SoStates
BY DEF Tcb

LEMMA SeqsInt ==
  ASSUME NEW n \in Seqs
  PROVE  n \in Nat /\ n \in Int /\ n < M
BY Constants DEF Seqs

LEMMA OffType ==
  ASSUME NEW c \in Tcb
  PROVE  Off(c) \in Int /\ Ahead(c) \in Int
BY TcbFields, DiffRange DEF Off, Ahead

(* What no output changes.                                                 *)
Same(c, d) ==
  /\ d.st = c.st /\ d.iss = c.iss /\ d.una = c.una /\ d.snd = c.snd
  /\ d.rnxt = c.rnxt /\ d.so = c.so /\ d.wnd = c.wnd

LEMMA OutflagsAre ==
  ASSUME NEW c, c.st \in States, NEW len
  PROVE  /\ Outflags(c, len) \in SUBSET {"SYN", "ACK", "FIN", "RST", "CUT"}
         /\ "FIN" \in Outflags(c, len) => c.st \in {"FIN_WAIT_1", "CLOSING", "LAST_ACK"}
         /\ "SYN" \in Outflags(c, len) <=> Half(c)
         /\ Outflags(c, len) = {"SYN"} \/ Outflags(c, len) \cap {"ACK", "RST"} # {}
         /\ c.st = "SYN_SENT" => Outflags(c, len) = {"SYN"}
         /\ c.st = "SYN_RECEIVED" => Outflags(c, len) = {"SYN", "ACK"}
BY DEF Outflags, States, Half

LEMMA WinType ==
  ASSUME NEW c \in Tcb
  PROVE  Space(c) \in Int /\ Win(c) \in Int /\ Win(c) >= 0
<1>1. c.rcv \in Nat /\ hiwat \in Nat
  BY TcbFields, Constants
<1>2. Space(c) \in Int
  BY <1>1 DEF Space
<1>3. hiwat \div 4 \in Int /\ hiwat \div 4 >= 0
  BY <1>1
<1> QED BY <1>2, <1>3 DEF Win

LEMMA AnnouncedIs ==
  ASSUME NEW c \in Tcb
  PROVE  LET d == Announced(c) IN
         /\ d \in Tcb /\ Same(c, d) /\ d.nxt = c.nxt /\ d.max = c.max /\ d.timers = c.timers
         /\ d.flags \subseteq c.flags
<1>1. Win(c) \in Int
  BY WinType
<1>2. Sq(c.rnxt + Win(c)) \in Int
  BY <1>1, SqType, TcbFields, SeqsInt
<1>3. Later(Sq(c.rnxt + Win(c)), c.adv) \in Int
  BY <1>2, TcbFields DEF Later
<1> QED BY <1>3 DEF Announced, Tcb, Same

(* The first number after a segment.                                       *)
After(c, len) == c.nxt + len + IF Outflags(c, len) \cap {"SYN", "FIN"} = {} THEN 0 ELSE 1

LEMMA AdvancedIs ==
  ASSUME NEW c \in Tcb, NEW len \in Nat
  PROVE  LET d == Advanced(c, len) IN
         /\ d \in Tcb /\ Same(c, d) /\ d.flags = c.flags
         /\ d.nxt = Sq(After(c, len)) /\ d.max = Later(d.nxt, c.max)
         /\ d.timers = (c.timers \ {"PERSIST"})
                         \cup {x \in {"REXMT"} : "REXMT" \notin c.timers /\ d.nxt # c.una}
<1>1. After(c, len) \in Int
  BY TcbFields, SeqsInt DEF After
<1> DEFINE n == Sq(After(c, len))
           T == (c.timers \ {"PERSIST"}) \cup {x \in {"REXMT"} : "REXMT" \notin c.timers /\ n # c.una}
           k == IF "REXMT" \notin c.timers /\ n # c.una THEN 0 ELSE c.shift
<1>2. n \in Seqs
  BY <1>1, SqType
<1>3. Later(n, c.max) \in Seqs
  BY <1>2, TcbFields DEF Later
<1>4. Advanced(c, len) =
        [c EXCEPT !.nxt = n, !.max = Later(n, c.max), !.timers = T, !.shift = k]
  BY DEF Advanced, After
<1>5. T \in SUBSET {"REXMT", "PERSIST", "2MSL"} /\ k \in Nat
  BY TcbFields
<1>6. T = (c.timers \ {"PERSIST"}) \cup {x \in {"REXMT"} : "REXMT" \notin c.timers /\ n # c.una}
  OBVIOUS
<1>7. n = Sq(After(c, len))
  OBVIOUS
<1> HIDE DEF n, T, k
<1>8. /\ Advanced(c, len) \in Tcb /\ Same(c, Advanced(c, len)) /\ Advanced(c, len).flags = c.flags
      /\ Advanced(c, len).nxt = n /\ Advanced(c, len).max = Later(n, c.max)
      /\ Advanced(c, len).timers = T
  BY <1>2, <1>3, <1>4, <1>5 DEF Same, Tcb
<1> QED BY <1>6, <1>7, <1>8

LEMMA ForcedIs ==
  ASSUME NEW c \in Tcb
  PROVE  LET d == Forced(c) IN
         /\ d \in Tcb /\ Same(c, d) /\ d.flags = c.flags
         /\ d.nxt = c.nxt /\ d.timers = c.timers /\ d.max = Later(Sq(c.una + 1), c.max)
<1>1. Sq(c.una + 1) \in Seqs
  BY TcbFields, SeqsInt, SqType
<1>2. Later(Sq(c.una + 1), c.max) \in Seqs
  BY <1>1, TcbFields DEF Later
<1> QED BY <1>2 DEF Forced, Same, Tcb

LEMMA PollingIs ==
  ASSUME NEW c \in Tcb
  PROVE  LET d == Polling(c) IN
         /\ d \in Tcb /\ Same(c, d) /\ d.nxt = c.nxt /\ d.max = c.max /\ d.flags = c.flags
         /\ \/ d = c
            \/ c.snd > 0 /\ c.timers \cap {"REXMT", "PERSIST"} = {}
               /\ d.timers = c.timers \cup {"PERSIST"}
BY DEF Polling, Same, Tcb

(* j beyond a number.                                                      *)
LEMMA DiffPlus ==
  ASSUME NEW a \in Seqs, NEW b \in Seqs, NEW j \in Int,
         2 * (Diff(b, a) + j) < M, 2 * (Diff(b, a) + j) >= 0 - M
  PROVE  Sq(b + j) \in Seqs /\ Diff(Sq(b + j), a) = Diff(b, a) + j
<1>1. Diff(b, a) \in Int /\ 2 * Diff(b, a) < M /\ 2 * Diff(b, a) >= 0 - M
  BY DiffRange
<1>2. a \in Int /\ b \in Int /\ 0 <= a /\ a < M /\ 0 <= b /\ b < M /\ M \in Int /\ M > 0
  BY SeqsInt, Constants
<1>3. b + j \in Int /\ b + j < 2 * M /\ b + j >= 0 - M
  BY <1>1, <1>2
<1>4. Sq(b + j) \in Seqs
  BY <1>3, SqType
<1>5. Sq(b + j) = b + j \/ Sq(b + j) = b + j - M \/ Sq(b + j) = b + j + M
  BY <1>2, <1>3, SqNear
<1>6. \/ Diff(Sq(b + j), a) = Sq(b + j) - a
      \/ Diff(Sq(b + j), a) = Sq(b + j) - a + M
      \/ Diff(Sq(b + j), a) = Sq(b + j) - a - M
  BY <1>4, DiffNear
<1>7. Diff(b, a) = b - a \/ Diff(b, a) = b - a + M \/ Diff(b, a) = b - a - M
  BY DiffNear
<1>8. /\ Diff(Sq(b + j), a) \in Int
      /\ 2 * Diff(Sq(b + j), a) < M /\ 2 * Diff(Sq(b + j), a) >= 0 - M
  BY <1>4, DiffRange
<1>9. Sq(b + j) \in Int
  BY <1>4, SeqsInt
<1> DEFINE u == Sq(b + j)
           v == Diff(u, a)
           w == Diff(b, a)
<1>10. /\ u \in Int /\ v \in Int /\ w \in Int
       /\ u = b + j \/ u = b + j - M \/ u = b + j + M
       /\ v = u - a \/ v = u - a + M \/ v = u - a - M
       /\ w = b - a \/ w = b - a + M \/ w = b - a - M
       /\ 2 * v < M /\ 2 * v >= 0 - M /\ 2 * (w + j) < M /\ 2 * (w + j) >= 0 - M
  BY <1>1, <1>5, <1>6, <1>7, <1>8, <1>9
<1> HIDE DEF u, v, w
<1>11. v = w + j
  BY <1>2, <1>10
<1> QED BY <1>4, <1>11 DEF u, v, w

(* The numbers of a control block, far from each other's end.              *)
LEMMA ReadyNumbers ==
  ASSUME Roomy, NEW c, Ready(c)
  PROVE  /\ c \in Tcb /\ c.snd \in Int /\ Off(c) \in Int /\ Ahead(c) \in Int
         /\ 0 <= Off(c) /\ Off(c) <= Ahead(c) /\ Ahead(c) <= c.snd + 1 /\ 0 <= c.snd
         /\ 2 * (c.snd + 4) < M
         /\ c.una \in Seqs /\ c.nxt \in Seqs /\ c.max \in Seqs /\ M \in Int
BY TcbFields, OffType, Constants DEF Ready, Counted, Roomy

(* Is len more than can be sent?                                           *)
LEMMA SegmentLength ==
  ASSUME NEW c \in Tcb, NEW f \in {0, 1}
  PROVE  LET len == Less(Wanted(c, f), maxseg) IN
         /\ Wanted(c, f) \in Int /\ len \in Int
         /\ len <= c.snd - Off(c)
         /\ len <= Wanted(c, f)
         /\ c.snd = 0 /\ c.wnd >= 0 => Wanted(c, f) = 0 - Off(c)
         /\ Wanted(c, f) <= 0 => len = Wanted(c, f)
<1>1. c.snd \in Nat /\ c.wnd \in Int /\ Off(c) \in Int /\ maxseg \in Nat /\ maxseg > 0
  BY TcbFields, OffType, Constants
<1> QED BY <1>1 DEF Wanted, Less

(* What goes out of a connection.                                          *)
Goes(c, s) ==
  /\ s \in Segments
  /\ s.flags = {"SYN"} \/ s.flags \cap {"ACK", "RST"} # {}
  /\ "SYN" \in s.flags =>
       /\ Half(c) /\ s.win >= 0
       /\ c.st = "SYN_SENT" => s.flags = {"SYN"}
       /\ c.st = "SYN_RECEIVED" => s.flags = {"SYN", "ACK"} /\ s.ack = c.rnxt
       /\ Ready(c) => s.len = 0 /\ s.seq = c.iss

LEMMA SegmentGoes ==
  ASSUME Roomy, NEW c \in Tcb, NEW f \in {0, 1}, NEW len, len = Less(Wanted(c, f), maxseg), len >= 0
  PROVE  Goes(c, Segment(c, len))
<1> DEFINE s == Segment(c, len)
<1>1. len \in Nat
  BY SegmentLength
<1>2. Off(c) \in Int /\ Win(c) \in Int /\ Win(c) >= 0
  BY OffType, WinType
<1>3. c.st \in States /\ c.base \in Nat /\ c.nxt \in Seqs /\ c.rnxt \in Seqs
  BY TcbFields
<1>4. c.base + Off(c) \in Int
  BY <1>2, <1>3
<1>5. Outflags(c, len) \in SUBSET {"SYN", "ACK", "FIN", "RST", "CUT"}
  BY <1>3, OutflagsAre
<1>6. s \in Segments /\ s.flags = Outflags(c, len) /\ s.ack = c.rnxt /\ s.win = Win(c)
      /\ s.len = len /\ s.seq = c.nxt
  BY <1>1, <1>2, <1>3, <1>4, <1>5 DEF Segment, Segments
<1>7. ASSUME Half(c), Ready(c)
      PROVE  len = 0 /\ c.nxt = c.iss
  <2>1. c.snd = 0 /\ c.una = c.iss /\ c.wnd >= 0
    BY <1>7 DEF Ready, Clocked
  <2>2. Off(c) >= 0 /\ c.una \in Seqs /\ c.nxt \in Seqs
    BY <1>7, ReadyNumbers
  <2>3. len <= 0 - Off(c)
    BY <2>1, SegmentLength
  <2>4. len = 0 /\ Off(c) = 0
    BY <1>1, <1>2, <2>2, <2>3
  <2>5. c.nxt = c.una
    BY <2>2, <2>4, DiffZero DEF Off
  <2> QED BY <2>1, <2>4, <2>5
<1> HIDE DEF s
<1>8. Goes(c, s)
  BY <1>2, <1>3, <1>6, <1>7, OutflagsAre DEF Goes
<1> QED BY <1>8 DEF s

(* The result of one turn of tcp_output, whatever c is.                    *)
LEMMA OutputOneType ==
  ASSUME Roomy, NEW c \in Tcb, NEW f \in {0, 1}
  PROVE  LET r == OutputOne(c, f) IN
         /\ r \in [c : Tcb, out : Seq(Segments), more : BOOLEAN]
         /\ Same(c, r.c)
         /\ r.more => f = 0
         /\ \A i \in DOMAIN r.out : Goes(c, r.out[i])
<1> DEFINE len == Less(Wanted(c, f), maxseg)
<1>0. len \in Int /\ len = Less(Wanted(c, f), maxseg)
  BY SegmentLength
<1>1. CASE len < 0
  <2>1. OutputOne(c, f) = Res(c, <<>>)
    BY <1>1 DEF OutputOne
  <2> QED BY <2>1 DEF Res, Same
<1>2. CASE ~ (len < 0) /\ ~Worth(c, len, f)
  <2>1. OutputOne(c, f) = Res(Polling(c), <<>>)
    BY <1>2 DEF OutputOne
  <2> QED BY <2>1, PollingIs DEF Res
<1>3. CASE ~ (len < 0) /\ Worth(c, len, f)
  <2> DEFINE b == IF f = 1 THEN Forced(c) ELSE Advanced(c, len)
             more == len < Wanted(c, f) /\ f = 0
  <2>1. OutputOne(c, f) = [c |-> Announced(b), out |-> <<Segment(c, len)>>, more |-> more]
    BY <1>3 DEF OutputOne
  <2>2. len \in Nat
    BY <1>0, <1>3
  <2>3. b \in Tcb /\ Same(c, b)
    BY <2>2, ForcedIs, AdvancedIs
  <2>4. Goes(c, Segment(c, len))
    BY <1>0, <1>3, SegmentGoes
  <2>5. more \in BOOLEAN /\ (more => f = 0)
    OBVIOUS
  <2> HIDE DEF b, len, more
  <2>6. Announced(b) \in Tcb /\ Same(b, Announced(b))
    BY <2>3, AnnouncedIs
  <2>7. Same(c, Announced(b))
    BY <2>3, <2>6 DEF Same
  <2>8. Segment(c, len) \in Segments
    BY <2>4 DEF Goes
  <2>9. <<Segment(c, len)>> \in Seq(Segments)
        /\ \A i \in DOMAIN <<Segment(c, len)>> : <<Segment(c, len)>>[i] = Segment(c, len)
    BY <2>8
  <2> QED BY <2>1, <2>4, <2>5, <2>6, <2>7, <2>9
<1> QED BY <1>0, <1>1, <1>2, <1>3

(* A segment sent leaves the control block in order.                       *)
LEMMA AdvancedReady ==
  ASSUME Roomy, NEW c, Ready(c), ~Unused(c),
         NEW len, len = Less(Wanted(c, 0), maxseg), len >= 0
  PROVE  LET d == Advanced(c, len) IN
         Counted(d) /\ Clocked(d) /\ (Half(d) => Off(d) = 1)
<1> DEFINE d == Advanced(c, len)
           x == IF Outflags(c, len) \cap {"SYN", "FIN"} = {} THEN 0 ELSE 1
           k == Off(c) + len + x
<1>1. /\ c \in Tcb /\ c.snd \in Int /\ Off(c) \in Int /\ Ahead(c) \in Int
      /\ 0 <= Off(c) /\ Off(c) <= Ahead(c) /\ Ahead(c) <= c.snd + 1 /\ 0 <= c.snd
      /\ 2 * (c.snd + 4) < M
      /\ c.una \in Seqs /\ c.nxt \in Seqs /\ c.max \in Seqs /\ M \in Int
  BY ReadyNumbers
<1>2. len \in Nat /\ len <= c.snd - Off(c)
  BY <1>1, SegmentLength
<1>3. x \in {0, 1} /\ (x = 1 <=> Outflags(c, len) \cap {"SYN", "FIN"} # {})
  OBVIOUS
<1>4. /\ d \in Tcb /\ Same(c, d) /\ d.flags = c.flags
      /\ d.nxt = Sq(c.nxt + len + x) /\ d.max = Later(d.nxt, c.max)
      /\ d.timers = (c.timers \ {"PERSIST"})
                      \cup {y \in {"REXMT"} : "REXMT" \notin c.timers /\ d.nxt # c.una}
  BY <1>1, <1>2, AdvancedIs DEF After
<1> HIDE DEF d, x
<1>5. k \in Int /\ Off(c) <= k /\ k <= c.snd + 1
  BY <1>1, <1>2, <1>3
<1>6. c.nxt + len + x = c.nxt + (len + x) /\ len + x \in Int
  BY <1>1, <1>2, <1>3, SeqsInt
<1>7. 2 * (Off(c) + (len + x)) < M /\ 2 * (Off(c) + (len + x)) >= 0 - M
      /\ Off(c) + (len + x) = k
  BY <1>1, <1>2, <1>3
<1>8. d.nxt \in Seqs /\ Diff(d.nxt, c.una) = k
  BY <1>1, <1>4, <1>6, <1>7, DiffPlus DEF Off
<1>9. d.una = c.una /\ d.st = c.st /\ d.snd = c.snd /\ d.wnd = c.wnd /\ d.iss = c.iss
  BY <1>4 DEF Same
<1> HIDE DEF k
<1>10. Off(d) = k
  BY <1>8, <1>9 DEF Off
<1>11. Ahead(d) = IF k > Ahead(c) THEN k ELSE Ahead(c)
  <2>1. 2 * (k - Ahead(c)) < M /\ 2 * (k - Ahead(c)) >= 0 - M
    BY <1>1, <1>5
  <2> QED BY <1>1, <1>4, <1>8, <1>9, <2>1, LaterIs DEF Ahead
<1>12. d.nxt # c.una <=> k # 0
  BY <1>1, <1>8, DiffSelf, DiffZero
<1>13. "REXMT" \in d.timers <=> "REXMT" \in c.timers \/ k # 0
  BY <1>4, <1>12
<1>14. Counted(d)
  BY <1>1, <1>5, <1>9, <1>10, <1>11, <1>13 DEF Ready, Counted
<1>15. ASSUME Done(c)
       PROVE  k = 0 /\ c.snd = 0 /\ Off(c) = 0 /\ Ahead(c) <= 1 /\ "REXMT" \notin c.timers
  <2>1. c.snd = 0 /\ Off(c) = 0 /\ Ahead(c) <= 1 /\ "REXMT" \notin c.timers
    BY <1>15 DEF Ready, Clocked
  <2>2. Outflags(c, len) = {"ACK"}
    BY <1>15 DEF Done, Outflags
  <2>3. x = 0
    BY <1>3, <2>2
  <2> QED BY <1>1, <1>2, <1>7, <2>1, <2>3
<1>16. Done(d) => d.snd = 0 /\ Off(d) = 0 /\ Ahead(d) <= 1 /\ "REXMT" \notin d.timers
  BY <1>1, <1>9, <1>10, <1>11, <1>13, <1>15 DEF Done
<1>17. \A u, v \in d.timers : u = v
  <2>1. \A u, v \in c.timers : u = v
    BY DEF Ready, Clocked
  <2>2. CASE k = 0 \/ "REXMT" \in c.timers
    <3>1. d.timers \subseteq c.timers
      BY <1>4, <1>12, <2>2
    <3> QED BY <2>1, <3>1
  <2>3. CASE k # 0 /\ "REXMT" \notin c.timers
    <3>1. "2MSL" \notin c.timers
      BY <1>15, <2>3 DEF Ready, Clocked, Done
    <3>2. c.timers \subseteq {"PERSIST"}
      BY <1>1, <2>3, <3>1, TcbFields
    <3> QED BY <1>4, <3>2
  <2> QED BY <2>2, <2>3
<1>18. "2MSL" \in d.timers <=> d.st = "TIME_WAIT"
  BY <1>4, <1>9 DEF Ready, Clocked
<1>19. Half(d) => d.snd = 0 /\ d.una = d.iss /\ d.wnd >= 0 /\ Off(d) = 1
  <2> SUFFICES ASSUME Half(d) PROVE d.snd = 0 /\ d.una = d.iss /\ d.wnd >= 0 /\ Off(d) = 1
    OBVIOUS
  <2>1. Half(c)
    BY <1>9 DEF Half
  <2>2. c.snd = 0 /\ c.una = c.iss /\ c.wnd >= 0
    BY <2>1 DEF Ready, Clocked
  <2>3. "SYN" \in Outflags(c, len)
    BY <1>1, <2>1, TcbFields, OutflagsAre
  <2>4. x = 1
    BY <1>3, <2>3
  <2>5. k = 1
    BY <1>1, <1>2, <1>5, <1>7, <2>2, <2>4
  <2> QED BY <1>9, <1>10, <2>2, <2>5
<1>20. ~Unused(d)
  BY <1>9 DEF Unused
<1>21. Clocked(d)
  BY <1>16, <1>17, <1>18, <1>19, <1>20 DEF Clocked
<1> QED BY <1>14, <1>19, <1>21 DEF d

(* And a forced byte.                                                      *)
LEMMA ForcedReady ==
  ASSUME Roomy, NEW c, Ready(c), ~Unused(c), ~Half(c), "PERSIST" \in c.timers
  PROVE  Counted(Forced(c)) /\ Clocked(Forced(c)) /\ ~Half(Forced(c))
<1> DEFINE d == Forced(c)
<1>1. /\ c \in Tcb /\ c.snd \in Int /\ Off(c) \in Int /\ Ahead(c) \in Int
      /\ 0 <= Off(c) /\ Off(c) <= Ahead(c) /\ Ahead(c) <= c.snd + 1 /\ 0 <= c.snd
      /\ 2 * (c.snd + 4) < M
      /\ c.una \in Seqs /\ c.nxt \in Seqs /\ c.max \in Seqs /\ M \in Int
  BY ReadyNumbers
<1>2. /\ Same(c, d) /\ d.flags = c.flags
      /\ d.nxt = c.nxt /\ d.timers = c.timers /\ d.max = Later(Sq(c.una + 1), c.max)
  BY <1>1, ForcedIs
<1> HIDE DEF d
<1>3. d.una = c.una /\ d.st = c.st /\ d.snd = c.snd /\ d.wnd = c.wnd /\ d.iss = c.iss
  BY <1>2 DEF Same
<1>4. "REXMT" \notin c.timers
  BY DEF Ready, Clocked
<1>5. Off(c) = 0 /\ Ahead(c) <= 1
  BY <1>1, <1>4 DEF Ready, Counted
<1>6. Off(d) = 0
  BY <1>2, <1>3, <1>5 DEF Off
<1>7. Sq(c.una + 1) \in Seqs /\ Diff(Sq(c.una + 1), c.una) = 1
  BY <1>1, DiffBeyond
<1>8. Ahead(d) = 1
  <2>1. 2 * (1 - Ahead(c)) < M /\ 2 * (1 - Ahead(c)) >= 0 - M
    BY <1>1, <1>5
  <2> QED BY <1>1, <1>2, <1>3, <1>5, <1>7, <2>1, LaterIs DEF Ahead
<1>9. Counted(d)
  BY <1>1, <1>2, <1>3, <1>4, <1>6, <1>8 DEF Ready, Counted
<1>10. ~Unused(d) /\ ~Half(d) /\ (Done(d) => Done(c))
  BY <1>3 DEF Unused, Half, Done
<1>11. Clocked(d)
  BY <1>1, <1>2, <1>3, <1>4, <1>6, <1>8, <1>10 DEF Ready, Clocked
<1> QED BY <1>9, <1>10, <1>11 DEF d

(* The clocks and counts do not depend on the rest.                        *)
LEMMA CountsSame ==
  ASSUME NEW c, NEW d, Same(c, d), d.nxt = c.nxt, d.max = c.max, d.timers = c.timers,
         d.flags \subseteq c.flags, Counted(c), Clocked(c)
  PROVE  Counted(d) /\ Clocked(d) /\ Off(d) = Off(c)
<1>1. Off(d) = Off(c) /\ Ahead(d) = Ahead(c)
  BY DEF Off, Ahead, Same
<1>2. d.st = c.st /\ d.snd = c.snd /\ d.wnd = c.wnd /\ d.iss = c.iss /\ d.una = c.una
  BY DEF Same
<1>3. (Unused(d) <=> Unused(c)) /\ (Half(d) <=> Half(c)) /\ (Done(d) <=> Done(c))
  BY <1>2 DEF Unused, Half, Done
<1>4. Counted(d)
  BY <1>1, <1>2 DEF Counted
<1>5. Clocked(d)
  BY <1>1, <1>2, <1>3 DEF Clocked
<1> QED BY <1>1, <1>4, <1>5

(* With nothing to be sent, polling begins or not.                         *)
LEMMA PollingReady ==
  ASSUME Roomy, NEW c, Ready(c), ~Unused(c)
  PROVE  Counted(Polling(c)) /\ Clocked(Polling(c)) /\ Off(Polling(c)) = Off(c)
<1> DEFINE d == Polling(c)
<1>1. c \in Tcb /\ c.snd \in Nat
  BY TcbFields DEF Ready
<1>2. /\ Same(c, d) /\ d.nxt = c.nxt /\ d.max = c.max /\ d.flags = c.flags
      /\ \/ d = c
         \/ c.snd > 0 /\ c.timers \cap {"REXMT", "PERSIST"} = {}
            /\ d.timers = c.timers \cup {"PERSIST"}
  BY <1>1, PollingIs
<1> HIDE DEF d
<1>3. CASE d = c
  BY <1>3 DEF Ready, d
<1>4. CASE c.snd > 0 /\ c.timers \cap {"REXMT", "PERSIST"} = {} /\ d.timers = c.timers \cup {"PERSIST"}
  <2>1. ~Half(c) /\ ~Done(c)
    BY <1>1, <1>4 DEF Ready, Clocked
  <2>2. c.st # "TIME_WAIT"
    BY <2>1 DEF Done
  <2>3. c.timers = {}
    BY <1>1, <1>4, <2>2, TcbFields DEF Ready, Clocked
  <2>4. d.timers = {"PERSIST"}
    BY <1>4, <2>3
  <2>5. Off(d) = Off(c) /\ Ahead(d) = Ahead(c)
    BY <1>2 DEF Off, Ahead, Same
  <2>6. d.st = c.st /\ d.snd = c.snd /\ d.wnd = c.wnd /\ d.iss = c.iss /\ d.una = c.una
    BY <1>2 DEF Same
  <2>7. ~Unused(d) /\ ~Half(d) /\ ~Done(d) /\ d.st # "TIME_WAIT"
    BY <2>1, <2>2, <2>6 DEF Unused, Half, Done
  <2>8. Counted(d)
    BY <2>3, <2>4, <2>5, <2>6 DEF Ready, Counted
  <2>9. Clocked(d)
    BY <2>4, <2>7 DEF Clocked
  <2> QED BY <2>5, <2>8, <2>9 DEF d
<1> QED BY <1>2, <1>3, <1>4

(* One turn of tcp_output keeps a control block in order, and a SYN that   *)
(* is to be sent has been sent.                                            *)
LEMMA OutputOneReady ==
  ASSUME Roomy, NEW c, Ready(c), ~Unused(c), NEW f \in {0, 1},
         f = 1 => "PERSIST" \in c.timers /\ ~Half(c)
  PROVE  Sound(OutputOne(c, f).c)
<1> DEFINE len == Less(Wanted(c, f), maxseg)
           r == OutputOne(c, f)
<1>1. c \in Tcb
  BY DEF Ready
<1>2. len \in Int /\ len = Less(Wanted(c, f), maxseg)
  BY <1>1, SegmentLength
<1>3. r.c \in Tcb /\ Same(c, r.c)
  BY <1>1, OutputOneType
<1>4. CASE len < 0
  <2>1. r.c = c
    BY <1>4 DEF OutputOne, Res
  <2>2. ASSUME Half(c) PROVE Off(c) = 1
    <3>1. c.snd = 0 /\ c.wnd >= 0
      BY <2>2 DEF Ready, Clocked
    <3>2. 0 <= Off(c) /\ Off(c) <= 1 /\ Off(c) \in Int
      BY <3>1, ReadyNumbers
    <3>3. Wanted(c, f) = 0 - Off(c)
      BY <1>1, <3>1, SegmentLength
    <3>4. Wanted(c, f) <= 0
      BY <3>2, <3>3
    <3>5. len = Wanted(c, f)
      BY <1>1, <3>4, SegmentLength
    <3> QED BY <1>4, <3>2, <3>3, <3>5
  <2> QED BY <2>1, <2>2 DEF Sound
<1>5. CASE ~ (len < 0) /\ ~Worth(c, len, f)
  <2>1. r.c = Polling(c)
    BY <1>5 DEF OutputOne, Res
  <2>2. ~ Half(c)
    <3> SUFFICES ASSUME Half(c) PROVE FALSE
      OBVIOUS
    <3>1. "SYN" \in Outflags(c, len)
      BY <1>1, TcbFields, OutflagsAre
    <3> QED BY <1>5, <3>1 DEF Worth
  <2>3. Counted(r.c) /\ Clocked(r.c)
    BY <2>1, PollingReady
  <2>4. ~Half(r.c)
    BY <1>3, <2>2 DEF Same, Half
  <2> QED BY <1>3, <2>3, <2>4 DEF Sound, Ready
<1>6. CASE ~ (len < 0) /\ Worth(c, len, f)
  <2> DEFINE b == IF f = 1 THEN Forced(c) ELSE Advanced(c, len)
  <2>1. r.c = Announced(b)
    BY <1>6 DEF OutputOne
  <2>2. len \in Nat /\ len >= 0
    BY <1>2, <1>6
  <2>3. b \in Tcb
    BY <1>1, <2>2, ForcedIs, AdvancedIs
  <2>4. Counted(b) /\ Clocked(b) /\ (Half(b) => Off(b) = 1)
    <3>1. CASE f = 1
      BY <3>1, ForcedReady
    <3>2. CASE f = 0
      BY <1>2, <2>2, <3>2, AdvancedReady
    <3> QED BY <3>1, <3>2
  <2> HIDE DEF b, len, r
  <2>5. /\ Same(b, r.c) /\ r.c.nxt = b.nxt /\ r.c.max = b.max /\ r.c.timers = b.timers
        /\ r.c.flags \subseteq b.flags
    BY <2>1, <2>3, AnnouncedIs
  <2>6. Counted(r.c) /\ Clocked(r.c) /\ Off(r.c) = Off(b)
    BY <2>4, <2>5, CountsSame
  <2>7. Half(r.c) => Half(b)
    BY <2>5 DEF Same, Half
  <2> QED BY <1>3, <2>4, <2>6, <2>7 DEF Sound, Ready, r
<1> QED BY <1>2, <1>4, <1>5, <1>6

(* A function defined by what it is at 0 and by the step from one number   *)
(* to the next.                                                            *)
Iterations(D, h, x, K) ==
  { g \in [0..K -> D] : g[0] = x /\ \A n \in 1..K : g[n] = h[g[n - 1]] }

LEMMA Iterates ==
  ASSUME NEW D, NEW h \in [D -> D], NEW x \in D, NEW K \in Nat
  PROVE  Iterations(D, h, x, K) # {}
<1> DEFINE Has(k) == \E g \in [0..k -> D] : g[0] = x /\ \A n \in 1..k : g[n] = h[g[n - 1]]
           T == { k \in Nat : ~ Has(k) }
<1>1. T \subseteq Nat
  OBVIOUS
<1>2. SUFFICES ASSUME T # {} PROVE FALSE
  BY DEF Iterations
<1>3. PICK k \in T : \A j \in T : k <= j
  BY <1>1, <1>2, NatLeast
<1>4. CASE k = 0
  <2> DEFINE g == [n \in 0..0 |-> x]
  <2>1. g \in [0..0 -> D] /\ g[0] = x /\ 1..0 = {}
    OBVIOUS
  <2> HIDE DEF g
  <2>2. Has(0)
    BY <2>1
  <2> QED BY <1>3, <1>4, <2>2
<1>5. CASE k # 0
  <2>1. k \in Nat /\ k - 1 \in Nat /\ ~ Has(k)
    BY <1>3, <1>5
  <2>2. Has(k - 1)
    <3>1. k - 1 \notin T
      <4> HIDE DEF T
      <4>1. T \subseteq Nat
        BY <1>1
      <4> QED BY <1>3, <2>1, <4>1
    <3> HIDE DEF Has
    <3> QED BY <2>1, <3>1
  <2>3. PICK g \in [0..(k - 1) -> D] : g[0] = x /\ \A n \in 1..(k - 1) : g[n] = h[g[n - 1]]
    BY <2>2
  <2> DEFINE j == [n \in 0..k |-> IF n = k THEN h[g[k - 1]] ELSE g[n]]
  <2>4. g[k - 1] \in D /\ h[g[k - 1]] \in D
    BY <2>1, <2>3
  <2>5. j \in [0..k -> D]
    BY <2>1, <2>3, <2>4
  <2>6. \A n \in 0..(k - 1) : j[n] = g[n]
    BY <2>1
  <2>7. j[k] = h[g[k - 1]]
    BY <2>1
  <2>8. j[0] = x
    BY <2>1, <2>3, <2>6
  <2> HIDE DEF j
  <2>9. ASSUME NEW n \in 1..k
        PROVE  j[n] = h[j[n - 1]]
    <3>1. n - 1 \in 0..(k - 1)
      BY <2>1
    <3>2. j[n - 1] = g[n - 1]
      BY <2>6, <3>1
    <3>3. CASE n = k
      BY <2>7, <3>2, <3>3
    <3>4. CASE n # k
      <4>1. n \in 1..(k - 1) /\ n \in 0..(k - 1)
        BY <2>1, <3>4
      <4> QED BY <2>3, <2>6, <3>2, <4>1
    <3> QED BY <3>3, <3>4
  <2>10. Has(k)
    BY <2>5, <2>8, <2>9
  <2> QED BY <2>1, <2>10
<1> QED BY <1>4, <1>5

-----------------------------------------------------------------------------
Results == [c : Tcb, out : Seq(Segments), more : BOOLEAN]

(* tcp_output can be called: with f, when a byte is forced.                *)
Callable(c, f) == Ready(c) /\ ~Unused(c) /\ (f = 1 => "PERSIST" \in c.timers /\ ~Half(c))

(* What tcp_output may have come to after some turns.                      *)
Outputs(c, f) ==
  { r \in Results :
      /\ Same(c, r.c)
      /\ r.more => f = 0
      /\ \A i \in DOMAIN r.out : Goes(c, r.out[i])
      /\ Callable(c, f) => Sound(r.c) }

Again(r, f) ==
  IF ~r.more THEN r ELSE [OutputOne(r.c, f) EXCEPT !.out = r.out \o @]

(* Where the elements of two sequences, joined, come from.                 *)
LEMMA CatFrom ==
  ASSUME NEW S, NEW c \in Seq(S), NEW d \in Seq(S), NEW i \in DOMAIN (c \o d)
  PROVE  \/ \E j \in DOMAIN c : (c \o d)[i] = c[j]
         \/ \E j \in DOMAIN d : (c \o d)[i] = d[j]
<1> DEFINE m == Len(c)
           n == Len(d)
<1>1. m \in Nat /\ n \in Nat /\ DOMAIN c = 1..m /\ DOMAIN d = 1..n /\ Len(c \o d) = m + n
  BY CatLen
<1>2. c \o d \in Seq(S)
  BY Cat
<1>3. DOMAIN (c \o d) = 1..Len(c \o d)
  BY <1>2
<1>4. i \in 1..(m + n)
  BY <1>1, <1>3
<1>5. (c \o d)[i] = IF i <= m THEN c[i] ELSE d[i - m]
  BY <1>4, CatElement
<1> HIDE DEF m, n
<1>6. CASE i <= m
  <2>1. i \in 1..m
    BY <1>1, <1>4, <1>6
  <2> QED BY <1>1, <1>5, <1>6, <2>1
<1>7. CASE ~(i <= m)
  <2>1. i - m \in 1..n
    BY <1>1, <1>4, <1>7
  <2> QED BY <1>1, <1>5, <1>7, <2>1
<1> QED BY <1>6, <1>7

LEMMA SameGoes ==
  ASSUME NEW c, NEW d, Same(c, d), NEW s, Goes(d, s), Ready(c) /\ Half(c) => Ready(d)
  PROVE  Goes(c, s)
<1>1. d.st = c.st /\ d.rnxt = c.rnxt /\ d.iss = c.iss
  BY DEF Same
<1>2. Half(d) <=> Half(c)
  BY <1>1 DEF Half
<1> QED BY <1>1, <1>2 DEF Goes

LEMMA AgainIn ==
  ASSUME Roomy, NEW c \in Tcb, NEW f \in {0, 1}, NEW r \in Outputs(c, f)
  PROVE  Again(r, f) \in Outputs(c, f)
<1>1. CASE ~r.more
  BY <1>1 DEF Again
<1>2. CASE r.more
  <2> DEFINE q == OutputOne(r.c, f)
             t == [q EXCEPT !.out = r.out \o @]
  <2>1. /\ r \in Results /\ Same(c, r.c) /\ f = 0 /\ \A i \in DOMAIN r.out : Goes(c, r.out[i])
        /\ Callable(c, f) => Sound(r.c)
    BY <1>2 DEF Outputs
  <2>2. r.c \in Tcb /\ r.out \in Seq(Segments)
    BY <2>1 DEF Results
  <2>3. /\ q \in Results /\ Same(r.c, q.c)
        /\ q.more => f = 0
        /\ \A i \in DOMAIN q.out : Goes(r.c, q.out[i])
    BY <2>2, OutputOneType DEF Results
  <2>4. ASSUME Callable(c, f) PROVE Sound(q.c) /\ Ready(r.c)
    <3>1. Ready(r.c)
      BY <2>1, <2>4 DEF Sound
    <3>2. ~Unused(r.c)
      BY <2>1, <2>4 DEF Same, Unused, Callable
    <3> QED BY <2>1, <3>1, <3>2, OutputOneReady
  <2>5. Ready(c) /\ Half(c) => Ready(r.c)
    BY <2>1, <2>4 DEF Callable, Half, Unused
  <2> HIDE DEF q
  <2>6. q.out \in Seq(Segments)
    BY <2>3 DEF Results
  <2>7. r.out \o q.out \in Seq(Segments)
    BY <2>2, <2>6, Cat
  <2>8. t \in Results /\ t.c = q.c /\ t.more = q.more /\ t.out = r.out \o q.out
    BY <2>3, <2>7 DEF Results
  <2> HIDE DEF t
  <2>9. ASSUME NEW i \in DOMAIN t.out PROVE Goes(c, t.out[i])
    <3>1. i \in DOMAIN (r.out \o q.out)
      BY <2>8, <2>9
    <3> DEFINE a == r.out
               b == q.out
    <3>a. a \in Seq(Segments) /\ b \in Seq(Segments) /\ i \in DOMAIN (a \o b) /\ t.out = a \o b
      BY <2>2, <2>6, <2>8, <3>1
    <3>b. \A j \in DOMAIN a : Goes(c, a[j])
      BY <2>1
    <3>c. \A j \in DOMAIN b : Goes(r.c, b[j])
      BY <2>3
    <3> HIDE DEF a, b
    <3>2. \/ \E j \in DOMAIN a : t.out[i] = a[j]
          \/ \E j \in DOMAIN b : t.out[i] = b[j]
      BY <3>a, CatFrom
    <3>3. Goes(c, t.out[i]) \/ Goes(r.c, t.out[i])
      BY <3>b, <3>c, <3>2
    <3> QED BY <2>1, <2>5, <3>3, SameGoes
  <2>10. Same(c, t.c)
    BY <2>1, <2>3, <2>8 DEF Same
  <2>11. t \in Outputs(c, f)
    BY <2>3, <2>4, <2>8, <2>9, <2>10 DEF Outputs
  <2>12. Again(r, f) = t
    BY <1>2 DEF Again, t, q
  <2> QED BY <2>11, <2>12
<1> QED BY <1>1, <1>2

(* tcp_output.                                                             *)
LEMMA OutputIn ==
  ASSUME Roomy, NEW c \in Tcb, NEW f \in {0, 1}
  PROVE  OutputForced(c, f) \in Outputs(c, f)
<1> DEFINE D == Outputs(c, f)
           K == hiwat \div maxseg
           x == OutputOne(c, f)
           h == [r \in D |-> Again(r, f)]
           Good(g) == g = [n \in 0..K |->
                             IF n = 0 THEN OutputOne(c, f)
                             ELSE IF ~g[n - 1].more THEN g[n - 1]
                             ELSE LET r == OutputOne(g[n - 1].c, f)
                                  IN  [r EXCEPT !.out = g[n - 1].out \o @]]
           again == CHOOSE g : Good(g)
<1>1. K \in Nat
  <2>1. hiwat \in Nat /\ maxseg \in Nat \ {0}
    BY Constants
  <2> QED BY <2>1
<1>2. x \in D
  <2>1. x \in Results /\ Same(c, x.c) /\ (x.more => f = 0) /\ \A i \in DOMAIN x.out : Goes(c, x.out[i])
    BY OutputOneType DEF Results
  <2>2. Callable(c, f) => Sound(x.c)
    BY OutputOneReady DEF Callable
  <2> QED BY <2>1, <2>2 DEF Outputs
<1>3. h \in [D -> D]
  BY AgainIn
<1>a. \A r \in D : h[r] = Again(r, f)
  OBVIOUS
<1>4. OutputForced(c, f) = again[K]
  BY DEF OutputForced
<1> HIDE DEF D, K, x, h
<1>5. \E g : Good(g)
  <2>1. PICK g \in [0..K -> D] : g[0] = x /\ \A n \in 1..K : g[n] = h[g[n - 1]]
    <3>1. Iterations(D, h, x, K) # {}
      BY <1>1, <1>2, <1>3, Iterates
    <3> QED BY <3>1 DEF Iterations
  <2>2. ASSUME NEW n \in 0..K PROVE g[n] = IF n = 0 THEN x ELSE Again(g[n - 1], f)
    <3>1. CASE n # 0
      <4>1. n - 1 \in 0..K /\ n \in 1..K
        BY <1>1, <3>1
      <4>2. g[n - 1] \in D
        BY <4>1
      <4> QED BY <1>a, <2>1, <3>1, <4>1, <4>2
    <3> QED BY <2>1, <3>1
  <2>3. g = [n \in 0..K |-> IF n = 0 THEN x ELSE Again(g[n - 1], f)]
    BY <2>1, <2>2
  <2>4. Good(g)
    BY <2>3 DEF Again, x
  <2> HIDE DEF Good
  <2> QED BY <2>4
<1>6. Good(again)
  BY <1>5
<1> HIDE DEF again
<1>7. again = [n \in 0..K |-> IF n = 0 THEN x ELSE Again(again[n - 1], f)]
  BY <1>6 DEF Again, x
<1>8. again[K] \in D
  <2> DEFINE T == { n \in 0..K : again[n] \notin D }
  <2>1. CASE T # {}
    <3>1. T \subseteq Nat
      OBVIOUS
    <3>2. PICK n \in T : \A j \in T : n <= j
      BY <2>1, <3>1, NatLeast
    <3>3. n \in 0..K /\ again[n] \notin D
      BY <3>2
    <3>4. n # 0
      BY <1>2, <1>7, <3>3
    <3>5. n - 1 \in 0..K /\ again[n] = Again(again[n - 1], f)
      BY <1>1, <1>7, <3>3, <3>4
    <3>6. again[n - 1] \in D
      BY <3>2, <3>5
    <3> QED BY <3>3, <3>5, <3>6, AgainIn DEF D
  <2>2. CASE T = {}
    BY <1>1, <2>2
  <2> QED BY <2>1, <2>2
<1> QED BY <1>4, <1>8 DEF D

LEMMA OutputType ==
  ASSUME Roomy, NEW c \in Tcb, NEW f \in {0, 1}
  PROVE  LET r == OutputForced(c, f) IN
         /\ r.c \in Tcb /\ r.out \in Seq(Segments) /\ Same(c, r.c)
         /\ \A i \in DOMAIN r.out : Goes(c, r.out[i])
         /\ Callable(c, f) => Sound(r.c)
BY OutputIn DEF Outputs, Results

Outgoing(e, out) == out \in Seq(Segments) /\ \A i \in DOMAIN out : Travels(Peer(e), out[i])

(* A connection that tcp_output may be called for.                         *)
Live(e, c) == Ready(c) /\ Called(e, c) /\ ~Unused(c)

LEMMA Peers ==
  ASSUME NEW e \in Ends
  PROVE  /\ Peer(e) \in Ends /\ Peer(e) # e /\ Peer(Peer(e)) = e
         /\ Ends = {e, Peer(e)}
         /\ e = Active \/ e = Passive
         /\ e = Active <=> Peer(e) = Passive
         /\ e = Passive <=> Peer(e) = Active
BY Constants DEF Ends, Peer

LEMMA GoesTravels ==
  ASSUME NEW e \in Ends, NEW c, Live(e, c), NEW s, Goes(c, s)
  PROVE  Travels(Peer(e), s)
<1>1. s \in Segments /\ (s.flags = {"SYN"} \/ s.flags \cap {"ACK", "RST"} # {})
  BY DEF Goes
<1>2. ASSUME "SYN" \in s.flags
      PROVE  /\ s.len = 0 /\ s.win >= 0
             /\ e = Active => s.flags = {"SYN"} /\ s.seq = iss[Active]
             /\ e = Passive => s.flags = {"SYN", "ACK"} /\ s.ack = Sq(iss[Active] + 1)
  <2>1. Half(c) /\ s.win >= 0 /\ s.len = 0 /\ s.seq = c.iss
        /\ (c.st = "SYN_SENT" => s.flags = {"SYN"})
        /\ (c.st = "SYN_RECEIVED" => s.flags = {"SYN", "ACK"} /\ s.ack = c.rnxt)
    BY <1>2 DEF Goes, Live
  <2>2. CASE e = Active
    <3>1. c.st = "SYN_SENT" /\ c.iss = iss[Active]
      BY <2>1, <2>2 DEF Half, Live, Called
    <3> QED BY <2>1, <2>2, <3>1, Constants
  <2>3. CASE e = Passive
    <3>1. c.st = "SYN_RECEIVED" /\ c.rnxt = Sq(iss[Active] + 1)
      BY <2>1, <2>3 DEF Half, Live, Called
    <3> QED BY <2>1, <2>3, <3>1, Constants
  <2> QED BY <2>2, <2>3, Peers
<1> QED BY <1>1, <1>2, Peers DEF Travels

(* What Called depends on.                                                 *)
LEMMA CalledSame ==
  ASSUME NEW e, NEW c, NEW d, Called(e, c), d.st = c.st, d.iss = c.iss, d.so = c.so, d.snd = c.snd,
         c.st = "SYN_RECEIVED" => d.rnxt = c.rnxt
  PROVE  Called(e, d)
BY DEF Called, Half, Unused

LEMMA OutputLive ==
  ASSUME Roomy, NEW e \in Ends, NEW c, Live(e, c), NEW f \in {0, 1},
         f = 1 => "PERSIST" \in c.timers /\ ~Half(c)
  PROVE  Fine(e, OutputForced(c, f).c) /\ Outgoing(e, OutputForced(c, f).out)
<1> DEFINE r == OutputForced(c, f)
<1>1. c \in Tcb /\ Callable(c, f)
  BY DEF Live, Ready, Callable
<1>2. /\ r.c \in Tcb /\ r.out \in Seq(Segments) /\ Same(c, r.c)
      /\ \A i \in DOMAIN r.out : Goes(c, r.out[i])
      /\ Sound(r.c)
  BY <1>1, OutputType
<1> HIDE DEF r
<1>3. Called(e, r.c)
  BY <1>2, CalledSame DEF Same, Live
<1>4. Outgoing(e, r.out)
  BY <1>2, GoesTravels DEF Outgoing
<1> QED BY <1>2, <1>3, <1>4 DEF Fine, r

-----------------------------------------------------------------------------
(* tcp_reass.                                                              *)

LEMMA IntMax ==
  ASSUME NEW O, O \subseteq Int, O # {}, NEW b \in Int, \A o \in O : o <= b
  PROVE  \E i \in O : \A j \in O : j <= i
<1> DEFINE T == { n \in Nat : b - n \in O }
<1>1. PICK o \in O : TRUE
  OBVIOUS
<1>2. b - o \in Nat /\ b - (b - o) = o
  BY <1>1
<1>3. T \subseteq Nat /\ T # {}
  BY <1>2
<1>4. PICK n \in T : \A m \in T : n <= m
  BY <1>3, NatLeast
<1>5. ASSUME NEW j \in O PROVE j <= b - n
  <2>1. b - j \in Nat /\ b - (b - j) = j
    BY <1>5
  <2>2. b - j \in T
    BY <2>1
  <2>3. n <= b - j /\ n \in Nat
    BY <1>4, <2>2
  <2> QED BY <2>1, <2>3
<1>6. b - n \in O
  BY <1>4
<1> QED BY <1>5, <1>6

LEMMA EndType ==
  ASSUME NEW q, q.seq \in Seqs, q.len \in Nat
  PROVE  EndOf(q) \in Seqs
BY SeqsInt, SqType DEF EndOf

LEMMA BeheadType ==
  ASSUME NEW q \in Fragment, NEW n \in Int, n <= q.len
  PROVE  Behead(q, n) \in Fragment
<1>1. Sq(q.seq + n) \in Seqs /\ q.len - n \in Nat /\ q.from + n \in Int
  BY SeqsInt, SqType DEF Fragment
<1> QED BY <1>1 DEF Behead, Fragment

LEMMA InsertType ==
  ASSUME NEW Q \in Fragments, NEW s \in Fragment
  PROVE  Insert(Q, s) \in Fragments
<1> DEFINE before == {q \in Q : Diff(q.seq, s.seq) <= 0}
           O == {Diff(EndOf(q), s.seq) : q \in before} \cup {0}
           n == CHOOSE i \in O : \A j \in O : j <= i
           t == Behead(s, n)
           over(q) == Diff(EndOf(t), q.seq)
           A == {q \in Q \ before : over(q) <= 0}
           R == {r \in Q \ before : 0 < over(r) /\ over(r) < r.len}
           B == {Behead(q, over(q)) : q \in R}
<1>1. Q \subseteq Fragment /\ IsFiniteSet(Q)
  BY DEF Fragments
<1>2. M \in Nat \ {0} /\ s.seq \in Seqs /\ s.len \in Nat
  BY Constants DEF Fragment
<1>3. \A q \in Q : EndOf(q) \in Seqs /\ q.seq \in Seqs /\ q.len \in Nat
  BY <1>1, EndType DEF Fragment
<1>4. \A q \in before : Diff(EndOf(q), s.seq) \in Int /\ Diff(EndOf(q), s.seq) <= M
  <2>1. ASSUME NEW q \in before PROVE Diff(EndOf(q), s.seq) \in Int /\ Diff(EndOf(q), s.seq) <= M
    <3>1. Diff(EndOf(q), s.seq) \in Int /\ 2 * Diff(EndOf(q), s.seq) < M
      BY <1>2, <1>3, <2>1, DiffRange
    <3> QED BY <1>2, <3>1
  <2> QED BY <2>1
<1>5. O \subseteq Int /\ O # {} /\ 0 \in O /\ \A o \in O : o <= M
  BY <1>2, <1>4
<1> HIDE DEF O
<1>6. \E i \in O : \A j \in O : j <= i
  <2>1. M \in Int
    BY <1>2
  <2> QED BY <1>5, <2>1, IntMax
<1>7. n \in O /\ \A j \in O : j <= n
  BY <1>6
<1>8. n \in Int /\ 0 <= n
  BY <1>5, <1>7
<1> HIDE DEF n
<1>9. CASE n > 0 /\ n >= s.len
  BY <1>9 DEF Insert, O, n
<1>10. CASE ~ (n > 0 /\ n >= s.len)
  <2>1. n <= s.len
    BY <1>2, <1>8, <1>10
  <2>2. t \in Fragment
    BY <1>8, <2>1, BeheadType
  <2>3. EndOf(t) \in Seqs
    BY <2>2, EndType DEF Fragment
  <2> HIDE DEF t
  <2>4. \A q \in Q : over(q) \in Int
    BY <1>3, <2>3, DiffRange
  <2>5. \A q \in R : Behead(q, over(q)) \in Fragment
    <3>1. ASSUME NEW q \in R PROVE Behead(q, over(q)) \in Fragment
      <4>1. q \in Fragment /\ over(q) \in Int /\ over(q) <= q.len
        BY <1>1, <1>3, <2>4, <3>1
      <4> HIDE DEF over
      <4> QED BY <4>1, BeheadType
    <3> QED BY <3>1
  <2>6. IsFiniteSet(before) /\ IsFiniteSet(A) /\ IsFiniteSet(R)
    <3>1. before \subseteq Q /\ A \subseteq Q /\ R \subseteq Q
      OBVIOUS
    <3> HIDE DEF before, A, R
    <3> QED BY <1>1, <3>1, FS_Subset
  <2>7. IsFiniteSet(B)
    <3> DEFINE f == [q \in R |-> Behead(q, over(q))]
    <3> HIDE DEF R, over
    <3>1. f \in Surjection(R, B)
      BY DEF Surjection
    <3> QED BY <2>6, <3>1, FS_Surjection
  <2>8. before \subseteq Fragment /\ A \subseteq Fragment /\ B \subseteq Fragment
    BY <1>1, <2>5
  <2>9. Insert(Q, s) = {t} \cup before \cup A \cup B
    BY <1>10 DEF Insert, O, n, t
  <2> HIDE DEF before, A, B
  <2>10. IsFiniteSet({t})
    BY FS_Singleton
  <2>11. IsFiniteSet({t} \cup before)
    BY <2>6, <2>10, FS_Union
  <2>12. IsFiniteSet({t} \cup before \cup A)
    BY <2>6, <2>11, FS_Union
  <2>13. IsFiniteSet({t} \cup before \cup A \cup B)
    BY <2>7, <2>12, FS_Union
  <2> QED BY <2>2, <2>8, <2>9, <2>13 DEF Fragments
<1> QED BY <1>9, <1>10

(* What the presentation of data to the user does not change.              *)
Reads(c, d) ==
  /\ d.st = c.st /\ d.iss = c.iss /\ d.una = c.una /\ d.nxt = c.nxt /\ d.max = c.max
  /\ d.wnd = c.wnd /\ d.snd = c.snd /\ d.timers = c.timers /\ d.flags = c.flags /\ d.so = c.so

LEMMA TakeType ==
  ASSUME NEW c \in Tcb, NEW q \in c.reass
  PROVE  Take(c, q) \in Tcb /\ Reads(c, Take(c, q))
<1>1. q \in Fragment /\ IsFiniteSet(c.reass) /\ c.reass \subseteq Fragment
  BY TcbFields DEF Fragments
<1>2. q.len \in Nat /\ q.from \in Int
  BY <1>1 DEF Fragment
<1>3. EndOf(q) \in Seqs
  BY <1>1, EndType DEF Fragment
<1>4. IsFiniteSet(c.reass \ {q})
  BY <1>1, FS_Subset
<1>5. c.reass \ {q} \in Fragments
  BY <1>1, <1>4 DEF Fragments
<1> DEFINE news == [i \in 1..q.len |-> q.from + i]
<1>6. news \in Seq(Int)
  BY <1>2
<1> HIDE DEF news
<1>7. c.got \o news \in Seq(Int)
  BY <1>6, Cat, TcbFields
<1> DEFINE k == IF "CANTRCV" \in c.so THEN c.rcv ELSE c.rcv + q.len
           g == c.got \o news
           Q == c.reass \ {q}
           n == EndOf(q)
<1>8. k \in Nat
  BY <1>2, TcbFields
<1>9. Take(c, q) = [c EXCEPT !.rnxt = n, !.reass = Q, !.got = g, !.rcv = k]
  BY DEF Take, news
<1>10. n \in Seqs /\ Q \in Fragments /\ g \in Seq(Int)
  BY <1>3, <1>5, <1>7
<1> HIDE DEF k, g, Q, n
<1> QED BY <1>8, <1>9, <1>10 DEF Tcb, Reads

(* The fragments whose time has come, and the turn of one of them.         *)
Ripe(d)    == { q \in d.reass : q.seq = d.rnxt }
Turn(r)    == LET q == CHOOSE q \in Ripe(r.c) : TRUE
              IN  [c |-> Take(r.c, q), fin |-> q.fin]
Taken(r)   == IF Ripe(r.c) = {} THEN r ELSE Turn(r)
Presents(c) == { r \in [c : Tcb, fin : BOOLEAN] : Reads(c, r.c) }

LEMMA TakenIn ==
  ASSUME NEW c \in Tcb, NEW r \in Presents(c)
  PROVE  Taken(r) \in Presents(c)
<1>1. r.c \in Tcb /\ Reads(c, r.c)
  BY DEF Presents
<1>2. CASE Ripe(r.c) # {}
  <2> DEFINE q == CHOOSE q \in Ripe(r.c) : TRUE
  <2>1. q \in Ripe(r.c)
    BY <1>2
  <2>2. Taken(r) = [c |-> Take(r.c, q), fin |-> q.fin]
    BY <1>2 DEF Taken, Turn
  <2> HIDE DEF q
  <2>3. q \in r.c.reass
    BY <2>1 DEF Ripe
  <2>4. q \in Fragment
    BY <1>1, <2>3, TcbFields DEF Fragments
  <2>5. q.fin \in BOOLEAN
    BY <2>4 DEF Fragment
  <2>6. Take(r.c, q) \in Tcb /\ Reads(r.c, Take(r.c, q))
    BY <1>1, <2>3, TakeType
  <2>7. Reads(c, Take(r.c, q))
    BY <1>1, <2>6 DEF Reads
  <2> QED BY <2>2, <2>5, <2>6, <2>7 DEF Presents
<1>3. CASE Ripe(r.c) = {}
  BY <1>3 DEF Taken
<1> QED BY <1>2, <1>3

LEMMA PresentIn ==
  ASSUME NEW c \in Tcb
  PROVE  Present(c) \in Presents(c)
<1> DEFINE D == Presents(c)
           K == Cardinality(c.reass)
           x == [c |-> c, fin |-> FALSE]
           h == [r \in D |-> Taken(r)]
           Good(g) == g = [n \in 0..K |->
                             IF n = 0 THEN [c |-> c, fin |-> FALSE]
                             ELSE LET d    == g[n - 1].c
                                      next == {q \in d.reass : q.seq = d.rnxt}
                                  IN  IF next = {} THEN g[n - 1]
                                      ELSE LET q == CHOOSE r \in next : TRUE
                                           IN  [c |-> Take(d, q), fin |-> q.fin]]
           taken == CHOOSE g : Good(g)
<1>1. K \in Nat
  <2>1. IsFiniteSet(c.reass)
    BY TcbFields DEF Fragments
  <2> QED BY <2>1, FS_CardinalityType
<1>2. x \in D
  BY DEF Presents, Reads
<1>3. h \in [D -> D]
  BY TakenIn
<1>a. \A r \in D : h[r] = Taken(r)
  OBVIOUS
<1>4. Present(c) = taken[K]
  BY DEF Present
<1> HIDE DEF D, K, x, h
<1>5. \E g : Good(g)
  <2>1. PICK g \in [0..K -> D] : g[0] = x /\ \A n \in 1..K : g[n] = h[g[n - 1]]
    <3>1. Iterations(D, h, x, K) # {}
      BY <1>1, <1>2, <1>3, Iterates
    <3> QED BY <3>1 DEF Iterations
  <2>2. ASSUME NEW n \in 0..K PROVE g[n] = IF n = 0 THEN x ELSE Taken(g[n - 1])
    <3>1. CASE n # 0
      <4>1. n - 1 \in 0..K /\ n \in 1..K
        BY <1>1, <3>1
      <4>2. g[n - 1] \in D
        BY <4>1
      <4> QED BY <1>a, <2>1, <3>1, <4>1, <4>2
    <3> QED BY <2>1, <3>1
  <2>3. g = [n \in 0..K |-> IF n = 0 THEN x ELSE Taken(g[n - 1])]
    BY <2>1, <2>2
  <2>4. Good(g)
    BY <2>3 DEF Taken, Turn, Ripe, x
  <2> HIDE DEF Good, taken
  <2> QED BY <2>4
<1>6. Good(taken)
  BY <1>5
<1> HIDE DEF taken
<1>7. taken = [n \in 0..K |-> IF n = 0 THEN x ELSE Taken(taken[n - 1])]
  BY <1>6 DEF Taken, Turn, Ripe, x
<1>8. taken[K] \in D
  <2> DEFINE T == { n \in 0..K : taken[n] \notin D }
  <2>1. CASE T # {}
    <3>1. T \subseteq Nat
      OBVIOUS
    <3>2. PICK n \in T : \A j \in T : n <= j
      BY <2>1, <3>1, NatLeast
    <3>3. n \in 0..K /\ taken[n] \notin D
      BY <3>2
    <3>4. n # 0
      BY <1>2, <1>7, <3>3
    <3>5. n - 1 \in 0..K /\ taken[n] = Taken(taken[n - 1])
      BY <1>1, <1>7, <3>3, <3>4
    <3>6. taken[n - 1] \in D
      BY <3>2, <3>5
    <3> QED BY <3>3, <3>5, <3>6, TakenIn DEF D
  <2>2. CASE T = {}
    BY <1>1, <2>2
  <2> QED BY <2>1, <2>2
<1> QED BY <1>4, <1>8 DEF D

-----------------------------------------------------------------------------
(* The numbers of two control blocks are the same.                         *)
LEMMA ReadsReady ==
  ASSUME NEW c, NEW d \in Tcb, Reads(c, d), Ready(c)
  PROVE  Ready(d) /\ (Unused(d) <=> Unused(c)) /\ (Half(d) <=> Half(c))
<1>1. Off(d) = Off(c) /\ Ahead(d) = Ahead(c)
  BY DEF Off, Ahead, Reads
<1>2. (Unused(d) <=> Unused(c)) /\ (Half(d) <=> Half(c)) /\ (Done(d) <=> Done(c))
  BY DEF Unused, Half, Done, Reads
<1>3. Counted(d)
  BY <1>1 DEF Ready, Counted, Reads
<1>4. Clocked(d)
  BY <1>1, <1>2 DEF Ready, Clocked, Reads
<1> QED BY <1>2, <1>3, <1>4 DEF Ready

(* The FIN.                                                                *)
LEMMA FinnedLive ==
  ASSUME NEW e \in Ends, NEW c, Live(e, c), ~Half(c), c.st # "TIME_WAIT"
  PROVE  Live(e, Finned(c)) /\ ~Half(Finned(c))
<1> DEFINE so == c.so \cup {"CANTRCV"}
           fl == c.flags \cup {"ACKNOW"}
           rn == Sq(c.rnxt + 1)
           d  == [c EXCEPT !.so = so, !.flags = fl, !.rnxt = rn, !.eof = TRUE]
<1>1. c \in Tcb /\ so \in SUBSET SoStates /\ fl \in SUBSET {"ACKNOW", "DELACK"} /\ rn \in Seqs
  BY TcbFields, SeqsInt, SqType DEF Live, Ready, SoStates
<1>2. ("CANTSEND" \in so <=> "CANTSEND" \in c.so) /\ ("CONNECTED" \in so <=> "CONNECTED" \in c.so)
      /\ so # {} /\ c.so # {}
  <2>1. c.so # {}
    BY Peers DEF Live, Called, Unused, Half
  <2> QED BY <2>1
<1> HIDE DEF so, fl, rn
<1>3. /\ d \in Tcb /\ d.st = c.st /\ d.iss = c.iss /\ d.una = c.una /\ d.nxt = c.nxt /\ d.max = c.max
      /\ d.wnd = c.wnd /\ d.snd = c.snd /\ d.timers = c.timers /\ d.so = so
  BY <1>1 DEF Tcb
<1>4. Finned(c) = CASE c.st = "ESTABLISHED" -> [d EXCEPT !.st = "CLOSE_WAIT"]
                    [] c.st = "FIN_WAIT_1"  -> [d EXCEPT !.st = "CLOSING"]
                    [] c.st = "FIN_WAIT_2"  -> Timewait(d)
                    [] OTHER                -> d
  BY DEF Finned, so, fl, rn
<1> HIDE DEF d
<1>5. c.st \notin {"CLOSED", "LISTEN", "SYN_SENT", "SYN_RECEIVED", "TIME_WAIT"} /\ c.st \in States
  BY <1>1, TcbFields DEF Live, Unused, Half
<1>6. Counted(c) /\ Clocked(c)
  BY DEF Live, Ready
<1>7. /\ e = Active  => c.iss = iss[Active]
      /\ c.st \in Closing => "CANTSEND" \in so
  BY <1>2 DEF Live, Called
<1>8. ASSUME NEW t \in Tcb,
             t.iss = d.iss, t.una = d.una, t.nxt = d.nxt, t.max = d.max, t.snd = d.snd,
             t.timers = d.timers, t.so = d.so,
             \/ t.st = d.st
             \/ d.st = "ESTABLISHED" /\ t.st = "CLOSE_WAIT"
             \/ d.st = "FIN_WAIT_1" /\ t.st = "CLOSING"
      PROVE  Live(e, t) /\ ~Half(t)
  <2>1. Off(t) = Off(c) /\ Ahead(t) = Ahead(c)
    BY <1>3, <1>8 DEF Off, Ahead
  <2>2. ~Unused(t) /\ ~Half(t) /\ (Done(t) => Done(c)) /\ t.st # "TIME_WAIT"
    BY <1>3, <1>5, <1>8 DEF Unused, Half, Done
  <2>3. Counted(t)
    BY <1>3, <1>6, <1>8, <2>1 DEF Counted
  <2>4. Clocked(t)
    BY <1>3, <1>5, <1>6, <1>8, <2>1, <2>2 DEF Clocked
  <2>5. t.st \in Closing => "CANTSEND" \in t.so
    BY <1>3, <1>7, <1>8 DEF Closing
  <2>6. Called(e, t)
    BY <1>2, <1>3, <1>7, <1>8, <2>2, <2>5 DEF Called, Unused, Half
  <2> QED BY <2>2, <2>3, <2>4, <2>6 DEF Live, Ready
<1>9. CASE c.st = "ESTABLISHED"
  <2>1. Finned(c) = [d EXCEPT !.st = "CLOSE_WAIT"]
    BY <1>4, <1>9
  <2>2. [d EXCEPT !.st = "CLOSE_WAIT"] \in Tcb
    BY <1>3 DEF Tcb, States
  <2> QED BY <1>3, <1>8, <1>9, <2>1, <2>2 DEF Tcb
<1>10. CASE c.st = "FIN_WAIT_1"
  <2>1. Finned(c) = [d EXCEPT !.st = "CLOSING"]
    BY <1>4, <1>10
  <2>2. [d EXCEPT !.st = "CLOSING"] \in Tcb
    BY <1>3 DEF Tcb, States
  <2> QED BY <1>3, <1>8, <1>10, <2>1, <2>2 DEF Tcb
<1>11. CASE c.st = "FIN_WAIT_2"
  <2> DEFINE so2 == (d.so \ {"CONNECTING", "CONNECTED", "DISCONNECTING"}) \cup {"CANTSEND", "CANTRCV"}
             t == [d EXCEPT !.so = so2, !.st = "TIME_WAIT", !.timers = {"2MSL"}]
  <2>1. Finned(c) = t
    BY <1>4, <1>11 DEF Timewait, Isdisconnected
  <2>2. so2 \in SUBSET SoStates /\ "CANTSEND" \in so2 /\ "CONNECTED" \notin so2
    BY <1>1, <1>3 DEF SoStates
  <2> HIDE DEF so2
  <2>3. /\ t \in Tcb /\ t.st = "TIME_WAIT" /\ t.timers = {"2MSL"} /\ t.so = so2
        /\ t.iss = c.iss /\ t.una = c.una /\ t.nxt = c.nxt /\ t.max = c.max /\ t.snd = c.snd
    BY <1>3, <2>2 DEF Tcb, States
  <2> HIDE DEF t
  <2>4. Off(t) = Off(c) /\ Ahead(t) = Ahead(c)
    BY <2>3 DEF Off, Ahead
  <2>5. c.snd = 0 /\ Off(c) = 0 /\ Ahead(c) <= 1 /\ "REXMT" \notin c.timers
    BY <1>6, <1>11 DEF Clocked, Done
  <2>6. Counted(t)
    BY <1>6, <2>3, <2>4, <2>5 DEF Counted
  <2>7. ~Unused(t) /\ ~Half(t)
    BY <2>3 DEF Unused, Half
  <2>8. Clocked(t)
    BY <2>3, <2>4, <2>5, <2>7 DEF Clocked
  <2>9. Called(e, t)
    BY <1>7, <2>2, <2>3, <2>7 DEF Called
  <2> QED BY <2>1, <2>3, <2>6, <2>7, <2>8, <2>9 DEF Live, Ready
<1>12. CASE c.st \notin {"ESTABLISHED", "FIN_WAIT_1", "FIN_WAIT_2"}
  <2>1. Finned(c) = d
    BY <1>4, <1>12
  <2> QED BY <1>3, <1>8, <2>1
<1> QED BY <1>9, <1>10, <1>11, <1>12

LEMMA QueuedType ==
  ASSUME NEW s \in Segments
  PROVE  Queued(s) \in Fragment
BY DEF Queued, Segments, Fragment

(* The text of a segment.                                                  *)
LEMMA TextLive ==
  ASSUME NEW e \in Ends, NEW c, Live(e, c), NEW s \in Segments,
         Half(c) => s.len = 0 /\ "FIN" \notin s.flags
  PROVE  Live(e, Text(c, s))
<1> DEFINE Q == Insert(c.reass, Queued(s))
           fl == c.flags \cup {"DELACK"}
           b  == [c EXCEPT !.reass = Q, !.flags = fl]
           r  == Present(b)
<1>1. CASE (s.len = 0 /\ "FIN" \notin s.flags) \/ c.st = "TIME_WAIT"
  BY <1>1 DEF Text
<1>2. CASE ~ ((s.len = 0 /\ "FIN" \notin s.flags) \/ c.st = "TIME_WAIT")
  <2>1. c \in Tcb /\ ~Half(c) /\ ~Unused(c) /\ Called(e, c) /\ Ready(c)
    BY <1>2 DEF Live, Ready
  <2>2. Q \in Fragments /\ fl \in SUBSET {"ACKNOW", "DELACK"}
    BY <2>1, TcbFields, QueuedType, InsertType
  <2>3. Text(c, s) = IF r.fin THEN Finned(r.c) ELSE r.c
    BY <1>2 DEF Text
  <2> HIDE DEF Q, fl
  <2>4. /\ b \in Tcb /\ b.timers = c.timers /\ b.flags = fl /\ b.st = c.st /\ b.iss = c.iss
        /\ b.una = c.una /\ b.nxt = c.nxt /\ b.max = c.max /\ b.wnd = c.wnd /\ b.snd = c.snd
        /\ b.so = c.so /\ b.rnxt = c.rnxt
    BY <2>1, <2>2 DEF Tcb
  <2> HIDE DEF b
  <2>5. Off(b) = Off(c) /\ Ahead(b) = Ahead(c) /\ ~Unused(b) /\ ~Half(b) /\ (Done(b) <=> Done(c))
    BY <2>1, <2>4 DEF Off, Ahead, Unused, Half, Done
  <2>6. Counted(b)
    BY <2>1, <2>4, <2>5 DEF Ready, Counted
  <2>7. Clocked(b)
    BY <2>1, <2>4, <2>5 DEF Ready, Clocked
  <2>8. Ready(b)
    BY <2>4, <2>6, <2>7 DEF Ready
  <2>9. r.c \in Tcb /\ Reads(b, r.c)
    BY <2>4, PresentIn DEF Presents
  <2> HIDE DEF r
  <2>10. Ready(r.c) /\ ~Unused(r.c) /\ ~Half(r.c)
    BY <2>5, <2>8, <2>9, ReadsReady
  <2>11. r.c.st = c.st /\ r.c.iss = c.iss /\ r.c.so = c.so /\ r.c.snd = c.snd /\ c.st # "SYN_RECEIVED"
    BY <2>1, <2>4, <2>9 DEF Reads, Half
  <2>12. Called(e, r.c)
    BY <2>1, <2>11, CalledSame
  <2>13. Live(e, r.c) /\ r.c.st # "TIME_WAIT"
    BY <1>2, <2>10, <2>11, <2>12 DEF Live
  <2> QED BY <2>3, <2>10, <2>13, FinnedLive
<1> QED BY <1>1, <1>2

(* Window information.                                                     *)
LEMMA WindowLive ==
  ASSUME NEW e \in Ends, NEW c, Live(e, c), NEW s \in Segments, Half(c) => s.win >= 0
  PROVE  Live(e, Window(c, s)) /\ Window(c, s).st = c.st
<1>1. CASE Newer(c, s)
  <2> DEFINE T == IF s.win > 0 THEN c.timers \ {"PERSIST"} ELSE c.timers
             d == [c EXCEPT !.wnd = s.win, !.wl1 = s.seq, !.wl2 = s.ack, !.timers = T]
  <2>1. Window(c, s) = d
    BY <1>1 DEF Window
  <2>2. c \in Tcb /\ ~Unused(c) /\ Called(e, c) /\ Counted(c) /\ Clocked(c)
    BY DEF Live, Ready
  <2>3. s.win \in Int /\ s.seq \in Int /\ s.ack \in Int
    BY SeqsInt DEF Segments
  <2>4. T \subseteq c.timers /\ ("REXMT" \in T <=> "REXMT" \in c.timers)
        /\ ("2MSL" \in T <=> "2MSL" \in c.timers)
    OBVIOUS
  <2>5. T \in SUBSET {"REXMT", "PERSIST", "2MSL"}
    BY <2>2, <2>4, TcbFields
  <2> HIDE DEF T
  <2>6. /\ d \in Tcb /\ d.timers = T /\ d.flags = c.flags /\ d.st = c.st /\ d.iss = c.iss
        /\ d.una = c.una /\ d.nxt = c.nxt /\ d.max = c.max /\ d.wnd = s.win /\ d.snd = c.snd
        /\ d.so = c.so /\ d.rnxt = c.rnxt
    BY <2>2, <2>3, <2>5 DEF Tcb
  <2> HIDE DEF d
  <2>7. Off(d) = Off(c) /\ Ahead(d) = Ahead(c) /\ ~Unused(d)
        /\ (Half(d) <=> Half(c)) /\ (Done(d) <=> Done(c))
    BY <2>2, <2>6 DEF Off, Ahead, Unused, Half, Done
  <2>8. Counted(d)
    BY <2>2, <2>4, <2>6, <2>7 DEF Counted
  <2>9. Clocked(d)
    BY <2>2, <2>4, <2>6, <2>7 DEF Clocked
  <2>10. Called(e, d)
    BY <2>2, <2>6, CalledSame
  <2> QED BY <2>1, <2>6, <2>7, <2>8, <2>9, <2>10 DEF Live, Ready
<1>2. CASE ~Newer(c, s)
  BY <1>2 DEF Window
<1> QED BY <1>1, <1>2

LEMMA Step6Fine ==
  ASSUME Roomy, NEW e \in Ends, NEW c, Live(e, c), NEW s \in Segments,
         Half(c) => s.win >= 0 /\ s.len = 0 /\ "FIN" \notin s.flags
  PROVE  Fine(e, Step6(c, s).c) /\ Outgoing(e, Step6(c, s).out)
<1>1. Live(e, Window(c, s)) /\ Window(c, s).st = c.st
  BY WindowLive
<1>2. Half(Window(c, s)) <=> Half(c)
  BY <1>1 DEF Half
<1>3. Live(e, Text(Window(c, s), s))
  BY <1>1, <1>2, TextLive
<1> QED BY <1>3, OutputLive DEF Step6, Output

-----------------------------------------------------------------------------
(* tcp_close.                                                              *)
LEMMA BlankType ==
  ASSUME NEW n \in Seqs
  PROVE  /\ Blank(n) \in Tcb /\ Off(Blank(n)) = 0 /\ Ahead(Blank(n)) = 0
<1>1. 0 \in Seqs
  BY Constants DEF Seqs
<1>2. {} \in Fragments
  BY FS_EmptySet DEF Fragments
<1>3. <<>> \in Seq(Int)
  OBVIOUS
<1>4. Blank(n) \in Tcb
  BY <1>1, <1>2, <1>3 DEF Blank, Tcb, States
<1>5. Off(Blank(n)) = 0 /\ Ahead(Blank(n)) = 0
  BY <1>1, DiffSelf DEF Blank, Off, Ahead
<1> QED BY <1>4, <1>5

LEMMA ClosedFine ==
  ASSUME Roomy, NEW e \in Ends, NEW c \in Tcb, c.snd <= hiwat,
         e = Active => c.so # {} /\ c.iss = iss[Active]
  PROVE  /\ Fine(e, Closed(c)) /\ Closed(c).timers = {} /\ Closed(c).flags = {}
         /\ c.so # {} => Closed(c).st = "CLOSED" /\ "CONNECTED" \notin Closed(c).so
                         /\ "CANTSEND" \in Closed(c).so
<1>1. /\ c.iss \in Seqs /\ c.snd \in Nat /\ c.base \in Nat /\ c.rcv \in Nat /\ c.got \in Seq(Int)
      /\ c.eof \in BOOLEAN /\ c.so \in SUBSET SoStates
  BY TcbFields
<1>2. CASE c.so = {}
  <2> DEFINE n == Sq(c.iss + ISSINCR)
             d == [Blank(n) EXCEPT !.st = "LISTEN"]
  <2>1. n \in Seqs
    <3>1. c.iss \in Int /\ ISSINCR \in Int
      BY <1>1, SeqsInt, Constants
    <3>2. c.iss + ISSINCR \in Int
      BY <3>1
    <3> QED BY <3>2, SqType
  <2>2. Closed(c) = d
    BY <1>2 DEF Closed
  <2> HIDE DEF n
  <2>3. Blank(n) \in Tcb /\ Off(Blank(n)) = 0 /\ Ahead(Blank(n)) = 0
    BY <2>1, BlankType
  <2>4. d \in Tcb /\ d.st = "LISTEN" /\ d.timers = {} /\ d.flags = {} /\ d.snd = 0 /\ d.so = {} /\ d.wnd = 0
        /\ d.nxt = Blank(n).nxt /\ d.una = Blank(n).una /\ d.max = Blank(n).max
    BY <2>3 DEF Tcb, States, Blank
  <2> HIDE DEF d
  <2>5. Off(d) = 0 /\ Ahead(d) = 0
    BY <2>3, <2>4 DEF Off, Ahead
  <2>6. Unused(d) /\ ~Half(d) /\ ~Done(d)
    BY <2>4 DEF Unused, Half, Done
  <2>7. Counted(d)
    BY <2>4, <2>5, Constants DEF Counted
  <2>8. Clocked(d)
    BY <2>4, <2>6 DEF Clocked
  <2>9. Called(e, d)
    BY <1>2, <2>4, <2>6 DEF Called, Closing
  <2> QED BY <1>2, <2>2, <2>4, <2>6, <2>7, <2>8, <2>9 DEF Fine, Sound, Ready
<1>3. CASE c.so # {}
  <2> DEFINE b == [Blank(c.iss) EXCEPT !.snd = c.snd, !.base = c.base,
                         !.rcv = c.rcv, !.got = c.got, !.eof = c.eof, !.so = c.so]
             so == (c.so \ {"CONNECTING", "CONNECTED", "DISCONNECTING"}) \cup {"CANTSEND", "CANTRCV"}
             d == [b EXCEPT !.so = so]
  <2>1. Blank(c.iss) \in Tcb /\ Off(Blank(c.iss)) = 0 /\ Ahead(Blank(c.iss)) = 0
    BY <1>1, BlankType
  <2>2. /\ b \in Tcb /\ b.st = "CLOSED" /\ b.timers = {} /\ b.flags = {} /\ b.snd = c.snd /\ b.so = c.so
        /\ b.wnd = 0 /\ b.iss = c.iss
        /\ b.nxt = Blank(c.iss).nxt /\ b.una = Blank(c.iss).una /\ b.max = Blank(c.iss).max
    BY <1>1, <2>1 DEF Tcb, States, Blank
  <2>3. Closed(c) = Isdisconnected(b)
    BY <1>3 DEF Closed
  <2>a. Isdisconnected(b) = d
    BY <2>2 DEF Isdisconnected
  <2> HIDE DEF b
  <2>4. so \in SUBSET SoStates /\ so # {} /\ "CONNECTED" \notin so /\ "CANTSEND" \in so
    BY <1>1 DEF SoStates
  <2> HIDE DEF so
  <2>5. /\ d \in Tcb /\ d.st = "CLOSED" /\ d.timers = {} /\ d.flags = {} /\ d.snd = c.snd /\ d.so = so
        /\ d.wnd = 0 /\ d.iss = c.iss
        /\ d.nxt = Blank(c.iss).nxt /\ d.una = Blank(c.iss).una /\ d.max = Blank(c.iss).max
    BY <2>2, <2>4 DEF Tcb
  <2> HIDE DEF d
  <2>6. Off(d) = 0 /\ Ahead(d) = 0
    BY <2>1, <2>5 DEF Off, Ahead
  <2>7. Unused(d) /\ ~Half(d) /\ ~Done(d)
    BY <2>5 DEF Unused, Half, Done
  <2>8. Counted(d)
    BY <1>1, <2>5, <2>6 DEF Counted
  <2>9. Clocked(d)
    BY <2>5, <2>7 DEF Clocked
  <2>10. Called(e, d)
    BY <1>3, <2>4, <2>5, <2>7 DEF Called
  <2> QED BY <1>3, <2>3, <2>a, <2>4, <2>5, <2>7, <2>8, <2>9, <2>10 DEF Fine, Sound, Ready
<1> QED BY <1>2, <1>3

(* tcp_drop, tcp_respond.                                                  *)
LEMMA DropFine ==
  ASSUME Roomy, NEW e \in Ends, NEW c \in Tcb, c.snd <= hiwat,
         e = Active => c.so # {} /\ c.iss = iss[Active]
  PROVE  /\ Fine(e, Drop(c).c) /\ Outgoing(e, Drop(c).out) /\ Drop(c).c = Closed(c)
<1>1. Drop(c).c = Closed(c)
  BY DEF Drop, Res
<1>2. Fine(e, Closed(c))
  BY ClosedFine
<1>3. CASE Synced(c)
  <2> DEFINE d == [c EXCEPT !.st = "CLOSED"]
  <2>1. d \in Tcb /\ d.st = "CLOSED"
    BY DEF Tcb, States
  <2>2. Drop(c).out = OutputForced(d, 0).out
    BY <1>3 DEF Drop, Res, Output
  <2> HIDE DEF d
  <2>3. OutputForced(d, 0).out \in Seq(Segments)
        /\ \A i \in DOMAIN OutputForced(d, 0).out : Goes(d, OutputForced(d, 0).out[i])
    BY <2>1, OutputType
  <2>4. \A s : Goes(d, s) => Travels(Peer(e), s)
    BY <2>1 DEF Goes, Half, Travels
  <2>5. Outgoing(e, Drop(c).out)
    BY <2>2, <2>3, <2>4 DEF Outgoing
  <2> QED BY <1>1, <1>2, <2>5
<1>4. CASE ~Synced(c)
  <2>1. Drop(c).out = <<>>
    BY <1>4 DEF Drop, Res
  <2>2. Outgoing(e, <<>>)
    BY DEF Outgoing
  <2> QED BY <1>1, <1>2, <2>1, <2>2
<1> QED BY <1>3, <1>4

LEMMA NoneOutgoing ==
  ASSUME NEW e
  PROVE  Outgoing(e, <<>>)
BY DEF Outgoing

LEMMA OneOutgoing ==
  ASSUME NEW e, NEW s \in Segments, "SYN" \notin s.flags, s.flags \cap {"ACK", "RST"} # {}
  PROVE  Outgoing(e, <<s>>)
<1>1. Travels(Peer(e), s)
  BY DEF Travels
<1>2. <<s>> \in Seq(Segments) /\ \A i \in DOMAIN <<s>> : <<s>>[i] = s
  OBVIOUS
<1> QED BY <1>1, <1>2 DEF Outgoing

(* One after the other.                                                    *)
LEMMA OutgoingCat ==
  ASSUME NEW e, NEW a, NEW b, Outgoing(e, a), Outgoing(e, b)
  PROVE  Outgoing(e, a \o b)
<1>1. a \in Seq(Segments) /\ b \in Seq(Segments)
  BY DEF Outgoing
<1>2. a \o b \in Seq(Segments)
  BY <1>1, Cat
<1>3. \A i \in DOMAIN (a \o b) : \/ \E j \in DOMAIN a : (a \o b)[i] = a[j]
                                \/ \E j \in DOMAIN b : (a \o b)[i] = b[j]
  BY <1>1, CatFrom
<1>4. ASSUME NEW i \in DOMAIN (a \o b) PROVE Travels(Peer(e), (a \o b)[i])
  BY <1>3 DEF Outgoing
<1> QED BY <1>2, <1>4 DEF Outgoing

LEMMA RespondOutgoing ==
  ASSUME NEW e, NEW c \in Tcb
  PROVE  Outgoing(e, Respond(c))
<1> DEFINE s == [flags |-> {"ACK"}, seq |-> c.nxt, ack |-> c.rnxt,
                 len |-> 0, from |-> 0, win |-> Space(c)]
<1>1. s \in Segments
  BY TcbFields, WinType DEF Segments
<1>2. "SYN" \notin s.flags /\ s.flags \cap {"ACK", "RST"} # {}
  OBVIOUS
<1>3. Respond(c) = <<s>>
  BY DEF Respond
<1> HIDE DEF s
<1> QED BY <1>1, <1>2, <1>3, OneOutgoing

LEMMA ResetOutgoing ==
  ASSUME NEW e, NEW s \in Segments
  PROVE  Outgoing(e, Reset(s))
<1> DEFINE acks == "ACK" \in s.flags
           x == IF "SYN" \in s.flags THEN 1 ELSE 0
           t == [len |-> 0, from |-> 0, win |-> 0,
                 flags |-> IF acks THEN {"RST"} ELSE {"RST", "ACK"},
                 seq   |-> IF acks THEN s.ack ELSE 0,
                 ack   |-> IF acks THEN 0 ELSE Sq(s.seq + s.len + x)]
<1>1. 0 \in Seqs
  BY Constants DEF Seqs
<1>2. s.seq \in Int /\ s.len \in Int /\ x \in Int /\ s.ack \in Seqs
  BY SeqsInt DEF Segments
<1>3. Sq(s.seq + s.len + x) \in Seqs
  BY <1>2, SqType
<1> HIDE DEF x
<1>4. t \in Segments
  BY <1>1, <1>2, <1>3 DEF Segments
<1>5. "SYN" \notin t.flags /\ t.flags \cap {"ACK", "RST"} # {}
  OBVIOUS
<1>6. Reset(s) = IF "RST" \in s.flags THEN <<>> ELSE <<t>>
  BY DEF Reset, x
<1> HIDE DEF t
<1> QED BY <1>4, <1>5, <1>6, OneOutgoing, NoneOutgoing

-----------------------------------------------------------------------------
(* What the window admits of a segment.                                    *)
LEMMA TrimmedType ==
  ASSUME NEW c \in Tcb, NEW s \in Segments, ~Unacceptable(c, s)
  PROVE  Trimmed(c, s) \in Segments
<1> DEFINE f == Unsyn(c, s)
           h == Headless(c, s)
<1>1. s.seq \in Seqs /\ s.len \in Nat /\ s.from \in Int /\ c.rnxt \in Seqs /\ Space(c) \in Int
  BY TcbFields, WinType DEF Segments
<1>2. CASE Space(c) = 0
  <2>1. Trimmed(c, s) = IF s.len > 0 THEN Curtail(s, s.len) ELSE s
    BY <1>2 DEF Trimmed
  <2>2. Curtail(s, s.len) \in Segments
    <3>1. s.len - s.len \in Nat
      BY <1>1
    <3> QED BY <3>1 DEF Curtail, Segments
  <2> QED BY <2>1, <2>2
<1>3. CASE Space(c) # 0
  <2>1. ~AllOld(c, s) /\ ~AllBeyond(c, s)
    BY <1>3 DEF Unacceptable
  <2>2. Sq(s.seq + 1) \in Seqs
    BY <1>1, SeqsInt, SqType
  <2>3. f \in Segments
    BY <2>2 DEF Unsyn, Segments
  <2>4. f.seq \in Seqs /\ f.len \in Nat /\ f.from \in Int
    BY <2>3 DEF Segments
  <2>5. Old(c, f) \in Int
    BY <1>1, <2>4, DiffRange DEF Old
  <2>6. Old(c, s) > 0 => Old(c, f) <= f.len
    BY <2>1, <2>4, <2>5 DEF AllOld
  <2>7. h = IF Old(c, s) > 0 THEN Behead(f, Old(c, f)) ELSE f
    BY DEF Headless
  <2> HIDE DEF f
  <2>8. h \in Segments
    <3>1. CASE Old(c, s) > 0
      <4>1. Sq(f.seq + Old(c, f)) \in Seqs
        BY <2>4, <2>5, SeqsInt, SqType
      <4>2. f.len - Old(c, f) \in Nat /\ f.from + Old(c, f) \in Int
        BY <2>4, <2>5, <2>6, <3>1
      <4>3. Behead(f, Old(c, f)) \in Segments
        BY <2>3, <4>1, <4>2 DEF Behead, Segments
      <4> QED BY <2>7, <3>1, <4>3
    <3>2. CASE ~(Old(c, s) > 0)
      BY <2>3, <2>7, <3>2
    <3> QED BY <3>1, <3>2
  <2>9. ~ (Excess(c, h) > 0 /\ Excess(c, h) >= h.len)
    BY <2>1 DEF AllBeyond
  <2>10. Trimmed(c, s) = IF Excess(c, h) > 0 THEN Curtail(h, Excess(c, h)) ELSE h
    BY <1>3 DEF Trimmed
  <2> HIDE DEF h
  <2>11. h.seq \in Seqs /\ h.len \in Nat
    BY <2>8 DEF Segments
  <2>12. EndOf(h) \in Seqs
    BY <2>11, EndType
  <2>13. Excess(c, h) \in Int
    <3>1. EndOf(h) \in Int /\ c.rnxt \in Int
      BY <1>1, <2>12, SeqsInt
    <3>2. c.rnxt + Space(c) \in Int
      BY <1>1, <3>1
    <3> QED BY <3>1, <3>2, DiffBounds DEF Excess
  <2>14. CASE Excess(c, h) > 0
    <3>1. h.len - Excess(c, h) \in Nat
      BY <2>9, <2>11, <2>13, <2>14
    <3>2. Curtail(h, Excess(c, h)) \in Segments
      BY <2>8, <3>1 DEF Curtail, Segments
    <3> QED BY <2>10, <2>14, <3>2
  <2>15. CASE ~(Excess(c, h) > 0)
    BY <2>8, <2>10, <2>15
  <2> QED BY <2>14, <2>15
<1> QED BY <1>2, <1>3

(* An acknowledgement of our SYN.                                          *)
LEMMA MadeLive ==
  ASSUME Roomy, NEW e \in Ends, NEW c, Fine(e, c), c.st = "SYN_RECEIVED",
         NEW s \in Segments
  PROVE  /\ Live(e, Made(c, s)) /\ Made(c, s).st = "ESTABLISHED"
         /\ Made(c, s).una = c.max
<1> DEFINE u  == Sq(c.una + 1)
           n  == Later(u, c.nxt)
           so == (c.so \ {"CONNECTING"}) \cup {"CONNECTED"}
           T  == c.timers \ {"REXMT"}
           w  == Sq(s.seq - 1)
           d  == Made(c, s)
<1>1. c \in Tcb /\ Counted(c) /\ Clocked(c) /\ Ready(c) /\ Called(e, c) /\ Half(c)
  BY DEF Fine, Sound, Ready, Half
<1>2. Off(c) = 1 /\ c.snd = 0 /\ c.wnd >= 0
  BY <1>1 DEF Fine, Sound, Clocked
<1>3. /\ Ahead(c) \in Int /\ 1 <= Ahead(c) /\ Ahead(c) <= c.snd + 1 /\ 2 * (c.snd + 4) < M
      /\ c.una \in Seqs /\ c.nxt \in Seqs /\ c.max \in Seqs
  BY <1>1, <1>2, ReadyNumbers
<1>4. Ahead(c) = 1
  BY <1>2, <1>3
<1>5. u \in Seqs /\ Diff(u, c.una) = 1
  <2>1. 2 * 1 < M /\ 2 * 1 >= 0 - M
    BY <1>2, <1>3, Constants
  <2> QED BY <1>3, <2>1, DiffBeyond
<1>6. c.nxt = u /\ c.max = u
  BY <1>2, <1>3, <1>4, <1>5, DiffSame DEF Off, Ahead
<1>7. n = u
  BY <1>6 DEF Later
<1>8. T = {}
  BY <1>1, <1>2 DEF Counted, Clocked
<1>9. so \in SUBSET SoStates /\ so # {} /\ c.st = "SYN_RECEIVED"
  BY <1>1, TcbFields DEF SoStates
<1>10. w \in Int
  <2>1. s.seq \in Int
    BY SeqsInt DEF Segments
  <2>2. s.seq - 1 \in Int
    BY <2>1
  <2> QED BY <2>2, SqType, SeqsInt
<1>11. d = [c EXCEPT !.so = so, !.st = "ESTABLISHED", !.una = u, !.nxt = n, !.timers = T, !.wl1 = w]
  BY DEF Made, Isconnected
<1> HIDE DEF u, n, so, T, w, d
<1>12. /\ d \in Tcb /\ d.st = "ESTABLISHED" /\ d.una = u /\ d.nxt = u /\ d.max = u /\ d.timers = {}
       /\ d.snd = 0 /\ d.so = so /\ d.iss = c.iss
  BY <1>1, <1>2, <1>5, <1>6, <1>7, <1>8, <1>9, <1>10, <1>11 DEF Tcb, States
<1>13. Off(d) = 0 /\ Ahead(d) = 0
  BY <1>5, <1>12, DiffSelf DEF Off, Ahead
<1>14. Counted(d)
  BY <1>12, <1>13, Constants DEF Counted
<1>15. ~Unused(d) /\ ~Half(d) /\ ~Done(d)
  BY <1>12 DEF Unused, Half, Done
<1>16. Clocked(d)
  BY <1>12, <1>15 DEF Clocked
<1>17. e # Active
  BY <1>1 DEF Called
<1>18. Called(e, d)
  BY <1>9, <1>12, <1>15, <1>17 DEF Called, Closing
<1> QED BY <1>6, <1>12, <1>14, <1>15, <1>16, <1>18 DEF Live, Ready, d

(* After that nothing is left to be acknowledged.                          *)
LEMMA MadeAcks ==
  ASSUME Roomy, NEW e \in Ends, NEW c, Fine(e, c), c.st = "SYN_RECEIVED",
         NEW s \in Segments, NEW t \in Segments,
         Acks(c, s) >= 0, Acks(c, s) > 0 => Diff(s.ack, c.max) <= 0
  PROVE  ~ (Acks(Made(c, t), s) > 0)
<1>1. Made(c, t).una = c.max
  BY MadeLive
<1>2. s.ack \in Seqs
  BY DEF Segments
<1>3. c \in Tcb /\ Ready(c) /\ Half(c) /\ Off(c) = 1 /\ c.snd = 0
  BY DEF Fine, Sound, Ready, Clocked, Half
<1>4. /\ Ahead(c) \in Int /\ 1 <= Ahead(c) /\ Ahead(c) <= 1
      /\ c.una \in Seqs /\ c.max \in Seqs /\ 2 * (c.snd + 4) < M
  BY <1>3, ReadyNumbers
<1>5. Diff(c.max, c.una) = 1
  BY <1>4 DEF Ahead
<1>6. CASE Acks(c, s) > 0
  BY <1>1, <1>6, <1>2, <1>4, DiffRange DEF Acks
<1>7. CASE ~(Acks(c, s) > 0)
  <2>1. Diff(s.ack, c.una) = 0
    BY <1>2, <1>4, <1>7, DiffRange DEF Acks
  <2>2. 2 * (0 - 1) < M /\ 2 * (0 - 1) >= 0 - M
    BY <1>3, <1>4, Constants
  <2>3. Diff(s.ack, c.max) = 0 - 1
    BY <1>2, <1>4, <1>5, <2>1, <2>2, DiffDiff
  <2> QED BY <1>1, <2>3 DEF Acks
<1> QED BY <1>6, <1>7

-----------------------------------------------------------------------------
(* An acknowledgement of something new: what it does in every state.       *)
Acknowledged(c, s) ==
  LET n == Less(Acks(c, s), c.snd) IN
  [c EXCEPT !.una = s.ack, !.nxt = Later(s.ack, @),
            !.snd = @ - n, !.base = @ + n,
            !.wnd = IF FinAcked(c, s) THEN @ ELSE (@ - n) % 65536,
            !.timers = IF s.ack = c.max THEN @ \ {"REXMT"} ELSE @ \cup {"REXMT"},
            !.shift = IF s.ack = c.max THEN @ ELSE 0]

LEMMA AcknowledgedIs ==
  ASSUME Roomy, NEW c, Ready(c), ~Half(c), ~Unused(c), NEW s \in Segments,
         Acks(c, s) > 0, Diff(s.ack, c.max) <= 0
  PROVE  LET d == Acknowledged(c, s) IN
         /\ d \in Tcb /\ d.st = c.st /\ d.iss = c.iss /\ d.so = c.so /\ d.snd \in 0..c.snd
         /\ Ready(d)
         /\ FinAcked(c, s) => d.snd = 0 /\ Off(d) = 0 /\ Ahead(d) = 0 /\ "REXMT" \notin d.timers
<1> DEFINE k == Acks(c, s)
           o == Off(c)
           m == Ahead(c)
           n == Less(k, c.snd)
           x == Later(s.ack, c.nxt)
           z == c.snd - n
           b == c.base + n
           w == IF FinAcked(c, s) THEN c.wnd ELSE (c.wnd - n) % 65536
           T == IF s.ack = c.max THEN c.timers \ {"REXMT"} ELSE c.timers \cup {"REXMT"}
           h == IF s.ack = c.max THEN c.shift ELSE 0
           d == Acknowledged(c, s)
<1>1. /\ c \in Tcb /\ c.snd \in Int /\ o \in Int /\ m \in Int
      /\ 0 <= o /\ o <= m /\ m <= c.snd + 1 /\ 0 <= c.snd
      /\ 2 * (c.snd + 4) < M
      /\ c.una \in Seqs /\ c.nxt \in Seqs /\ c.max \in Seqs /\ M \in Int
  BY ReadyNumbers
<1>2. s.ack \in Seqs
  BY DEF Segments
<1>3. k \in Int /\ 2 * k < M /\ 0 < k
  BY <1>1, <1>2, DiffRange DEF Acks
<1>4. k <= m
  <2>1. 2 * (k - m) < M /\ 2 * (k - m) >= 0 - M
    BY <1>1, <1>3
  <2>2. Diff(s.ack, c.max) = Diff(s.ack, c.una) - Diff(c.max, c.una)
    BY <1>1, <1>2, <2>1, DiffDiff DEF Acks, Ahead
  <2>3. Diff(s.ack, c.max) = k - m
    BY <2>2 DEF Acks, Ahead
  <2> QED BY <1>1, <1>3, <2>3
<1>5. s.ack = c.max <=> k = m
  BY <1>1, <1>2, DiffSame DEF Acks, Ahead
<1>6. x \in Seqs /\ Diff(x, c.una) = IF k > o THEN k ELSE o
  <2>1. 2 * (k - o) < M /\ 2 * (k - o) >= 0 - M
    BY <1>1, <1>3
  <2> QED BY <1>1, <1>2, <2>1, LaterIs DEF Acks, Off
<1>7. Diff(x, s.ack) = IF k > o THEN 0 ELSE o - k
  <2> DEFINE i == Diff(x, c.una)
  <2>1. i - k = IF k > o THEN 0 ELSE o - k
    BY <1>1, <1>3, <1>6
  <2>2. 2 * (i - k) < M /\ 2 * (i - k) >= 0 - M
    BY <1>1, <1>3, <1>4, <2>1
  <2>3. Diff(x, s.ack) = i - k
    BY <1>1, <1>2, <1>6, <2>2, DiffDiff DEF Acks
  <2> QED BY <2>1, <2>3
<1>8. Diff(c.max, s.ack) = m - k
  <2>1. 2 * (m - k) < M /\ 2 * (m - k) >= 0 - M
    BY <1>1, <1>3, <1>4
  <2> QED BY <1>1, <1>2, <2>1, DiffDiff DEF Acks, Ahead
<1>9. n \in Nat /\ n = (IF k < c.snd THEN k ELSE c.snd)
  BY <1>1, <1>3 DEF Less
<1>10. FinAcked(c, s) <=> k > c.snd
  BY DEF FinAcked
<1>11. z \in Nat /\ z <= c.snd /\ b \in Nat /\ w \in Int /\ h \in Nat
  <2>1. z \in Nat /\ z <= c.snd
    BY <1>1, <1>9
  <2>2. c.base \in Nat /\ c.wnd \in Int /\ c.shift \in Nat
    BY <1>1, TcbFields
  <2>3. b \in Nat
    BY <1>9, <2>2
  <2>4. (c.wnd - n) % 65536 \in Int
    <3> HIDE DEF n
    <3> QED BY <1>9, <2>2
  <2> QED BY <2>1, <2>2, <2>3, <2>4
<1>12. T \in SUBSET {"REXMT", "PERSIST", "2MSL"}
  BY <1>1, TcbFields
<1>13. /\ k = m => T = c.timers \ {"REXMT"}
       /\ k # m => T = c.timers \cup {"REXMT"}
  BY <1>5
<1>14. d = [c EXCEPT !.una = s.ack, !.nxt = x, !.snd = z, !.base = b, !.wnd = w,
                     !.timers = T, !.shift = h]
  BY DEF Acknowledged
<1>15. z = c.snd - n
  OBVIOUS
<1> HIDE DEF x, z, b, w, T, h, d
<1>16. /\ d \in Tcb /\ d.st = c.st /\ d.iss = c.iss /\ d.so = c.so /\ d.snd = z
       /\ d.una = s.ack /\ d.nxt = x /\ d.max = c.max /\ d.timers = T
  BY <1>1, <1>2, <1>6, <1>11, <1>12, <1>14 DEF Tcb
<1>17. Off(d) = (IF k > o THEN 0 ELSE o - k) /\ Ahead(d) = m - k
  BY <1>7, <1>8, <1>16 DEF Off, Ahead
<1>18. /\ 1 < m => "REXMT" \in c.timers
       /\ c.snd <= hiwat
       /\ \A u, v \in c.timers : u = v
       /\ "2MSL" \in c.timers <=> c.st = "TIME_WAIT"
       /\ Done(c) => c.snd = 0 /\ o = 0 /\ m <= 1 /\ "REXMT" \notin c.timers
  BY DEF Ready, Counted, Clocked
<1> HIDE DEF k, o, m, n
<1>19. z + 1 >= m - k
  BY <1>1, <1>3, <1>4, <1>9, <1>15
<1>20. "REXMT" \in T <=> k # m
  BY <1>13
<1>21. c.snd <= hiwat /\ z <= hiwat
  BY <1>1, <1>11, <1>18, Constants
<1>22. Counted(d)
  BY <1>1, <1>3, <1>4, <1>16, <1>17, <1>19, <1>20, <1>21 DEF Counted
<1>23. \A u, v \in T : u = v
  <2>1. CASE k = m
    BY <1>13, <1>18, <2>1
  <2>2. CASE k # m
    <3>1. 1 < m
      BY <1>1, <1>3, <1>4, <2>2
    <3>2. T = c.timers
      BY <1>13, <1>18, <2>2, <3>1
    <3> QED BY <1>18, <3>2
  <2> QED BY <2>1, <2>2
<1>24. "2MSL" \in T <=> c.st = "TIME_WAIT"
  BY <1>13, <1>18
<1>25. Done(c) => z = 0 /\ k = m /\ o <= k
  BY <1>1, <1>3, <1>4, <1>11, <1>18
<1>26. ~Unused(d) /\ ~Half(d) /\ (Done(d) <=> Done(c))
  BY <1>16 DEF Unused, Half, Done
<1>27. Done(d) => d.snd = 0 /\ Off(d) = 0 /\ Ahead(d) <= 1 /\ "REXMT" \notin d.timers
  BY <1>1, <1>3, <1>16, <1>17, <1>20, <1>25, <1>26
<1>28. Clocked(d)
  BY <1>16, <1>23, <1>24, <1>26, <1>27 DEF Clocked
<1>29. FinAcked(c, s) => z = 0 /\ k = m
  BY <1>1, <1>3, <1>4, <1>9, <1>10, <1>15
<1>30. FinAcked(c, s) => d.snd = 0 /\ Off(d) = 0 /\ Ahead(d) = 0 /\ "REXMT" \notin d.timers
  BY <1>1, <1>3, <1>16, <1>17, <1>20, <1>29
<1>31. d.snd \in 0..c.snd
  BY <1>1, <1>11, <1>16
<1> QED BY <1>16, <1>22, <1>28, <1>30, <1>31 DEF Ready, d

LEMMA LiveFine ==
  ASSUME NEW e, NEW c, Live(e, c), ~Half(c)
  PROVE  Fine(e, c)
BY DEF Live, Fine, Sound

(* A connection that has sent all it had to, its FIN too.                  *)
LEMMA DoneLive ==
  ASSUME NEW e, NEW t \in Tcb, Done(t), t.snd = 0, Off(t) = 0, Ahead(t) = 0, t.timers \in {{"2MSL"}, {"PERSIST"}, {}},
         "2MSL" \in t.timers <=> t.st = "TIME_WAIT",
         "CANTSEND" \in t.so, e = Active => t.iss = iss[Active]
  PROVE  Live(e, t) /\ ~Half(t)
<1>1. ~Unused(t) /\ ~Half(t)
  BY DEF Done, Unused, Half
<1>2. Counted(t)
  BY Constants DEF Counted
<1>3. Clocked(t)
  BY <1>1 DEF Clocked
<1>4. Called(e, t)
  BY <1>1 DEF Called, Done
<1> QED BY <1>1, <1>2, <1>3, <1>4 DEF Live, Ready

LEMMA DisconnectedType ==
  ASSUME NEW c \in Tcb
  PROVE  LET d == Isdisconnected(c) IN
         /\ d \in Tcb /\ Reads([c EXCEPT !.so = d.so], d) /\ d.rnxt = c.rnxt
         /\ "CANTSEND" \in d.so /\ "CONNECTED" \notin d.so
         /\ d.st = c.st /\ d.iss = c.iss /\ d.una = c.una /\ d.nxt = c.nxt /\ d.max = c.max
         /\ d.wnd = c.wnd /\ d.snd = c.snd /\ d.timers = c.timers /\ d.flags = c.flags
<1> DEFINE so == (c.so \ {"CONNECTING", "CONNECTED", "DISCONNECTING"}) \cup {"CANTSEND", "CANTRCV"}
<1>1. so \in SUBSET SoStates /\ "CANTSEND" \in so /\ "CONNECTED" \notin so
  BY TcbFields DEF SoStates
<1>2. Isdisconnected(c) = [c EXCEPT !.so = so]
  BY DEF Isdisconnected
<1> HIDE DEF so
<1> QED BY <1>1, <1>2 DEF Tcb, Reads

(* An acknowledgement of something new.                                    *)
LEMMA AckedIs ==
  ASSUME NEW c, NEW s
  PROVE  LET d == Acknowledged(c, s) IN
         /\ ~FinAcked(c, s) => Acked(c, s) = d
         /\ FinAcked(c, s) /\ c.st = "FIN_WAIT_1" =>
              Acked(c, s) = [(IF "CANTRCV" \in d.so THEN Isdisconnected(d) ELSE d)
                               EXCEPT !.st = "FIN_WAIT_2"]
         /\ FinAcked(c, s) /\ c.st = "CLOSING" => Acked(c, s) = Timewait(d)
         /\ FinAcked(c, s) /\ c.st = "LAST_ACK" => Acked(c, s) = Closed(d)
         /\ c.st \notin {"FIN_WAIT_1", "CLOSING", "LAST_ACK"} => Acked(c, s) = d
<1> DEFINE d == Acknowledged(c, s)
<1>1. Acked(c, s) =
        IF ~FinAcked(c, s) THEN d
        ELSE CASE c.st = "FIN_WAIT_1" -> [(IF "CANTRCV" \in d.so THEN Isdisconnected(d) ELSE d)
                                            EXCEPT !.st = "FIN_WAIT_2"]
               [] c.st = "CLOSING"    -> Timewait(d)
               [] c.st = "LAST_ACK"   -> Closed(d)
               [] OTHER               -> d
  BY DEF Acked, Acknowledged
<1> HIDE DEF d
<1>2. CASE ~FinAcked(c, s)
  <2>1. Acked(c, s) = d
    BY <1>1, <1>2
  <2> QED BY <1>2, <2>1 DEF d
<1>3. CASE FinAcked(c, s) /\ c.st = "FIN_WAIT_1"
  <2>1. Acked(c, s) = [(IF "CANTRCV" \in d.so THEN Isdisconnected(d) ELSE d)
                         EXCEPT !.st = "FIN_WAIT_2"]
    BY <1>1, <1>3
  <2> QED BY <1>3, <2>1 DEF d
<1>4. CASE FinAcked(c, s) /\ c.st = "CLOSING"
  <2>1. Acked(c, s) = Timewait(d)
    BY <1>1, <1>4
  <2> QED BY <1>4, <2>1 DEF d
<1>5. CASE FinAcked(c, s) /\ c.st = "LAST_ACK"
  <2>1. Acked(c, s) = Closed(d)
    BY <1>1, <1>5
  <2> QED BY <1>5, <2>1 DEF d
<1>6. CASE FinAcked(c, s) /\ c.st \notin {"FIN_WAIT_1", "CLOSING", "LAST_ACK"}
  <2>1. Acked(c, s) = d
    BY <1>1, <1>6
  <2> QED BY <1>6, <2>1 DEF d
<1> QED BY <1>2, <1>3, <1>4, <1>5, <1>6

LEMMA AckedLive ==
  ASSUME Roomy, NEW e \in Ends, NEW c, Live(e, c), ~Half(c), NEW s \in Segments,
         Acks(c, s) > 0, Diff(s.ack, c.max) <= 0
  PROVE  /\ c.st # "LAST_ACK" => Live(e, Acked(c, s)) /\ ~Half(Acked(c, s))
         /\ c.st = "LAST_ACK" => Fine(e, Acked(c, s))
<1> DEFINE d == Acknowledged(c, s)
<1>1. Ready(c) /\ ~Unused(c) /\ Called(e, c) /\ c \in Tcb
  BY DEF Live, Ready
<1>2. /\ d \in Tcb /\ d.st = c.st /\ d.iss = c.iss /\ d.so = c.so /\ d.snd \in 0..c.snd
      /\ Ready(d)
      /\ FinAcked(c, s) => d.snd = 0 /\ Off(d) = 0 /\ Ahead(d) = 0 /\ "REXMT" \notin d.timers
  BY <1>1, AcknowledgedIs
<1>3. /\ ~FinAcked(c, s) => Acked(c, s) = d
      /\ FinAcked(c, s) /\ c.st = "FIN_WAIT_1" =>
           Acked(c, s) = [(IF "CANTRCV" \in d.so THEN Isdisconnected(d) ELSE d)
                            EXCEPT !.st = "FIN_WAIT_2"]
      /\ FinAcked(c, s) /\ c.st = "CLOSING" => Acked(c, s) = Timewait(d)
      /\ FinAcked(c, s) /\ c.st = "LAST_ACK" => Acked(c, s) = Closed(d)
      /\ c.st \notin {"FIN_WAIT_1", "CLOSING", "LAST_ACK"} => Acked(c, s) = d
  BY AckedIs
<1> HIDE DEF d
<1>4. ~Unused(d) /\ ~Half(d) /\ c.so # {}
  <2>1. ~Unused(d) /\ ~Half(d)
    BY <1>1, <1>2 DEF Unused, Half
  <2>2. c.so # {}
    BY <1>1, Peers DEF Called, Unused, Half
  <2> QED BY <2>1, <2>2
<1>5. Called(e, d)
  BY <1>1, <1>2, <1>4 DEF Called, Unused, Half
<1>6. Live(e, d) /\ Fine(e, d)
  BY <1>2, <1>4, <1>5, LiveFine DEF Live
<1>7. CASE ~FinAcked(c, s) \/ c.st \notin {"FIN_WAIT_1", "CLOSING", "LAST_ACK"}
  BY <1>3, <1>4, <1>6, <1>7
<1>8. \A x, y \in d.timers : x = y
  BY <1>2 DEF Ready, Clocked
<1>9. e = Active => d.iss = iss[Active]
  BY <1>5 DEF Called
<1>10. CASE FinAcked(c, s) /\ c.st = "FIN_WAIT_1"
  <2> DEFINE b == IF "CANTRCV" \in d.so THEN Isdisconnected(d) ELSE d
             t == [b EXCEPT !.st = "FIN_WAIT_2"]
  <2>1. /\ b \in Tcb /\ b.iss = d.iss /\ b.una = d.una /\ b.nxt = d.nxt /\ b.max = d.max
        /\ b.snd = d.snd /\ b.timers = d.timers /\ "CANTSEND" \in b.so
    <3>1. "CANTSEND" \in d.so
      BY <1>2, <1>5, <1>10 DEF Called, Closing
    <3> QED BY <1>2, <3>1, DisconnectedType
  <2>2. Acked(c, s) = t
    BY <1>3, <1>10
  <2> HIDE DEF b
  <2>3. /\ t \in Tcb /\ t.st = "FIN_WAIT_2" /\ t.iss = d.iss /\ t.una = d.una /\ t.nxt = d.nxt
        /\ t.max = d.max /\ t.snd = d.snd /\ t.timers = d.timers /\ "CANTSEND" \in t.so
    BY <2>1 DEF Tcb, States
  <2> HIDE DEF t
  <2>4. Done(t) /\ t.snd = 0 /\ Off(t) = 0 /\ Ahead(t) = 0
    BY <1>2, <1>10, <2>3 DEF Done, Off, Ahead
  <2>5. "2MSL" \notin d.timers
    BY <1>2, <1>10 DEF Ready, Clocked
  <2>6. d.timers \subseteq {"PERSIST"}
    BY <1>2, <1>10, <2>5, TcbFields
  <2>7. d.timers \in {{"PERSIST"}, {}}
    BY <2>6
  <2>8. Live(e, t) /\ ~Half(t)
    BY <1>9, <2>3, <2>4, <2>5, <2>7, DoneLive
  <2> QED BY <1>10, <2>2, <2>8
<1>11. CASE FinAcked(c, s) /\ c.st = "CLOSING"
  <2> DEFINE b == Isdisconnected(d)
             t == [b EXCEPT !.st = "TIME_WAIT", !.timers = {"2MSL"}]
  <2>1. /\ b \in Tcb /\ b.iss = d.iss /\ b.una = d.una /\ b.nxt = d.nxt /\ b.max = d.max
        /\ b.snd = d.snd /\ "CANTSEND" \in b.so
    BY <1>2, DisconnectedType
  <2>2. Acked(c, s) = t
    BY <1>3, <1>11 DEF Timewait
  <2> HIDE DEF b
  <2>3. /\ t \in Tcb /\ t.st = "TIME_WAIT" /\ t.iss = d.iss /\ t.una = d.una /\ t.nxt = d.nxt
        /\ t.max = d.max /\ t.snd = d.snd /\ t.timers = {"2MSL"} /\ "CANTSEND" \in t.so
    BY <2>1 DEF Tcb, States
  <2> HIDE DEF t
  <2>4. Done(t) /\ t.snd = 0 /\ Off(t) = 0 /\ Ahead(t) = 0
    BY <1>2, <1>11, <2>3 DEF Done, Off, Ahead
  <2>5. Live(e, t) /\ ~Half(t)
    BY <1>9, <2>3, <2>4, DoneLive
  <2> QED BY <1>11, <2>2, <2>5
<1>12. CASE FinAcked(c, s) /\ c.st = "LAST_ACK"
  <2>1. d.snd <= hiwat
    BY <1>2 DEF Ready, Counted
  <2>2. Fine(e, Closed(d))
    BY <1>2, <1>4, <1>9, <2>1, ClosedFine
  <2> QED BY <1>3, <1>12, <2>2
<1> QED BY <1>7, <1>10, <1>11, <1>12

-----------------------------------------------------------------------------
(* tcp_usrclosed.                                                          *)
LEMMA UsrclosedLive ==
  ASSUME NEW e \in Ends, NEW c, Live(e, c), ~Half(c), "CANTSEND" \in c.so
  PROVE  Live(e, Usrclosed(c)) /\ ~Half(Usrclosed(c)) /\ Usrclosed(c).so # {}
<1>1. c \in Tcb /\ ~Unused(c) /\ Called(e, c) /\ Counted(c) /\ Clocked(c)
  BY DEF Live, Ready
<1>2. ASSUME NEW t \in Tcb, t.iss = c.iss, t.una = c.una, t.nxt = c.nxt, t.max = c.max, t.snd = c.snd,
             t.timers = c.timers, "CANTSEND" \in t.so,
             \/ t.st = c.st
             \/ c.st = "ESTABLISHED" /\ t.st = "FIN_WAIT_1"
             \/ c.st = "CLOSE_WAIT" /\ t.st = "LAST_ACK"
      PROVE  Live(e, t) /\ ~Half(t) /\ t.so # {}
  <2>1. Off(t) = Off(c) /\ Ahead(t) = Ahead(c)
    BY <1>2 DEF Off, Ahead
  <2>2. ~Unused(t) /\ ~Half(t) /\ (Done(t) => Done(c))
    BY <1>1, <1>2 DEF Unused, Half, Done
  <2>3. t.st = "TIME_WAIT" <=> c.st = "TIME_WAIT"
    BY <1>2
  <2>4. Counted(t)
    BY <1>1, <1>2, <2>1 DEF Counted
  <2>5. Clocked(t)
    BY <1>1, <1>2, <2>1, <2>2, <2>3 DEF Clocked
  <2>6. Called(e, t)
    BY <1>1, <1>2, <2>2 DEF Called, Unused, Half
  <2> QED BY <1>2, <2>2, <2>4, <2>5, <2>6 DEF Live, Ready
<1>3. CASE c.st = "ESTABLISHED"
  <2> DEFINE t == [c EXCEPT !.st = "FIN_WAIT_1"]
  <2>1. Usrclosed(c) = t
    BY <1>3 DEF Usrclosed
  <2>2. /\ t \in Tcb /\ t.iss = c.iss /\ t.una = c.una /\ t.nxt = c.nxt /\ t.max = c.max
        /\ t.snd = c.snd /\ t.timers = c.timers /\ t.so = c.so /\ t.st = "FIN_WAIT_1"
    BY <1>1 DEF Tcb, States
  <2> HIDE DEF t
  <2> QED BY <1>2, <1>3, <2>1, <2>2
<1>4. CASE c.st = "CLOSE_WAIT"
  <2> DEFINE t == [c EXCEPT !.st = "LAST_ACK"]
  <2>1. Usrclosed(c) = t
    BY <1>4 DEF Usrclosed
  <2>2. /\ t \in Tcb /\ t.iss = c.iss /\ t.una = c.una /\ t.nxt = c.nxt /\ t.max = c.max
        /\ t.snd = c.snd /\ t.timers = c.timers /\ t.so = c.so /\ t.st = "LAST_ACK"
    BY <1>1 DEF Tcb, States
  <2> HIDE DEF t
  <2> QED BY <1>2, <1>4, <2>1, <2>2
<1>5. CASE c.st \in {"FIN_WAIT_2", "TIME_WAIT"}
  <2>1. Usrclosed(c) = Isdisconnected(c)
    BY <1>5 DEF Usrclosed
  <2> QED BY <1>1, <1>2, <2>1, DisconnectedType
<1>6. CASE c.st \notin {"ESTABLISHED", "CLOSE_WAIT", "FIN_WAIT_2", "TIME_WAIT"}
  <2>1. Usrclosed(c) = c
    BY <1>6 DEF Usrclosed
  <2> QED BY <1>1, <1>2, <2>1
<1> QED BY <1>3, <1>4, <1>5, <1>6

(* The segments left on their way to e.                                    *)
Rest(e, q) == q \in Seq(Segments) /\ \A i \in DOMAIN q : Travels(e, q[i])

LEMMA InvAt ==
  ASSUME TcpInv, NEW e \in Ends
  PROVE  /\ conn[e] \in Tcb /\ Fine(e, conn[e]) /\ Rest(e, net[e])
         /\ Ready(conn[e]) /\ Counted(conn[e]) /\ Clocked(conn[e]) /\ Called(e, conn[e])
         /\ conn[e].snd <= hiwat
         /\ ~Unused(conn[e]) => Live(e, conn[e])
         /\ e = Active => conn[e].iss = iss[Active]
         /\ e = Active /\ conn[e].st # "CLOSED" => conn[e].so # {}
<1>1. conn[e] \in Tcb /\ Fine(e, conn[e]) /\ Rest(e, net[e])
  BY DEF TcpInv, Rest
<1>2. Ready(conn[e]) /\ Counted(conn[e]) /\ Clocked(conn[e]) /\ Called(e, conn[e])
  BY <1>1 DEF Fine, Sound, Ready
<1>3. conn[e].snd <= hiwat
  BY <1>2 DEF Counted
<1> QED BY <1>1, <1>2, <1>3 DEF Live, Called

(* A step of e's.                                                          *)
LEMMA BecomesInv ==
  ASSUME TcpInv, NEW e \in Ends, NEW r, NEW q,
         Fine(e, r.c), Outgoing(e, r.out), Rest(e, q), Becomes(e, r, q)
  PROVE  TcpInv'
<1> DEFINE f == Peer(e)
           n == net[f] \o r.out
<1>1. f \in Ends /\ f # e /\ Ends = {e, f}
  BY Peers
<1>2. r.c \in Tcb
  BY DEF Fine, Sound, Ready
<1>3. Rest(f, net[f]) /\ Fine(f, conn[f])
  BY <1>1, InvAt
<1>4. r.out \in Seq(Segments) /\ \A i \in DOMAIN r.out : Travels(f, r.out[i])
  BY DEF Outgoing
<1>5. Rest(f, n)
  <2> DEFINE a == net[f]
             b == r.out
  <2>1. a \in Seq(Segments) /\ b \in Seq(Segments) /\ \A i \in DOMAIN a : Travels(f, a[i])
    BY <1>3, <1>4 DEF Rest
  <2>2. \A i \in DOMAIN b : Travels(f, b[i])
    BY <1>4
  <2> HIDE DEF a, b
  <2>3. a \o b \in Seq(Segments)
    BY <2>1, Cat
  <2>4. \A i \in DOMAIN (a \o b) : Travels(f, (a \o b)[i])
    <3>1. ASSUME NEW i \in DOMAIN (a \o b) PROVE Travels(f, (a \o b)[i])
      <4>1. \/ \E j \in DOMAIN a : (a \o b)[i] = a[j]
            \/ \E j \in DOMAIN b : (a \o b)[i] = b[j]
        BY <2>1, <3>1, CatFrom
      <4> QED BY <2>1, <2>2, <4>1
    <3> QED BY <3>1
  <2> QED BY <2>3, <2>4 DEF Rest, a, b
<1>6. conn \in [Ends -> Tcb] /\ net \in [Ends -> Seq(Segments)]
  BY DEF TcpInv
<1>7. conn' = [conn EXCEPT ![e] = r.c] /\ net' = [net EXCEPT ![e] = q, ![f] = n]
  BY <1>1, <1>6 DEF Becomes
<1> HIDE DEF f, n
<1>8. conn'[e] = r.c /\ conn'[f] = conn[f] /\ conn' \in [Ends -> Tcb]
  BY <1>1, <1>2, <1>6, <1>7
<1>9. net'[e] = q /\ net'[f] = n /\ net' \in [Ends -> Seq(Segments)]
  BY <1>1, <1>5, <1>6, <1>7 DEF Rest
<1>10. \A x \in Ends : Fine(x, conn'[x]) /\ Rest(x, net'[x])
  BY <1>1, <1>3, <1>5, <1>8, <1>9
<1>11. \A x \in Ends : Fine(x, conn'[x]) /\ \A i \in DOMAIN net'[x] : Travels(x, net'[x][i])
  BY <1>10 DEF Rest
<1> QED BY <1>8, <1>9, <1>11 DEF TcpInv

LEMMA ResBecomes ==
  ASSUME TcpInv, NEW e \in Ends, NEW c, NEW out, NEW q,
         Fine(e, c), Outgoing(e, out), Rest(e, q), Becomes(e, Res(c, out), q)
  PROVE  TcpInv'
<1>1. Res(c, out).c = c /\ Res(c, out).out = out
  BY DEF Res
<1> HIDE DEF Res
<1> QED BY <1>1, BecomesInv

-----------------------------------------------------------------------------
(* tcp_input.                                                              *)
LEMMA ListenInv ==
  ASSUME Roomy, TcpInv, NEW e \in Ends, NEW s \in Segments, Travels(e, s), NEW q, Rest(e, q),
         InputListen(e, s, q)
  PROVE  TcpInv'
<1> DEFINE c == conn[e]
           n == Sq(s.seq + 1)
           d == [c EXCEPT !.st = "SYN_RECEIVED", !.una = c.iss, !.nxt = c.iss, !.max = c.iss,
                          !.rnxt = n, !.wl1 = s.seq]
           t == [s EXCEPT !.seq = n]
<1>1. c \in Tcb /\ Fine(e, c) /\ Counted(c) /\ Clocked(c) /\ Called(e, c) /\ c.snd <= hiwat
  BY InvAt
<1>2. c.st = "LISTEN"
  BY DEF InputListen
<1>3. CASE "RST" \in s.flags
  <2>1. Becomes(e, Res(c, <<>>), q)
    BY <1>3 DEF InputListen, Ignore
  <2> QED BY <1>1, <2>1, ResBecomes, NoneOutgoing
<1>4. CASE "RST" \notin s.flags /\ "ACK" \in s.flags
  <2>1. Becomes(e, Res(c, Reset(s)), q)
    BY <1>4 DEF InputListen, Dropwithreset
  <2> QED BY <1>1, <2>1, ResBecomes, ResetOutgoing
<1>5. CASE "RST" \notin s.flags /\ "ACK" \notin s.flags
  <2>1. s.flags = {"SYN"}
    BY <1>5 DEF Travels
  <2>2. Becomes(e, Step6(d, t), q)
    BY <1>5, <2>1 DEF InputListen
  <2>3. e = Passive /\ c.so = {} /\ c.snd = 0
    BY <1>1, <1>2, Peers DEF Called
  <2>4. s.len = 0 /\ s.win >= 0 /\ s.seq = iss[Active]
    BY <2>1, <2>3 DEF Travels
  <2>5. n \in Seqs /\ s.seq \in Int /\ n = Sq(iss[Active] + 1)
    BY <2>4, SeqsInt, SqType DEF Segments
  <2>6. c.timers = {} /\ c.flags = {} /\ c.wnd >= 0
    BY <1>1, <1>2 DEF Clocked, Unused
  <2>7. c.iss \in Seqs
    BY <1>1, TcbFields
  <2> HIDE DEF n, c
  <2>8. /\ d \in Tcb /\ d.st = "SYN_RECEIVED" /\ d.iss = c.iss /\ d.una = c.iss /\ d.nxt = c.iss
        /\ d.max = c.iss /\ d.timers = {} /\ d.flags = {} /\ d.wnd = c.wnd /\ d.snd = 0
        /\ d.so = {} /\ d.rnxt = n
    BY <1>1, <2>3, <2>5, <2>6, <2>7 DEF Tcb, States
  <2>9. t \in Segments /\ t.win = s.win /\ t.len = s.len /\ t.flags = s.flags
    BY <2>5 DEF Segments
  <2> HIDE DEF d, t
  <2>10. Off(d) = 0 /\ Ahead(d) = 0
    BY <2>7, <2>8, DiffSelf DEF Off, Ahead
  <2>11. Counted(d)
    BY <1>1, <2>3, <2>8, <2>10 DEF Counted
  <2>12. ~Unused(d) /\ ~Done(d)
    BY <2>8 DEF Unused, Done
  <2>13. Clocked(d)
    BY <2>6, <2>8, <2>12 DEF Clocked
  <2>14. Called(e, d)
    BY <2>3, <2>5, <2>8, Constants DEF Called, Closing
  <2>15. Live(e, d)
    BY <2>8, <2>11, <2>12, <2>13, <2>14 DEF Live, Ready
  <2>16. Fine(e, Step6(d, t).c) /\ Outgoing(e, Step6(d, t).out)
    BY <2>1, <2>4, <2>9, <2>15, Step6Fine
  <2> QED BY <2>2, <2>16, BecomesInv
<1> QED BY <1>3, <1>4, <1>5

LEMMA SynSentInv ==
  ASSUME Roomy, TcpInv, NEW e \in Ends, NEW s \in Segments, Travels(e, s), NEW q, Rest(e, q),
         InputSynSent(e, s, q)
  PROVE  TcpInv'
<1> DEFINE c == conn[e]
           n == Sq(s.seq + 1)
           so == (c.so \ {"CONNECTING"}) \cup {"CONNECTED"}
           x == Later(s.ack, c.nxt)
           T == c.timers \ {"REXMT"}
           fl == c.flags \cup {"ACKNOW"}
           d == [Isconnected(c) EXCEPT !.st = "ESTABLISHED", !.una = s.ack, !.nxt = Later(s.ack, @),
                                  !.timers = @ \ {"REXMT"}, !.flags = @ \cup {"ACKNOW"},
                                  !.rnxt = n, !.wl1 = s.seq]
           t == [s EXCEPT !.seq = n]
           bad == "ACK" \in s.flags /\ (Diff(s.ack, c.iss) < 0 \/ Diff(s.ack, c.max) > 0)
<1>1. c \in Tcb /\ Fine(e, c) /\ Counted(c) /\ Clocked(c) /\ Called(e, c) /\ c.snd <= hiwat /\ Ready(c)
  BY InvAt
<1>2. c.st = "SYN_SENT"
  BY DEF InputSynSent
<1>3. e = Active /\ c.iss = iss[Active] /\ c.so # {}
  BY <1>1, <1>2, Peers DEF Called
<1>4. CASE bad
  <2>1. Becomes(e, Res(c, Reset(s)), q)
    BY <1>4 DEF InputSynSent, Dropwithreset
  <2> QED BY <1>1, <2>1, ResBecomes, ResetOutgoing
<1>5. CASE ~bad /\ "RST" \in s.flags
  <2>1. Becomes(e, Drop(c), q) \/ Becomes(e, Res(c, <<>>), q)
    BY <1>5 DEF InputSynSent, Ignore
  <2>2. Fine(e, Drop(c).c) /\ Outgoing(e, Drop(c).out)
    BY <1>1, <1>3, DropFine
  <2> QED BY <1>1, <2>1, <2>2, BecomesInv, ResBecomes, NoneOutgoing
<1>6. CASE ~bad /\ "RST" \notin s.flags /\ "SYN" \notin s.flags
  <2>1. Becomes(e, Res(c, <<>>), q)
    BY <1>6 DEF InputSynSent, Ignore
  <2> QED BY <1>1, <2>1, ResBecomes, NoneOutgoing
<1>7. CASE ~bad /\ "RST" \notin s.flags /\ "SYN" \in s.flags
  <2>1. Becomes(e, Step6(d, t), q)
    BY <1>7 DEF InputSynSent
  <2>2. s.len = 0 /\ s.win >= 0 /\ s.flags = {"SYN", "ACK"} /\ s.ack = Sq(iss[Active] + 1)
    BY <1>3, <1>7 DEF Travels
  <2>3. n \in Seqs /\ s.seq \in Int /\ s.ack \in Seqs
    BY SeqsInt, SqType DEF Segments
  <2>4. Half(c) /\ Off(c) = 1 /\ c.snd = 0 /\ c.una = c.iss
    BY <1>1, <1>2 DEF Half, Clocked, Fine, Sound
  <2>5. /\ Ahead(c) \in Int /\ 1 <= Ahead(c) /\ Ahead(c) <= 1 /\ 2 * (c.snd + 4) < M
        /\ c.una \in Seqs /\ c.nxt \in Seqs /\ c.max \in Seqs
    BY <1>1, <2>4, ReadyNumbers
  <2>6. Diff(s.ack, c.una) = 1
    <3>1. 2 * 1 < M /\ 2 * 1 >= 0 - M
      BY <2>4, <2>5, Constants
    <3>2. s.ack = Sq(c.una + 1)
      BY <1>3, <2>2, <2>4
    <3> QED BY <2>5, <3>1, <3>2, DiffBeyond
  <2>7. c.nxt = s.ack /\ c.max = s.ack
    BY <2>3, <2>4, <2>5, <2>6, DiffSame DEF Off, Ahead
  <2>8. x = s.ack
    BY <2>7 DEF Later
  <2>9. T = {}
    BY <1>1, <2>4 DEF Counted, Clocked
  <2>10. so \in SUBSET SoStates /\ so # {}
    BY <1>1, TcbFields DEF SoStates
  <2>11. fl \in SUBSET {"ACKNOW", "DELACK"}
    BY <1>1, TcbFields
  <2>12. d = [c EXCEPT !.so = so, !.st = "ESTABLISHED", !.una = s.ack, !.nxt = x, !.timers = T,
                       !.flags = fl, !.rnxt = n, !.wl1 = s.seq]
    <3>1. c.nxt = Isconnected(c).nxt /\ c.timers = Isconnected(c).timers /\ c.flags = Isconnected(c).flags
      BY <1>1 DEF Isconnected, Tcb
    <3> QED BY <3>1 DEF Isconnected
  <2> HIDE DEF n, c, so, x, T, fl, d
  <2>13. /\ d \in Tcb /\ d.st = "ESTABLISHED" /\ d.iss = c.iss /\ d.una = s.ack /\ d.nxt = s.ack
         /\ d.max = s.ack /\ d.timers = {} /\ d.snd = 0 /\ d.so = so
    BY <1>1, <2>3, <2>4, <2>7, <2>8, <2>9, <2>10, <2>11, <2>12 DEF Tcb, States
  <2>14. t \in Segments /\ t.win = s.win /\ t.len = s.len /\ t.flags = s.flags
    BY <2>3 DEF Segments
  <2> HIDE DEF t
  <2>15. Off(d) = 0 /\ Ahead(d) = 0
    BY <2>3, <2>13, DiffSelf DEF Off, Ahead
  <2>16. Counted(d)
    BY <2>13, <2>15, Constants DEF Counted
  <2>17. ~Unused(d) /\ ~Done(d) /\ ~Half(d)
    BY <2>13 DEF Unused, Done, Half
  <2>18. Clocked(d)
    BY <2>13, <2>17 DEF Clocked
  <2>19. Called(e, d)
    BY <1>3, <2>10, <2>13, <2>17, Constants DEF Called, Closing
  <2>20. Live(e, d)
    BY <2>13, <2>16, <2>17, <2>18, <2>19 DEF Live, Ready
  <2>21. Fine(e, Step6(d, t).c) /\ Outgoing(e, Step6(d, t).out)
    BY <2>14, <2>17, <2>20, Step6Fine
  <2> QED BY <2>1, <2>21, BecomesInv
<1> QED BY <1>4, <1>5, <1>6, <1>7

(* A synchronized connection.                                              *)
LEMMA SyncedFacts ==
  ASSUME TcpInv, NEW e \in Ends, Synced(conn[e])
  PROVE  /\ ~Unused(conn[e]) /\ Live(e, conn[e])
         /\ conn[e].st # "SYN_RECEIVED" => ~Half(conn[e])
         /\ e = Active => conn[e].so # {} /\ conn[e].iss = iss[Active]
BY InvAt DEF Synced, Unused, Half

LEMMA UnacceptableInv ==
  ASSUME TcpInv, NEW e \in Ends, NEW s \in Segments, NEW q, Rest(e, q),
         InputUnacceptable(e, s, q)
  PROVE  TcpInv'
<1>1. conn[e] \in Tcb /\ Fine(e, conn[e])
  BY InvAt
<1>2. PICK out \in {<<>>, Respond(conn[e])} : Becomes(e, Res(conn[e], out), q)
  BY DEF InputUnacceptable, Dropafterack
<1>3. Outgoing(e, out)
  BY <1>1, NoneOutgoing, RespondOutgoing
<1> QED BY <1>1, <1>2, <1>3, ResBecomes

LEMMA OrphanInv ==
  ASSUME Roomy, TcpInv, NEW e \in Ends, NEW s \in Segments, NEW q, Rest(e, q),
         InputOrphan(e, s, q)
  PROVE  TcpInv'
<1> DEFINE c == conn[e]
<1>1. c \in Tcb /\ c.snd <= hiwat /\ (e = Active => c.so # {} /\ c.iss = iss[Active])
  BY InvAt DEF InputOrphan, Orphan
<1>2. Fine(e, Closed(c))
  BY <1>1, ClosedFine
<1>3. Becomes(e, Res(Closed(c), Reset(s)), q)
  BY DEF InputOrphan, Dropwithreset
<1> HIDE DEF c
<1> QED BY <1>2, <1>3, ResetOutgoing, ResBecomes

LEMMA RstInv ==
  ASSUME Roomy, TcpInv, NEW e \in Ends, NEW s \in Segments, NEW q, Rest(e, q),
         InputRst(e, s, q)
  PROVE  TcpInv'
<1> DEFINE c == conn[e]
<1>1. c \in Tcb /\ c.snd <= hiwat /\ (e = Active => c.so # {} /\ c.iss = iss[Active])
  BY InvAt, SyncedFacts DEF InputRst, Admitted
<1>2. Fine(e, Closed(c)) /\ Fine(e, Drop(c).c) /\ Outgoing(e, Drop(c).out)
  BY <1>1, ClosedFine, DropFine
<1>3. Becomes(e, Res(Closed(c), <<>>), q) \/ Becomes(e, Drop(c), q)
  BY DEF InputRst
<1> HIDE DEF c
<1> QED BY <1>2, <1>3, NoneOutgoing, ResBecomes, BecomesInv

LEMMA SynInv ==
  ASSUME Roomy, TcpInv, NEW e \in Ends, NEW s \in Segments, NEW q, Rest(e, q),
         InputSyn(e, s, q)
  PROVE  TcpInv'
<1> DEFINE c == conn[e]
           t == Trimmed(c, s)
           d == Drop(c)
<1>1. c \in Tcb /\ c.snd <= hiwat /\ (e = Active => c.so # {} /\ c.iss = iss[Active])
  BY InvAt, SyncedFacts DEF InputSyn, Admitted
<1>2. Fine(e, d.c) /\ Outgoing(e, d.out)
  BY <1>1, DropFine
<1>3. t \in Segments
  BY <1>1, TrimmedType DEF InputSyn, Admitted
<1>4. Becomes(e, Res(d.c, d.out \o Reset(t)), q)
  BY DEF InputSyn
<1> HIDE DEF t, d
<1>5. Outgoing(e, d.out \o Reset(t))
  BY <1>2, <1>3, ResetOutgoing, OutgoingCat
<1> QED BY <1>2, <1>4, <1>5, ResBecomes

LEMMA BadAckInv ==
  ASSUME TcpInv, NEW e \in Ends, NEW s \in Segments, NEW q, Rest(e, q),
         InputBadAck(e, s, q)
  PROVE  TcpInv'
<1>1. conn[e] \in Tcb /\ Fine(e, conn[e])
  BY InvAt
<1>2. PICK out \in {<<>>, Respond(conn[e]), Reset(s)} : Becomes(e, Res(conn[e], out), q)
  BY DEF InputBadAck, Dropafterack, Dropwithreset
<1>3. Outgoing(e, out)
  BY <1>1, NoneOutgoing, RespondOutgoing, ResetOutgoing
<1> QED BY <1>1, <1>2, <1>3, ResBecomes

LEMMA LastAckInv ==
  ASSUME Roomy, TcpInv, NEW e \in Ends, NEW s \in Segments, NEW q, Rest(e, q),
         InputLastAck(e, s, q)
  PROVE  TcpInv'
<1> DEFINE c == conn[e]
<1>1. /\ Synced(c) /\ c.st = "LAST_ACK" /\ Acks(c, s) > 0 /\ Diff(s.ack, c.max) <= 0
      /\ Becomes(e, Res(Acked(c, s), <<>>), q)
  BY DEF InputLastAck, Usable, Admitted
<1>2. Live(e, c) /\ ~Half(c)
  BY <1>1, SyncedFacts
<1> HIDE DEF c
<1>3. Fine(e, Acked(c, s))
  BY <1>1, <1>2, AckedLive
<1> QED BY <1>1, <1>3, NoneOutgoing, ResBecomes

LEMMA InputTextInv ==
  ASSUME Roomy, TcpInv, NEW e \in Ends, NEW s \in Segments, NEW q, Rest(e, q),
         InputText(e, s, q)
  PROVE  TcpInv'
<1> DEFINE c == conn[e]
           t == Trimmed(c, s)
           d == IF c.st = "SYN_RECEIVED" THEN Made(c, t) ELSE c
           b == IF Acks(d, s) > 0 THEN Acked(d, s) ELSE d
<1>1. /\ Synced(c) /\ ~Unacceptable(c, s)
      /\ c.st = "SYN_RECEIVED" => Acks(c, s) >= 0
      /\ c.st = "LAST_ACK" => Acks(c, s) <= 0
      /\ Acks(c, s) > 0 => Diff(s.ack, c.max) <= 0
      /\ Becomes(e, Step6(b, t), q)
  BY DEF InputText, Usable, Admitted
<1>2. c \in Tcb /\ Fine(e, c) /\ Live(e, c) /\ (c.st # "SYN_RECEIVED" => ~Half(c))
  BY <1>1, InvAt, SyncedFacts
<1> HIDE DEF c
<1>3. t \in Segments
  BY <1>1, <1>2, TrimmedType
<1> HIDE DEF t
<1>4. Live(e, b) /\ ~Half(b)
  <2>1. CASE c.st = "SYN_RECEIVED"
    <3>1. d = Made(c, t)
      BY <2>1
    <3>2. Live(e, Made(c, t)) /\ Made(c, t).st = "ESTABLISHED"
      BY <1>2, <1>3, <2>1, MadeLive
    <3>3. ~(Acks(Made(c, t), s) > 0)
      BY <1>1, <1>2, <1>3, <2>1, MadeAcks
    <3>4. b = Made(c, t)
      BY <3>1, <3>3
    <3>5. ~Half(Made(c, t))
      BY <3>2 DEF Half
    <3> QED BY <3>2, <3>4, <3>5
  <2>2. CASE c.st # "SYN_RECEIVED" /\ Acks(c, s) > 0
    <3>1. d = c /\ b = Acked(c, s)
      BY <2>2
    <3>2. c.st # "LAST_ACK"
      <4>1. Acks(c, s) \in Int
        BY <1>2, TcbFields, DiffRange DEF Acks, Segments
      <4> QED BY <1>1, <2>2, <4>1
    <3>3. Live(e, Acked(c, s)) /\ ~Half(Acked(c, s))
      BY <1>1, <1>2, <2>2, <3>2, AckedLive
    <3> QED BY <3>1, <3>3
  <2>3. CASE c.st # "SYN_RECEIVED" /\ ~(Acks(c, s) > 0)
    <3>1. b = c
      BY <2>3
    <3> QED BY <1>2, <2>3, <3>1
  <2> QED BY <2>1, <2>2, <2>3
<1> HIDE DEF b
<1>5. Fine(e, Step6(b, t).c) /\ Outgoing(e, Step6(b, t).out)
  BY <1>3, <1>4, Step6Fine
<1> QED BY <1>1, <1>5, BecomesInv

LEMMA HandledInv ==
  ASSUME Roomy, TcpInv, NEW e \in Ends, NEW s, Travels(e, s), NEW q, Rest(e, q), Handled(e, s, q)
  PROVE  TcpInv'
<1>1. s \in Segments
  BY DEF Travels
<1>2. CASE InputClosed(e, s, q)
  <2>1. Becomes(e, Res(conn[e], Reset(s)), q)
    BY <1>2 DEF InputClosed, Dropwithreset
  <2> QED BY <1>1, <2>1, InvAt, ResBecomes, ResetOutgoing
<1>3. CASE InputListen(e, s, q)
  BY <1>1, <1>3, ListenInv
<1>4. CASE InputSynSent(e, s, q)
  BY <1>1, <1>4, SynSentInv
<1>5. CASE InputUnacceptable(e, s, q)
  BY <1>1, <1>5, UnacceptableInv
<1>6. CASE InputOrphan(e, s, q)
  BY <1>1, <1>6, OrphanInv
<1>7. CASE InputRst(e, s, q)
  BY <1>1, <1>7, RstInv
<1>8. CASE InputBadAck(e, s, q)
  BY <1>1, <1>8, BadAckInv
<1>9. CASE InputLastAck(e, s, q)
  BY <1>1, <1>9, LastAckInv
<1>10. CASE InputText(e, s, q)
  BY <1>1, <1>10, InputTextInv
<1>11. CASE InputSyn(e, s, q)
  BY <1>1, <1>11, SynInv
<1> QED BY <1>2, <1>3, <1>4, <1>5, <1>6, <1>7, <1>8, <1>9, <1>10, <1>11 DEF Handled

(* A segment less on the way.                                              *)
LEMMA RemoveRest ==
  ASSUME NEW e, NEW q, Rest(e, q), NEW k \in DOMAIN q
  PROVE  Rest(e, RemoveAt(q, k))
<1> DEFINE r == RemoveAt(q, k)
<1>1. q \in Seq(Segments) /\ DOMAIN q = 1..Len(q) /\ Len(q) \in Nat
  BY DEF Rest
<1>2. k \in 1..Len(q)
  BY <1>1
<1>3. /\ r \in Seq(Segments) /\ Len(r) = Len(q) - 1
      /\ \A i \in 1..(Len(q) - 1) : r[i] = IF i < k THEN q[i] ELSE q[i + 1]
  BY <1>1, <1>2, RemoveAtSeq
<1> HIDE DEF r
<1>4. DOMAIN r = 1..(Len(q) - 1)
  BY <1>3
<1>5. \A i \in 1..(Len(q) - 1) : i \in DOMAIN q /\ i + 1 \in DOMAIN q
  BY <1>1
<1>6. \A i \in DOMAIN r : Travels(e, r[i])
  BY <1>3, <1>4, <1>5 DEF Rest
<1> QED BY <1>3, <1>6 DEF Rest, r

LEMMA ArriveInv ==
  ASSUME Roomy, TcpInv, NEW e \in Ends, Arrive(e)
  PROVE  TcpInv'
<1>1. PICK i \in DOMAIN net[e], kept \in BOOLEAN :
        Handled(e, net[e][i], IF kept THEN net[e] ELSE RemoveAt(net[e], i))
  BY DEF Arrive
<1>2. Rest(e, net[e])
  BY InvAt
<1>3. Travels(e, net[e][i])
  BY <1>2 DEF Rest
<1>4. Rest(e, RemoveAt(net[e], i))
  BY <1>2, RemoveRest
<1> QED BY <1>1, <1>2, <1>3, <1>4, HandledInv

LEMMA LoseInv ==
  ASSUME TcpInv, NEW e \in Ends, Lose(e)
  PROVE  TcpInv'
<1>1. PICK i \in DOMAIN net[e] : net' = [net EXCEPT ![e] = RemoveAt(net[e], i)]
  BY DEF Lose
<1>2. conn' = conn
  BY DEF Lose
<1>3. Rest(e, RemoveAt(net[e], i))
  BY InvAt, RemoveRest
<1> DEFINE q == RemoveAt(net[e], i)
<1>4. q \in Seq(Segments) /\ \A k \in DOMAIN q : Travels(e, q[k])
  BY <1>3 DEF Rest
<1>5. net' = [net EXCEPT ![e] = q]
  BY <1>1
<1> HIDE DEF q
<1> QED BY <1>2, <1>4, <1>5 DEF TcpInv

(* A step of e's in which nothing comes in.                                *)
LEMMA StepInv ==
  ASSUME TcpInv, NEW e \in Ends, NEW r, Fine(e, r.c), Outgoing(e, r.out), Step(e, r)
  PROVE  TcpInv'
BY InvAt, BecomesInv DEF Step

LEMMA ResStep ==
  ASSUME TcpInv, NEW e \in Ends, NEW c, Fine(e, c), Step(e, Res(c, <<>>))
  PROVE  TcpInv'
BY InvAt, NoneOutgoing, ResBecomes DEF Step

LEMMA OutputStep ==
  ASSUME Roomy, TcpInv, NEW e \in Ends, NEW c, Live(e, c), Step(e, Output(c))
  PROVE  TcpInv'
<1>1. Fine(e, Output(c).c) /\ Outgoing(e, Output(c).out)
  BY OutputLive DEF Output
<1> QED BY <1>1, StepInv

(* What changes in a control block apart from its counts and clocks.       *)
LEMMA LiveSame ==
  ASSUME NEW e, NEW c, Live(e, c), NEW d \in Tcb, Reads([c EXCEPT !.flags = d.flags], d), d.rnxt = c.rnxt
  PROVE  Live(e, d)
<1>1. /\ d.st = c.st /\ d.iss = c.iss /\ d.una = c.una /\ d.nxt = c.nxt /\ d.max = c.max
      /\ d.wnd = c.wnd /\ d.snd = c.snd /\ d.timers = c.timers /\ d.so = c.so
  BY DEF Reads, Live, Ready, Tcb
<1>2. Off(d) = Off(c) /\ Ahead(d) = Ahead(c) /\ ~Unused(d) /\ (Half(d) <=> Half(c)) /\ (Done(d) <=> Done(c))
  BY <1>1 DEF Off, Ahead, Live, Unused, Half, Done
<1>3. Counted(d)
  BY <1>1, <1>2 DEF Live, Ready, Counted
<1>4. Clocked(d)
  BY <1>1, <1>2 DEF Live, Ready, Clocked
<1>5. Called(e, d)
  BY <1>1, CalledSame DEF Live
<1> QED BY <1>2, <1>3, <1>4, <1>5 DEF Live, Ready

-----------------------------------------------------------------------------
(* tcp_fasttimo, tcp_timers.                                               *)
LEMMA TickingFacts ==
  ASSUME TcpInv, NEW e \in Ends, NEW x, Due(e, x)
  PROVE  /\ x = "DELACK" => "DELACK" \in conn[e].flags
         /\ x # "DELACK" => x \in conn[e].timers
         /\ Live(e, conn[e])
<1>1. x \in conn[e].timers \cup (conn[e].flags \cap {"DELACK"})
  BY DEF Due, Ticking
<1>2. conn[e].timers \in SUBSET {"REXMT", "PERSIST", "2MSL"}
  BY InvAt, TcbFields
<1>3. ~Unused(conn[e])
  BY <1>1, InvAt DEF Clocked
<1> QED BY <1>1, <1>2, <1>3, InvAt

LEMMA FasttimoInv ==
  ASSUME Roomy, TcpInv, NEW e \in Ends, Fasttimo(e)
  PROVE  TcpInv'
<1> DEFINE c == conn[e]
           fl == (c.flags \ {"DELACK"}) \cup {"ACKNOW"}
           d == [c EXCEPT !.flags = fl]
<1>1. c \in Tcb /\ Live(e, c)
  BY InvAt, TickingFacts DEF Fasttimo
<1>2. fl \in SUBSET {"ACKNOW", "DELACK"}
  BY <1>1, TcbFields
<1>3. Step(e, Output(d))
  BY DEF Fasttimo
<1> HIDE DEF c, fl
<1>4. d \in Tcb /\ Reads([c EXCEPT !.flags = d.flags], d) /\ d.rnxt = c.rnxt
  BY <1>1, <1>2 DEF Tcb, Reads
<1> HIDE DEF d
<1>5. Live(e, d)
  BY <1>1, <1>4, LiveSame
<1> QED BY <1>3, <1>5, OutputStep

LEMMA RexmtInv ==
  ASSUME Roomy, TcpInv, NEW e \in Ends, Rexmt(e)
  PROVE  TcpInv'
<1> DEFINE c == conn[e]
           d == [c EXCEPT !.shift = @ + 1, !.nxt = c.una]
<1>1. c \in Tcb /\ Live(e, c) /\ "REXMT" \in c.timers /\ c.snd <= hiwat /\ Ready(c)
  BY InvAt, TickingFacts DEF Rexmt
<1>2. e = Active => c.so # {} /\ c.iss = iss[Active]
  BY <1>1, InvAt DEF Live, Unused
<1>3. Step(e, IF c.shift = MAXRXTSHIFT THEN Drop(c) ELSE Output(d))
  BY DEF Rexmt
<1> HIDE DEF c
<1>4. CASE c.shift = MAXRXTSHIFT
  <2>1. Step(e, Drop(c))
    BY <1>3, <1>4
  <2>2. Fine(e, Drop(c).c) /\ Outgoing(e, Drop(c).out)
    BY <1>1, <1>2, DropFine
  <2> QED BY <2>1, <2>2, StepInv
<1>5. CASE c.shift # MAXRXTSHIFT
  <2>1. Step(e, Output(d))
    BY <1>3, <1>5
  <2>2. c.una \in Seqs /\ c.shift + 1 \in Nat
    BY <1>1, TcbFields
  <2>3. /\ d \in Tcb /\ d.st = c.st /\ d.iss = c.iss /\ d.una = c.una /\ d.nxt = c.una /\ d.max = c.max
        /\ d.wnd = c.wnd /\ d.snd = c.snd /\ d.timers = c.timers /\ d.so = c.so /\ d.rnxt = c.rnxt
        /\ d.flags = c.flags
    BY <1>1, <2>2 DEF Tcb
  <2> HIDE DEF d
  <2>4. /\ Off(d) = 0 /\ Ahead(d) = Ahead(c) /\ ~Unused(d) /\ (Half(d) <=> Half(c))
        /\ (Done(d) <=> Done(c))
    BY <1>1, <2>2, <2>3, DiffSelf DEF Off, Ahead, Live, Unused, Half, Done
  <2>5. 0 <= Ahead(c) /\ Ahead(c) <= c.snd + 1 /\ 0 <= 0
    BY <1>1, ReadyNumbers
  <2>6. Counted(d)
    BY <1>1, <2>3, <2>4, <2>5 DEF Ready, Counted
  <2>7. Clocked(d)
    BY <1>1, <2>3, <2>4 DEF Ready, Clocked
  <2>8. Called(e, d)
    BY <1>1, <2>3, CalledSame DEF Live
  <2>9. Live(e, d)
    BY <2>3, <2>4, <2>6, <2>7, <2>8 DEF Live, Ready
  <2> QED BY <2>1, <2>9, OutputStep
<1> QED BY <1>4, <1>5

LEMMA PersistInv ==
  ASSUME Roomy, TcpInv, NEW e \in Ends, Persist(e)
  PROVE  TcpInv'
<1> DEFINE c == conn[e]
<1>1. Live(e, c) /\ "PERSIST" \in c.timers /\ Counted(c) /\ Clocked(c) /\ Fine(e, c)
  BY InvAt, TickingFacts DEF Persist
<1>2. ~Half(c)
  <2>1. "REXMT" \notin c.timers
    BY <1>1 DEF Clocked
  <2>2. Off(c) # 1
    BY <1>1, <2>1 DEF Counted
  <2> QED BY <1>1, <2>2 DEF Fine, Sound
<1>3. Step(e, OutputForced(c, 1))
  BY DEF Persist
<1> HIDE DEF c
<1>4. Fine(e, OutputForced(c, 1).c) /\ Outgoing(e, OutputForced(c, 1).out)
  BY <1>1, <1>2, OutputLive
<1> QED BY <1>3, <1>4, StepInv

LEMMA Msl2Inv ==
  ASSUME Roomy, TcpInv, NEW e \in Ends, Msl2(e)
  PROVE  TcpInv'
<1>1. Live(e, conn[e]) /\ conn[e] \in Tcb /\ conn[e].snd <= hiwat
  BY InvAt, TickingFacts DEF Msl2
<1>2. e = Active => conn[e].so # {} /\ conn[e].iss = iss[Active]
  BY <1>1, InvAt DEF Live, Unused
<1>3. Fine(e, Closed(conn[e]))
  BY <1>1, <1>2, ClosedFine
<1>4. Step(e, Res(Closed(conn[e]), <<>>))
  BY DEF Msl2
<1> QED BY <1>3, <1>4, ResStep

-----------------------------------------------------------------------------
(* The users.                                                              *)
LEMMA ConnectInv ==
  ASSUME Roomy, TcpInv, Connect
  PROVE  TcpInv'
<1> DEFINE c == conn[Active]
           d == [c EXCEPT !.st = "SYN_SENT", !.so = {"CONNECTING"},
                          !.una = c.iss, !.nxt = c.iss, !.max = c.iss]
<1>1. Active \in Ends
  BY DEF Ends
<1>2. c \in Tcb /\ Clocked(c) /\ Called(Active, c) /\ c.snd <= hiwat
  BY <1>1, InvAt
<1>3. c.st = "CLOSED" /\ c.so = {} /\ Step(Active, Output(d))
  BY DEF Connect, MayConnect, User
<1>4. c.timers = {} /\ c.wnd >= 0 /\ c.snd = 0 /\ c.iss = iss[Active] /\ c.iss \in Seqs
  BY <1>2, <1>3, TcbFields DEF Clocked, Unused, Called
<1> HIDE DEF c
<1>5. /\ d \in Tcb /\ d.st = "SYN_SENT" /\ d.iss = c.iss /\ d.una = c.iss /\ d.nxt = c.iss
      /\ d.max = c.iss /\ d.timers = {} /\ d.wnd = c.wnd /\ d.snd = 0 /\ d.so = {"CONNECTING"}
  BY <1>2, <1>4 DEF Tcb, States, SoStates
<1> HIDE DEF d
<1>6. Off(d) = 0 /\ Ahead(d) = 0
  BY <1>4, <1>5, DiffSelf DEF Off, Ahead
<1>7. Counted(d)
  BY <1>5, <1>6, Constants DEF Counted
<1>8. ~Unused(d) /\ ~Done(d)
  BY <1>5 DEF Unused, Done
<1>9. Clocked(d)
  BY <1>4, <1>5, <1>8 DEF Clocked
<1>10. Called(Active, d)
  BY <1>4, <1>5, Constants DEF Called, Closing
<1>11. Live(Active, d)
  BY <1>5, <1>7, <1>8, <1>9, <1>10 DEF Live, Ready
<1> QED BY <1>1, <1>3, <1>11, OutputStep

(* A socket that can be used.                                              *)
LEMMA IdleFacts ==
  ASSUME TcpInv, NEW e \in Ends, conn[e].so # {}, "CONNECTING" \notin conn[e].so
  PROVE  /\ conn[e].st \notin {"LISTEN", "SYN_SENT", "SYN_RECEIVED"}
         /\ conn[e].st # "CLOSED" => Live(e, conn[e]) /\ ~Half(conn[e])
         /\ conn[e].st = "CLOSED" => "CANTSEND" \in conn[e].so
         /\ "CONNECTED" \in conn[e].so => conn[e].st # "CLOSED"
<1>1. Called(e, conn[e])
  BY InvAt
<1>2. conn[e].st \notin {"LISTEN", "SYN_SENT", "SYN_RECEIVED"}
  BY <1>1, Peers DEF Called
<1>3. ~Half(conn[e]) /\ (conn[e].st # "CLOSED" => ~Unused(conn[e]))
  BY <1>2 DEF Half, Unused
<1>4. conn[e].st # "CLOSED" => Live(e, conn[e])
  BY <1>3, InvAt
<1> QED BY <1>1, <1>2, <1>3, <1>4 DEF Called, Unused

LEMMA SendInv ==
  ASSUME Roomy, TcpInv, NEW e \in Ends, Send(e)
  PROVE  TcpInv'
<1> DEFINE c == conn[e]
           d == [c EXCEPT !.snd = @ + 1]
<1>1. /\ c.so # {} /\ "CONNECTING" \notin c.so /\ c.snd < hiwat
      /\ "CONNECTED" \in c.so /\ "CANTSEND" \notin c.so /\ Step(e, Output(d))
  BY DEF Send, MaySend, Idle
<1>2. Live(e, c) /\ ~Half(c) /\ c \in Tcb /\ Ready(c) /\ Called(e, c)
  BY <1>1, IdleFacts, InvAt
<1> HIDE DEF c
<1>3. c.snd \in Nat /\ c.snd + 1 \in Nat
  BY <1>2, TcbFields
<1>4. /\ d \in Tcb /\ d.st = c.st /\ d.iss = c.iss /\ d.una = c.una /\ d.nxt = c.nxt /\ d.max = c.max
      /\ d.wnd = c.wnd /\ d.snd = c.snd + 1 /\ d.timers = c.timers /\ d.so = c.so /\ d.rnxt = c.rnxt
      /\ d.flags = c.flags
  BY <1>2, <1>3 DEF Tcb
<1> HIDE DEF d
<1>5. c.st \notin Closing
  BY <1>1, <1>2 DEF Called
<1>6. /\ Off(d) = Off(c) /\ Ahead(d) = Ahead(c) /\ ~Unused(d) /\ ~Half(d) /\ ~Done(d) /\ ~Done(c)
  BY <1>2, <1>4, <1>5 DEF Off, Ahead, Live, Unused, Half, Done, Closing
<1>7. Off(c) \in Int /\ Ahead(c) \in Int
  BY <1>2, OffType
<1>8. Ahead(c) <= c.snd + 1 + 1 /\ c.snd + 1 <= hiwat
  BY <1>1, <1>2, <1>3, <1>7, Constants DEF Ready, Counted
<1>9. Counted(d)
  BY <1>2, <1>4, <1>6, <1>8 DEF Ready, Counted
<1>10. Clocked(d)
  BY <1>2, <1>4, <1>6 DEF Ready, Clocked
<1>11. Called(e, d)
  BY <1>1, <1>2, <1>4 DEF Called, Half, Unused
<1>12. Live(e, d)
  BY <1>4, <1>6, <1>9, <1>10, <1>11 DEF Live, Ready
<1> QED BY <1>1, <1>12, OutputStep

LEMMA ReceiveInv ==
  ASSUME Roomy, TcpInv, NEW e \in Ends, Receive(e)
  PROVE  TcpInv'
<1> DEFINE c == conn[e]
           d == [c EXCEPT !.rcv = 0]
<1>1. /\ c.so # {} /\ "CONNECTING" \notin c.so
      /\ Step(e, IF d.st = "CLOSED" THEN Res(d, <<>>) ELSE Output(d))
  BY DEF Receive, MayReceive, Idle, User
<1>2. c \in Tcb /\ Fine(e, c) /\ (c.st # "CLOSED" => Live(e, c)) /\ Called(e, c)
      /\ c.st \notin {"LISTEN", "SYN_SENT", "SYN_RECEIVED"}
  BY <1>1, IdleFacts, InvAt
<1> HIDE DEF c
<1>3. /\ d \in Tcb /\ Reads([c EXCEPT !.flags = d.flags], d) /\ Reads(c, d) /\ d.rnxt = c.rnxt /\ d.st = c.st
      /\ d.so = c.so /\ d.snd = c.snd /\ d.iss = c.iss
  BY <1>2 DEF Tcb, Reads
<1> HIDE DEF d
<1>4. CASE d.st = "CLOSED"
  <2>1. Ready(d)
    BY <1>2, <1>3, ReadsReady DEF Fine, Sound
  <2>2. ~Half(d)
    BY <1>4 DEF Half
  <2>3. Called(e, d)
    BY <1>2, <1>3, CalledSame
  <2>4. Fine(e, d)
    BY <2>1, <2>2, <2>3 DEF Fine, Sound
  <2>5. Step(e, Res(d, <<>>))
    BY <1>1, <1>4
  <2> QED BY <2>4, <2>5, ResStep
<1>5. CASE d.st # "CLOSED"
  <2>1. Live(e, d)
    BY <1>2, <1>3, <1>5, LiveSame
  <2>2. Step(e, Output(d))
    BY <1>1, <1>5
  <2> QED BY <2>1, <2>2, OutputStep
<1> QED BY <1>4, <1>5

(* Another state of the socket.                                            *)
LEMMA SoLive ==
  ASSUME NEW e \in Ends, NEW c, Live(e, c), ~Half(c), NEW so \in SUBSET SoStates,
         "CANTSEND" \in c.so => "CANTSEND" \in so
  PROVE  Live(e, [c EXCEPT !.so = so]) \/ so = {}
<1> DEFINE d == [c EXCEPT !.so = so]
<1>1. c \in Tcb /\ Ready(c) /\ Called(e, c) /\ ~Unused(c)
  BY DEF Live, Ready
<1>2. d \in Tcb /\ Reads([c EXCEPT !.so = d.so], d) /\ d.so = so /\ d.st = c.st /\ d.iss = c.iss
      /\ d.una = c.una /\ d.nxt = c.nxt /\ d.max = c.max
      /\ d.wnd = c.wnd /\ d.snd = c.snd /\ d.timers = c.timers /\ d.flags = c.flags
  BY <1>1 DEF Tcb, Reads
<1> HIDE DEF d
<1>3. Off(d) = Off(c) /\ Ahead(d) = Ahead(c) /\ ~Unused(d) /\ ~Half(d) /\ (Done(d) <=> Done(c))
  BY <1>1, <1>2 DEF Off, Ahead, Unused, Half, Done
<1>4. Counted(d)
  BY <1>1, <1>2, <1>3 DEF Ready, Counted
<1>5. Clocked(d)
  BY <1>1, <1>2, <1>3 DEF Ready, Clocked
<1>6. so # {} => Called(e, d)
  BY <1>1, <1>2, <1>3 DEF Called, Half, Unused
<1> QED BY <1>2, <1>3, <1>4, <1>5, <1>6 DEF Live, Ready, d

LEMMA SoClosed ==
  ASSUME NEW e \in Ends, NEW c, Fine(e, c), c.st = "CLOSED", c.so # {}, NEW so \in SUBSET SoStates,
         "CANTSEND" \in c.so => "CANTSEND" \in so, "CONNECTED" \notin so
  PROVE  Fine(e, [c EXCEPT !.so = so])
<1> DEFINE d == [c EXCEPT !.so = so]
<1>1. c \in Tcb /\ Ready(c) /\ Called(e, c)
  BY DEF Fine, Sound, Ready
<1>2. d \in Tcb /\ d.so = so /\ d.st = c.st /\ d.iss = c.iss
      /\ d.una = c.una /\ d.nxt = c.nxt /\ d.max = c.max
      /\ d.wnd = c.wnd /\ d.snd = c.snd /\ d.timers = c.timers /\ d.flags = c.flags
  BY <1>1 DEF Tcb
<1> HIDE DEF d
<1>3. Off(d) = Off(c) /\ Ahead(d) = Ahead(c) /\ Unused(d) /\ ~Half(d) /\ Unused(c) /\ ~Half(c) /\ ~Done(d)
  BY <1>2 DEF Off, Ahead, Unused, Half, Done
<1>4. Counted(d)
  BY <1>1, <1>2, <1>3 DEF Ready, Counted
<1>5. Clocked(d)
  BY <1>1, <1>2, <1>3 DEF Ready, Clocked
<1>6. Called(e, d)
  BY <1>1, <1>2, <1>3 DEF Called, Closing
<1> QED BY <1>2, <1>3, <1>4, <1>5, <1>6 DEF Fine, Sound, Ready, d

LEMMA ShutdownInv ==
  ASSUME Roomy, TcpInv, NEW e \in Ends, Shutdown(e)
  PROVE  TcpInv'
<1> DEFINE c == conn[e]
           so == c.so \cup {"CANTSEND"}
           d == [c EXCEPT !.so = so]
<1>1. c.so # {} /\ "CONNECTING" \notin c.so /\ "CANTSEND" \notin c.so /\ Step(e, Output(Usrclosed(d)))
  BY DEF Shutdown, MayShutdown, Idle, User
<1>2. Live(e, c) /\ ~Half(c) /\ c \in Tcb
  BY <1>1, IdleFacts, InvAt
<1>3. so \in SUBSET SoStates /\ "CANTSEND" \in so
  BY <1>2, TcbFields DEF SoStates
<1> HIDE DEF c, so
<1>4. Live(e, d)
  BY <1>2, <1>3, SoLive
<1>5. ~Half(d) /\ "CANTSEND" \in d.so
  BY <1>2, <1>3 DEF Half, Tcb
<1> HIDE DEF d
<1>6. Live(e, Usrclosed(d))
  BY <1>4, <1>5, UsrclosedLive
<1> QED BY <1>1, <1>6, OutputStep

(* What a socket with a user, past its connecting, has for a block.        *)
LEMMA SocketFacts ==
  ASSUME NEW e \in Ends, NEW c, Fine(e, c), c.so # {}, c.st # "SYN_SENT"
  PROVE  /\ c \in Tcb
         /\ c.st # "CLOSED" => Live(e, c) /\ ~Half(c)
         /\ c.st = "CLOSED" => "CONNECTED" \notin c.so
<1>1. c \in Tcb /\ Ready(c) /\ Called(e, c)
  BY DEF Fine, Sound, Ready
<1>2. c.st \notin {"LISTEN", "SYN_RECEIVED"}
  BY <1>1, Peers DEF Called
<1>3. ~Half(c) /\ (c.st # "CLOSED" => ~Unused(c))
  BY <1>2 DEF Half, Unused
<1>4. c.st = "CLOSED" => Unused(c)
  BY DEF Unused
<1>5. "CONNECTED" \in c.so => ~Unused(c)
  BY <1>1 DEF Called
<1> QED BY <1>1, <1>3, <1>4, <1>5 DEF Live

LEMMA SoFine ==
  ASSUME NEW e \in Ends, NEW c, Fine(e, c), c.so # {}, c.st # "SYN_SENT",
         NEW so \in SUBSET SoStates, so # {}, "CANTSEND" \in c.so => "CANTSEND" \in so,
         "CONNECTED" \in so => "CONNECTED" \in c.so
  PROVE  Fine(e, [c EXCEPT !.so = so])
<1>1. CASE c.st = "CLOSED"
  BY <1>1, SocketFacts, SoClosed
<1>2. CASE c.st # "CLOSED"
  <2> DEFINE d == [c EXCEPT !.so = so]
  <2>1. c \in Tcb /\ Live(e, c) /\ ~Half(c)
    BY <1>2, SocketFacts
  <2>2. Live(e, d)
    BY <2>1, SoLive
  <2>3. ~Half(d)
    BY <2>1 DEF Half, Tcb
  <2> HIDE DEF d
  <2>4. Fine(e, d)
    BY <2>2, <2>3, LiveFine
  <2> QED BY <2>4 DEF d
<1> QED BY <1>1, <1>2

-----------------------------------------------------------------------------
(* tcp_disconnect, soclose.                                                *)
LEMMA DisconnectFine ==
  ASSUME Roomy, NEW e \in Ends, NEW c, Live(e, c), ~Half(c), c.so # {}
  PROVE  LET d == Disconnect(e, c) IN
         Fine(e, d.c) /\ Outgoing(e, d.out) /\ d.c.so # {} /\ d.c.st # "SYN_SENT"
<1>1. /\ c \in Tcb /\ Counted(c) /\ Called(e, c) /\ c.snd <= hiwat
      /\ e = Active => c.iss = iss[Active]
  BY DEF Live, Ready, Counted, Called
<1>2. CASE plan.mode[e] = "drop"
  <2>1. Disconnect(e, c) = Drop(c)
    BY <1>2 DEF Disconnect
  <2>2. Fine(e, Drop(c).c) /\ Outgoing(e, Drop(c).out) /\ Drop(c).c = Closed(c)
    BY <1>1, DropFine
  <2>3. Closed(c).st = "CLOSED" /\ "CANTSEND" \in Closed(c).so
    BY <1>1, ClosedFine
  <2> QED BY <2>1, <2>2, <2>3
<1>3. CASE plan.mode[e] # "drop"
  <2> DEFINE so == c.so \cup {"DISCONNECTING", "CANTSEND", "CANTRCV"}
             b == [c EXCEPT !.so = so]
             d == [b EXCEPT !.rcv = 0]
             u == Usrclosed(d)
  <2>1. [Isdisconnecting(c) EXCEPT !.rcv = 0] = d
    BY DEF Isdisconnecting
  <2>2. Disconnect(e, c) = Output(u)
    BY <1>3, <2>1 DEF Disconnect
  <2>3. so \in SUBSET SoStates /\ "CANTSEND" \in so
    BY <1>1, TcbFields DEF SoStates
  <2> HIDE DEF so
  <2>4. Live(e, b)
    BY <2>3, SoLive
  <2>5. ~Half(b) /\ b.so = so /\ b \in Tcb
    BY <1>1, <2>3 DEF Half, Tcb
  <2> HIDE DEF b
  <2>6. d \in Tcb /\ Reads([b EXCEPT !.flags = d.flags], d) /\ d.rnxt = b.rnxt /\ d.so = so /\ d.st = b.st
    BY <2>5 DEF Tcb, Reads
  <2> HIDE DEF d
  <2>7. Live(e, d) /\ ~Half(d) /\ "CANTSEND" \in d.so
    BY <2>3, <2>4, <2>5, <2>6, LiveSame DEF Half
  <2>8. Live(e, u) /\ ~Half(u) /\ u.so # {}
    BY <2>7, UsrclosedLive
  <2> HIDE DEF u
  <2>9. Fine(e, OutputForced(u, 0).c) /\ Outgoing(e, OutputForced(u, 0).out)
    BY <2>8, OutputLive
  <2>10. Same(u, OutputForced(u, 0).c)
    BY <2>8, OutputType DEF Live, Ready
  <2>11. OutputForced(u, 0).c.so # {} /\ OutputForced(u, 0).c.st # "SYN_SENT"
    BY <2>8, <2>10 DEF Same, Half
  <2> QED BY <2>2, <2>9, <2>11 DEF Output
<1> QED BY <1>2, <1>3

LEMMA DetachFine ==
  ASSUME Roomy, NEW e \in Ends, NEW r, Fine(e, r.c), Outgoing(e, r.out), r.c.so # {},
         r.c.st # "SYN_SENT"
  PROVE  Fine(e, Detach(e, r).c) /\ Outgoing(e, Detach(e, r).out)
<1> DEFINE d == IF r.c.st = "CLOSED" THEN Res(r.c, <<>>) ELSE Disconnect(e, r.c)
           so == (d.c.so \ {"INCLOSE"}) \cup {"NOFDREF"}
           D == [d.c EXCEPT !.so = so]
           o == r.out \o d.out
<1>1. Detach(e, r) = Res(D, o)
  BY DEF Detach
<1> HIDE DEF D, o
<1>2. Detach(e, r).c = D /\ Detach(e, r).out = o
  BY <1>1 DEF Res
<1>3. Fine(e, d.c) /\ Outgoing(e, d.out) /\ d.c.so # {} /\ d.c.st # "SYN_SENT"
  <2>1. CASE r.c.st = "CLOSED"
    BY <2>1, NoneOutgoing DEF Res
  <2>2. CASE r.c.st # "CLOSED"
    <3>1. Live(e, r.c) /\ ~Half(r.c)
      BY <2>2, SocketFacts
    <3>2. d = Disconnect(e, r.c)
      BY <2>2
    <3> QED BY <3>1, <3>2, DisconnectFine
  <2> QED BY <2>1, <2>2
<1> HIDE DEF d
<1>4. d.c \in Tcb
  BY <1>3, SocketFacts
<1>5. /\ so \in SUBSET SoStates /\ so # {} /\ ("CANTSEND" \in d.c.so => "CANTSEND" \in so)
      /\ "CONNECTED" \in so => "CONNECTED" \in d.c.so
  BY <1>4, TcbFields DEF SoStates
<1> HIDE DEF so
<1>6. Fine(e, D)
  BY <1>3, <1>5, SoFine DEF D
<1>7. Outgoing(e, o)
  BY <1>3, OutgoingCat DEF o
<1> QED BY <1>2, <1>6, <1>7

LEMMA SocloseFine ==
  ASSUME Roomy, NEW e \in Ends, NEW r, Fine(e, r.c), Outgoing(e, r.out), r.c.so # {},
         r.c.st # "SYN_SENT"
  PROVE  Fine(e, Soclose(e, r).c) /\ Outgoing(e, Soclose(e, r).out)
<1>1. CASE "CONNECTED" \in r.c.so
  <2> DEFINE so == r.c.so \cup {"INCLOSE"}
             D == [r.c EXCEPT !.so = so]
  <2>1. Soclose(e, r) = Res(D, r.out)
    BY <1>1 DEF Soclose
  <2>2. Soclose(e, r).c = D /\ Soclose(e, r).out = r.out
    BY <2>1 DEF Res
  <2>3. /\ so \in SUBSET SoStates /\ so # {} /\ ("CANTSEND" \in r.c.so => "CANTSEND" \in so)
    BY SocketFacts, TcbFields DEF SoStates
  <2>4. "CONNECTED" \in so => "CONNECTED" \in r.c.so
    BY <1>1
  <2> HIDE DEF so
  <2>5. Fine(e, D)
    BY <2>3, <2>4, SoFine
  <2> QED BY <2>2, <2>5
<1>2. CASE "CONNECTED" \notin r.c.so
  <2>1. Soclose(e, r) = Detach(e, r)
    BY <1>2 DEF Soclose
  <2> QED BY <2>1, DetachFine
<1> QED BY <1>1, <1>2

LEMMA CloseInv ==
  ASSUME Roomy, TcpInv, NEW e \in Ends, Close(e)
  PROVE  TcpInv'
<1> DEFINE c == conn[e]
           r == IF "CONNECTED" \in c.so THEN Disconnect(e, c) ELSE Res(c, <<>>)
<1>1. c.so # {} /\ "CONNECTING" \notin c.so /\ Step(e, Soclose(e, r))
  BY DEF Close, MayClose, Idle, User
<1>2. /\ c.st # "SYN_SENT" /\ Fine(e, c)
      /\ "CONNECTED" \in c.so => Live(e, c) /\ ~Half(c)
  BY <1>1, IdleFacts, InvAt
<1> HIDE DEF c
<1>3. Fine(e, r.c) /\ Outgoing(e, r.out) /\ r.c.so # {} /\ r.c.st # "SYN_SENT"
  <2>1. CASE "CONNECTED" \in c.so
    <3>1. r = Disconnect(e, c)
      BY <2>1
    <3> QED BY <1>1, <1>2, <2>1, <3>1, DisconnectFine
  <2>2. CASE "CONNECTED" \notin c.so
    BY <1>1, <1>2, <2>2, NoneOutgoing DEF Res
  <2> QED BY <2>1, <2>2
<1> HIDE DEF r
<1>4. Fine(e, Soclose(e, r).c) /\ Outgoing(e, Soclose(e, r).out)
  BY <1>3, SocloseFine
<1> QED BY <1>1, <1>4, StepInv

LEMMA CloseWokenInv ==
  ASSUME Roomy, TcpInv, NEW e \in Ends, CloseWoken(e)
  PROVE  TcpInv'
<1> DEFINE c == conn[e]
           r == Res(c, <<>>)
<1>1. "INCLOSE" \in c.so /\ Step(e, Detach(e, r))
  BY DEF CloseWoken, Woken, User
<1>2. Fine(e, c) /\ Called(e, c)
  BY InvAt
<1> HIDE DEF c
<1>3. c.so # {} /\ c.st # "SYN_SENT"
  BY <1>1, <1>2 DEF Called
<1>4. Fine(e, r.c) /\ Outgoing(e, r.out) /\ r.c.so # {} /\ r.c.st # "SYN_SENT"
  BY <1>2, <1>3, NoneOutgoing DEF Res
<1> HIDE DEF r
<1>5. Fine(e, Detach(e, r).c) /\ Outgoing(e, Detach(e, r).out)
  BY <1>4, DetachFine
<1> QED BY <1>1, <1>5, StepInv

-----------------------------------------------------------------------------
(* The invariant.                                                          *)
LEMMA InitFine ==
  ASSUME Init, NEW e \in Ends
  PROVE  /\ conn[e] \in Tcb /\ Fine(e, conn[e])
<1> DEFINE n == iss[e]
           st == IF e = Active THEN "CLOSED" ELSE "LISTEN"
           d == [Blank(n) EXCEPT !.st = st]
<1>1. n \in Seqs
  BY Constants
<1>2. conn[e] = d
  BY DEF Init
<1>3. st \in States /\ st \in {"CLOSED", "LISTEN"} /\ (e = Active <=> st = "CLOSED")
  BY DEF States
<1>4. e = Active => n = iss[Active]
  OBVIOUS
<1> HIDE DEF n, st
<1>5. Blank(n) \in Tcb /\ Off(Blank(n)) = 0 /\ Ahead(Blank(n)) = 0
  BY <1>1, BlankType
<1>6. /\ d \in Tcb /\ d.st = st /\ d.iss = n /\ d.timers = {} /\ d.flags = {} /\ d.snd = 0
      /\ d.so = {} /\ d.wnd = 0
      /\ d.nxt = Blank(n).nxt /\ d.una = Blank(n).una /\ d.max = Blank(n).max
  BY <1>3, <1>5 DEF Tcb, Blank
<1> HIDE DEF d
<1>7. Off(d) = 0 /\ Ahead(d) = 0
  BY <1>5, <1>6 DEF Off, Ahead
<1>8. Unused(d) /\ ~Half(d) /\ ~Done(d)
  BY <1>3, <1>6 DEF Unused, Half, Done
<1>9. Counted(d)
  BY <1>6, <1>7, Constants DEF Counted
<1>10. Clocked(d)
  BY <1>3, <1>6, <1>8 DEF Clocked
<1>11. Called(e, d)
  BY <1>3, <1>4, <1>6, <1>8, Peers, Constants DEF Called, Closing
<1>12. Fine(e, d)
  BY <1>6, <1>8, <1>9, <1>10, <1>11 DEF Fine, Sound, Ready
<1> QED BY <1>2, <1>6, <1>12

LEMMA InitInv ==
  ASSUME Init
  PROVE  TcpInv
<1>1. conn \in [Ends -> Tcb]
  <2>1. DOMAIN conn = Ends /\ conn = [e \in Ends |-> conn[e]]
    BY DEF Init
  <2>2. \A e \in Ends : conn[e] \in Tcb
    BY InitFine
  <2> QED BY <2>1, <2>2
<1>2. net \in [Ends -> Seq(Segments)] /\ \A e \in Ends : net[e] = <<>>
  BY DEF Init
<1>3. ASSUME NEW e \in Ends PROVE Fine(e, conn[e]) /\ \A i \in DOMAIN net[e] : Travels(e, net[e][i])
  <2>1. DOMAIN net[e] = {}
    BY <1>2
  <2> QED BY <2>1, InitFine
<1> QED BY <1>1, <1>2, <1>3 DEF TcpInv

LEMMA NextInv ==
  ASSUME Roomy, TcpInv, [Next]_vars
  PROVE  TcpInv'
<1>1. CASE UNCHANGED vars
  BY <1>1 DEF vars, TcpInv
<1>2. ASSUME NEW e \in Ends, Arrive(e) \/ Lose(e) \/ Timers(e) \/ Calls(e)
      PROVE  TcpInv'
  <2>1. CASE Arrive(e)
    BY <2>1, ArriveInv
  <2>2. CASE Lose(e)
    BY <2>2, LoseInv
  <2>3. CASE Timers(e)
    BY <2>3, FasttimoInv, RexmtInv, PersistInv, Msl2Inv DEF Timers
  <2>4. CASE Calls(e)
    BY <2>4, SendInv, ReceiveInv, ShutdownInv, CloseInv, CloseWokenInv, ConnectInv DEF Calls
  <2> QED BY <1>2, <2>1, <2>2, <2>3, <2>4
<1> QED BY <1>1, <1>2 DEF Next

LEMMA WatchedFrom ==
  ASSUME TcpInv
  PROVE  Watched
<1>1. ASSUME NEW e \in Ends
      PROVE  LET c == conn[e] IN
             /\ Off(c) > 0 => "REXMT" \in c.timers
             /\ "REXMT" \in c.timers => Diff(c.max, c.una) > 0
             /\ \A x, y \in c.timers : x = y
             /\ c.st \in {"CLOSED", "LISTEN"} => c.timers = {}
             /\ "2MSL" \in c.timers <=> c.st = "TIME_WAIT"
  <2>1. Counted(conn[e]) /\ Clocked(conn[e])
    BY InvAt
  <2> QED BY <2>1 DEF Counted, Clocked, Ahead, Unused
<1> QED BY <1>1 DEF Watched

(* The invariant holds, variables of their types included, for every M,    *)
(* hiwat, maxseg, MAXRXTSHIFT and plan, with more than twice the buffer in *)
(* the sequence space: tcp_input, tcp_output, the timers and the calls     *)
(* leave every control block sound, and send what its peer can take.       *)
THEOREM BlocksInv == Roomy => (Spec => []TcpInv)
<1>1. Init => TcpInv
  BY InitInv
<1>2. Roomy /\ TcpInv /\ [Next]_vars => TcpInv'
  BY NextInv
<1>3. SUFFICES ASSUME Roomy PROVE Spec => []TcpInv
  OBVIOUS
<1>4. TcpInv /\ [Next]_vars => TcpInv'
  BY <1>2, <1>3
<1> QED BY <1>1, <1>4, PTL DEF Spec

(* The retransmission timer runs whenever anything sent is not yet         *)
(* acknowledged, never together with the persist timer (tcp_setpersist     *)
(* does not panic), and 2MSL runs alone, in TIME_WAIT.                     *)
THEOREM AlwaysWatched == Roomy => (Spec => []Watched)
<1>1. SUFFICES ASSUME Roomy PROVE Spec => []Watched
  OBVIOUS
<1>2. Spec => []TcpInv
  BY <1>1, BlocksInv
<1>3. TcpInv => Watched
  BY WatchedFrom
<1> QED BY <1>2, <1>3, PTL

=============================================================================
