-------------------------- MODULE ProcSwitchProofs --------------------------
(***************************************************************************)
(* Sleeping, running, stopping, ending and swapping: theorems for any      *)
(* number of processes, any family of theirs, and any choice of events,    *)
(* signals and what processes do with them.                                *)
(***************************************************************************)
EXTENDS ProcSwitchProps, TLAPS

-----------------------------------------------------------------------------
(* What holds of the process table k and its queues while c runs.          *)

Alive == {"SRUN", "SSLEEP", "SSTOP"}

QueuedOK(k, c) ==
  \A p \in Procs : p \in k.runq <=> k.stat[p] = "SRUN" /\ p \in k.load /\ p # c
ChainOK(k) ==
  \A p \in Procs : /\ k.stat[p] = "SSLEEP" => k.wchan[p] # NONE
                   /\ k.wchan[p] # NONE => k.stat[p] \in {"SSLEEP", "SSTOP"}
Core(k, c) ==
  /\ k \in Kern /\ ~k.panic /\ c \in Procs \cup {NONE}
  /\ QueuedOK(k, c) /\ ChainOK(k)
  /\ SCHED \in k.load /\ k.stat[SCHED] \in {"SRUN", "SSLEEP"}
  /\ c # NONE => k.stat[c] \in {"SRUN", "SZOMB"}

(* sched waits for somebody to want in; then runout is set.                *)
Watching(k) == k.stat[SCHED] = "SSLEEP" /\ k.wchan[SCHED] = "runout"
Alert(k)    == Watching(k) => k.runout

(* What may be pending for a process that sleeps, or was stopped while it  *)
(* did, where signals may disturb it.                                      *)
Lull(k, p) ==
  (k.wchan[p] # NONE /\ p \in k.intr) =>
    Weighty(k, p) \subseteq (IF k.stat[p] = "SSTOP" THEN Stops \cup {"CONT", "CHLD"}
                                                    ELSE {"CHLD"})

-----------------------------------------------------------------------------
(* What wakeups and signals, one after the other, do to a process table.   *)

Fresh(k, l, p) == l.stat[p] = "SRUN" /\ k.stat[p] # "SRUN" /\ p \notin k.load
NoFresh(k, l)  == \A p \in Procs : ~Fresh(k, l, p)
Heeds(k, l)    == Alert(k) => Alert(l) /\ (Watching(l) => NoFresh(k, l))

Mild(k, l, p) ==
  /\ l.wchan[p] \in {k.wchan[p], NONE}
  /\ l.stat[p] # k.stat[p] => k.stat[p] \in {"SSLEEP", "SSTOP"} /\ l.stat[p] \in Alive
  /\ Fresh(k, l, p) => l.wantin
Obeys(k, l, p) ==
  /\ Lull(k, p) => Lull(l, p)
  /\ k.stat[p] = "SSTOP" /\ l.stat[p] # "SSTOP" => {"CONT", "KILL"} \cap l.sig[p] # {}
Firm(k, l, p) == {"CONT", "KILL"} \cap k.sig[p] \subseteq l.sig[p]

Calm(k, l) ==
  /\ l.load = k.load /\ l.pptr = k.pptr /\ l.intr = k.intr
  /\ k.wantin => l.wantin
  /\ \A p \in Procs : Mild(k, l, p)
  /\ \A p \in Users : Obeys(k, l, p)
  /\ Watching(l) => Watching(k)
Gentle(k, l) == Calm(k, l) /\ \A p \in Users : Firm(k, l, p)

LEMMA NoneApart ==
  /\ NONE \notin Procs /\ NONE \notin Chans /\ NONE \notin Signals
  /\ SCHED \in Procs /\ SCHED \notin Users /\ SCHED # PROC1 /\ PROC1 \notin Users
  /\ Users \subseteq Procs /\ Users \subseteq Chans
  /\ NONE # "runout" /\ "runout" \notin Users \cup Events
BY ProcSwitchAssumption, ChansAssumption DEF Procs, Chans, Apart

LEMMA CalmSelf ==
  ASSUME NEW k \in Kern
  PROVE  Gentle(k, k) /\ Heeds(k, k)
BY DEF Gentle, Calm, Mild, Obeys, Firm, Heeds, NoFresh, Fresh

LEMMA CalmTrans ==
  ASSUME NEW k \in Kern, NEW l \in Kern, NEW m \in Kern, Calm(k, l), Calm(l, m),
         \A p \in Users : Firm(l, m, p) \/ (k.stat[p] = "SSTOP" => l.stat[p] = "SSTOP")
  PROVE  Calm(k, m)
<1>1. \A p \in Procs : Mild(k, m, p)
  <2> SUFFICES ASSUME NEW p \in Procs PROVE Mild(k, m, p)
    OBVIOUS
  <2>1. Mild(k, l, p) /\ Mild(l, m, p) /\ k.load = l.load /\ (l.wantin => m.wantin)
    BY DEF Calm
  <2> QED BY <2>1 DEF Mild, Fresh, Alive
<1>2. \A p \in Users : Obeys(k, m, p)
  <2> SUFFICES ASSUME NEW p \in Users PROVE Obeys(k, m, p)
    OBVIOUS
  <2>1. Obeys(k, l, p) /\ Obeys(l, m, p)
    BY DEF Calm
  <2> QED BY <2>1 DEF Obeys, Firm
<1> QED BY <1>1, <1>2 DEF Calm

LEMMA GentleTrans ==
  ASSUME NEW k \in Kern, NEW l \in Kern, NEW m \in Kern, Gentle(k, l), Gentle(l, m)
  PROVE  Gentle(k, m)
<1>1. Calm(k, m)
  BY CalmTrans DEF Gentle
<1>2. \A p \in Users : Firm(k, m, p)
  BY DEF Gentle, Firm
<1> QED BY <1>1, <1>2 DEF Gentle

LEMMA HeedsTrans ==
  ASSUME NEW k \in Kern, NEW l \in Kern, NEW m \in Kern, Calm(k, l), Calm(l, m),
         Heeds(k, l), Heeds(l, m)
  PROVE  Heeds(k, m)
<1> SUFFICES ASSUME Alert(k)
             PROVE  Alert(m) /\ (Watching(m) => NoFresh(k, m))
  BY DEF Heeds
<1>1. Alert(m) /\ (Watching(m) => NoFresh(l, m) /\ NoFresh(k, l))
  BY DEF Heeds, Calm
<1>2. l.load = k.load
  BY DEF Calm
<1> QED BY <1>1, <1>2 DEF NoFresh, Fresh

-----------------------------------------------------------------------------
(* The fields that each of the helpers changes.                            *)

Same(k, l, F) ==
  /\ "stat" \notin F => l.stat = k.stat
  /\ "wchan" \notin F => l.wchan = k.wchan
  /\ "sig" \notin F => l.sig = k.sig
  /\ "cursig" \notin F => l.cursig = k.cursig
  /\ "pptr" \notin F => l.pptr = k.pptr
  /\ "runq" \notin F => l.runq = k.runq
  /\ "load" \notin F => l.load = k.load
  /\ "intr" \notin F => l.intr = k.intr
  /\ "wted" \notin F => l.wted = k.wted
  /\ "runout" \notin F => l.runout = k.runout
  /\ "wantin" \notin F => l.wantin = k.wantin
  /\ "runin" \notin F => l.runin = k.runin
  /\ "panic" \notin F => l.panic = k.panic

LEMMA PanicIfIs ==
  ASSUME NEW k \in Kern, NEW bad \in BOOLEAN
  PROVE  /\ PanicIf(k, bad) \in Kern /\ Same(k, PanicIf(k, bad), {"panic"})
         /\ PanicIf(k, bad).panic <=> k.panic \/ bad
BY DEF PanicIf, Same, Kern

LEMMA StatIs ==
  ASSUME NEW k \in Kern, NEW W, NEW s \in Alive \cup {"NULL", "SZOMB"}
  PROVE  /\ Stat(k, W, s) \in Kern /\ Same(k, Stat(k, W, s), {"stat"})
         /\ \A p \in Procs : Stat(k, W, s).stat[p] = IF p \in W THEN s ELSE k.stat[p]
<1> DEFINE f == [p \in Procs |-> IF p \in W THEN s ELSE k.stat[p]]
<1>1. f \in [Procs -> {"NULL", "SSLEEP", "SRUN", "SZOMB", "SSTOP"}]
  BY DEF Kern, Alive
<1>2. \A p \in Procs : f[p] = IF p \in W THEN s ELSE k.stat[p]
  OBVIOUS
<1>3. Stat(k, W, s) = [k EXCEPT !.stat = f]
  BY DEF Stat
<1> HIDE DEF f
<1> QED BY <1>1, <1>2, <1>3 DEF Same, Kern

LEMMA UnsleepIs ==
  ASSUME NEW k \in Kern, NEW W
  PROVE  /\ Unsleep(k, W) \in Kern /\ Same(k, Unsleep(k, W), {"wchan"})
         /\ \A p \in Procs : Unsleep(k, W).wchan[p] = IF p \in W THEN NONE ELSE k.wchan[p]
<1> DEFINE f == [p \in Procs |-> IF p \in W THEN NONE ELSE k.wchan[p]]
<1>1. f \in [Procs -> Chans \cup {NONE}]
  BY DEF Kern
<1>2. \A p \in Procs : f[p] = IF p \in W THEN NONE ELSE k.wchan[p]
  OBVIOUS
<1>3. Unsleep(k, W) = [k EXCEPT !.wchan = f]
  BY DEF Unsleep
<1> HIDE DEF f
<1> QED BY <1>1, <1>2, <1>3 DEF Same, Kern

LEMMA SetrqIs ==
  ASSUME NEW k \in Kern, NEW W \in SUBSET Procs
  PROVE  /\ Setrq(k, W) \in Kern /\ Same(k, Setrq(k, W), {"runq", "panic"})
         /\ Setrq(k, W).runq = k.runq \cup W
         /\ Setrq(k, W).panic <=> k.panic \/ W \cap k.runq # {}
<1> DEFINE q == k.runq \cup W
           b == k.panic \/ W \cap k.runq # {}
<1>1. q \in SUBSET Procs /\ b \in BOOLEAN
  BY DEF Kern
<1>2. Setrq(k, W) = [k EXCEPT !.runq = q, !.panic = b]
  BY DEF Setrq, Kern
<1> HIDE DEF q, b
<1>3. /\ Setrq(k, W) \in Kern /\ Same(k, Setrq(k, W), {"runq", "panic"})
      /\ Setrq(k, W).runq = q /\ Setrq(k, W).panic = b
  BY <1>1, <1>2 DEF Same, Kern
<1> QED BY <1>3 DEF q, b

LEMMA RemrqIs ==
  ASSUME NEW k \in Kern, NEW p
  PROVE  /\ Remrq(k, p) \in Kern /\ Same(k, Remrq(k, p), {"runq", "panic"})
         /\ Remrq(k, p).runq = k.runq \ {p}
         /\ Remrq(k, p).panic <=> k.panic \/ p \notin k.runq
<1> DEFINE q == k.runq \ {p}
           b == k.panic \/ p \notin k.runq
<1>1. q \in SUBSET Procs /\ b \in BOOLEAN
  BY DEF Kern
<1>2. Remrq(k, p) = [k EXCEPT !.runq = q, !.panic = b]
  BY DEF Remrq, Kern
<1> HIDE DEF q, b
<1>3. /\ Remrq(k, p) \in Kern /\ Same(k, Remrq(k, p), {"runq", "panic"})
      /\ Remrq(k, p).runq = q /\ Remrq(k, p).panic = b
  BY <1>1, <1>2 DEF Same, Kern
<1> QED BY <1>3 DEF q, b

LEMMA CursigIs ==
  ASSUME NEW k \in Kern, NEW p \in Users, NEW s \in Action,
         NEW l, l = [k EXCEPT !.cursig[p] = s]
  PROVE  l \in Kern /\ Same(k, l, {"cursig"})
<1> DEFINE f == [k.cursig EXCEPT ![p] = s]
<1>1. k.cursig \in [Users -> Action]
  BY DEF Kern
<1>2. f \in [Users -> Action]
  BY <1>1
<1>3. l = [k EXCEPT !.cursig = f]
  BY DEF Kern
<1> HIDE DEF f
<1> QED BY <1>2, <1>3 DEF Same, Kern

LEMMA TakeIs ==
  ASSUME NEW k \in Kern, NEW p \in Users, NEW s \in Signals
  PROVE  /\ Take(k, p, s) \in Kern /\ Same(k, Take(k, p, s), {"sig"})
         /\ \A q \in Users \ {p} : Take(k, p, s).sig[q] = k.sig[q]
         /\ \A x : x \in Take(k, p, s).sig[p] <=> x \in k.sig[p] /\ x # s
<1> DEFINE f == [k.sig EXCEPT ![p] = @ \ {s}]
<1>1. k.sig \in [Users -> SUBSET Signals]
  BY DEF Kern
<1>2. /\ f \in [Users -> SUBSET Signals]
      /\ \A q \in Users \ {p} : f[q] = k.sig[q]
      /\ \A x : x \in f[p] <=> x \in k.sig[p] /\ x # s
  BY <1>1
<1>3. Take(k, p, s) = [k EXCEPT !.sig = f]
  BY <1>1 DEF Take, Kern
<1> HIDE DEF f
<1> QED BY <1>2, <1>3 DEF Same, Kern

LEMMA PostIs ==
  ASSUME NEW k \in Kern, NEW p \in Users, NEW s \in Signals
  PROVE  /\ Post(k, p, s) \in Kern /\ Same(k, Post(k, p, s), {"sig"})
         /\ \A q \in Users : Post(k, p, s).sig[q] =
              IF q = p THEN (k.sig[p] \ Cancels(s)) \cup {s} ELSE k.sig[q]
<1> DEFINE f == [k.sig EXCEPT ![p] = (@ \ Cancels(s)) \cup {s}]
<1>1. k.sig \in [Users -> SUBSET Signals]
  BY DEF Kern
<1>2. /\ f \in [Users -> SUBSET Signals]
      /\ \A q \in Users : f[q] = IF q = p THEN (k.sig[p] \ Cancels(s)) \cup {s} ELSE k.sig[q]
  BY <1>1
<1>3. Post(k, p, s) = [k EXCEPT !.sig = f]
  BY <1>1 DEF Post, Kern
<1> HIDE DEF f
<1> QED BY <1>2, <1>3 DEF Same, Kern

LEMMA CancelsWhat ==
  ASSUME NEW s \in Signals
  PROVE  /\ s = "CONT" => Cancels(s) = Stops
         /\ s \in Stops => Cancels(s) = {"CONT"}
         /\ s \notin Stops \cup {"CONT"} => Cancels(s) = {}
BY DEF Cancels, Stops

LEMMA RunnableIs ==
  ASSUME NEW k \in Kern, NEW W \in SUBSET Procs
  PROVE  LET l == Runnable(k, W) IN
         /\ l \in Kern /\ Same(k, l, {"stat", "runq", "panic"})
         /\ \A p \in Procs : l.stat[p] = IF p \in W THEN "SRUN" ELSE k.stat[p]
         /\ l.runq = k.runq \cup (W \cap k.load)
         /\ l.panic <=> k.panic \/ (W \cap k.load) \cap k.runq # {}
<1> DEFINE m == Stat(k, W, "SRUN")
           V == W \cap k.load
<1>1. /\ m \in Kern /\ Same(k, m, {"stat"})
      /\ \A p \in Procs : m.stat[p] = IF p \in W THEN "SRUN" ELSE k.stat[p]
  BY StatIs DEF Alive
<1>2. V \in SUBSET Procs
  OBVIOUS
<1>3. Runnable(k, W) = Setrq(m, V)
  BY DEF Runnable
<1> HIDE DEF m, V
<1>4. /\ Setrq(m, V) \in Kern /\ Same(m, Setrq(m, V), {"runq", "panic"})
      /\ Setrq(m, V).runq = m.runq \cup V
      /\ Setrq(m, V).panic <=> m.panic \/ V \cap m.runq # {}
  BY <1>1, <1>2, SetrqIs
<1>5. Same(k, Setrq(m, V), {"stat", "runq", "panic"})
  BY <1>1, <1>4 DEF Same
<1>6. m.runq = k.runq /\ m.panic = k.panic /\ Setrq(m, V).stat = m.stat
  BY <1>1, <1>4 DEF Same
<1> QED BY <1>1, <1>3, <1>4, <1>5, <1>6 DEF V

-----------------------------------------------------------------------------
(* Waking.                                                                 *)

Woken(k, l, p) ==
  \/ l.stat[p] = k.stat[p] /\ l.wchan[p] \in {k.wchan[p], NONE}
  \/ k.stat[p] = "SSLEEP" /\ l.stat[p] = "SRUN" /\ l.wchan[p] = NONE

LEMMA WokenFine ==
  ASSUME NEW k \in Kern, NEW l \in Kern, NEW p \in Users, Woken(k, l, p),
         l.sig[p] = k.sig[p], l.intr = k.intr
  PROVE  Obeys(k, l, p) /\ Firm(k, l, p)
<1>1. Weighty(l, p) = Weighty(k, p)
  BY DEF Weighty, Pending
<1>2. Lull(k, p) => Lull(l, p)
  BY <1>1 DEF Lull, Woken
<1>3. k.stat[p] = "SSTOP" => l.stat[p] = "SSTOP"
  BY DEF Woken
<1> QED BY <1>2, <1>3 DEF Obeys, Firm

LEMMA WokenWatching ==
  ASSUME NEW k \in Kern, NEW l \in Kern, Woken(k, l, SCHED), Watching(l)
  PROVE  Watching(k)
BY ChansAssumption DEF Woken, Watching, Chans, Apart

(* The queues of a process table in which the processes of S leave their   *)
(* channels, and those of A, if in core, join the run queue.               *)
LEMMA WakeCore ==
  ASSUME NEW k, NEW c, Core(k, c), NEW l \in Kern, ~l.panic,
         NEW A \in SUBSET (Procs \ {c}),
         \A p \in Procs : l.stat[p] = IF p \in A THEN "SRUN" ELSE k.stat[p],
         \A p \in Procs : l.wchan[p] \in {k.wchan[p], NONE},
         \A p \in A : l.wchan[p] = NONE /\ k.stat[p] \in {"SSLEEP", "SSTOP"},
         \A p \in Procs \ A : k.stat[p] = "SSLEEP" => l.wchan[p] # NONE,
         l.runq = k.runq \cup (A \cap k.load), l.load = k.load
  PROVE  Core(l, c)
<1>1. QueuedOK(l, c)
  BY DEF Core, QueuedOK
<1>2. ChainOK(l)
  BY DEF Core, ChainOK
<1>3. /\ SCHED \in l.load /\ l.stat[SCHED] \in {"SRUN", "SSLEEP"}
      /\ c # NONE => l.stat[c] \in {"SRUN", "SZOMB"}
      /\ c \in Procs \cup {NONE}
  BY DEF Core, Procs
<1> QED BY <1>1, <1>2, <1>3 DEF Core

LEMMA WakeupInIs ==
  ASSUME NEW k, NEW c, Core(k, c), NEW ch \in Chans
  PROVE  LET l == WakeupIn(k, ch) IN
         /\ Core(l, c) /\ Same(k, l, {"stat", "wchan", "runq"})
         /\ \A p \in Procs :
              /\ l.wchan[p] = IF k.wchan[p] = ch THEN NONE ELSE k.wchan[p]
              /\ l.stat[p] = IF k.wchan[p] = ch /\ k.stat[p] = "SSLEEP"
                               THEN "SRUN" ELSE k.stat[p]
<1> DEFINE S == Sleepers(k, ch)
           A == Asleep(k, ch)
           m == Unsleep(k, S)
           n == Runnable(m, A)
           l == WakeupIn(k, ch)
<1>1. k \in Kern /\ ~k.panic /\ QueuedOK(k, c) /\ ChainOK(k) /\ ch # NONE
  BY ChansAssumption DEF Core
<1>2. /\ S \in SUBSET Procs /\ A \in SUBSET Procs
      /\ \A p \in Procs : (p \in S <=> k.wchan[p] = ch)
                       /\ (p \in A <=> k.wchan[p] = ch /\ k.stat[p] = "SSLEEP")
  BY DEF Sleepers, Asleep
<1>3. l = PanicIf(n, Astray(k))
  BY DEF WakeupIn
<1> HIDE DEF S, A, l
<1>4. /\ m \in Kern /\ Same(k, m, {"wchan"})
      /\ \A p \in Procs : m.wchan[p] = IF p \in S THEN NONE ELSE k.wchan[p]
  BY <1>1, UnsleepIs
<1> HIDE DEF m
<1>5. /\ n \in Kern /\ Same(m, n, {"stat", "runq", "panic"})
      /\ \A p \in Procs : n.stat[p] = IF p \in A THEN "SRUN" ELSE m.stat[p]
      /\ n.runq = m.runq \cup (A \cap m.load)
      /\ n.panic <=> m.panic \/ (A \cap m.load) \cap m.runq # {}
  BY <1>2, <1>4, RunnableIs
<1> HIDE DEF n
<1>6. ~Astray(k) /\ Astray(k) \in BOOLEAN
  BY <1>1 DEF Astray, QueuedOK, ChainOK
<1>7. /\ l \in Kern /\ Same(n, l, {"panic"})
      /\ l.panic <=> n.panic
  BY <1>3, <1>5, <1>6, PanicIfIs
<1>8. A \cap k.runq = {} /\ c \notin A
  <2>1. \A p \in A : k.stat[p] = "SSLEEP" /\ p \in Procs
    BY <1>2
  <2>2. \A p \in A : p \notin k.runq
    BY <1>1, <2>1 DEF QueuedOK
  <2>3. c \notin A
    BY <1>1, <2>1, NoneApart DEF Core
  <2> QED BY <2>2, <2>3
<1>9. ~l.panic
  BY <1>1, <1>4, <1>5, <1>7, <1>8 DEF Same
<1>10. Same(k, l, {"stat", "wchan", "runq"})
  BY <1>1, <1>4, <1>5, <1>7, <1>9 DEF Same, Kern
<1>11. \A p \in Procs :
         /\ l.wchan[p] = IF k.wchan[p] = ch THEN NONE ELSE k.wchan[p]
         /\ l.stat[p] = IF p \in A THEN "SRUN" ELSE k.stat[p]
  BY <1>2, <1>4, <1>5, <1>7 DEF Same
<1>12. l.runq = k.runq \cup (A \cap k.load) /\ l.load = k.load
  BY <1>4, <1>5, <1>7 DEF Same
<1>13. \A p \in Procs \ A : k.stat[p] = "SSLEEP" => l.wchan[p] # NONE
  BY <1>1, <1>2, <1>11 DEF ChainOK
<1>14. Core(l, c)
  BY <1>2, <1>7, <1>8, <1>9, <1>11, <1>12, <1>13, WakeCore
<1> QED BY <1>2, <1>10, <1>11, <1>14 DEF l

LEMMA WokenTrans ==
  ASSUME NEW k \in Kern, NEW l \in Kern, NEW m \in Kern, NEW p \in Procs,
         Woken(k, l, p), Woken(l, m, p)
  PROVE  Woken(k, m, p)
BY DEF Woken

LEMMA RousedIs ==
  ASSUME NEW k, NEW c, Core(k, c)
  PROVE  LET l == Roused(k) IN
         /\ Core(l, c) /\ Same(k, l, {"stat", "wchan", "runq", "runout"})
         /\ \A p \in Procs : /\ Woken(k, l, p)
                             /\ k.wchan[p] # "runout" => l.stat[p] = k.stat[p]
         /\ Alert(k) => ~Watching(l)
<1> DEFINE j == [k EXCEPT !.runout = FALSE]
           l == Roused(k)
<1>1. k \in Kern
  BY DEF Core
<1>2. CASE k.runout
  <2>1. j \in Kern /\ Same(k, j, {"runout"})
    BY <1>1 DEF Same, Kern
  <2>2. Core(j, c)
    BY <2>1 DEF Core, QueuedOK, ChainOK, Same
  <2>3. l = WakeupIn(j, "runout") /\ "runout" \in Chans
    BY <1>2 DEF Roused, Chans, Apart
  <2> HIDE DEF j, l
  <2>4. /\ Core(l, c) /\ Same(j, l, {"stat", "wchan", "runq"})
        /\ \A p \in Procs :
             /\ l.wchan[p] = IF j.wchan[p] = "runout" THEN NONE ELSE j.wchan[p]
             /\ l.stat[p] = IF j.wchan[p] = "runout" /\ j.stat[p] = "SSLEEP"
                              THEN "SRUN" ELSE j.stat[p]
    BY <2>2, <2>3, WakeupInIs
  <2>5. j.stat = k.stat /\ j.wchan = k.wchan
    BY <2>1 DEF Same
  <2>6. ASSUME NEW p \in Procs
        PROVE  Woken(k, l, p) /\ (k.wchan[p] # "runout" => l.stat[p] = k.stat[p])
    <3>1. k.stat[p] = "SSLEEP" \/ l.stat[p] = k.stat[p]
      BY <2>4, <2>5
    <3> QED BY <2>4, <2>5, <3>1 DEF Woken
  <2>7. Same(k, l, {"stat", "wchan", "runq", "runout"})
    BY <2>1, <2>4 DEF Same
  <2>8. ~Watching(l)
    BY <2>4, NoneApart, ChansAssumption DEF Watching, Apart, Chans
  <2> QED BY <2>4, <2>6, <2>7, <2>8 DEF l
<1>3. CASE ~k.runout
  BY <1>1, <1>3 DEF Roused, Same, Woken, Alert
<1> QED BY <1>2, <1>3

LEMMA SummonIs ==
  ASSUME NEW k, NEW c, Core(k, c), NEW W \in SUBSET Procs
  PROVE  LET l == Summon(k, W) IN
         /\ Core(l, c) /\ Same(k, l, {"stat", "wchan", "runq", "runout", "wantin"})
         /\ \A p \in Procs : Woken(k, l, p)
         /\ k.wantin => l.wantin
         /\ W \subseteq k.load => l = k
         /\ ~(W \subseteq k.load) => l.wantin /\ (Alert(k) => ~Watching(l))
<1> DEFINE j == Roused(k)
           l == Summon(k, W)
<1>1. k \in Kern
  BY DEF Core
<1>2. CASE W \subseteq k.load
  BY <1>1, <1>2 DEF Summon, Same, Woken
<1>3. CASE ~(W \subseteq k.load)
  <2>1. l = [j EXCEPT !.wantin = TRUE]
    BY <1>3 DEF Summon
  <2> HIDE DEF j, l
  <2>2. /\ Core(j, c) /\ Same(k, j, {"stat", "wchan", "runq", "runout"})
        /\ \A p \in Procs : Woken(k, j, p)
        /\ Alert(k) => ~Watching(j)
    BY RousedIs DEF j
  <2>3. l \in Kern /\ Same(j, l, {"wantin"}) /\ l.wantin
    BY <2>1, <2>2 DEF Same, Kern, Core
  <2>4. Core(l, c)
    BY <2>2, <2>3 DEF Core, QueuedOK, ChainOK, Same
  <2>5. Same(k, l, {"stat", "wchan", "runq", "runout", "wantin"})
    BY <2>2, <2>3 DEF Same
  <2>6. l.stat = j.stat /\ l.wchan = j.wchan
    BY <2>3 DEF Same
  <2>7. (\A p \in Procs : Woken(k, l, p)) /\ (Alert(k) => ~Watching(l))
    BY <2>2, <2>6 DEF Woken, Watching
  <2> QED BY <1>3, <2>3, <2>4, <2>5, <2>7 DEF l
<1> QED BY <1>2, <1>3

(* Wakeups do nothing but start sleepers, and count those not in core.     *)
LEMMA WokenGentle ==
  ASSUME NEW k \in Kern, NEW l \in Kern,
         Same(k, l, {"stat", "wchan", "runq", "runout", "wantin"}),
         \A p \in Procs : Woken(k, l, p), k.wantin => l.wantin,
         \A p \in Procs : Fresh(k, l, p) => l.wantin
  PROVE  Gentle(k, l)
<1>1. l.load = k.load /\ l.pptr = k.pptr /\ l.intr = k.intr /\ l.sig = k.sig
  BY DEF Same
<1>2. \A p \in Procs : Mild(k, l, p)
  BY DEF Woken, Mild, Alive
<1>3. \A p \in Users : Obeys(k, l, p) /\ Firm(k, l, p)
  BY <1>1, WokenFine, NoneApart
<1>4. Watching(l) => Watching(k)
  BY WokenWatching, NoneApart
<1> QED BY <1>1, <1>2, <1>3, <1>4 DEF Gentle, Calm

LEMMA WakeupIs ==
  ASSUME NEW k, NEW c, Core(k, c), NEW ch \in Chans
  PROVE  LET l == Wakeup(k, ch) IN
         /\ Core(l, c) /\ Same(k, l, {"stat", "wchan", "runq", "runout", "wantin"})
         /\ Gentle(k, l) /\ Heeds(k, l)
         /\ \A p \in Procs : Woken(k, l, p) /\ l.wchan[p] # ch
<1> DEFINE A == Asleep(k, ch)
           m == WakeupIn(k, ch)
           l == Wakeup(k, ch)
<1>1. /\ k \in Kern /\ ch # NONE /\ A \in SUBSET Procs
      /\ \A p \in Procs : p \in A <=> k.wchan[p] = ch /\ k.stat[p] = "SSLEEP"
  BY NoneApart DEF Core, Asleep, Sleepers
<1>2. l = Summon(m, A)
  BY DEF Wakeup
<1> HIDE DEF A, m, l
<1>3. /\ Core(m, c) /\ Same(k, m, {"stat", "wchan", "runq"})
      /\ \A p \in Procs :
           /\ m.wchan[p] = IF k.wchan[p] = ch THEN NONE ELSE k.wchan[p]
           /\ m.stat[p] = IF k.wchan[p] = ch /\ k.stat[p] = "SSLEEP"
                            THEN "SRUN" ELSE k.stat[p]
  BY WakeupInIs DEF m
<1>4. /\ Core(l, c) /\ Same(m, l, {"stat", "wchan", "runq", "runout", "wantin"})
      /\ \A p \in Procs : Woken(m, l, p)
      /\ m.wantin => l.wantin
      /\ A \subseteq m.load => l = m
      /\ ~(A \subseteq m.load) => l.wantin /\ (Alert(m) => ~Watching(l))
  BY <1>1, <1>2, <1>3, SummonIs
<1>5. m \in Kern /\ l \in Kern /\ m.load = k.load /\ m.wantin = k.wantin /\ m.runout = k.runout
  BY <1>3, <1>4 DEF Core, Same
<1>6. Same(k, l, {"stat", "wchan", "runq", "runout", "wantin"})
  BY <1>3, <1>4 DEF Same
<1>7. ASSUME NEW p \in Procs PROVE Woken(k, m, p) /\ Woken(k, l, p) /\ l.wchan[p] # ch
  <2>1. Woken(k, m, p)
    <3>1. k.stat[p] = "SSLEEP" \/ m.stat[p] = k.stat[p]
      BY <1>3
    <3> QED BY <1>3, <3>1 DEF Woken
  <2>2. m.wchan[p] # ch
    BY <1>1, <1>3
  <2> QED BY <1>1, <1>4, <1>5, <2>1, <2>2, WokenTrans DEF Woken
<1>8. ASSUME NEW p \in Procs, Fresh(k, l, p) PROVE ~(A \subseteq m.load)
  BY <1>1, <1>3, <1>4, <1>5, <1>8 DEF Fresh
<1>9. Gentle(k, l)
  BY <1>1, <1>4, <1>5, <1>6, <1>7, <1>8, WokenGentle
<1>10. Alert(k) => Alert(m)
  BY <1>1, <1>5, <1>7, WokenWatching, NoneApart DEF Alert
<1>11. Heeds(k, l)
  BY <1>4, <1>8, <1>10 DEF Heeds, NoFresh, Alert
<1> QED BY <1>4, <1>6, <1>7, <1>9, <1>11 DEF l

LEMMA SetrunIs ==
  ASSUME NEW k, NEW c, Core(k, c), NEW p \in Users, k.stat[p] \in {"SSLEEP", "SSTOP"}
  PROVE  LET l == Setrun(k, p) IN
         /\ Core(l, c) /\ Same(k, l, {"stat", "wchan", "runq", "runout", "wantin"})
         /\ l.stat[p] = "SRUN" /\ l.wchan[p] = NONE
         /\ \A q \in Procs \ {p} : Woken(k, l, q)
         /\ k.wantin => l.wantin
         /\ \A q \in Procs : Fresh(k, l, q) => l.wantin
         /\ Heeds(k, l)
         /\ Watching(l) => Watching(k)
<1> DEFINE m == Unsleep(k, {p})
           n == Runnable(m, {p})
           s == Summon(n, {p})
           l == Setrun(k, p)
<1>1. /\ k \in Kern /\ ~k.panic /\ QueuedOK(k, c) /\ ChainOK(k)
      /\ p \in Procs /\ p # SCHED /\ p # c
  BY NoneApart DEF Core
<1>2. l = PanicIf(s, FALSE)
  BY DEF Setrun
<1> HIDE DEF l
<1>3. /\ m \in Kern /\ Same(k, m, {"wchan"})
      /\ \A q \in Procs : m.wchan[q] = IF q \in {p} THEN NONE ELSE k.wchan[q]
  BY <1>1, UnsleepIs
<1> HIDE DEF m
<1>4. /\ n \in Kern /\ Same(m, n, {"stat", "runq", "panic"})
      /\ \A q \in Procs : n.stat[q] = IF q \in {p} THEN "SRUN" ELSE m.stat[q]
      /\ n.runq = m.runq \cup ({p} \cap m.load)
      /\ n.panic <=> m.panic \/ ({p} \cap m.load) \cap m.runq # {}
  BY <1>1, <1>3, RunnableIs
<1> HIDE DEF n
<1>5. p \notin k.runq
  BY <1>1 DEF QueuedOK
<1>6. ~n.panic
  BY <1>1, <1>3, <1>4, <1>5 DEF Same
<1>7. /\ Same(k, n, {"stat", "wchan", "runq"})
      /\ \A q \in Procs : /\ n.stat[q] = IF q = p THEN "SRUN" ELSE k.stat[q]
                          /\ n.wchan[q] = IF q = p THEN NONE ELSE k.wchan[q]
      /\ n.runq = k.runq \cup ({p} \cap k.load) /\ n.load = k.load
  BY <1>1, <1>3, <1>4, <1>6 DEF Same, Kern
<1>8. Core(n, c)
  <2>1. \A q \in Procs \ {p} : k.stat[q] = "SSLEEP" => n.wchan[q] # NONE
    BY <1>1, <1>7 DEF ChainOK
  <2>2. {p} \in SUBSET (Procs \ {c})
    BY <1>1
  <2>3. \A q \in Procs : /\ n.stat[q] = IF q \in {p} THEN "SRUN" ELSE k.stat[q]
                         /\ n.wchan[q] \in {k.wchan[q], NONE}
    BY <1>7
  <2>4. \A q \in {p} : n.wchan[q] = NONE /\ k.stat[q] \in {"SSLEEP", "SSTOP"}
    BY <1>1, <1>7
  <2> QED BY <1>4, <1>6, <1>7, <2>1, <2>2, <2>3, <2>4, WakeCore
<1>9. /\ Core(s, c) /\ Same(n, s, {"stat", "wchan", "runq", "runout", "wantin"})
      /\ \A q \in Procs : Woken(n, s, q)
      /\ n.wantin => s.wantin
      /\ {p} \subseteq n.load => s = n
      /\ ~({p} \subseteq n.load) => s.wantin /\ (Alert(n) => ~Watching(s))
  BY <1>1, <1>8, SummonIs
<1> HIDE DEF s
<1>10. l = s
  <2>1. s \in Kern /\ ~s.panic
    BY <1>9 DEF Core
  <2> QED BY <1>2, <2>1 DEF PanicIf, Kern
<1>11. Same(k, l, {"stat", "wchan", "runq", "runout", "wantin"})
  BY <1>7, <1>9, <1>10 DEF Same
<1>12. k.wantin => l.wantin
  BY <1>7, <1>9, <1>10 DEF Same
<1>13. ASSUME NEW q \in Procs \ {p} PROVE Woken(k, l, q)
  BY <1>7, <1>9, <1>10 DEF Woken
<1>14. l.stat[p] = "SRUN" /\ l.wchan[p] = NONE
  BY <1>1, <1>7, <1>9, <1>10 DEF Woken
<1>15. ASSUME NEW q \in Procs, Fresh(k, l, q) PROVE ~({p} \subseteq n.load)
  BY <1>1, <1>7, <1>9, <1>10, <1>15 DEF Fresh, Woken
<1>16. Watching(l) => Watching(n)
  BY <1>4, <1>9, <1>10, WokenWatching, NoneApart DEF Core
<1>17. Watching(n) => Watching(k)
  BY <1>1, <1>7, NoneApart DEF Watching
<1>18. Alert(k) => Alert(n)
  BY <1>7, <1>17 DEF Alert, Same
<1>19. Heeds(k, l)
  BY <1>9, <1>10, <1>15, <1>16, <1>18 DEF Heeds, NoFresh, Alert
<1> QED BY <1>9, <1>10, <1>11, <1>12, <1>13, <1>14, <1>15, <1>16, <1>17, <1>19 DEF l

-----------------------------------------------------------------------------
(* Signals.                                                                *)

(* A change to one process that does not make it run.                      *)
Touches(p, k, l) ==
  /\ Same(k, l, {"stat", "wchan", "sig", "cursig", "wted"})
  /\ \A q \in Procs \ {p} : l.stat[q] = k.stat[q] /\ l.wchan[q] = k.wchan[q]
  /\ \A q \in Users \ {p} : l.sig[q] = k.sig[q]
  /\ \/ l.stat[p] = k.stat[p]
     \/ k.stat[p] \in {"SSLEEP", "SSTOP"} /\ l.stat[p] \in {"SSLEEP", "SSTOP"}
  /\ l.wchan[p] \in {k.wchan[p], NONE}
  /\ l.wchan[p] = NONE => l.stat[p] # "SSLEEP"

LEMMA TouchCore ==
  ASSUME NEW k, NEW c, Core(k, c), NEW l \in Kern, NEW p \in Users, Touches(p, k, l)
  PROVE  Core(l, c)
<1>1. k \in Kern /\ ~k.panic /\ QueuedOK(k, c) /\ ChainOK(k) /\ p \in Procs /\ p # SCHED
  BY NoneApart DEF Core
<1>2. l.load = k.load /\ l.runq = k.runq /\ l.panic = k.panic
  BY DEF Touches, Same
<1>3. QueuedOK(l, c)
  <2> SUFFICES ASSUME NEW q \in Procs
               PROVE  q \in l.runq <=> l.stat[q] = "SRUN" /\ q \in l.load /\ q # c
    BY DEF QueuedOK
  <2>1. l.stat[q] = "SRUN" <=> k.stat[q] = "SRUN"
    BY <1>1 DEF Touches
  <2> QED BY <1>1, <1>2, <2>1 DEF QueuedOK
<1>4. ChainOK(l)
  <2> SUFFICES ASSUME NEW q \in Procs
               PROVE  /\ l.stat[q] = "SSLEEP" => l.wchan[q] # NONE
                      /\ l.wchan[q] # NONE => l.stat[q] \in {"SSLEEP", "SSTOP"}
    BY DEF ChainOK
  <2> QED BY <1>1 DEF ChainOK, Touches
<1>5. /\ l.stat[SCHED] = k.stat[SCHED] /\ SCHED \in l.load
      /\ c # NONE => l.stat[c] = k.stat[c]
  BY <1>1, <1>2, NoneApart DEF Touches, Core
<1> QED BY <1>1, <1>2, <1>3, <1>4, <1>5 DEF Core

LEMMA TouchCalm ==
  ASSUME NEW k, NEW c, Core(k, c), NEW l \in Kern, NEW p \in Users, Touches(p, k, l),
         Obeys(k, l, p)
  PROVE  Calm(k, l) /\ Heeds(k, l) /\ (Firm(k, l, p) => Gentle(k, l))
<1>1. k \in Kern /\ p \in Procs /\ p # SCHED /\ SCHED \in Procs
  BY NoneApart DEF Core
<1>2. /\ l.load = k.load /\ l.pptr = k.pptr /\ l.intr = k.intr
      /\ l.runout = k.runout /\ l.wantin = k.wantin
  BY DEF Touches, Same
<1>3. \A q \in Procs : l.stat[q] = "SRUN" => k.stat[q] = "SRUN"
  BY <1>1 DEF Touches
<1>4. ASSUME NEW q \in Procs PROVE Mild(k, l, q)
  BY <1>1, <1>3 DEF Touches, Mild, Fresh, Alive
<1>5. ASSUME NEW q \in Users \ {p} PROVE Obeys(k, l, q) /\ Firm(k, l, q)
  <2>1. l.stat[q] = k.stat[q] /\ l.wchan[q] = k.wchan[q] /\ l.sig[q] = k.sig[q]
    BY NoneApart DEF Touches
  <2>2. Weighty(l, q) = Weighty(k, q)
    BY <2>1 DEF Weighty, Pending
  <2> QED BY <1>2, <2>1, <2>2 DEF Obeys, Firm, Lull
<1>6. l.stat[SCHED] = k.stat[SCHED] /\ l.wchan[SCHED] = k.wchan[SCHED]
  BY <1>1 DEF Touches
<1>7. Watching(l) <=> Watching(k)
  BY <1>6 DEF Watching
<1>8. Calm(k, l)
  BY <1>2, <1>4, <1>5, <1>7 DEF Calm
<1>9. Heeds(k, l)
  BY <1>2, <1>3, <1>7 DEF Heeds, Alert, NoFresh, Fresh
<1>10. Firm(k, l, p) => Gentle(k, l)
  BY <1>5, <1>8 DEF Gentle
<1> QED BY <1>8, <1>9, <1>10

(* A signal, or several, that make the process run.                        *)
LEMMA PostRun ==
  ASSUME NEW k, NEW c, Core(k, c), NEW p \in Users, k.stat[p] \in {"SSLEEP", "SSTOP"},
         NEW j \in Kern, Same(k, j, {"sig"}),
         \A q \in Users \ {p} : j.sig[q] = k.sig[q],
         k.stat[p] = "SSTOP" => {"CONT", "KILL"} \cap j.sig[p] # {}
  PROVE  LET l == Setrun(j, p) IN
         /\ Core(l, c) /\ Calm(k, l) /\ Heeds(k, l) /\ l.sig = j.sig
         /\ l.stat[p] = "SRUN" /\ l.wchan[p] = NONE
         /\ Firm(k, j, p) => Gentle(k, l)
<1> DEFINE l == Setrun(j, p)
<1>1. k \in Kern /\ p \in Procs /\ p # SCHED
  BY NoneApart DEF Core
<1>2. /\ j.stat = k.stat /\ j.wchan = k.wchan /\ j.load = k.load /\ j.runq = k.runq
      /\ j.wantin = k.wantin /\ j.runout = k.runout /\ j.panic = k.panic
      /\ j.intr = k.intr /\ j.pptr = k.pptr
  BY DEF Same
<1>3. Core(j, c)
  BY <1>2 DEF Core, QueuedOK, ChainOK
<1>4. /\ Core(l, c) /\ Same(j, l, {"stat", "wchan", "runq", "runout", "wantin"})
      /\ l.stat[p] = "SRUN" /\ l.wchan[p] = NONE
      /\ \A q \in Procs \ {p} : Woken(j, l, q)
      /\ j.wantin => l.wantin
      /\ \A q \in Procs : Fresh(j, l, q) => l.wantin
      /\ Heeds(j, l)
      /\ Watching(l) => Watching(j)
  BY <1>2, <1>3, SetrunIs
<1> HIDE DEF l
<1>5. /\ l.load = k.load /\ l.pptr = k.pptr /\ l.intr = k.intr /\ l.sig = j.sig
      /\ k.wantin => l.wantin
  BY <1>2, <1>4 DEF Same
<1>6. ASSUME NEW q \in Procs \ {p} PROVE Woken(k, l, q)
  BY <1>2, <1>4 DEF Woken
<1>7. ASSUME NEW q \in Procs PROVE Mild(k, l, q)
  <2>1. CASE q = p
    BY <1>1, <1>2, <1>4, <2>1 DEF Mild, Alive, Fresh
  <2>2. CASE q # p
    BY <1>2, <1>4, <1>6, <2>2 DEF Mild, Alive, Woken, Fresh
  <2> QED BY <2>1, <2>2
<1>8. ASSUME NEW q \in Users \ {p} PROVE Obeys(k, l, q) /\ Firm(k, l, q)
  <2>1. l.sig[q] = k.sig[q] /\ l \in Kern
    BY <1>4, <1>5 DEF Core
  <2> QED BY <1>1, <1>5, <1>6, <2>1, WokenFine, NoneApart
<1>9. Obeys(k, l, p)
  BY <1>4, <1>5 DEF Obeys, Lull
<1>10. Watching(l) => Watching(k)
  BY <1>2, <1>4 DEF Watching
<1>11. Calm(k, l)
  BY <1>5, <1>7, <1>8, <1>9, <1>10 DEF Calm
<1>12. Heeds(k, l)
  BY <1>2, <1>4 DEF Heeds, Alert, Watching, NoFresh, Fresh
<1>13. Firm(k, j, p) => Gentle(k, l)
  BY <1>5, <1>8, <1>11 DEF Gentle, Firm
<1> QED BY <1>4, <1>5, <1>11, <1>12, <1>13 DEF l

(* Changes of pending signals only.                                        *)
LEMMA SigTouch ==
  ASSUME NEW k, NEW c, Core(k, c), NEW l \in Kern, NEW p \in Users,
         Same(k, l, {"sig", "cursig"}), \A q \in Users \ {p} : l.sig[q] = k.sig[q],
         Lull(k, p) => Lull(l, p)
  PROVE  /\ Core(l, c) /\ Calm(k, l) /\ Heeds(k, l)
         /\ Firm(k, l, p) => Gentle(k, l)
<1>1. l.stat = k.stat /\ l.wchan = k.wchan
  BY DEF Same
<1>2. Same(k, l, {"stat", "wchan", "sig", "cursig", "wted"})
  BY DEF Same
<1>3. l.wchan[p] = NONE => l.stat[p] # "SSLEEP"
  BY <1>1, NoneApart DEF Core, ChainOK
<1>4. Touches(p, k, l)
  BY <1>1, <1>2, <1>3 DEF Touches
<1>5. Obeys(k, l, p)
  BY <1>1 DEF Obeys
<1> QED BY <1>4, <1>5, TouchCore, TouchCalm

LEMMA LullIf ==
  ASSUME NEW k, NEW l, NEW p \in Users, l.wchan = k.wchan, l.intr = k.intr,
         l.stat = k.stat, Weighty(l, p) \subseteq Weighty(k, p)
  PROVE  Lull(k, p) => Lull(l, p)
BY DEF Lull

LEMMA WeightyIf ==
  ASSUME NEW k, NEW l, NEW p \in Users, NEW S, l.sig[p] \subseteq k.sig[p] \cup S,
         \A s \in S : s \in Held[p] \/ s \notin Caught[p] \cup {"HUP", "KILL"} \cup Stops
  PROVE  Weighty(l, p) \subseteq Weighty(k, p)
BY DEF Weighty, Pending

LEMMA PsignalPlainIs ==
  ASSUME NEW k, NEW c, Core(k, c), NEW p \in Users, NEW s \in Signals \ Stops
  PROVE  LET l == PsignalPlain(k, p, s) IN
         Core(l, c) /\ Gentle(k, l) /\ Heeds(k, l)
<1> DEFINE j == Post(k, p, s)
           l == PsignalPlain(k, p, s)
<1>1. k \in Kern /\ ChainOK(k) /\ p \in Procs /\ p # SCHED /\ s \in Signals
  BY NoneApart DEF Core
<1>2. /\ j \in Kern /\ Same(k, j, {"sig"})
      /\ \A q \in Users : j.sig[q] = IF q = p THEN (k.sig[p] \ Cancels(s)) \cup {s} ELSE k.sig[q]
  BY <1>1, PostIs
<1>3. /\ s = "CONT" => Cancels(s) = Stops
      /\ s # "CONT" => Cancels(s) = {}
      /\ {"CONT", "KILL"} \cap Stops = {}
  BY <1>1, CancelsWhat DEF Stops
<1>4. Firm(k, j, p) /\ s \in j.sig[p]
  BY <1>2, <1>3 DEF Firm
<1>5. j.stat = k.stat /\ j.wchan = k.wchan /\ j.intr = k.intr
  BY <1>2 DEF Same
<1>6. Same(k, j, {"sig", "cursig"})
  BY <1>2 DEF Same
<1>7. ASSUME Lull(k, p) => Lull(j, p) PROVE Core(j, c) /\ Gentle(k, j) /\ Heeds(k, j)
  BY <1>2, <1>4, <1>6, <1>7, SigTouch
<1>8. ASSUME k.stat[p] \in {"SSLEEP", "SSTOP"}, k.stat[p] = "SSTOP" => s \in {"CONT", "KILL"}
      PROVE  LET m == Setrun(j, p) IN Core(m, c) /\ Gentle(k, m) /\ Heeds(k, m)
  <2>1. k.stat[p] = "SSTOP" => {"CONT", "KILL"} \cap j.sig[p] # {}
    BY <1>4, <1>8
  <2> QED BY <1>2, <1>4, <1>8, <2>1, PostRun
<1>9. CASE s \in Ignored[p] \/ k.stat[p] = "SZOMB"
  BY <1>1, <1>9, CalmSelf DEF PsignalPlain
<1>10. CASE ~(s \in Ignored[p] \/ k.stat[p] = "SZOMB") /\ s \in Held[p]
  <2>1. l = j
    BY <1>10 DEF PsignalPlain
  <2>2. Weighty(j, p) \subseteq Weighty(k, p)
    BY <1>2, <1>10, WeightyIf
  <2> HIDE DEF j, l
  <2>3. Lull(k, p) => Lull(j, p)
    BY <1>5, <2>2, LullIf
  <2> QED BY <1>7, <2>1, <2>3 DEF l
<1>11. CASE /\ ~(s \in Ignored[p] \/ k.stat[p] = "SZOMB") /\ s \notin Held[p]
            /\ k.stat[p] = "SSLEEP"
  <2>1. l = Interrupt(j, p, s)
    BY <1>11 DEF PsignalPlain
  <2>2. CASE p \notin k.intr
    <3>1. l = j
      BY <1>5, <2>1, <2>2 DEF Interrupt
    <3>2. Lull(j, p)
      BY <1>5, <2>2 DEF Lull
    <3> QED BY <1>7, <3>1, <3>2
  <2>3. CASE p \in k.intr /\ s = "CHLD" /\ s \notin Caught[p]
    <3>1. l = Take(j, p, s)
      BY <1>5, <2>1, <2>3 DEF Interrupt
    <3> HIDE DEF j, l
    <3>2. /\ l \in Kern /\ Same(j, l, {"sig"})
          /\ \A q \in Users \ {p} : l.sig[q] = j.sig[q]
          /\ \A x : x \in l.sig[p] <=> x \in j.sig[p] /\ x # s
      <4>1. j \in Kern
        BY <1>2
      <4> QED BY <3>1, <4>1, TakeIs
    <3>3. Same(k, l, {"sig", "cursig"}) /\ \A q \in Users \ {p} : l.sig[q] = k.sig[q]
      BY <1>2, <3>2 DEF Same
    <3>4. l.sig[p] \subseteq k.sig[p] /\ Firm(k, l, p)
      BY <1>2, <1>3, <2>3, <3>2 DEF Firm
    <3>5. Weighty(l, p) \subseteq Weighty(k, p)
      BY <3>4 DEF Weighty, Pending
    <3>6. Lull(k, p) => Lull(l, p)
      BY <3>3, <3>5, LullIf DEF Same
    <3> QED BY <3>2, <3>3, <3>4, <3>6, SigTouch DEF l
  <2>4. CASE p \in k.intr /\ ~(s = "CHLD" /\ s \notin Caught[p])
    <3>1. l = Setrun(j, p)
      BY <1>5, <2>1, <2>4 DEF Interrupt
    <3> HIDE DEF j
    <3> QED BY <1>8, <1>11, <3>1
  <2> QED BY <2>2, <2>3, <2>4
<1>12. CASE /\ ~(s \in Ignored[p] \/ k.stat[p] = "SZOMB") /\ s \notin Held[p]
            /\ k.stat[p] = "SSTOP"
  <2>1. l = Resume(j, p, s)
    BY <1>12 DEF PsignalPlain
  <2>2. CASE s = "KILL" \/ (s = "CONT" /\ (s \in Caught[p] \/ j.wchan[p] = NONE))
    <3>1. l = Setrun(j, p)
      BY <2>1, <2>2 DEF Resume
    <3> HIDE DEF j
    <3> QED BY <1>8, <1>12, <2>2, <3>1
  <2>3. CASE s = "CONT" /\ s \notin Caught[p] /\ j.wchan[p] # NONE
    <3>1. l = Stat(j, {p}, "SSLEEP")
      BY <2>1, <2>3 DEF Resume
    <3> HIDE DEF j, l
    <3>2. /\ l \in Kern /\ Same(j, l, {"stat"})
          /\ \A q \in Procs : l.stat[q] = IF q \in {p} THEN "SSLEEP" ELSE j.stat[q]
      BY <1>2, <3>1, StatIs DEF Alive
    <3>3. Same(k, l, {"stat", "wchan", "sig", "cursig", "wted"})
      BY <1>2, <3>2 DEF Same
    <3>4. l.wchan = k.wchan /\ l.sig = j.sig /\ l.intr = k.intr
      BY <1>5, <3>2 DEF Same
    <3>5. l.stat[p] = "SSLEEP" /\ \A q \in Procs \ {p} : l.stat[q] = k.stat[q]
      BY <1>1, <1>5, <3>2
    <3>6. Touches(p, k, l)
      BY <1>2, <1>5, <1>12, <2>3, <3>3, <3>4, <3>5 DEF Touches
    <3>7. Weighty(l, p) \subseteq Weighty(k, p) \ Stops
      BY <1>2, <1>3, <2>3, <3>4 DEF Weighty, Pending, Stops
    <3>8. "CONT" \notin Weighty(l, p)
      BY <2>3 DEF Weighty, Stops
    <3>9. Lull(k, p) => Lull(l, p)
      BY <1>12, <3>4, <3>5, <3>7, <3>8 DEF Lull
    <3>10. Obeys(k, l, p) /\ Firm(k, l, p)
      BY <1>4, <2>3, <3>4, <3>9 DEF Obeys, Firm
    <3> QED BY <3>2, <3>6, <3>10, TouchCore, TouchCalm DEF l
  <2>4. CASE s \notin {"KILL", "CONT"} /\ j.wchan[p] # NONE /\ p \in j.intr
    <3>1. l = Unsleep(j, {p})
      BY <2>1, <2>4 DEF Resume
    <3> HIDE DEF j, l
    <3>2. /\ l \in Kern /\ Same(j, l, {"wchan"})
          /\ \A q \in Procs : l.wchan[q] = IF q \in {p} THEN NONE ELSE j.wchan[q]
      BY <1>2, <3>1, UnsleepIs
    <3>3. Same(k, l, {"stat", "wchan", "sig", "cursig", "wted"})
      BY <1>2, <3>2 DEF Same
    <3>4. l.stat = k.stat /\ l.sig = j.sig
      BY <1>5, <3>2 DEF Same
    <3>5. l.wchan[p] = NONE /\ \A q \in Procs \ {p} : l.wchan[q] = k.wchan[q]
      BY <1>1, <1>5, <3>2
    <3>6. Touches(p, k, l)
      BY <1>2, <1>12, <3>3, <3>4, <3>5 DEF Touches
    <3>7. Obeys(k, l, p) /\ Firm(k, l, p)
      BY <1>4, <3>4, <3>5 DEF Obeys, Firm, Lull
    <3> QED BY <3>2, <3>6, <3>7, TouchCore, TouchCalm DEF l
  <2>5. CASE s \notin {"KILL", "CONT"} /\ ~(j.wchan[p] # NONE /\ p \in j.intr)
    <3>1. l = j
      BY <2>1, <2>5 DEF Resume
    <3>2. Lull(j, p)
      BY <2>5 DEF Lull
    <3> QED BY <1>7, <3>1, <3>2
  <2> QED BY <2>2, <2>3, <2>4, <2>5
<1>13. CASE /\ ~(s \in Ignored[p] \/ k.stat[p] = "SZOMB") /\ s \notin Held[p]
            /\ k.stat[p] \notin {"SSLEEP", "SSTOP"}
  <2>1. l = j
    BY <1>13 DEF PsignalPlain
  <2>2. Lull(j, p)
    BY <1>1, <1>5, <1>13 DEF Lull, ChainOK
  <2> QED BY <1>7, <2>1, <2>2
<1> QED BY <1>9, <1>10, <1>11, <1>12, <1>13

LEMMA PlainFold ==
  \A k, c : Core(k, c) => \A p \in Users : \A s \in Signals \ Stops :
    LET l == PsignalPlain(k, p, s) IN Core(l, c) /\ Gentle(k, l) /\ Heeds(k, l)
BY PsignalPlainIs

LEMMA ChldIs ==
  ASSUME NEW k, NEW c, Core(k, c), NEW q
  PROVE  LET l == Chld(k, q) IN Core(l, c) /\ Gentle(k, l) /\ Heeds(k, l)
<1>1. k \in Kern
  BY DEF Core
<1>2. CASE q \in Users /\ "CHLD" \in Signals
  <2>1. Chld(k, q) = PsignalPlain(k, q, "CHLD")
    BY <1>2 DEF Chld
  <2>2. "CHLD" \in Signals \ Stops
    BY <1>2 DEF Stops
  <2> QED BY <1>2, <2>1, <2>2, PlainFold
<1>3. CASE ~(q \in Users /\ "CHLD" \in Signals)
  BY <1>1, <1>3, CalmSelf DEF Chld
<1> QED BY <1>2, <1>3

LEMMA ParentsIs ==
  ASSUME NEW k, NEW c, Core(k, c), NEW p
  PROVE  LET l == Parents(k, p) IN
         /\ Core(l, c) /\ Gentle(k, l) /\ Heeds(k, l)
         /\ \A r \in Users : k.pptr[p] = r => l.wchan[r] # r
<1>1. k \in Kern
  BY DEF Core
<1>2. CASE k.pptr[p] \in Users
  <2>1. Parents(k, p) = Wakeup(k, k.pptr[p]) /\ k.pptr[p] \in Chans
    BY <1>2, NoneApart DEF Parents
  <2> QED BY <2>1, WakeupIs, NoneApart
<1>3. CASE k.pptr[p] \notin Users
  BY <1>1, <1>3, CalmSelf DEF Parents
<1> QED BY <1>2, <1>3

(* One call after the other.                                               *)
LEMMA GentleOnce ==
  ASSUME NEW k, NEW c, Core(k, c), NEW l, Core(l, c), Gentle(k, l), Heeds(k, l),
         NEW m, Core(m, c), Gentle(l, m), Heeds(l, m)
  PROVE  Gentle(k, m) /\ Heeds(k, m)
BY GentleTrans, HeedsTrans DEF Core, Gentle

LEMMA CalmOnce ==
  ASSUME NEW k, NEW c, Core(k, c), NEW l, Core(l, c), Calm(k, l), Heeds(k, l),
         NEW m, Core(m, c), Gentle(l, m), Heeds(l, m)
  PROVE  Calm(k, m) /\ Heeds(k, m)
BY CalmTrans, HeedsTrans DEF Core, Gentle

(* The rest of stop, once the process is marked.                           *)
LEMMA StopIs ==
  ASSUME NEW k, NEW p \in Users, NEW m, NEW c, Core(m, c), m.pptr = k.pptr,
         m = [Stat(k, {p}, "SSTOP") EXCEPT !.wted = @ \ {p}]
  PROVE  LET l == Stop(k, p) IN Core(l, c) /\ Gentle(m, l) /\ Heeds(m, l)
<1> DEFINE n == Parents(m, p)
           l == Stop(k, p)
<1>1. l = Chld(n, k.pptr[p])
  BY DEF Stop
<1>2. Core(n, c) /\ Gentle(m, n) /\ Heeds(m, n)
  BY ParentsIs
<1> HIDE DEF n, l
<1>3. Core(l, c) /\ Gentle(n, l) /\ Heeds(n, l)
  BY <1>1, <1>2, ChldIs
<1>4. Gentle(m, l) /\ Heeds(m, l)
  BY <1>2, <1>3, GentleOnce
<1> QED BY <1>3, <1>4 DEF l

LEMMA StopMark ==
  ASSUME NEW k \in Kern, NEW p \in Users
  PROVE  LET m == [Stat(k, {p}, "SSTOP") EXCEPT !.wted = @ \ {p}] IN
         /\ m \in Kern /\ Same(k, m, {"stat", "wted"}) /\ m.pptr = k.pptr
         /\ \A q \in Procs : m.stat[q] = IF q = p THEN "SSTOP" ELSE k.stat[q]
<1> DEFINE j == Stat(k, {p}, "SSTOP")
           m == [j EXCEPT !.wted = @ \ {p}]
<1>1. /\ j \in Kern /\ Same(k, j, {"stat"})
      /\ \A q \in Procs : j.stat[q] = IF q \in {p} THEN "SSTOP" ELSE k.stat[q]
  BY StatIs DEF Alive
<1> HIDE DEF j
<1>2. m \in Kern /\ Same(j, m, {"wted"})
  BY <1>1 DEF Same, Kern
<1> HIDE DEF m
<1>3. Same(k, m, {"stat", "wted"}) /\ m.pptr = k.pptr
  BY <1>1, <1>2 DEF Same
<1>4. \A q \in Procs : m.stat[q] = IF q = p THEN "SSTOP" ELSE k.stat[q]
  BY <1>1, <1>2 DEF Same
<1> QED BY <1>2, <1>3, <1>4 DEF m, j

LEMMA PsignalStopIs ==
  ASSUME NEW k, NEW c, Core(k, c), NEW p \in Users, NEW s \in Signals, s \in Stops
  PROVE  LET l == PsignalStop(k, p, s) IN
         Core(l, c) /\ Calm(k, l) /\ Heeds(k, l)
<1> DEFINE j == Post(k, p, s)
           l == PsignalStop(k, p, s)
<1>1. k \in Kern /\ ChainOK(k) /\ p \in Procs /\ p # SCHED /\ s \in Signals
  BY NoneApart DEF Core
<1>2. /\ j \in Kern /\ Same(k, j, {"sig"})
      /\ \A q \in Users : j.sig[q] = IF q = p THEN (k.sig[p] \ {"CONT"}) \cup {s} ELSE k.sig[q]
  BY <1>1, PostIs, CancelsWhat
<1>3. j.stat = k.stat /\ j.wchan = k.wchan /\ j.intr = k.intr /\ j.pptr = k.pptr
  BY <1>2 DEF Same
<1>4. Same(k, j, {"sig", "cursig"})
  BY <1>2 DEF Same
<1>5. ASSUME Lull(k, p) => Lull(j, p) PROVE Core(j, c) /\ Calm(k, j) /\ Heeds(k, j)
  BY <1>2, <1>4, <1>5, SigTouch
<1>6. s \in {"STOP", "TSTP"}
  BY DEF Stops
<1>7. CASE s \in Ignored[p] \/ k.stat[p] = "SZOMB"
  BY <1>1, <1>7, CalmSelf DEF PsignalStop, Gentle
<1>8. CASE ~(s \in Ignored[p] \/ k.stat[p] = "SZOMB") /\ s \in Held[p]
  <2>1. l = j
    BY <1>8 DEF PsignalStop
  <2>2. Weighty(j, p) \subseteq Weighty(k, p)
    BY <1>2, <1>8, WeightyIf
  <2> HIDE DEF j, l
  <2>3. Lull(k, p) => Lull(j, p)
    BY <1>3, <2>2, LullIf
  <2> QED BY <1>5, <2>1, <2>3 DEF l
<1>9. CASE /\ ~(s \in Ignored[p] \/ k.stat[p] = "SZOMB") /\ s \notin Held[p]
           /\ k.stat[p] = "SSLEEP" /\ p \in k.intr
  <2>1. l = StopSleeper(j, p, s)
    BY <1>9 DEF PsignalStop
  <2>2. CASE s \in Caught[p]
    <3>1. l = Setrun(j, p)
      BY <2>1, <2>2 DEF StopSleeper
    <3> HIDE DEF j
    <3> QED BY <1>2, <1>9, <3>1, PostRun
  <2>3. CASE s \notin Caught[p] /\ Kills(j, p, s)
    <3> DEFINE i == Post(j, p, "KILL")
               m == Setrun(i, p)
    <3>1. s = "TSTP" /\ "KILL" \in Signals
      BY <2>3, ProcSwitchAssumption DEF Kills
    <3>2. /\ i \in Kern /\ Same(j, i, {"sig"})
          /\ \A q \in Users : i.sig[q] =
               IF q = p THEN (j.sig[p] \ Cancels("KILL")) \cup {"KILL"} ELSE j.sig[q]
      <4> HIDE DEF j
      <4>1. j \in Kern /\ "KILL" \in Signals
        BY <1>2, <3>1
      <4> QED BY <4>1, PostIs, ZenonT(60)
    <3>3. "KILL" \notin Ignored[p] \cup Held[p]
      BY ProcSwitchAssumption
    <3>4. PsignalPlain(j, p, "KILL") = Interrupt(i, p, "KILL")
      BY <1>3, <1>9, <3>3 DEF PsignalPlain
    <3>5. i.intr = k.intr
      BY <1>3, <3>2 DEF Same
    <3>6. Interrupt(i, p, "KILL") = m
      BY <1>9, <3>5 DEF Interrupt
    <3>7. l = Take(m, p, s)
      BY <2>1, <2>3, <3>4, <3>6 DEF StopSleeper
    <3> HIDE DEF i, j, l
    <3>8. Same(k, i, {"sig"}) /\ \A q \in Users \ {p} : i.sig[q] = k.sig[q]
      BY <1>2, <3>2 DEF Same
    <3>9. Core(m, c) /\ Calm(k, m) /\ Heeds(k, m) /\ m.wchan[p] = NONE
      BY <1>9, <3>2, <3>8, PostRun
    <3> HIDE DEF m
    <3>10. /\ l \in Kern /\ Same(m, l, {"sig"})
           /\ \A q \in Users \ {p} : l.sig[q] = m.sig[q]
           /\ \A x : x \in l.sig[p] <=> x \in m.sig[p] /\ x # s
      <4>1. m \in Kern
        BY <3>9 DEF Core
      <4> QED BY <3>7, <4>1, TakeIs
    <3>11. Firm(m, l, p)
      BY <3>1, <3>10 DEF Firm
    <3>12. Lull(l, p)
      BY <3>9, <3>10 DEF Lull, Same
    <3>13. Same(m, l, {"sig", "cursig"}) /\ \A q \in Users \ {p} : l.sig[q] = m.sig[q]
      BY <3>10 DEF Same
    <3>14. Core(l, c) /\ Gentle(m, l) /\ Heeds(m, l)
      BY <3>9, <3>10, <3>11, <3>12, <3>13, SigTouch
    <3>15. Calm(k, l) /\ Heeds(k, l)
      BY <3>9, <3>14, CalmOnce
    <3> QED BY <3>14, <3>15 DEF l
  <2>4. CASE s \notin Caught[p] /\ ~Kills(j, p, s)
    <3> DEFINE t == Take(j, p, s)
               i == [t EXCEPT !.cursig[p] = s]
               m == [Stat(i, {p}, "SSTOP") EXCEPT !.wted = @ \ {p}]
    <3>1. l = Stop(i, p)
      BY <2>1, <2>4 DEF StopSleeper
    <3>2. /\ t \in Kern /\ Same(j, t, {"sig"})
          /\ \A q \in Users \ {p} : t.sig[q] = j.sig[q]
          /\ \A x : x \in t.sig[p] <=> x \in j.sig[p] /\ x # s
      BY <1>2, TakeIs
    <3> HIDE DEF t
    <3>3. i \in Kern /\ Same(t, i, {"cursig"})
      <4>1. s \in Action
        BY DEF Action
      <4> QED BY <3>2, <4>1, CursigIs
    <3> HIDE DEF i, j, l
    <3>4. /\ m \in Kern /\ Same(i, m, {"stat", "wted"}) /\ m.pptr = i.pptr
          /\ \A q \in Procs : m.stat[q] = IF q = p THEN "SSTOP" ELSE i.stat[q]
      BY <3>3, StopMark
    <3> HIDE DEF m
    <3>5. Same(k, m, {"stat", "wchan", "sig", "cursig", "wted"})
      BY <1>2, <3>2, <3>3, <3>4 DEF Same
    <3>6. i.stat = k.stat /\ m.wchan = k.wchan /\ m.sig = t.sig /\ m.intr = k.intr
      BY <1>3, <3>2, <3>3, <3>4 DEF Same
    <3>7. m.sig[p] \subseteq k.sig[p] /\ \A q \in Users \ {p} : m.sig[q] = k.sig[q]
      BY <1>2, <3>2, <3>6
    <3>8. m.stat[p] = "SSTOP" /\ \A q \in Procs \ {p} : m.stat[q] = k.stat[q]
      BY <1>1, <3>4, <3>6
    <3>9. Touches(p, k, m)
      BY <1>9, <3>5, <3>6, <3>7, <3>8 DEF Touches
    <3>10. Weighty(m, p) \subseteq Weighty(k, p)
      BY <3>7 DEF Weighty, Pending
    <3>11. Obeys(k, m, p)
      BY <1>9, <3>6, <3>8, <3>10 DEF Obeys, Lull
    <3>12. Core(m, c) /\ Calm(k, m) /\ Heeds(k, m)
      BY <3>4, <3>9, <3>11, TouchCore, TouchCalm
    <3>13. Core(l, c) /\ Gentle(m, l) /\ Heeds(m, l)
      BY <3>1, <3>4, <3>12, StopIs DEF m
    <3>14. Calm(k, l) /\ Heeds(k, l)
      BY <3>12, <3>13, CalmOnce
    <3> QED BY <3>13, <3>14 DEF l
  <2> QED BY <2>2, <2>3, <2>4
<1>10. CASE /\ ~(s \in Ignored[p] \/ k.stat[p] = "SZOMB") /\ s \notin Held[p]
            /\ k.stat[p] = "SSTOP"
  <2>1. l = Take(j, p, s)
    BY <1>10 DEF PsignalStop
  <2> HIDE DEF j, l
  <2>2. /\ l \in Kern /\ Same(j, l, {"sig"})
        /\ \A q \in Users \ {p} : l.sig[q] = j.sig[q]
        /\ \A x : x \in l.sig[p] <=> x \in j.sig[p] /\ x # s
    <3>1. j \in Kern
      BY <1>2
    <3> QED BY <2>1, <3>1, TakeIs
  <2>3. Same(k, l, {"sig", "cursig"}) /\ \A q \in Users \ {p} : l.sig[q] = k.sig[q]
    BY <1>2, <2>2 DEF Same
  <2>4. Weighty(l, p) \subseteq Weighty(k, p)
    BY <1>2, <2>2 DEF Weighty, Pending
  <2>5. Lull(k, p) => Lull(l, p)
    BY <2>3, <2>4, LullIf DEF Same
  <2> QED BY <2>2, <2>3, <2>5, SigTouch DEF l
<1>11. CASE /\ ~(s \in Ignored[p] \/ k.stat[p] = "SZOMB") /\ s \notin Held[p]
            /\ ~(k.stat[p] = "SSLEEP" /\ p \in k.intr) /\ k.stat[p] # "SSTOP"
  <2>1. l = j
    BY <1>11 DEF PsignalStop
  <2>2. Lull(j, p)
    BY <1>1, <1>3, <1>11 DEF Lull, ChainOK
  <2> QED BY <1>5, <2>1, <2>2
<1> QED BY <1>7, <1>8, <1>9, <1>10, <1>11

LEMMA PsignalIs ==
  ASSUME NEW k, NEW c, Core(k, c), NEW p \in Users, NEW s \in Signals
  PROVE  LET l == Psignal(k, p, s) IN
         Core(l, c) /\ Calm(k, l) /\ Heeds(k, l) /\ (s \notin Stops => Gentle(k, l))
<1>1. CASE s \in Stops
  <2>1. Psignal(k, p, s) = PsignalStop(k, p, s)
    BY <1>1 DEF Psignal
  <2> QED BY <1>1, <2>1, PsignalStopIs
<1>2. CASE s \notin Stops
  <2>1. Psignal(k, p, s) = PsignalPlain(k, p, s) /\ s \in Signals \ Stops
    BY <1>2 DEF Psignal
  <2> QED BY <1>2, <2>1, PsignalPlainIs DEF Gentle
<1> QED BY <1>1, <1>2

-----------------------------------------------------------------------------
(* The invariant.                                                          *)

(* Where a process is in the kernel and what its entry of the process      *)
(* table says; nothing happens between wait's look and its sleep, nor in   *)
(* exit, but to the process that runs.                                     *)
Place(p) ==
  /\ kern.stat[p] \in {"SZOMB", "NULL"} <=> pc[p] \in {"exit", "dead"}
  /\ pc[p] = "exit" => kern.stat[p] = "SZOMB"
  /\ pc[p] \in {"sleep", "exit"} => cur = p
  /\ pc[p] = "sleep" => Zombies(p) = {}
  /\ kern.wchan[p] = p => \A q \in Zombies(p) : pc[q] = "exit"
  /\ kern.wchan[p] # "runout"

OffReady == \A p \in Procs : kern.wchan[p] \notin ready
Turn     == cur \in Procs => cur \in kern.load /\ pc[cur] # "dead"

(* What sched knows of the process it has chosen, and of the others.       *)
Chosen ==
  /\ pc[SCHED] \in {"look", "hardswap", "outswap"} => cur = SCHED
  /\ pc[SCHED] = "outswap" => inp \in Users \cap kern.load /\ kern.stat[inp] \in Alive
  /\ pc[SCHED] \in {"look", "hardswap", "swapin"} /\ inp # NONE => inp \notin kern.load
  /\ pc[SCHED] = "swapin" => inp # NONE
  /\ pc[SCHED] = "look" /\ inp = NONE /\ ~kern.wantin
       => \A p \in Users \ (todo \cup skipped) : ~Wants(p)
  /\ Watching(kern) => \A p \in Users \ skipped : ~Wants(p)

Inv ==
  /\ TypeOK /\ Core(kern, cur) /\ Alert(kern)
  /\ \A p \in Users : Lull(kern, p)
  /\ \A p \in Users : Place(p)
  /\ OffReady /\ Turn /\ Chosen

(* Of one step: what is stopped is started by a continue or kill signal.   *)
Starts ==
  \A p \in Users : kern.stat[p] = "SSTOP" /\ kern'.stat[p] # "SSTOP"
    => {"CONT", "KILL"} \cap kern'.sig[p] # {}

Moves(k, l, p) ==
  \/ l.stat[p] = k.stat[p]
  \/ k.stat[p] \in Alive /\ l.stat[p] \in Alive
  \/ k.stat[p] = "SZOMB" /\ l.stat[p] = "NULL"

LEMMA PlaceKept ==
  ASSUME NEW c \in Procs \cup {NONE}, cur = c, Inv, kern' \in Kern, cur' \in {c, NONE},
         \A r \in Users : r # c => /\ pc'[r] = pc[r] /\ Moves(kern, kern', r)
                                   /\ kern'.wchan[r] \in {kern.wchan[r], NONE},
         \A r \in Users : kern'.pptr[r] \in {kern.pptr[r], PROC1, NONE},
         c \in Users => /\ Place(c)'
                        /\ pc'[c] = "dead" => \A r \in Users : kern'.pptr[c] = r
                                                 => kern'.wchan[r] # r,
         NEW q \in Users, q # c
  PROVE  Place(q)'
<1>1. Place(q)
  BY DEF Inv
<1>2. pc'[q] = pc[q] /\ Moves(kern, kern', q) /\ kern'.wchan[q] \in {kern.wchan[q], NONE}
  OBVIOUS
<1>3. pc[q] \notin {"sleep", "exit"}
  BY <1>1 DEF Place
<1>4. kern'.stat[q] \in {"SZOMB", "NULL"} <=> kern.stat[q] \in {"SZOMB", "NULL"}
  BY <1>2 DEF Moves, Alive
<1>5. ASSUME kern'.wchan[q] = q, NEW x \in Users, kern'.pptr[x] = q, kern'.stat[x] = "SZOMB"
      PROVE  pc'[x] = "exit"
  <2>1. kern.wchan[q] = q /\ kern.pptr[x] = q
    BY <1>2, <1>5, NoneApart
  <2>2. CASE x # c
    <3>1. Moves(kern, kern', x) /\ Place(x)
      BY <2>2 DEF Inv
    <3>2. kern.stat[x] = "SZOMB"
      BY <1>5, <3>1 DEF Moves, Alive
    <3>3. x \in Zombies(q)
      BY <2>1, <3>2 DEF Zombies, Children
    <3> QED BY <1>1, <2>1, <2>2, <3>1, <3>3 DEF Place
  <2>3. CASE x = c
    <3>1. Place(x)'
      BY <2>3
    <3>2. pc'[x] \in {"exit", "dead"}
      BY <1>5, <3>1 DEF Place
    <3> QED BY <1>5, <2>3, <3>2
  <2> QED BY <2>2, <2>3
<1>6. kern'.wchan[q] = q => \A x \in Zombies(q)' : pc'[x] = "exit"
  BY <1>5 DEF Zombies, Children
<1> QED BY <1>1, <1>2, <1>3, <1>4, <1>6, NoneApart DEF Place

(* Interrupts, while any process runs, or none.                            *)
LEMMA InterruptInv ==
  ASSUME NEW c, cur = c, Inv, Core(kern', c), Calm(kern, kern'), Heeds(kern, kern'),
         UNCHANGED <<cur, pc, back, inp, todo, skipped>>, ready' \in SUBSET Events,
         \A p \in Procs : kern'.wchan[p] \notin ready'
  PROVE  Inv' /\ Starts
<1>1. /\ TypeOK /\ Core(kern, cur) /\ kern' \in Kern
      /\ \A p \in Users : Lull(kern, p) /\ Place(p)
      /\ Turn /\ Chosen
  BY DEF Inv, Core
<1>2. TypeOK'
  BY <1>1 DEF TypeOK
<1>3. Alert(kern') /\ (Watching(kern') => NoFresh(kern, kern') /\ Watching(kern))
  BY DEF Heeds, Inv, Calm
<1>4. ASSUME NEW p \in Users PROVE Lull(kern', p)
  BY <1>1 DEF Calm, Obeys
<1>5. \A p \in Procs : Mild(kern, kern', p)
  BY DEF Calm
<1>6. /\ kern'.load = kern.load /\ kern'.pptr = kern.pptr
      /\ kern.wantin => kern'.wantin
  BY DEF Calm
<1>7. ASSUME NEW p \in Procs
      PROVE  Moves(kern, kern', p) /\ kern'.wchan[p] \in {kern.wchan[p], NONE}
  BY <1>5 DEF Mild, Moves, Alive
<1>8. ASSUME c \in Users
      PROVE  kern'.stat[c] = kern.stat[c] /\ kern'.wchan[c] = NONE
  <2>1. kern.stat[c] \in {"SRUN", "SZOMB"} /\ c \in Procs
    BY <1>1, <1>8, NoneApart DEF Core
  <2> QED BY <1>1, <1>5, <2>1 DEF Mild, Core, ChainOK
<1>9. ASSUME NEW q \in Users PROVE Zombies(q)' = Zombies(q)
  <2>1. \A x \in Users : kern'.stat[x] = "SZOMB" <=> kern.stat[x] = "SZOMB"
    BY <1>5, NoneApart DEF Mild, Alive
  <2> QED BY <1>6, <2>1 DEF Zombies, Children
<1>10. ASSUME c \in Users PROVE Place(c)'
  <2>1. Place(c)
    BY <1>1, <1>10
  <2> QED BY <1>8, <1>9, <1>10, <2>1, NoneApart DEF Place
<1>11. ASSUME NEW q \in Users PROVE Place(q)'
  <2>1. CASE q = c
    BY <1>10, <2>1
  <2>2. CASE q # c
    <3>1. c \in Users => pc'[c] # "dead"
      BY <1>1, NoneApart DEF Turn
    <3>2. /\ c \in Procs \cup {NONE}
          /\ \A r \in Users : kern'.pptr[r] \in {kern.pptr[r], PROC1, NONE}
      BY <1>1, <1>6 DEF Core
    <3>3. \A r \in Users : r # c => /\ pc'[r] = pc[r] /\ Moves(kern, kern', r)
                                    /\ kern'.wchan[r] \in {kern.wchan[r], NONE}
      BY <1>7, NoneApart
    <3> QED BY <1>1, <1>10, <2>2, <3>1, <3>2, <3>3, PlaceKept
  <2> QED BY <2>1, <2>2
<1>12. Turn'
  BY <1>1, <1>6 DEF Turn
<1>13. Chosen'
  <2>1. ASSUME NEW p \in Users, ~Wants(p), Wants(p)'
        PROVE  kern'.wantin /\ ~NoFresh(kern, kern')
    <3>1. Fresh(kern, kern', p) /\ p \in Procs
      BY <1>6, <2>1, NoneApart DEF Wants, Fresh
    <3> QED BY <1>5, <3>1 DEF Mild, NoFresh
  <2>2. pc[SCHED] = "outswap" => kern'.stat[inp] \in Alive
    BY <1>1, <1>5, NoneApart DEF Chosen, Mild
  <2> QED BY <1>1, <1>3, <1>6, <2>1, <2>2 DEF Chosen
<1>14. OffReady'
  BY DEF OffReady
<1>15. Starts
  BY DEF Starts, Calm, Obeys
<1> QED BY <1>2, <1>3, <1>4, <1>11, <1>12, <1>13, <1>14, <1>15 DEF Inv

(* What a process that runs, or init, changes itself: its own entry, and   *)
(* what its children are to it.                                            *)
Own(p, k, m) ==
  /\ \A q \in Procs \ {p} : /\ m.wchan[q] = k.wchan[q]
                            /\ \/ m.stat[q] = k.stat[q]
                               \/ q \in Users /\ k.stat[q] = "SZOMB" /\ m.stat[q] = "NULL"
  /\ \A q \in Users : m.pptr[q] \in {k.pptr[q], PROC1, NONE}
  /\ m.load \subseteq k.load
  /\ \A q \in Users \ {p} : Lull(k, q) => Lull(m, q)
  /\ m.runout = k.runout

LEMMA TurnInv ==
  ASSUME Inv, NEW p \in Users \cup {NONE}, cur = p, NEW m \in Kern, Own(p, kern, m),
         Core(kern', cur'), Calm(m, kern'), Heeds(m, kern'), cur' \in {p, NONE},
         pc' \in [Procs -> UserPc \cup SchedPc], \A q \in Procs \ {p} : pc'[q] = pc[q],
         back' \in [Users -> {"call", "wait"}], ready' \in SUBSET ready,
         UNCHANGED SchedVars,
         Watching(kern') => \A q \in kern.load \ m.load : m.stat[q] = "NULL",
         p \in Users =>
           /\ pc'[p] \in UserPc /\ Place(p)' /\ Lull(kern', p) /\ kern'.wchan[p] \notin ready
           /\ cur' = p => p \in m.load /\ pc'[p] # "dead"
           /\ pc'[p] = "dead" => \A r \in Users : kern'.pptr[p] = r => kern'.wchan[r] # r
  PROVE  Inv' /\ Starts
<1>1. /\ TypeOK /\ Core(kern, cur) /\ kern' \in Kern /\ kern \in Kern
      /\ \A q \in Users : Lull(kern, q) /\ Place(q)
      /\ Turn /\ Chosen /\ OffReady /\ Alert(kern)
      /\ SCHED # p /\ SCHED \in Procs
  BY NoneApart, ProcSwitchAssumption DEF Inv, Core
<1>2. TypeOK'
  <2>1. \A q \in Procs : pc'[q] \in IF q = SCHED THEN SchedPc ELSE UserPc
    BY <1>1, NoneApart DEF TypeOK, Procs
  <2>2. cur' \in Procs \cup {NONE} /\ kern' \in Kern
    BY <1>1, NoneApart
  <2> QED BY <1>1, <2>1, <2>2 DEF TypeOK, SchedVars
<1>3. /\ kern'.load = m.load /\ kern'.pptr = m.pptr
      /\ \A q \in Procs : Mild(m, kern', q)
      /\ \A q \in Users : Obeys(m, kern', q)
      /\ Watching(kern') => Watching(m)
  BY DEF Calm
<1>4. Watching(m) <=> Watching(kern)
  <2>1. m.wchan[SCHED] = kern.wchan[SCHED] /\ m.stat[SCHED] = kern.stat[SCHED]
    BY <1>1, NoneApart DEF Own
  <2> QED BY <2>1 DEF Watching
<1>5. Alert(m)
  BY <1>1, <1>4 DEF Alert, Own
<1>6. Alert(kern') /\ (Watching(kern') => NoFresh(m, kern') /\ Watching(kern))
  BY <1>3, <1>4, <1>5 DEF Heeds
<1>7. ASSUME NEW q \in Users PROVE Lull(kern', q)
  <2>1. CASE q = p
    BY <2>1
  <2>2. CASE q # p
    <3>1. Lull(m, q)
      BY <1>1, <2>2 DEF Own
    <3> QED BY <1>3, <3>1 DEF Obeys
  <2> QED BY <2>1, <2>2
<1>8. ASSUME NEW q \in Procs, q # p
      PROVE  Moves(kern, kern', q) /\ kern'.wchan[q] \in {kern.wchan[q], NONE}
  <2>1. /\ m.wchan[q] = kern.wchan[q]
        /\ m.stat[q] = kern.stat[q] \/ (kern.stat[q] = "SZOMB" /\ m.stat[q] = "NULL")
    BY <1>8 DEF Own
  <2>2. Mild(m, kern', q)
    BY <1>3
  <2> QED BY <2>1, <2>2 DEF Mild, Moves, Alive
<1>9. ASSUME NEW q \in Users PROVE Place(q)'
  <2>1. CASE q = p
    BY <2>1
  <2>2. CASE q # p
    <3>1. \A r \in Users : kern'.pptr[r] \in {kern.pptr[r], PROC1, NONE}
      BY <1>3 DEF Own
    <3>2. \A r \in Users : r # p => /\ pc'[r] = pc[r] /\ Moves(kern, kern', r)
                                      /\ kern'.wchan[r] \in {kern.wchan[r], NONE}
      BY <1>8, NoneApart
    <3>3. p \in Procs \cup {NONE}
      BY NoneApart
    <3> QED BY <1>1, <2>2, <3>1, <3>2, <3>3, PlaceKept
  <2> QED BY <2>1, <2>2
<1>10. Turn'
  BY <1>3, NoneApart DEF Turn
<1>11. OffReady'
  <2> SUFFICES ASSUME NEW q \in Procs PROVE kern'.wchan[q] \notin ready'
    BY DEF OffReady
  <2>1. NONE \notin ready
    BY <1>1, NoneApart DEF TypeOK, Chans
  <2> QED BY <1>1, <1>8, <2>1, NoneApart DEF OffReady, Procs
<1>12. Chosen'
  <2>1. pc'[SCHED] = pc[SCHED] /\ pc[SCHED] \notin {"look", "hardswap", "outswap"}
    BY <1>1 DEF Chosen
  <2>2. ASSUME Watching(kern'), NEW q \in Users, Wants(q)'
        PROVE  Wants(q)
    <3>1. NoFresh(m, kern') /\ q \in Procs
      BY <1>6, <2>2, NoneApart
    <3>2. m.stat[q] = "SRUN" /\ q \notin m.load
      BY <1>3, <2>2, <3>1 DEF Wants, NoFresh, Fresh
    <3>3. q \notin kern.load
      BY <2>2, <3>2
    <3>4. q # p
      BY <1>1, <3>1, <3>3 DEF Turn
    <3> QED BY <3>1, <3>2, <3>3, <3>4 DEF Own, Wants
  <2>3. kern'.load \subseteq kern.load
    BY <1>3 DEF Own
  <2> QED BY <1>1, <1>6, <2>1, <2>2, <2>3 DEF Chosen, SchedVars
<1>13. Starts
  <2> SUFFICES ASSUME NEW q \in Users, kern.stat[q] = "SSTOP", kern'.stat[q] # "SSTOP"
               PROVE  {"CONT", "KILL"} \cap kern'.sig[q] # {}
    BY DEF Starts
  <2>1. q # p
    BY <1>1, NoneApart DEF Core
  <2>2. m.stat[q] = "SSTOP"
    BY <2>1, NoneApart DEF Own
  <2> QED BY <1>3, <2>2 DEF Obeys
<1> QED BY <1>2, <1>6, <1>7, <1>9, <1>10, <1>11, <1>12, <1>13 DEF Inv

(* Steps of sched.                                                         *)
LEMMA SchedInv ==
  ASSUME Inv, cur = SCHED, cur' \in {SCHED, NONE}, Core(kern', cur'), Alert(kern'),
         \A q \in Users : /\ Moves(kern, kern', q) /\ Lull(kern', q)
                          /\ kern'.wchan[q] \in {kern.wchan[q], NONE},
         kern'.pptr = kern.pptr, kern'.wchan[SCHED] \notin ready,
         pc' \in [Procs -> UserPc \cup SchedPc], \A q \in Users : pc'[q] = pc[q],
         pc'[SCHED] \in SchedPc, UNCHANGED <<back, ready>>,
         inp' \in Users \cup {NONE}, todo' \in SUBSET Users, skipped' \in SUBSET Users,
         Chosen'
  PROVE  Inv'
<1>1. /\ TypeOK /\ Core(kern, cur) /\ kern' \in Kern
      /\ \A q \in Users : Place(q)
      /\ OffReady
  BY DEF Inv, Core
<1>2. TypeOK'
  <2>1. \A q \in Procs : pc'[q] \in IF q = SCHED THEN SchedPc ELSE UserPc
    BY <1>1, NoneApart DEF TypeOK, Procs
  <2> QED BY <1>1, <2>1, NoneApart DEF TypeOK
<1>3. ASSUME NEW q \in Users PROVE Place(q)'
  <2>1. q # SCHED /\ SCHED \notin Users /\ SCHED \in Procs
    BY NoneApart
  <2>2. \A r \in Users : kern'.pptr[r] \in {kern.pptr[r], PROC1, NONE}
    OBVIOUS
  <2> QED BY <1>1, <2>1, <2>2, PlaceKept
<1>4. OffReady'
  <2>1. NONE \notin ready
    BY <1>1, NoneApart DEF TypeOK, Chans
  <2> QED BY <1>1, <2>1 DEF OffReady, Procs
<1>5. Turn'
  <2>1. "dead" \notin SchedPc
    BY DEF SchedPc
  <2> QED BY <2>1, NoneApart DEF Turn, Core
<1> QED BY <1>2, <1>3, <1>4, <1>5 DEF Inv

-----------------------------------------------------------------------------
(* Interrupts.                                                             *)

LEMMA CalmReady ==
  ASSUME Inv, NEW l, Calm(kern, l), NEW p \in Procs, NEW e \in SUBSET Events,
         \A q \in Procs : kern.wchan[q] \notin e
  PROVE  l.wchan[p] \notin e
<1>1. NONE \notin e
  BY NoneApart DEF Chans
<1>2. l.wchan[p] \in {kern.wchan[p], NONE}
  BY DEF Calm, Mild
<1> QED BY <1>1, <1>2

LEMMA SignalStep == ASSUME Inv, Signal PROVE Inv' /\ Starts
<1> PICK p \in Users : \E s \in Sent[p] : kern' = Psignal(kern, p, s)
  BY DEF Signal
<1>1. PICK s \in Sent[p] : kern' = Psignal(kern, p, s)
  OBVIOUS
<1>2. s \in Signals
  BY ProcSwitchAssumption
<1>3. PICK c : cur = c
  OBVIOUS
<1>4. Core(kern', c) /\ Calm(kern, kern') /\ Heeds(kern, kern')
  BY <1>1, <1>2, <1>3, PsignalIs DEF Inv
<1>5. UNCHANGED <<cur, pc, back, inp, todo, skipped>> /\ ready' = ready /\ ready \in SUBSET Events
  BY DEF Signal, SchedVars, Inv, TypeOK
<1>6. \A q \in Procs : kern'.wchan[q] \notin ready'
  BY <1>4, <1>5, CalmReady DEF Inv, OffReady
<1> QED BY <1>3, <1>4, <1>5, <1>6, InterruptInv

LEMMA EventStep == ASSUME Inv, Event PROVE Inv' /\ Starts
<1>1. PICK e \in Events : ready' = ready \cup {e} /\ kern' = Wakeup(kern, e)
  BY DEF Event
<1>2. e \in Chans
  BY DEF Chans
<1>3. PICK c : cur = c
  OBVIOUS
<1>4. /\ Core(kern', c) /\ Gentle(kern, kern') /\ Heeds(kern, kern')
      /\ \A q \in Procs : kern'.wchan[q] # e
  BY <1>1, <1>2, <1>3, WakeupIs DEF Inv
<1>5. UNCHANGED <<cur, pc, back, inp, todo, skipped>> /\ ready \in SUBSET Events
  BY DEF Event, SchedVars, Inv, TypeOK
<1>6. \A q \in Procs : kern'.wchan[q] \notin ready
  BY <1>4, <1>5, CalmReady DEF Inv, OffReady, Gentle
<1>7. ready' \in SUBSET Events /\ \A q \in Procs : kern'.wchan[q] \notin ready'
  BY <1>1, <1>4, <1>5, <1>6
<1> QED BY <1>3, <1>4, <1>5, <1>7, InterruptInv DEF Gentle

LEMMA SwapioStep == ASSUME Inv, Swapio PROVE Inv' /\ Starts
<1>1. kern' = Wakeup(kern, "swapio") /\ "swapio" \in Chans
  BY DEF Swapio, Chans, Apart
<1>2. PICK c : cur = c
  OBVIOUS
<1>3. Core(kern', c) /\ Gentle(kern, kern') /\ Heeds(kern, kern')
  BY <1>1, <1>2, WakeupIs DEF Inv
<1>4. UNCHANGED <<cur, pc, back, inp, todo, skipped>> /\ ready' = ready /\ ready \in SUBSET Events
  BY DEF Swapio, SchedVars, Inv, TypeOK
<1>5. \A q \in Procs : kern'.wchan[q] \notin ready'
  BY <1>3, <1>4, CalmReady DEF Inv, OffReady, Gentle
<1> QED BY <1>2, <1>3, <1>4, <1>5, InterruptInv DEF Gentle

(* runout and runin are noted by sched, and forgotten by schedcpu, where   *)
(* it wakes it.                                                            *)
LEMMA RunsIs ==
  ASSUME NEW k, NEW c, Core(k, c), NEW l \in Kern, Same(k, l, {"runout", "runin"})
  PROVE  Core(l, c) /\ Gentle(k, l)
<1>1. /\ l.stat = k.stat /\ l.wchan = k.wchan /\ l.sig = k.sig /\ l.pptr = k.pptr
      /\ l.load = k.load /\ l.runq = k.runq /\ l.intr = k.intr /\ l.panic = k.panic
      /\ l.wantin = k.wantin
  BY DEF Same
<1>2. Core(l, c)
  BY <1>1 DEF Core, QueuedOK, ChainOK
<1>3. ASSUME NEW p \in Users PROVE Obeys(k, l, p) /\ Firm(k, l, p)
  <2>1. Weighty(l, p) = Weighty(k, p)
    BY <1>1 DEF Weighty, Pending
  <2> QED BY <1>1, <2>1 DEF Obeys, Firm, Lull
<1>4. Calm(k, l)
  BY <1>1, <1>3 DEF Calm, Mild, Fresh, Watching
<1> QED BY <1>2, <1>3, <1>4 DEF Gentle

LEMMA SchedcpuStep == ASSUME Inv, Schedcpu PROVE Inv' /\ Starts
<1> DEFINE j == Wakeup(kern, "lbolt")
           k == Requeued(j)
           i == [k EXCEPT !.runin = FALSE]
           l == IF k.runin THEN Wakeup(i, "runin") ELSE k
           m == [l EXCEPT !.runout = FALSE, !.runin = FALSE]
           n == Wakeup(m, "runin")
<1>1. PICK c : cur = c
  OBVIOUS
<1>2. /\ kern' = l \/ kern' = Wakeup(n, "runout")
      /\ UNCHANGED <<cur, pc, back, inp, todo, skipped>> /\ ready' = ready
      /\ ready \in SUBSET Events /\ Core(kern, c)
  BY <1>1 DEF Schedcpu, SchedVars, Inv, TypeOK
<1>3. {"lbolt", "runin", "runout"} \subseteq Chans
  BY DEF Chans, Apart
<1>4. Core(j, c) /\ Gentle(kern, j) /\ Heeds(kern, j)
  BY <1>2, <1>3, WakeupIs
<1> HIDE DEF j
<1>5. k = j
  <2>1. j \in Kern /\ ~j.panic /\ QueuedOK(j, cur)
    BY <1>1, <1>4 DEF Core
  <2>2. j.load \subseteq Procs
    BY <2>1 DEF Kern
  <2>3. ~(\E p \in j.load : j.stat[p] = "SRUN" /\ p \notin j.runq /\ p # cur)
    BY <2>1, <2>2 DEF QueuedOK
  <2> QED BY <2>1, <2>3 DEF Requeued, PanicIf, Kern
<1> HIDE DEF k
<1>6. Core(l, c) /\ Gentle(kern, l) /\ Heeds(kern, l)
  <2>1. CASE ~k.runin
    BY <1>4, <1>5, <2>1
  <2>2. CASE k.runin
    <3>1. i \in Kern /\ Same(j, i, {"runin"}) /\ l = Wakeup(i, "runin")
      BY <1>4, <1>5, <2>2 DEF Kern, Same, Core
    <3> HIDE DEF i, l
    <3>2. Core(i, c) /\ Gentle(j, i)
      BY <1>4, <3>1, RunsIs DEF Same
    <3>3. Heeds(j, i)
      BY <3>1 DEF Heeds, NoFresh, Fresh, Alert, Watching, Same
    <3>4. Core(l, c) /\ Gentle(i, l) /\ Heeds(i, l)
      BY <1>3, <3>1, <3>2, WakeupIs
    <3>5. Gentle(kern, i) /\ Heeds(kern, i)
      BY <1>2, <1>4, <3>2, <3>3, GentleOnce
    <3> QED BY <1>2, <3>2, <3>4, <3>5, GentleOnce
  <2> QED BY <2>1, <2>2
<1> HIDE DEF l
<1>7. Core(kern', c) /\ Calm(kern, kern') /\ Heeds(kern, kern')
  <2>1. CASE kern' = l
    BY <1>6, <2>1 DEF Gentle
  <2>2. CASE kern' = Wakeup(n, "runout")
    <3>1. m \in Kern /\ Same(l, m, {"runout", "runin"})
      BY <1>6 DEF Kern, Same, Core
    <3> HIDE DEF m
    <3>2. Core(m, c) /\ Gentle(l, m)
      BY <1>6, <3>1, RunsIs
    <3>3. Core(n, c) /\ Gentle(m, n)
      BY <1>3, <3>2, WakeupIs
    <3> HIDE DEF n
    <3>4. /\ Core(kern', c) /\ Gentle(n, kern')
          /\ \A p \in Procs : kern'.wchan[p] # "runout"
      BY <1>3, <2>2, <3>3, WakeupIs
    <3>5. kern \in Kern /\ l \in Kern /\ n \in Kern /\ kern' \in Kern
      BY <1>2, <1>6, <3>3, <3>4 DEF Core
    <3>6. Gentle(kern, m)
      BY <1>6, <3>1, <3>2, <3>5, GentleTrans
    <3>7. Gentle(kern, n)
      BY <3>1, <3>3, <3>5, <3>6, GentleTrans
    <3>8. Gentle(kern, kern')
      BY <3>4, <3>5, <3>7, GentleTrans
    <3>9. ~Watching(kern')
      BY <3>4, NoneApart DEF Watching
    <3> QED BY <3>4, <3>8, <3>9 DEF Gentle, Heeds, Alert
  <2> QED BY <1>2, <2>1, <2>2
<1>8. \A q \in Procs : kern'.wchan[q] \notin ready'
  BY <1>2, <1>7, CalmReady DEF Inv, OffReady
<1> QED BY <1>1, <1>2, <1>7, <1>8, InterruptInv

-----------------------------------------------------------------------------
(* swtch, and init.                                                        *)

LEMMA DispatchStep == ASSUME Inv, NEW p \in Procs, Dispatch(p) PROVE Inv' /\ Starts
<1>1. /\ cur = NONE /\ p \in kern.runq /\ cur' = p
      /\ UNCHANGED <<pc, back, ready, inp, todo, skipped>>
      /\ TypeOK /\ Core(kern, cur) /\ kern \in Kern
      /\ QueuedOK(kern, cur) /\ ChainOK(kern)
  BY DEF Dispatch, SchedVars, Inv, Core
<1>2. kern.stat[p] = "SRUN" /\ p \in kern.load /\ kern.wchan[p] = NONE
  BY <1>1 DEF QueuedOK, ChainOK
<1>3. kern' = [kern EXCEPT !.runq = @ \ {p}, !.panic = FALSE]
  BY <1>2 DEF Dispatch
<1>4. kern' \in Kern /\ kern'.runq = kern.runq \ {p} /\ ~kern'.panic
  BY <1>1, <1>3 DEF Kern
<1>5. /\ kern'.stat = kern.stat /\ kern'.wchan = kern.wchan /\ kern'.sig = kern.sig
      /\ kern'.pptr = kern.pptr /\ kern'.load = kern.load /\ kern'.intr = kern.intr
      /\ kern'.runout = kern.runout /\ kern'.wantin = kern.wantin
  BY <1>1, <1>3 DEF Kern
<1>6. QueuedOK(kern', cur') /\ ChainOK(kern')
  BY <1>1, <1>2, <1>4, <1>5, NoneApart DEF QueuedOK, ChainOK
<1>7. Core(kern', cur') /\ Alert(kern')
  BY <1>1, <1>2, <1>4, <1>5, <1>6, NoneApart DEF Core, Alert, Watching, Inv
<1>8. TypeOK'
  BY <1>1, <1>4 DEF TypeOK
<1>9. ASSUME NEW q \in Users PROVE Lull(kern', q) /\ Place(q)'
  <2>1. Lull(kern, q) /\ Place(q)
    BY DEF Inv
  <2>2. Weighty(kern', q) = Weighty(kern, q)
    BY <1>5 DEF Weighty, Pending
  <2>3. \A r \in Users : Zombies(r)' = Zombies(r)
    BY <1>5 DEF Zombies, Children
  <2>4. pc[q] \notin {"sleep", "exit"}
    BY <1>1, <2>1, NoneApart DEF Place
  <2> QED BY <1>1, <1>5, <2>1, <2>2, <2>3, <2>4 DEF Lull, Place
<1>10. pc[p] # "dead"
  <2>1. CASE p \in Users
    BY <1>2, <2>1 DEF Inv, Place
  <2>2. CASE p = SCHED
    BY <1>1, <2>2 DEF TypeOK, SchedPc
  <2> QED BY <2>1, <2>2 DEF Procs
<1>11. OffReady' /\ Turn' /\ Starts
  BY <1>1, <1>2, <1>5, <1>10 DEF OffReady, Turn, Starts, Inv
<1>12. Chosen'
  BY <1>1, <1>5, NoneApart DEF Chosen, Wants, Watching, Inv
<1> QED BY <1>7, <1>8, <1>9, <1>11, <1>12 DEF Inv

(* A zombie's slot, once its parent has seen it.                           *)
Freed(k, l, q) ==
  /\ l \in Kern /\ Same(k, l, {"stat", "sig", "cursig", "pptr", "load", "wted"})
  /\ l.stat[q] = "NULL" /\ l.sig[q] = {} /\ l.pptr[q] = NONE /\ l.load = k.load \ {q}
  /\ \A r \in Procs \ {q} : l.stat[r] = k.stat[r]
  /\ \A r \in Users \ {q} : l.sig[r] = k.sig[r] /\ l.pptr[r] = k.pptr[r]

LEMMA FreedIs ==
  ASSUME NEW k \in Kern, NEW q \in Users
  PROVE  Freed(k, [Stat(k, {q}, "NULL") EXCEPT
                !.sig[q] = {}, !.cursig[q] = NONE,
                !.pptr[q] = NONE, !.load = @ \ {q},
                !.wted = @ \ {q}], q)
<1> DEFINE j == Stat(k, {q}, "NULL")
           f == [j.sig EXCEPT ![q] = {}]
           g == [j.cursig EXCEPT ![q] = NONE]
           h == [j.pptr EXCEPT ![q] = NONE]
           l == [j EXCEPT !.sig[q] = {}, !.cursig[q] = NONE,
                          !.pptr[q] = NONE, !.load = @ \ {q}, !.wted = @ \ {q}]
<1>1. /\ j \in Kern /\ Same(k, j, {"stat"})
      /\ \A p \in Procs : j.stat[p] = IF p \in {q} THEN "NULL" ELSE k.stat[p]
  BY StatIs
<1> HIDE DEF j
<1>2. /\ j.sig \in [Users -> SUBSET Signals] /\ j.cursig \in [Users -> Action]
      /\ j.pptr \in [Users -> Users \cup {PROC1, NONE}]
      /\ j.load \in SUBSET Procs /\ j.wted \in SUBSET Users
  BY <1>1 DEF Kern
<1>3. /\ f \in [Users -> SUBSET Signals] /\ g \in [Users -> Action]
      /\ h \in [Users -> Users \cup {PROC1, NONE}]
      /\ f[q] = {} /\ h[q] = NONE
      /\ \A r \in Users \ {q} : f[r] = j.sig[r] /\ h[r] = j.pptr[r]
  BY <1>2 DEF Action
<1>4. l = [j EXCEPT !.sig = f, !.cursig = g, !.pptr = h, !.load = j.load \ {q},
                    !.wted = j.wted \ {q}]
  BY <1>1 DEF Kern
<1> HIDE DEF f, g, h, l
<1>5. /\ l \in Kern /\ Same(j, l, {"sig", "cursig", "pptr", "load", "wted"})
      /\ l.sig = f /\ l.pptr = h /\ l.load = j.load \ {q}
  BY <1>1, <1>2, <1>3, <1>4 DEF Kern, Same
<1>6. Same(k, l, {"stat", "sig", "cursig", "pptr", "load", "wted"})
  BY <1>1, <1>5 DEF Same
<1>7. l.stat = j.stat /\ j.load = k.load /\ j.sig = k.sig /\ j.pptr = k.pptr
  BY <1>1, <1>5 DEF Same
<1>8. l.stat[q] = "NULL" /\ \A r \in Procs \ {q} : l.stat[r] = k.stat[r]
  BY <1>1, <1>7, NoneApart
<1>9. Freed(k, l, q)
  BY <1>3, <1>5, <1>6, <1>7, <1>8 DEF Freed
<1> QED BY <1>9 DEF l, j

LEMMA FreedOwn ==
  ASSUME NEW k, NEW c, Core(k, c), NEW q \in Users, q # c, k.stat[q] = "SZOMB",
         NEW l, Freed(k, l, q)
  PROVE  Core(l, c) /\ Own(c, k, l) /\ \A r \in k.load \ l.load : l.stat[r] = "NULL"
<1>1. /\ k \in Kern /\ ~k.panic /\ QueuedOK(k, c) /\ ChainOK(k) /\ q \in Procs /\ q # SCHED
      /\ c \in Procs \cup {NONE} /\ SCHED \in k.load /\ k.stat[SCHED] \in {"SRUN", "SSLEEP"}
      /\ c # NONE => k.stat[c] \in {"SRUN", "SZOMB"}
  BY NoneApart DEF Core
<1>2. /\ l \in Kern /\ l.wchan = k.wchan /\ l.runq = k.runq /\ l.intr = k.intr
      /\ l.runout = k.runout /\ l.panic = k.panic /\ l.load = k.load \ {q}
      /\ l.stat[q] = "NULL"
      /\ \A r \in Procs \ {q} : l.stat[r] = k.stat[r]
      /\ \A r \in Users \ {q} : l.sig[r] = k.sig[r] /\ l.pptr[r] = k.pptr[r]
      /\ l.pptr[q] = NONE
  BY DEF Freed, Same
<1>3. QueuedOK(l, c)
  BY <1>1, <1>2 DEF QueuedOK
<1>4. ChainOK(l)
  BY <1>1, <1>2 DEF ChainOK
<1>5. Core(l, c)
  BY <1>1, <1>2, <1>3, <1>4, NoneApart DEF Core
<1>6. ASSUME NEW r \in Users PROVE Lull(k, r) => Lull(l, r)
  <2>1. CASE r = q
    BY <1>1, <1>2, <2>1 DEF Lull, ChainOK
  <2>2. CASE r # q
    <3>1. l.stat[r] = k.stat[r] /\ Weighty(l, r) = Weighty(k, r)
      BY <1>2, <2>2, NoneApart DEF Weighty, Pending
    <3> QED BY <1>2, <3>1 DEF Lull
  <2> QED BY <2>1, <2>2
<1>7. Own(c, k, l)
  BY <1>1, <1>2, <1>6 DEF Own
<1> QED BY <1>2, <1>5, <1>7

LEMMA InitReapsStep == ASSUME Inv, InitReaps PROVE Inv' /\ Starts
<1>1. PICK q \in Zombies(PROC1) :
        /\ cur = NONE
        /\ kern' = [Stat(kern, {q}, "NULL") EXCEPT
                !.sig[q] = {}, !.cursig[q] = NONE,
                !.pptr[q] = NONE, !.load = @ \ {q},
                !.wted = @ \ {q}]
        /\ UNCHANGED <<cur, pc, back, ready, inp, todo, skipped>>
  BY DEF InitReaps, SchedVars
<1>2. q \in Users /\ kern.stat[q] = "SZOMB" /\ q # NONE
  BY <1>1, NoneApart DEF Zombies, Children
<1>3. TypeOK /\ Core(kern, NONE) /\ kern \in Kern
  BY <1>1 DEF Inv, Core
<1>4. Freed(kern, kern', q)
  BY <1>1, <1>2, <1>3, FreedIs
<1>5. /\ Core(kern', NONE) /\ Own(NONE, kern, kern') /\ kern' \in Kern
      /\ \A r \in kern.load \ kern'.load : kern'.stat[r] = "NULL"
  BY <1>2, <1>3, <1>4, FreedOwn DEF Freed
<1>6. Calm(kern', kern') /\ Heeds(kern', kern')
  BY <1>5, CalmSelf DEF Gentle
<1>7. pc' \in [Procs -> UserPc \cup SchedPc] /\ back' \in [Users -> {"call", "wait"}]
  BY <1>1, <1>3 DEF TypeOK
<1>8. UNCHANGED SchedVars /\ NONE \notin Users
  BY <1>1, NoneApart DEF SchedVars
<1> QED BY <1>1, <1>5, <1>6, <1>7, <1>8, TurnInv

-----------------------------------------------------------------------------
(* What a process changes of its own entry while it runs.                  *)

Only(p, k, l) ==
  /\ l \in Kern /\ ~l.panic
  /\ l.load = k.load /\ l.pptr = k.pptr /\ l.runq = k.runq
  /\ l.runout = k.runout /\ l.wantin = k.wantin
  /\ \A q \in Procs \ {p} : /\ l.stat[q] = k.stat[q] /\ l.wchan[q] = k.wchan[q]
                            /\ q \in l.intr <=> q \in k.intr
  /\ \A q \in Users \ {p} : l.sig[q] = k.sig[q]

LEMMA OnlyTrans ==
  ASSUME NEW p, NEW k, NEW l, NEW m, Only(p, k, l), Only(p, l, m)
  PROVE  Only(p, k, m)
BY DEF Only

LEMMA OnlyIf ==
  ASSUME NEW p \in Procs, NEW k \in Kern, ~k.panic, NEW l \in Kern,
         Same(k, l, {"stat", "wchan", "sig", "cursig", "intr", "wted"}),
         \A q \in Procs \ {p} : /\ l.stat[q] = k.stat[q] /\ l.wchan[q] = k.wchan[q]
                                /\ q \in l.intr <=> q \in k.intr,
         \A q \in Users \ {p} : l.sig[q] = k.sig[q]
  PROVE  Only(p, k, l)
BY DEF Only, Same

LEMMA OnlyOwn ==
  ASSUME NEW p, NEW k, NEW l, Only(p, k, l)
  PROVE  Own(p, k, l)
<1>1. ASSUME NEW q \in Users \ {p} PROVE Lull(k, q) => Lull(l, q)
  <2>1. Weighty(l, q) = Weighty(k, q) /\ q \in Procs
    BY NoneApart DEF Only, Weighty, Pending
  <2> QED BY <2>1 DEF Lull, Only
<1> QED BY <1>1 DEF Only, Own

LEMMA OnlyCore ==
  ASSUME NEW k, NEW p \in Procs, Core(k, p), NEW l, Only(p, k, l), NEW c \in {p, NONE},
         p = SCHED => l.stat[p] \in {"SRUN", "SSLEEP"},
         c = p => l.stat[p] \in {"SRUN", "SZOMB"} /\ l.wchan[p] = NONE,
         c = NONE => l.stat[p] # "SRUN",
         l.stat[p] = "SSLEEP" => l.wchan[p] # NONE,
         l.wchan[p] # NONE => l.stat[p] \in {"SSLEEP", "SSTOP"}
  PROVE  Core(l, c)
<1>1. /\ QueuedOK(k, p) /\ ChainOK(k) /\ p # NONE
      /\ SCHED \in k.load /\ k.stat[SCHED] \in {"SRUN", "SSLEEP"}
  BY NoneApart DEF Core
<1>2. QueuedOK(l, c)
  BY <1>1, NoneApart DEF QueuedOK, Only
<1>3. ChainOK(l)
  BY <1>1 DEF ChainOK, Only
<1> QED BY <1>1, <1>2, <1>3, NoneApart DEF Core, Only

(* A process that runs and is not at its end.                              *)
Runs(p) == Inv /\ p \in Users /\ cur = p /\ pc[p] \notin {"exit", "dead"}

LEMMA RunsFacts ==
  ASSUME NEW p, Runs(p)
  PROVE  /\ p \in Users /\ p \in Procs /\ p # SCHED /\ p # NONE
         /\ TypeOK /\ Core(kern, p) /\ kern \in Kern /\ ~kern.panic
         /\ kern.stat[p] = "SRUN" /\ kern.wchan[p] = NONE
         /\ p \in kern.load /\ p \notin kern.runq
         /\ Only(p, kern, kern) /\ NONE \notin ready
<1>1. Inv /\ p \in Users /\ cur = p /\ TypeOK /\ Core(kern, p) /\ Place(p) /\ Turn
  BY DEF Runs, Inv
<1>2. p \in Procs /\ p # SCHED /\ p # NONE
  BY <1>1, NoneApart
<1>3. kern \in Kern /\ ~kern.panic /\ kern.stat[p] = "SRUN"
  BY <1>1, <1>2 DEF Core, Place, Runs
<1>4. kern.wchan[p] = NONE /\ p \notin kern.runq /\ p \in kern.load
  BY <1>1, <1>2, <1>3 DEF Core, ChainOK, QueuedOK, Turn
<1>5. NONE \notin ready
  BY <1>1, NoneApart DEF TypeOK, Chans
<1> QED BY <1>1, <1>2, <1>3, <1>4, <1>5 DEF Only

(* A step in which the process changes nothing but its own entry, on the   *)
(* processor still or not.                                                 *)
LEMMA OnlyInv ==
  ASSUME NEW p, Runs(p), Only(p, kern, kern'), Core(kern', cur'), cur' \in {p, NONE},
         NEW a \in UserPc \ {"dead"}, pc' = [pc EXCEPT ![p] = a],
         back' \in [Users -> {"call", "wait"}], ready' \in SUBSET ready, UNCHANGED SchedVars,
         Place(p)', Lull(kern', p), kern'.wchan[p] \notin ready
  PROVE  Inv' /\ Starts
<1>1. /\ p \in Users /\ p \in Procs /\ p # SCHED /\ TypeOK /\ p \in kern.load
      /\ Inv /\ cur = p
  BY RunsFacts DEF Runs
<1>2. Own(p, kern, kern') /\ kern' \in Kern /\ kern'.load = kern.load
  BY OnlyOwn DEF Only
<1>3. Calm(kern', kern') /\ Heeds(kern', kern')
  BY <1>2, CalmSelf DEF Gentle
<1>4. /\ pc' \in [Procs -> UserPc \cup SchedPc] /\ pc'[p] = a
      /\ \A q \in Procs \ {p} : pc'[q] = pc[q]
  BY <1>1 DEF TypeOK
<1> QED BY <1>1, <1>2, <1>3, <1>4, TurnInv

LEMMA GoOn ==
  ASSUME NEW p, Runs(p), Only(p, kern, kern'), cur' = cur,
         kern'.stat[p] = "SRUN", kern'.wchan[p] = NONE,
         NEW a \in UserPc \ {"exit", "dead"}, pc' = [pc EXCEPT ![p] = a],
         a = "sleep" => Zombies(p)' = {},
         back' \in [Users -> {"call", "wait"}], ready' \in SUBSET ready, UNCHANGED SchedVars
  PROVE  Inv' /\ Starts
<1>1. /\ p \in Users /\ p \in Procs /\ p # SCHED /\ Core(kern, p) /\ p # NONE /\ TypeOK
      /\ NONE \notin ready /\ cur = p
  BY RunsFacts DEF Runs
<1>2. Core(kern', p)
  BY <1>1, OnlyCore
<1>3. pc'[p] = a
  BY <1>1 DEF TypeOK
<1>4. Place(p)'
  BY <1>1, <1>3, NoneApart DEF Place
<1>5. Lull(kern', p)
  BY DEF Lull
<1> QED BY <1>1, <1>2, <1>4, <1>5, OnlyInv

LEMMA GoToSleep ==
  ASSUME NEW p, Runs(p), Only(p, kern, kern'), cur' = NONE,
         kern'.stat[p] = "SSLEEP", NEW ch, kern'.wchan[p] = ch, ch \notin ready \cup {NONE, "runout"},
         ch = p => Zombies(p) = {}, Lull(kern', p),
         pc' = [pc EXCEPT ![p] = "swtch"],
         back' \in [Users -> {"call", "wait"}], ready' = ready, UNCHANGED SchedVars
  PROVE  Inv' /\ Starts
<1>1. /\ p \in Users /\ p \in Procs /\ p # SCHED /\ Core(kern, p) /\ p # NONE /\ TypeOK
      /\ NONE \notin ready /\ cur = p
  BY RunsFacts DEF Runs
<1>2. Core(kern', NONE)
  BY <1>1, OnlyCore
<1>3. pc'[p] = "swtch"
  BY <1>1 DEF TypeOK
<1>4. ch = p => Zombies(p)' = {}
  <2> SUFFICES ASSUME ch = p, NEW x \in Users, kern'.pptr[x] = p, kern'.stat[x] = "SZOMB"
               PROVE  FALSE
    BY DEF Zombies, Children
  <2>1. x # p
    OBVIOUS
  <2>2. x \in Zombies(p)
    BY <2>1, NoneApart DEF Zombies, Children, Only
  <2> QED BY <2>2
<1>5. Place(p)'
  BY <1>3, <1>4 DEF Place
<1>6. "swtch" \in UserPc \ {"dead"}
  BY DEF UserPc
<1> QED BY <1>1, <1>2, <1>5, <1>6, OnlyInv

-----------------------------------------------------------------------------
(* issig.                                                                  *)

LEMMA PassedIs ==
  ASSUME NEW p \in Users, NEW k \in Kern, NEW l, l = Unsignalled(k, p) \/ l = Passed(k, p)
  PROVE  /\ l \in Kern /\ Same(k, l, {"sig", "cursig"})
         /\ l.sig[p] \subseteq k.sig[p] /\ \A q \in Users \ {p} : l.sig[q] = k.sig[q]
<1>1. CASE l = k
  BY <1>1 DEF Same
<1>2. CASE l = Unsignalled(k, p)
  <2> DEFINE f == [k.sig EXCEPT ![p] = @ \ Pending(k, p)]
             g == [k.cursig EXCEPT ![p] = NONE]
  <2>1. k.sig \in [Users -> SUBSET Signals] /\ k.cursig \in [Users -> Action]
    BY DEF Kern
  <2>2. /\ f \in [Users -> SUBSET Signals] /\ g \in [Users -> Action]
        /\ f[p] \subseteq k.sig[p] /\ \A q \in Users \ {p} : f[q] = k.sig[q]
    BY <2>1 DEF Action
  <2>3. l = [k EXCEPT !.sig = f, !.cursig = g]
    BY <1>2 DEF Unsignalled, Kern
  <2> HIDE DEF f, g
  <2> QED BY <2>2, <2>3 DEF Kern, Same
<1> QED BY <1>1, <1>2 DEF Passed

LEMMA PassedOnly ==
  ASSUME NEW p \in Users, NEW k \in Kern, ~k.panic, NEW l,
         l = Unsignalled(k, p) \/ l = Passed(k, p)
  PROVE  /\ Only(p, k, l) /\ l.stat = k.stat /\ l.wchan = k.wchan /\ l.intr = k.intr
         /\ Weighty(l, p) \subseteq Weighty(k, p)
<1>1. /\ l \in Kern /\ Same(k, l, {"sig", "cursig"})
      /\ l.sig[p] \subseteq k.sig[p] /\ \A q \in Users \ {p} : l.sig[q] = k.sig[q]
  BY PassedIs
<1>2. l.stat = k.stat /\ l.wchan = k.wchan /\ l.intr = k.intr
  BY <1>1 DEF Same
<1>3. Same(k, l, {"stat", "wchan", "sig", "cursig", "intr", "wted"})
  BY <1>1 DEF Same
<1>4. Only(p, k, l)
  BY <1>1, <1>2, <1>3, OnlyIf, NoneApart
<1> QED BY <1>1, <1>2, <1>4 DEF Weighty, Pending

(* The process table as it is when issig looks: the process runs, and may  *)
(* be on the chain already.                                                *)
Looks(p, k) ==
  /\ Only(p, kern, k) /\ k.stat[p] = "SRUN" /\ k.wchan[p] \notin ready \cup {"runout"}
  /\ k.wchan[p] = p => Zombies(p) = {}

LEMMA StopsTurn ==
  ASSUME NEW p, Runs(p), NEW k, Looks(p, k), NEW at \in {"issig", "trap"},
         IssigStops(k, p, at),
         back' \in [Users -> {"call", "wait"}], ready' = ready, UNCHANGED SchedVars
  PROVE  Inv' /\ Starts
<1>1. /\ p \in Users /\ p \in Procs /\ p # SCHED /\ Core(kern, p) /\ p # NONE /\ TypeOK
      /\ NONE \notin ready /\ cur = p /\ k \in Kern /\ ~k.panic /\ Inv /\ p \in kern.load
  BY RunsFacts DEF Runs, Looks, Only
<1>2. PICK s \in First(k, p) : StopsOn(k, p, s) /\ kern' = Stopped(k, p, s)
  BY DEF IssigStops
<1>3. cur' = NONE /\ pc' = [pc EXCEPT ![p] = at]
  BY DEF IssigStops, Swtch, Goto
<1>4. /\ s \in Stops /\ s \in Signals
      /\ \A t \in Weighty(k, p) : Number[s] <= Number[t] /\ t \in Signals
  BY <1>1, <1>2 DEF First, StopsOn, Weighty, Pending, Kern
<1> DEFINE t == Take(k, p, s)
           i == [t EXCEPT !.cursig[p] = s]
           m == [Stat(i, {p}, "SSTOP") EXCEPT !.wted = @ \ {p}]
<1>5. kern' = Stop(i, p)
  BY <1>2 DEF Stopped
<1>6. /\ t \in Kern /\ Same(k, t, {"sig"})
      /\ \A q \in Users \ {p} : t.sig[q] = k.sig[q]
      /\ \A x : x \in t.sig[p] <=> x \in k.sig[p] /\ x # s
  BY <1>1, <1>4, TakeIs
<1> HIDE DEF t
<1>7. i \in Kern /\ Same(t, i, {"cursig"})
  <2>1. s \in Action
    BY <1>4 DEF Action
  <2> QED BY <1>1, <1>6, <2>1, CursigIs
<1> HIDE DEF i
<1>8. /\ m \in Kern /\ Same(i, m, {"stat", "wted"}) /\ m.pptr = i.pptr
      /\ \A q \in Procs : m.stat[q] = IF q = p THEN "SSTOP" ELSE i.stat[q]
  BY <1>1, <1>7, StopMark
<1>9. m = [Stat(i, {p}, "SSTOP") EXCEPT !.wted = @ \ {p}]
  OBVIOUS
<1> HIDE DEF m
<1>10. Same(k, m, {"stat", "wchan", "sig", "cursig", "intr", "wted"})
  BY <1>6, <1>7, <1>8 DEF Same
<1>11. i.stat = k.stat /\ m.wchan = k.wchan /\ m.sig = t.sig /\ m.intr = k.intr
  BY <1>6, <1>7, <1>8 DEF Same
<1>12. Only(p, k, m) /\ m.stat[p] = "SSTOP"
  <2>1. \A q \in Procs \ {p} : m.stat[q] = k.stat[q]
    BY <1>1, <1>8, <1>11
  <2>2. \A q \in Users \ {p} : m.sig[q] = k.sig[q]
    BY <1>6, <1>11
  <2> QED BY <1>1, <1>8, <1>10, <1>11, <2>1, <2>2, OnlyIf
<1>13. Only(p, kern, m)
  BY <1>12, OnlyTrans DEF Looks
<1>14. Core(m, NONE)
  BY <1>1, <1>12, <1>13, OnlyCore
<1>15. Core(kern', NONE) /\ Gentle(m, kern') /\ Heeds(m, kern')
  BY <1>1, <1>5, <1>8, <1>9, <1>14, StopIs
<1>16. Lull(m, p)
  <2>1. Weighty(m, p) \subseteq Weighty(k, p)
    BY <1>6, <1>11 DEF Weighty, Pending
  <2>2. \A x \in Weighty(m, p) : x \in Stops \cup {"CONT", "CHLD"}
    <3> SUFFICES ASSUME NEW x \in Weighty(m, p) PROVE x \in Stops \cup {"CONT", "CHLD"}
      OBVIOUS
    <3>1. x \in DOMAIN Number /\ Number[s] <= Number[x]
      BY <1>4, <2>1, ProcSwitchAssumption
    <3>2. DOMAIN Number = {"HUP", "KILL", "STOP", "TSTP", "CONT", "CHLD"}
      BY DEF Number
    <3>3. Number[s] \in {17, 18} /\ Number["HUP"] = 1 /\ Number["KILL"] = 9
      BY <1>4 DEF Number, Stops
    <3>4. x \notin {"HUP", "KILL"}
      BY <3>1, <3>3
    <3> QED BY <3>1, <3>2, <3>4 DEF Stops
  <2> QED BY <1>12, <2>2 DEF Lull
<1>17. Mild(m, kern', p) /\ (Lull(m, p) => Lull(kern', p)) /\ kern'.pptr = m.pptr
  BY <1>1, <1>15 DEF Gentle, Calm, Obeys
<1>18. kern'.stat[p] \in Alive /\ kern'.wchan[p] \in {k.wchan[p], NONE}
  BY <1>11, <1>12, <1>17 DEF Mild, Alive
<1>19. kern'.wchan[p] = p => Zombies(p)' = {}
  <2> SUFFICES ASSUME kern'.wchan[p] = p, NEW x \in Users, kern'.pptr[x] = p,
                      kern'.stat[x] = "SZOMB"
               PROVE  FALSE
    BY DEF Zombies, Children
  <2>1. x # p /\ x \in Procs
    BY <1>18, NoneApart DEF Alive
  <2>2. m.stat[x] = "SZOMB"
    BY <1>15, <2>1 DEF Gentle, Calm, Mild, Alive
  <2>3. x \in Zombies(p)
    BY <1>13, <1>17, <2>1, <2>2 DEF Zombies, Children, Only
  <2> QED BY <1>1, <1>18, <2>3 DEF Looks
<1>20. pc'[p] = at /\ pc' \in [Procs -> UserPc \cup SchedPc] /\ \A q \in Procs \ {p} : pc'[q] = pc[q]
  BY <1>1, <1>3 DEF TypeOK, UserPc
<1>21. Place(p)'
  BY <1>1, <1>18, <1>19, <1>20, NoneApart DEF Place, Alive, Looks
<1>22. Own(p, kern, m) /\ m.load = kern.load
  BY <1>13, OnlyOwn DEF Only
<1>23. /\ kern'.wchan[p] \notin ready /\ pc'[p] \in UserPc /\ pc'[p] # "dead" /\ cur' # p
       /\ cur' \in {p, NONE} /\ ready' \in SUBSET ready
  BY <1>1, <1>3, <1>18, <1>20 DEF Looks, UserPc
<1> QED BY <1>1, <1>3, <1>8, <1>15, <1>16, <1>17, <1>20, <1>21, <1>22, <1>23, TurnInv DEF Gentle

LEMMA TakesTurn ==
  ASSUME NEW p, Runs(p), NEW k, Looks(p, k), IssigTakes(k, p),
         back' \in [Users -> {"call", "wait"}], ready' = ready, UNCHANGED SchedVars
  PROVE  Inv' /\ Starts
<1>1. /\ p \in Users /\ p \in Procs /\ p # SCHED /\ k \in Kern /\ ~k.panic
  BY RunsFacts DEF Looks, Only
<1>2. PICK s \in First(k, p) : kern' = Stat(Unsleep(Taken(k, p, s), {p}), {p}, "SRUN")
  BY DEF IssigTakes
<1>3. cur' = cur /\ pc' = [pc EXCEPT ![p] = "return"]
  BY DEF IssigTakes, Keep, Goto
<1>4. s \in Signals
  BY <1>1 DEF First, Weighty, Pending, Kern
<1> DEFINE t == Take(k, p, s)
           n == IF Kills(k, p, s) /\ s \notin Caught[p] THEN "KILL" ELSE s
           i == [t EXCEPT !.cursig[p] = n]
           j == Unsleep(i, {p})
<1>5. kern' = Stat(j, {p}, "SRUN")
  BY <1>2 DEF Taken
<1>6. /\ t \in Kern /\ Same(k, t, {"sig"})
      /\ \A q \in Users \ {p} : t.sig[q] = k.sig[q]
  BY <1>1, <1>4, TakeIs
<1>7. n \in Action
  BY <1>4, ProcSwitchAssumption DEF Action, Kills
<1> HIDE DEF t, n
<1>8. i \in Kern /\ Same(t, i, {"cursig"})
  BY <1>1, <1>6, <1>7, CursigIs
<1> HIDE DEF i
<1>9. /\ j \in Kern /\ Same(i, j, {"wchan"})
      /\ \A q \in Procs : j.wchan[q] = IF q \in {p} THEN NONE ELSE i.wchan[q]
  BY <1>8, UnsleepIs
<1> HIDE DEF j
<1>10. /\ kern' \in Kern /\ Same(j, kern', {"stat"})
       /\ \A q \in Procs : kern'.stat[q] = IF q \in {p} THEN "SRUN" ELSE j.stat[q]
  BY <1>5, <1>9, StatIs DEF Alive
<1>11. Same(k, kern', {"stat", "wchan", "sig", "cursig", "intr", "wted"})
  BY <1>6, <1>8, <1>9, <1>10 DEF Same
<1>12. /\ j.stat = k.stat /\ kern'.wchan = j.wchan /\ i.wchan = k.wchan
       /\ kern'.sig = t.sig /\ kern'.intr = k.intr
  BY <1>6, <1>8, <1>9, <1>10 DEF Same
<1>13. Only(p, k, kern')
  <2>1. \A q \in Procs \ {p} : kern'.stat[q] = k.stat[q] /\ kern'.wchan[q] = k.wchan[q]
    BY <1>9, <1>10, <1>12
  <2>2. \A q \in Users \ {p} : kern'.sig[q] = k.sig[q]
    BY <1>6, <1>12
  <2> QED BY <1>1, <1>10, <1>11, <1>12, <2>1, <2>2, OnlyIf
<1>14. kern'.stat[p] = "SRUN" /\ kern'.wchan[p] = NONE
  BY <1>1, <1>9, <1>10, <1>12
<1>15. Only(p, kern, kern')
  BY <1>13, OnlyTrans DEF Looks
<1>16. "return" \in UserPc \ {"exit", "dead"} /\ "return" # "sleep" /\ ready' \in SUBSET ready
  BY DEF UserPc
<1> QED BY <1>3, <1>14, <1>15, <1>16, GoOn

-----------------------------------------------------------------------------
(* Sleeping.                                                               *)

Chained(k, l, p, ch) ==
  /\ l = [k EXCEPT !.wchan[p] = ch, !.intr = l.intr, !.panic = FALSE]
  /\ l.intr \subseteq Procs /\ \A q \in Procs \ {p} : q \in l.intr <=> q \in k.intr

LEMMA ChainedIs ==
  ASSUME NEW k \in Kern, ~k.panic, NEW p \in Procs, NEW ch \in Chans, NEW l,
         Chained(k, l, p, ch)
  PROVE  Only(p, k, l) /\ Same(k, l, {"wchan", "intr"}) /\ l.wchan[p] = ch
<1> DEFINE f == [k.wchan EXCEPT ![p] = ch]
           n == l.intr
<1>1. k.wchan \in [Procs -> Chans \cup {NONE}] /\ n \in SUBSET Procs
  BY DEF Kern, Chained
<1>2. /\ f \in [Procs -> Chans \cup {NONE}]
      /\ f[p] = ch /\ \A q \in Procs \ {p} : f[q] = k.wchan[q]
  BY <1>1
<1>3. l = [k EXCEPT !.wchan = f, !.intr = n, !.panic = FALSE]
  BY DEF Kern, Chained
<1>4. \A q \in Procs \ {p} : q \in n <=> q \in k.intr
  BY DEF Chained
<1> HIDE DEF f, n
<1>5. /\ l \in Kern /\ l.wchan = f /\ l.intr = n /\ ~l.panic /\ l.stat = k.stat /\ l.sig = k.sig
      /\ Same(k, l, {"wchan", "intr"})
  BY <1>1, <1>2, <1>3 DEF Kern, Same
<1>6. Same(k, l, {"stat", "wchan", "sig", "cursig", "intr", "wted"})
  BY <1>5 DEF Same
<1>7. Only(p, k, l)
  BY <1>2, <1>4, <1>5, <1>6, OnlyIf
<1> QED BY <1>2, <1>5, <1>7

LEMMA OnChainIs ==
  ASSUME NEW k \in Kern, ~k.panic, NEW p \in Procs, k.stat[p] = "SRUN", p \notin k.runq,
         NEW ch \in Chans
  PROVE  LET l == OnChain(k, p, ch, TRUE)
             m == OnChain(k, p, ch, FALSE) IN
         /\ Only(p, k, l) /\ Same(k, l, {"wchan", "intr"}) /\ l.wchan[p] = ch
         /\ Only(p, k, m) /\ Same(k, m, {"wchan", "intr"}) /\ m.wchan[p] = ch
         /\ p \notin m.intr
<1> DEFINE l == OnChain(k, p, ch, TRUE)
           m == OnChain(k, p, ch, FALSE)
<1>1. k.intr \subseteq Procs /\ l.intr = k.intr \cup {p} /\ m.intr = k.intr \ {p}
  BY DEF OnChain, Kern
<1>2. l = [k EXCEPT !.wchan[p] = ch, !.intr = l.intr, !.panic = FALSE]
  BY DEF OnChain, Kern
<1>3. m = [k EXCEPT !.wchan[p] = ch, !.intr = m.intr, !.panic = FALSE]
  BY DEF OnChain, Kern
<1> HIDE DEF l, m
<1>4. Chained(k, l, p, ch)
  BY <1>1, <1>2 DEF Chained
<1>5. Chained(k, m, p, ch)
  BY <1>1, <1>3 DEF Chained
<1>6. Only(p, k, l) /\ Same(k, l, {"wchan", "intr"}) /\ l.wchan[p] = ch
  BY <1>4, ChainedIs
<1>7. Only(p, k, m) /\ Same(k, m, {"wchan", "intr"}) /\ m.wchan[p] = ch
  BY <1>5, ChainedIs
<1> QED BY <1>1, <1>6, <1>7 DEF l, m

QuietChain(k, p, ch) == OnChain(k, p, ch, FALSE)

LEMMA QuietChainIs ==
  ASSUME NEW k \in Kern, ~k.panic, NEW p \in Procs, k.stat[p] = "SRUN", p \notin k.runq,
         NEW ch \in Chans
  PROVE  LET l == QuietChain(k, p, ch) IN
         Only(p, k, l) /\ l.wchan[p] = ch /\ p \notin l.intr
BY OnChainIs DEF QuietChain

LEMMA StatOnly ==
  ASSUME NEW k \in Kern, ~k.panic, NEW p \in Procs, NEW s \in Alive \cup {"NULL", "SZOMB"}
  PROVE  LET l == Stat(k, {p}, s) IN
         Only(p, k, l) /\ l.stat[p] = s /\ l.wchan = k.wchan /\ l.sig = k.sig /\ l.intr = k.intr
<1> DEFINE l == Stat(k, {p}, s)
<1>1. /\ l \in Kern /\ Same(k, l, {"stat"})
      /\ \A q \in Procs : l.stat[q] = IF q \in {p} THEN s ELSE k.stat[q]
  BY StatIs
<1> HIDE DEF l
<1>2. l.wchan = k.wchan /\ l.sig = k.sig /\ l.intr = k.intr
  BY <1>1 DEF Same
<1>3. Same(k, l, {"stat", "wchan", "sig", "cursig", "intr", "wted"})
  BY <1>1 DEF Same
<1>4. Only(p, k, l)
  BY <1>1, <1>2, <1>3, OnlyIf
<1> QED BY <1>1, <1>2, <1>4 DEF l

LEMMA SwtchTurn ==
  ASSUME NEW p, Runs(p), NEW k, Looks(p, k), NEW to \in {"call", "wait"},
         SleepSwtch(k, p, to), ready' = ready, UNCHANGED SchedVars
  PROVE  Inv' /\ Starts
<1>1. /\ p \in Users /\ p \in Procs /\ p # SCHED /\ k \in Kern /\ ~k.panic /\ TypeOK
  BY RunsFacts DEF Looks, Only
<1>2. [back EXCEPT ![p] = to] \in [Users -> {"call", "wait"}] /\ back \in [Users -> {"call", "wait"}]
  BY <1>1 DEF TypeOK
<1>3. CASE IssigStops(k, p, "issig") /\ back' = [back EXCEPT ![p] = to]
  BY <1>2, <1>3, StopsTurn
<1>4. CASE IssigTakes(k, p) /\ UNCHANGED back
  BY <1>2, <1>4, TakesTurn
<1>5. CASE /\ Quiet(k, p) /\ k.wchan[p] # NONE
           /\ kern' = Stat(Passed(k, p), {p}, "SSLEEP") /\ Swtch /\ Sleeping(p, to)
  <2> DEFINE l == Passed(k, p)
  <2>1. /\ Only(p, k, l) /\ l.stat = k.stat /\ l.wchan = k.wchan
        /\ Weighty(l, p) \subseteq Weighty(k, p)
    BY <1>1, PassedOnly
  <2>2. kern' = Stat(l, {p}, "SSLEEP") /\ l \in Kern /\ ~l.panic
    BY <1>5, <2>1 DEF Only
  <2> HIDE DEF l
  <2>3. Only(p, l, kern') /\ kern'.stat[p] = "SSLEEP" /\ kern'.wchan = l.wchan /\ kern'.sig = l.sig
    BY <1>1, <2>2, StatOnly DEF Alive
  <2>4. Only(p, kern, kern')
    BY <2>1, <2>3, OnlyTrans DEF Looks
  <2>5. Weighty(kern', p) = {}
    BY <1>5, <2>1, <2>3 DEF Quiet, Weighty, Pending
  <2>6. Lull(kern', p)
    BY <2>5 DEF Lull
  <2>7. k.wchan[p] \notin ready \cup {NONE, "runout"} /\ kern'.wchan[p] = k.wchan[p]
    BY <1>5, <2>1, <2>3 DEF Looks
  <2>8. cur' = NONE /\ pc' = [pc EXCEPT ![p] = "swtch"] /\ back' = [back EXCEPT ![p] = to]
    BY <1>5 DEF Swtch, Sleeping
  <2> QED BY <1>2, <2>3, <2>4, <2>6, <2>7, <2>8, GoToSleep DEF Looks
<1> QED BY <1>3, <1>4, <1>5 DEF SleepSwtch

LEMMA ReturnsTurn ==
  ASSUME NEW p, Runs(p), NEW k, Only(p, kern, k), k.stat[p] = "SRUN", k.wchan[p] = NONE,
         SleepReturns(k, p), ready' = ready, UNCHANGED SchedVars
  PROVE  Inv' /\ Starts
<1>1. p \in Users /\ p \in Procs /\ k \in Kern /\ ~k.panic /\ TypeOK
  BY RunsFacts DEF Only
<1>2. /\ kern' = [k EXCEPT !.intr = k.intr \cup {p}] /\ cur' = cur
      /\ pc' = [pc EXCEPT ![p] = back[p]] /\ back' = [back EXCEPT ![p] = "call"]
  BY DEF SleepReturns, Keep, Goto
<1>3. /\ back' \in [Users -> {"call", "wait"}] /\ back[p] \in UserPc \ {"exit", "dead"}
      /\ back[p] # "sleep"
  BY <1>1, <1>2 DEF TypeOK, UserPc
<1>4. k.intr \in SUBSET Procs
  BY <1>1 DEF Kern
<1>5. kern' \in Kern /\ Same(k, kern', {"intr"}) /\ kern'.intr = k.intr \cup {p}
  BY <1>1, <1>2, <1>4 DEF Kern, Same
<1>6. kern'.stat = k.stat /\ kern'.wchan = k.wchan /\ kern'.sig = k.sig
  BY <1>5 DEF Same
<1>7. Same(k, kern', {"stat", "wchan", "sig", "cursig", "intr", "wted"})
  BY <1>5 DEF Same
<1>8. Only(p, k, kern')
  BY <1>1, <1>5, <1>6, <1>7, OnlyIf
<1>9. Only(p, kern, kern')
  BY <1>8, OnlyTrans
<1> QED BY <1>2, <1>3, <1>6, <1>9, GoOn

LEMMA SleepReturnStep == ASSUME Inv, NEW p \in Users, SleepReturn(p) PROVE Inv' /\ Starts
<1>1. /\ Runs(p) /\ ready' = ready /\ UNCHANGED SchedVars
      /\ \/ IssigStops(kern, p, "issig") /\ UNCHANGED back
         \/ IssigTakes(kern, p) /\ back' = [back EXCEPT ![p] = "call"]
         \/ SleepReturns(Passed(kern, p), p)
         \/ SleepReturns(kern, p)
  BY DEF SleepReturn, At, Running, Runs
<1>2. /\ Only(p, kern, kern) /\ kern.stat[p] = "SRUN" /\ kern.wchan[p] = NONE /\ p # NONE
      /\ NONE \notin ready \cup {"runout"} /\ kern \in Kern /\ ~kern.panic /\ TypeOK
  BY <1>1, RunsFacts, NoneApart
<1>3. Looks(p, kern)
  BY <1>2 DEF Looks
<1>4. /\ back \in [Users -> {"call", "wait"}]
      /\ [back EXCEPT ![p] = "call"] \in [Users -> {"call", "wait"}]
  BY <1>2 DEF TypeOK
<1>5. CASE IssigStops(kern, p, "issig") /\ UNCHANGED back
  BY <1>1, <1>3, <1>4, <1>5, StopsTurn
<1>6. CASE IssigTakes(kern, p) /\ back' = [back EXCEPT ![p] = "call"]
  BY <1>1, <1>3, <1>4, <1>6, TakesTurn
<1>7. CASE SleepReturns(Passed(kern, p), p)
  <2> DEFINE l == Passed(kern, p)
  <2>1. Only(p, kern, l) /\ l.stat = kern.stat /\ l.wchan = kern.wchan
    BY <1>2, PassedOnly
  <2> HIDE DEF l
  <2>2. SleepReturns(l, p)
    BY <1>7 DEF l
  <2> QED BY <1>1, <1>2, <2>1, <2>2, ReturnsTurn
<1>8. CASE SleepReturns(kern, p)
  BY <1>1, <1>2, <1>8, ReturnsTurn
<1> QED BY <1>1, <1>5, <1>6, <1>7, <1>8

LEMMA SleepIssigStep == ASSUME Inv, NEW p \in Users, SleepIssig(p) PROVE Inv' /\ Starts
<1>1. /\ Runs(p) /\ ready' = ready /\ UNCHANGED SchedVars
      /\ \/ IssigStops(kern, p, "issig") /\ UNCHANGED back
         \/ IssigTakes(kern, p) /\ back' = [back EXCEPT ![p] = "call"]
         \/ SleepReturns(Unsignalled(kern, p), p)
  BY DEF SleepIssig, At, Running, Runs
<1>2. /\ Only(p, kern, kern) /\ kern.stat[p] = "SRUN" /\ kern.wchan[p] = NONE /\ p # NONE
      /\ NONE \notin ready \cup {"runout"} /\ kern \in Kern /\ ~kern.panic /\ TypeOK
  BY <1>1, RunsFacts, NoneApart
<1>3. Looks(p, kern)
  BY <1>2 DEF Looks
<1>4. /\ back \in [Users -> {"call", "wait"}]
      /\ [back EXCEPT ![p] = "call"] \in [Users -> {"call", "wait"}]
  BY <1>2 DEF TypeOK
<1>5. CASE IssigStops(kern, p, "issig") /\ UNCHANGED back
  BY <1>1, <1>3, <1>4, <1>5, StopsTurn
<1>6. CASE IssigTakes(kern, p) /\ back' = [back EXCEPT ![p] = "call"]
  BY <1>1, <1>3, <1>4, <1>6, TakesTurn
<1>7. CASE SleepReturns(Unsignalled(kern, p), p)
  <2> DEFINE l == Unsignalled(kern, p)
  <2>1. Only(p, kern, l) /\ l.stat = kern.stat /\ l.wchan = kern.wchan
    BY <1>2, PassedOnly
  <2> HIDE DEF l
  <2>2. SleepReturns(l, p)
    BY <1>7 DEF l
  <2> QED BY <1>1, <1>2, <2>1, <2>2, ReturnsTurn
<1> QED BY <1>1, <1>5, <1>6, <1>7

LEMMA SleepEventStep == ASSUME Inv, NEW p \in Users, SleepEvent(p) PROVE Inv' /\ Starts
<1>1. PICK c \in Events :
        /\ At(p, "call") /\ c \notin ready
        /\ \/ SleepSwtch(OnChain(kern, p, c, TRUE), p, "call")
           \/ /\ kern' = Stat(OnChain(kern, p, c, FALSE), {p}, "SSLEEP") /\ Swtch
              /\ Sleeping(p, "call")
        /\ UNCHANGED <<ready, SchedVars>>
  BY DEF SleepEvent
<1> DEFINE k == OnChain(kern, p, c, TRUE)
           l == OnChain(kern, p, c, FALSE)
<1>2. Runs(p) /\ ready' = ready /\ UNCHANGED SchedVars /\ c \notin ready
  BY <1>1 DEF At, Running, Runs
<1>3. /\ Only(p, kern, kern) /\ kern.stat[p] = "SRUN" /\ p \in Procs /\ p \notin kern.runq
      /\ kern \in Kern /\ ~kern.panic /\ TypeOK /\ c \in Chans /\ c \notin {p, NONE, "runout"}
  BY <1>2, RunsFacts, NoneApart, ChansAssumption DEF Chans
<1>4. /\ Only(p, kern, k) /\ Same(kern, k, {"wchan", "intr"}) /\ k.wchan[p] = c
      /\ Only(p, kern, l) /\ Same(kern, l, {"wchan", "intr"}) /\ l.wchan[p] = c
      /\ p \notin l.intr
  BY <1>3, OnChainIs
<1>5. \/ SleepSwtch(k, p, "call")
      \/ kern' = Stat(l, {p}, "SSLEEP") /\ Swtch /\ Sleeping(p, "call")
  BY <1>1
<1> HIDE DEF k, l
<1>6. CASE SleepSwtch(k, p, "call")
  <2>1. Looks(p, k)
    BY <1>2, <1>3, <1>4 DEF Looks, Same
  <2> QED BY <1>2, <1>6, <2>1, SwtchTurn
<1>7. CASE kern' = Stat(l, {p}, "SSLEEP") /\ Swtch /\ Sleeping(p, "call")
  <2>1. l \in Kern /\ ~l.panic
    BY <1>4 DEF Only
  <2>2. Only(p, l, kern') /\ kern'.stat[p] = "SSLEEP" /\ kern'.wchan = l.wchan /\ kern'.intr = l.intr
    BY <1>3, <1>7, <2>1, StatOnly DEF Alive
  <2>3. Only(p, kern, kern')
    BY <1>4, <2>2, OnlyTrans
  <2>4. Lull(kern', p)
    BY <1>4, <2>2 DEF Lull
  <2>5. /\ cur' = NONE /\ pc' = [pc EXCEPT ![p] = "swtch"]
        /\ back' \in [Users -> {"call", "wait"}]
    BY <1>3, <1>7 DEF Swtch, Sleeping, TypeOK
  <2> QED BY <1>2, <1>3, <1>4, <2>2, <2>3, <2>4, <2>5, GoToSleep
<1> QED BY <1>5, <1>6, <1>7

LEMMA WaitSleepStep == ASSUME Inv, NEW p \in Users, WaitSleep(p) PROVE Inv' /\ Starts
<1> DEFINE k == OnChain(kern, p, p, TRUE)
<1>1. /\ Runs(p) /\ ready' = ready /\ UNCHANGED SchedVars /\ SleepSwtch(k, p, "wait")
      /\ Zombies(p) = {}
  BY DEF WaitSleep, At, Running, Runs, Inv, Place
<1>2. /\ kern.stat[p] = "SRUN" /\ p \in Procs /\ p \notin kern.runq /\ TypeOK
      /\ kern \in Kern /\ ~kern.panic /\ p \in Chans /\ p # "runout"
  BY <1>1, RunsFacts, NoneApart
<1>3. Only(p, kern, k) /\ Same(kern, k, {"wchan", "intr"}) /\ k.wchan[p] = p
  BY <1>2, OnChainIs
<1> HIDE DEF k
<1>4. p \notin ready
  BY <1>2, ChansAssumption DEF TypeOK
<1>5. Looks(p, k)
  BY <1>1, <1>2, <1>3, <1>4 DEF Looks, Same
<1> QED BY <1>1, <1>5, SwtchTurn

-----------------------------------------------------------------------------
(* The rest of what a process does.                                        *)

LEMMA StayStep ==
  ASSUME Inv, NEW p \in Users, UseEvent(p) \/ Wait(p) \/ WaitNone(p) \/ WaitStopped(p)
  PROVE  Inv' /\ Starts
<1>1. Runs(p) /\ cur' = cur /\ UNCHANGED SchedVars /\ back' = back
  BY DEF UseEvent, Wait, WaitNone, WaitStopped, At, Running, Runs
<1>2. /\ Only(p, kern, kern) /\ kern.stat[p] = "SRUN" /\ kern.wchan[p] = NONE /\ p \in Procs
      /\ TypeOK /\ kern \in Kern /\ ~kern.panic
  BY <1>1, RunsFacts
<1>3. ready' \in SUBSET ready
  BY DEF UseEvent, Wait, WaitNone, WaitStopped
<1>4. PICK a \in UserPc \ {"exit", "dead"} :
        pc' = [pc EXCEPT ![p] = a] /\ (a = "sleep" => Zombies(p) = {} /\ kern' = kern)
  <2>1. CASE UseEvent(p)
    <3>1. PICK a : a = "call"
      OBVIOUS
    <3>2. pc' = [pc EXCEPT ![p] = a]
      BY <3>1, <1>2, <2>1 DEF UseEvent, At, TypeOK
    <3>3. a \in UserPc \ {"exit", "dead"} /\ a # "sleep"
      BY <3>1 DEF UserPc
    <3> QED BY <3>2, <3>3
  <2>2. CASE Wait(p)
    <3>1. PICK a : a = "wait"
      OBVIOUS
    <3>2. pc' = [pc EXCEPT ![p] = a]
      BY <3>1, <2>2 DEF Wait, Goto
    <3>3. a \in UserPc \ {"exit", "dead"} /\ a # "sleep"
      BY <3>1 DEF UserPc
    <3> QED BY <3>2, <3>3
  <2>3. CASE WaitNone(p)
    <3>1. PICK a : a = IF Children(p) = {} THEN "call" ELSE "sleep"
      OBVIOUS
    <3>2. pc' = [pc EXCEPT ![p] = a] /\ Zombies(p) = {} /\ kern' = kern
      BY <2>3, <3>1 DEF WaitNone, Goto, Unreported
    <3>3. a \in UserPc \ {"exit", "dead"}
      BY <3>1 DEF UserPc
    <3> QED BY <3>2, <3>3
  <2>4. CASE WaitStopped(p)
    BY <2>4 DEF WaitStopped, Goto, UserPc
  <2> QED BY <2>1, <2>2, <2>3, <2>4
<1>5. Only(p, kern, kern') /\ kern'.stat = kern.stat /\ kern'.wchan = kern.wchan
  <2>1. CASE kern' = kern
    BY <1>2, <2>1
  <2>2. CASE WaitStopped(p)
    <3>1. PICK q \in Halted(p) : kern' = [kern EXCEPT !.wted = kern.wted \cup {q}]
      BY <2>2 DEF WaitStopped
    <3>2. q \in Users /\ kern.wted \in SUBSET Users
      BY <1>2 DEF Halted, Children, Kern
    <3>3. kern' \in Kern /\ Same(kern, kern', {"wted"})
      BY <1>2, <3>1, <3>2 DEF Kern, Same
    <3>4. /\ kern'.stat = kern.stat /\ kern'.wchan = kern.wchan /\ kern'.sig = kern.sig
          /\ kern'.intr = kern.intr
          /\ Same(kern, kern', {"stat", "wchan", "sig", "cursig", "intr", "wted"})
      BY <3>3 DEF Same
    <3> QED BY <1>2, <3>3, <3>4, OnlyIf
  <2> QED BY <2>1, <2>2 DEF UseEvent, Wait, WaitNone
<1>6. a = "sleep" => Zombies(p)' = {}
  BY <1>4 DEF Zombies, Children
<1>7. back' \in [Users -> {"call", "wait"}]
  BY <1>1, <1>2 DEF TypeOK
<1> QED BY <1>1, <1>2, <1>3, <1>4, <1>5, <1>6, <1>7, GoOn

LEMMA WaitReapStep == ASSUME Inv, NEW p \in Users, WaitReap(p) PROVE Inv' /\ Starts
<1>1. PICK q \in Zombies(p) :
        /\ At(p, "wait") /\ Goto(p, "call")
        /\ kern' = [Stat(kern, {q}, "NULL") EXCEPT
                      !.sig[q] = {}, !.cursig[q] = NONE,
                      !.pptr[q] = NONE, !.load = @ \ {q},
                      !.wted = @ \ {q}]
        /\ UNCHANGED <<cur, back, ready, SchedVars>>
  BY DEF WaitReap
<1>2. Runs(p) /\ pc' = [pc EXCEPT ![p] = "call"]
  BY <1>1 DEF At, Running, Runs, Goto
<1>3. /\ Core(kern, p) /\ kern \in Kern /\ TypeOK /\ p \in Procs /\ p # SCHED /\ p # NONE
      /\ kern.stat[p] = "SRUN" /\ p \in kern.load /\ cur = p /\ kern.wchan[p] = NONE
      /\ NONE \notin ready
  BY <1>2, RunsFacts DEF Runs
<1>4. q \in Users /\ kern.stat[q] = "SZOMB" /\ q # p
  BY <1>3 DEF Zombies, Children
<1>5. Freed(kern, kern', q)
  BY <1>1, <1>3, <1>4, FreedIs
<1>6. /\ Core(kern', p) /\ Own(p, kern, kern') /\ kern' \in Kern
      /\ \A r \in kern.load \ kern'.load : kern'.stat[r] = "NULL"
  BY <1>3, <1>4, <1>5, FreedOwn DEF Freed
<1>7. Calm(kern', kern') /\ Heeds(kern', kern')
  BY <1>6, CalmSelf DEF Gentle
<1>8. kern'.stat[p] = "SRUN" /\ kern'.wchan[p] = NONE /\ p \in kern'.load
  BY <1>3, <1>4, <1>5 DEF Freed, Same
<1>9. /\ pc' \in [Procs -> UserPc \cup SchedPc] /\ \A r \in Procs \ {p} : pc'[r] = pc[r]
      /\ pc'[p] = "call" /\ pc'[p] \in UserPc
  BY <1>2, <1>3 DEF TypeOK, UserPc
<1>10. Place(p)' /\ Lull(kern', p)
  BY <1>3, <1>8, <1>9, NoneApart DEF Place, Lull
<1>11. back' \in [Users -> {"call", "wait"}] /\ ready' \in SUBSET ready /\ cur' = cur
  BY <1>1, <1>3 DEF TypeOK
<1>12. p \in Users \cup {NONE} /\ cur' \in {p, NONE} /\ UNCHANGED SchedVars
  BY <1>1, <1>3
<1> QED BY <1>3, <1>6, <1>7, <1>8, <1>9, <1>10, <1>11, <1>12, TurnInv

LEMMA LeavesTurn ==
  ASSUME NEW p, Runs(p), NEW k, Only(p, kern, k), k.stat = kern.stat, k.wchan = kern.wchan,
         Leaves(p, k), UNCHANGED <<back, ready, SchedVars>>
  PROVE  Inv' /\ Starts
<1>1. /\ p \in Users /\ p \in Procs /\ p # SCHED /\ p # NONE /\ TypeOK /\ Core(kern, p)
      /\ kern.stat[p] = "SRUN" /\ kern.wchan[p] = NONE /\ p \in kern.load
      /\ p \notin kern.runq /\ NONE \notin ready
  BY RunsFacts
<1>2. /\ pc' = [pc EXCEPT ![p] = "call"] /\ back' \in [Users -> {"call", "wait"}]
      /\ ready' \in SUBSET ready /\ UNCHANGED SchedVars
  BY <1>1 DEF Leaves, Goto, TypeOK
<1>3. CASE kern' = k /\ Keep
  <2>1. /\ "call" \in UserPc \ {"exit", "dead"} /\ "call" # "sleep" /\ cur' = cur
        /\ Only(p, kern, kern') /\ kern'.stat[p] = "SRUN" /\ kern'.wchan[p] = NONE
    BY <1>1, <1>3 DEF UserPc, Keep
  <2> QED BY <1>2, <2>1, GoOn
<1>4. CASE kern' = Setrq(k, {p}) /\ Swtch
  <2>1. /\ k \in Kern /\ ~k.panic /\ k.runq = kern.runq /\ k.load = kern.load
        /\ k.pptr = kern.pptr /\ k.runout = kern.runout
    BY DEF Only
  <2>2. {p} \in SUBSET Procs
    BY <1>1
  <2>3. /\ kern' \in Kern /\ Same(k, kern', {"runq", "panic"})
        /\ kern'.runq = k.runq \cup {p} /\ (kern'.panic <=> k.panic \/ {p} \cap k.runq # {})
    BY <1>4, <2>1, <2>2, SetrqIs
  <2>4. ~kern'.panic
    BY <1>1, <2>1, <2>3
  <2>5. /\ kern'.stat = k.stat /\ kern'.wchan = k.wchan /\ kern'.sig = k.sig
        /\ kern'.intr = k.intr /\ kern'.load = k.load /\ kern'.pptr = k.pptr
        /\ kern'.runout = k.runout
    BY <2>3 DEF Same
  <2>6. Own(p, kern, k)
    BY OnlyOwn
  <2>7. \A q \in Users : Lull(k, q) => Lull(kern', q)
    BY <2>5 DEF Lull, Weighty, Pending
  <2>8. Own(p, kern, kern')
    BY <2>5, <2>6, <2>7 DEF Own
  <2>9. QueuedOK(kern, p) /\ ChainOK(kern) /\ SCHED \in kern.load
        /\ kern.stat[SCHED] \in {"SRUN", "SSLEEP"}
    BY <1>1 DEF Core
  <2>10. QueuedOK(kern', NONE)
    BY <1>1, <2>1, <2>3, <2>5, <2>9, NoneApart DEF QueuedOK
  <2>11. ChainOK(kern')
    BY <2>5, <2>9 DEF ChainOK
  <2>12. Core(kern', cur') /\ cur' = NONE
    BY <1>4, <2>1, <2>3, <2>4, <2>5, <2>9, <2>10, <2>11 DEF Core, Swtch
  <2>13. Calm(kern', kern') /\ Heeds(kern', kern')
    BY <2>3, CalmSelf DEF Gentle
  <2>14. /\ pc' \in [Procs -> UserPc \cup SchedPc] /\ pc'[p] = "call"
         /\ \A q \in Procs \ {p} : pc'[q] = pc[q]
    BY <1>1, <1>2 DEF TypeOK, UserPc
  <2>15. Place(p)' /\ Lull(kern', p) /\ kern'.wchan[p] \notin ready
    BY <1>1, <2>5, <2>14, NoneApart DEF Place, Lull
  <2>16. "call" \in UserPc /\ p \in Users \cup {NONE} /\ cur = p /\ Inv /\ p # NONE
    BY <1>1 DEF UserPc, Runs
  <2>17. Watching(kern') => \A q \in kern.load \ kern'.load : kern'.stat[q] = "NULL"
    BY <2>1, <2>5
  <2>18. /\ cur' \in {p, NONE} /\ (cur' = p => p \in kern'.load /\ pc'[p] # "dead")
         /\ pc'[p] \in UserPc
         /\ pc'[p] = "dead" => \A r \in Users : kern'.pptr[p] = r => kern'.wchan[r] # r
    BY <2>12, <2>14, <2>16
  <2> QED BY <1>2, <2>3, <2>8, <2>12, <2>13, <2>14, <2>15, <2>16, <2>17, <2>18, TurnInv
<1> QED BY <1>3, <1>4 DEF Leaves

LEMMA ReturnIssigStep == ASSUME Inv, NEW p \in Users, ReturnIssig(p) PROVE Inv' /\ Starts
<1>1. /\ Runs(p) /\ UNCHANGED <<back, ready, SchedVars>>
      /\ \/ IssigStops(kern, p, "trap")
         \/ IssigTakes(kern, p)
         \/ Leaves(p, Passed(kern, p))
         \/ Leaves(p, Unsignalled(kern, p))
  BY DEF ReturnIssig, AtReturn, At, Running, Runs
<1>2. /\ Only(p, kern, kern) /\ kern.stat[p] = "SRUN" /\ kern.wchan[p] = NONE /\ p # NONE
      /\ NONE \notin ready \cup {"runout"} /\ kern \in Kern /\ ~kern.panic /\ TypeOK
  BY <1>1, RunsFacts, NoneApart
<1>3. Looks(p, kern)
  BY <1>2 DEF Looks
<1>4. back' \in [Users -> {"call", "wait"}] /\ ready' = ready /\ UNCHANGED SchedVars
  BY <1>1, <1>2 DEF TypeOK
<1>5. CASE IssigStops(kern, p, "trap")
  BY <1>1, <1>3, <1>4, <1>5, StopsTurn
<1>6. CASE IssigTakes(kern, p)
  BY <1>1, <1>3, <1>4, <1>6, TakesTurn
<1>7. CASE Leaves(p, Passed(kern, p))
  <2> DEFINE l == Passed(kern, p)
  <2>1. Only(p, kern, l) /\ l.stat = kern.stat /\ l.wchan = kern.wchan
    BY <1>2, PassedOnly
  <2>2. Leaves(p, l)
    BY <1>7
  <2> HIDE DEF l
  <2> QED BY <1>1, <2>1, <2>2, LeavesTurn
<1>8. CASE Leaves(p, Unsignalled(kern, p))
  <2> DEFINE l == Unsignalled(kern, p)
  <2>1. Only(p, kern, l) /\ l.stat = kern.stat /\ l.wchan = kern.wchan
    BY <1>2, PassedOnly
  <2>2. Leaves(p, l)
    BY <1>8
  <2> HIDE DEF l
  <2> QED BY <1>1, <2>1, <2>2, LeavesTurn
<1> QED BY <1>1, <1>5, <1>6, <1>7, <1>8

LEMMA ExitedTurn ==
  ASSUME NEW p, Runs(p), Exited(p), UNCHANGED <<cur, back, ready, SchedVars>>
  PROVE  Inv' /\ Starts
<1>1. /\ p \in Users /\ p \in Procs /\ p # SCHED /\ p # NONE /\ TypeOK /\ Core(kern, p)
      /\ kern \in Kern /\ ~kern.panic /\ kern.wchan[p] = NONE /\ NONE \notin ready
  BY RunsFacts
<1>2. cur = p /\ cur' = p /\ pc' = [pc EXCEPT ![p] = "exit"]
  BY DEF Runs, Exited, Goto
<1> DEFINE i == Stat(kern, {p}, "SZOMB")
           f == [i.sig EXCEPT ![p] = {}]
           g == [i.cursig EXCEPT ![p] = NONE]
<1>3. Only(p, kern, i) /\ i.stat[p] = "SZOMB" /\ i.wchan = kern.wchan /\ i.intr = kern.intr
  BY <1>1, StatOnly
<1>4. kern' = [i EXCEPT !.sig[p] = {}, !.cursig[p] = NONE]
  BY DEF Exited
<1>5. i \in Kern /\ ~i.panic
  BY <1>3 DEF Only
<1> HIDE DEF i
<1>6. /\ f \in [Users -> SUBSET Signals] /\ \A q \in Users \ {p} : f[q] = i.sig[q]
      /\ g \in [Users -> Action]
  BY <1>5 DEF Action, Kern
<1>7. kern' = [i EXCEPT !.sig = f, !.cursig = g]
  BY <1>4, <1>5 DEF Kern
<1> HIDE DEF f, g
<1>8. kern' \in Kern /\ Same(i, kern', {"sig", "cursig"}) /\ kern'.sig = f
  BY <1>5, <1>6, <1>7 DEF Kern, Same
<1>9. /\ Same(i, kern', {"stat", "wchan", "sig", "cursig", "intr", "wted"})
      /\ kern'.stat = i.stat /\ kern'.wchan = i.wchan /\ kern'.intr = i.intr
  BY <1>8 DEF Same
<1>10. \A q \in Users \ {p} : kern'.sig[q] = i.sig[q]
  BY <1>6, <1>8
<1>11. Only(p, i, kern')
  BY <1>1, <1>5, <1>8, <1>9, <1>10, OnlyIf
<1>12. Only(p, kern, kern')
  BY <1>3, <1>11, OnlyTrans
<1>13. kern'.stat[p] = "SZOMB" /\ kern'.wchan[p] = NONE
  BY <1>1, <1>3, <1>9
<1>14. Core(kern', cur') /\ cur' \in {p, NONE}
  BY <1>1, <1>2, <1>12, <1>13, OnlyCore
<1>15. pc'[p] = "exit" /\ "exit" \in UserPc \ {"dead"}
  BY <1>1, <1>2 DEF TypeOK, UserPc
<1>16. Place(p)' /\ Lull(kern', p) /\ kern'.wchan[p] \notin ready
  BY <1>1, <1>2, <1>13, <1>15, NoneApart DEF Place, Lull
<1>17. back' \in [Users -> {"call", "wait"}] /\ ready' \in SUBSET ready /\ UNCHANGED SchedVars
  BY <1>1 DEF TypeOK
<1> QED BY <1>2, <1>12, <1>14, <1>15, <1>16, <1>17, OnlyInv

LEMMA RexitStep == ASSUME Inv, NEW p \in Users, Rexit(p) PROVE Inv' /\ Starts
BY ExitedTurn DEF Rexit, At, Running, Runs

LEMMA PsigStep == ASSUME Inv, NEW p \in Users, Psig(p) PROVE Inv' /\ Starts
<1>1. Runs(p) /\ UNCHANGED <<cur, back, ready, SchedVars>>
  BY DEF Psig, AtReturn, At, Running, Runs
<1>2. CASE kern' = [kern EXCEPT !.cursig[p] = NONE] /\ Goto(p, "call")
  <2>1. /\ p \in Procs /\ TypeOK /\ kern \in Kern /\ ~kern.panic
        /\ kern.stat[p] = "SRUN" /\ kern.wchan[p] = NONE
    BY <1>1, RunsFacts
  <2>2. kern' \in Kern /\ Same(kern, kern', {"cursig"})
    BY <1>2, <2>1, CursigIs DEF Action
  <2>3. /\ Same(kern, kern', {"stat", "wchan", "sig", "cursig", "intr", "wted"})
        /\ kern'.stat = kern.stat /\ kern'.wchan = kern.wchan /\ kern'.intr = kern.intr
        /\ kern'.sig = kern.sig
    BY <2>2 DEF Same
  <2>4. Only(p, kern, kern')
    BY <2>1, <2>2, <2>3, OnlyIf
  <2>5. /\ pc' = [pc EXCEPT ![p] = "call"] /\ back' \in [Users -> {"call", "wait"}]
        /\ ready' \in SUBSET ready /\ UNCHANGED SchedVars /\ cur' = cur
        /\ "call" \in UserPc \ {"exit", "dead"} /\ "call" # "sleep"
    BY <1>1, <1>2, <2>1 DEF Goto, TypeOK, UserPc
  <2> QED BY <1>1, <2>1, <2>3, <2>4, <2>5, GoOn
<1>3. CASE Exited(p)
  BY <1>1, <1>3, ExitedTurn
<1> QED BY <1>2, <1>3 DEF Psig

(* A child goes to init.                                                   *)
LEMMA AdoptedIs ==
  ASSUME NEW k, NEW c, Core(k, c), NEW q \in Users,
         NEW i, i = [k EXCEPT !.pptr[q] = PROC1]
  PROVE  Core(i, c) /\ Own(c, k, i) /\ i.load = k.load
<1> DEFINE f == [k.pptr EXCEPT ![q] = PROC1]
<1>1. k \in Kern /\ k.pptr \in [Users -> Users \cup {PROC1, NONE}]
  BY DEF Core, Kern
<1>2. /\ f \in [Users -> Users \cup {PROC1, NONE}]
      /\ \A r \in Users : f[r] \in {k.pptr[r], PROC1, NONE}
  BY <1>1
<1>3. i = [k EXCEPT !.pptr = f]
  BY <1>1
<1> HIDE DEF f
<1>4. i \in Kern /\ Same(k, i, {"pptr"}) /\ i.pptr = f
  BY <1>1, <1>2, <1>3 DEF Kern, Same
<1>5. Core(i, c)
  BY <1>4 DEF Core, QueuedOK, ChainOK, Same
<1>6. \A r \in Users : Lull(k, r) => Lull(i, r)
  BY <1>4 DEF Lull, Weighty, Pending, Same
<1>7. /\ i.wchan = k.wchan /\ i.stat = k.stat /\ i.load = k.load /\ i.runout = k.runout
      /\ \A r \in Users : i.pptr[r] \in {k.pptr[r], PROC1, NONE}
  BY <1>2, <1>4 DEF Same
<1> QED BY <1>5, <1>6, <1>7 DEF Own

LEMMA SpgrpIs ==
  ASSUME NEW k, NEW c, Core(k, c), NEW q
  PROVE  LET l == Spgrp(k, q) IN Core(l, c) /\ Gentle(k, l) /\ Heeds(k, l)
<1> DEFINE l == Spgrp(k, q)
           f == [r \in Users |-> IF r \in Inferiors(k, q)
                                   THEN k.sig[r] \ {"TSTP"} ELSE k.sig[r]]
<1>1. k \in Kern /\ k.sig \in [Users -> SUBSET Signals]
  BY DEF Core, Kern
<1>2. /\ f \in [Users -> SUBSET Signals]
      /\ \A r \in Users : f[r] \subseteq k.sig[r] /\ {"CONT", "KILL"} \cap k.sig[r] \subseteq f[r]
  BY <1>1
<1>3. l = [k EXCEPT !.sig = f]
  BY DEF Spgrp
<1> HIDE DEF f, l
<1>4. l \in Kern /\ Same(k, l, {"sig"}) /\ l.sig = f
  BY <1>1, <1>2, <1>3 DEF Kern, Same
<1>5. Core(l, c)
  BY <1>4 DEF Core, QueuedOK, ChainOK, Same
<1>6. \A r \in Users : Lull(k, r) => Lull(l, r)
  <2> SUFFICES ASSUME NEW r \in Users PROVE Lull(k, r) => Lull(l, r)
    OBVIOUS
  <2>1. Weighty(l, r) \subseteq Weighty(k, r)
    BY <1>2, <1>4 DEF Weighty, Pending
  <2> QED BY <1>4, <2>1, LullIf DEF Same
<1>7. \A r \in Users : Firm(k, l, r)
  BY <1>2, <1>4 DEF Firm
<1>8. l.stat = k.stat /\ l.wchan = k.wchan /\ l.load = k.load /\ l.pptr = k.pptr
      /\ l.intr = k.intr /\ l.wantin = k.wantin /\ l.runout = k.runout
  BY <1>4 DEF Same
<1>9. Calm(k, l)
  BY <1>6, <1>8 DEF Calm, Mild, Fresh, Obeys, Watching
<1>10. Heeds(k, l)
  BY <1>8 DEF Heeds, Alert, Watching, NoFresh, Fresh
<1> QED BY <1>5, <1>7, <1>9, <1>10 DEF Gentle, l

LEMMA GentlePsignal ==
  ASSUME NEW k, NEW c, Core(k, c), NEW q \in Users, NEW s \in {"HUP", "KILL", "CONT"}
  PROVE  LET l == IF s \in Signals THEN Psignal(k, q, s) ELSE k IN
         Core(l, c) /\ Gentle(k, l) /\ Heeds(k, l)
<1>1. CASE s \in Signals
  <2>1. s \notin Stops
    BY DEF Stops
  <2> QED BY <1>1, <2>1, PsignalIs
<1>2. CASE s \notin Signals
  BY <1>2, CalmSelf DEF Core
<1> QED BY <1>1, <1>2

LEMMA OrphanedIs ==
  ASSUME NEW k, NEW c, NEW q \in Users, NEW i, i = [k EXCEPT !.pptr[q] = PROC1], Core(i, c)
  PROVE  LET l == Orphaned(k, q) IN Core(l, c) /\ Gentle(i, l) /\ Heeds(i, l)
<1> DEFINE j == IF "HUP" \in Signals THEN Psignal(i, q, "HUP") ELSE i
           h == IF "CONT" \in Signals THEN Psignal(j, q, "CONT") ELSE j
           l == Orphaned(k, q)
<1>1. l = Spgrp(h, q) \/ l = Spgrp(i, q)
  BY DEF Orphaned
<1>2. Core(j, c) /\ Gentle(i, j) /\ Heeds(i, j)
  BY GentlePsignal
<1> HIDE DEF j
<1>3. Core(h, c) /\ Gentle(j, h) /\ Heeds(j, h)
  BY <1>2, GentlePsignal
<1> HIDE DEF h, l
<1>4. Gentle(i, h) /\ Heeds(i, h)
  BY <1>2, <1>3, GentleOnce
<1>5. CASE l = Spgrp(i, q)
  BY <1>5, SpgrpIs DEF l
<1>6. CASE l = Spgrp(h, q)
  <2>1. Core(l, c) /\ Gentle(h, l) /\ Heeds(h, l)
    BY <1>3, <1>6, SpgrpIs
  <2> QED BY <1>3, <1>4, <2>1, GentleOnce DEF l
<1> QED BY <1>1, <1>5, <1>6 DEF l

(* A process at its end.                                                   *)
LEMMA EndsFacts ==
  ASSUME Inv, NEW p \in Users, At(p, "exit")
  PROVE  /\ p \in Procs /\ p # SCHED /\ p # NONE /\ TypeOK /\ Core(kern, p) /\ cur = p
         /\ kern.stat[p] = "SZOMB" /\ kern.wchan[p] = NONE /\ pc[p] = "exit"
         /\ p \in kern.load /\ NONE \notin ready /\ pc \in [Procs -> UserPc \cup SchedPc]
<1>1. cur = p /\ TypeOK /\ Core(kern, p) /\ pc[p] = "exit" /\ Place(p) /\ Turn
  BY DEF Inv, At, Running
<1>2. p \in Procs /\ p # SCHED /\ p # NONE
  BY NoneApart
<1>3. kern.stat[p] = "SZOMB" /\ p \in kern.load
  BY <1>1, <1>2 DEF Place, Turn
<1>4. kern.wchan[p] = NONE
  BY <1>1, <1>2, <1>3 DEF Core, ChainOK
<1>5. NONE \notin ready
  BY <1>1, NoneApart DEF TypeOK, Chans
<1> QED BY <1>1, <1>2, <1>3, <1>4, <1>5 DEF TypeOK

(* Its step, up to the look of the process table when it is over.          *)
LEMMA EndsTurn ==
  ASSUME Inv, NEW p \in Users, At(p, "exit"), NEW m \in Kern, Own(p, kern, m),
         m.load = kern.load, Core(kern', cur'), Calm(m, kern'), Heeds(m, kern'),
         NEW a, pc' = [pc EXCEPT ![p] = a],
         \/ a = "exit" /\ cur' = p
         \/ a = "dead" /\ cur' = NONE /\ \A r \in Users : kern'.pptr[p] = r => kern'.wchan[r] # r,
         m.stat[p] = "SZOMB", m.wchan[p] = NONE,
         UNCHANGED <<back, ready, SchedVars>>
  PROVE  Inv' /\ Starts
<1>1. /\ p \in Procs /\ p # SCHED /\ p # NONE /\ TypeOK /\ Core(kern, p) /\ cur = p
      /\ p \in kern.load /\ NONE \notin ready /\ pc \in [Procs -> UserPc \cup SchedPc]
  BY EndsFacts
<1>2. kern'.stat[p] = "SZOMB" /\ kern'.wchan[p] = NONE
  BY <1>1 DEF Calm, Mild
<1>3. /\ pc'[p] = a /\ a \in UserPc
      /\ pc' \in [Procs -> UserPc \cup SchedPc] /\ \A q \in Procs \ {p} : pc'[q] = pc[q]
  BY <1>1 DEF UserPc
<1>4. Place(p)' /\ Lull(kern', p) /\ kern'.wchan[p] \notin ready
  BY <1>1, <1>2, <1>3, NoneApart DEF Place, Lull
<1>5. /\ back' \in [Users -> {"call", "wait"}] /\ ready' \in SUBSET ready /\ UNCHANGED SchedVars
      /\ cur' \in {p, NONE} /\ p \in Users \cup {NONE}
  BY <1>1 DEF TypeOK
<1>6. Watching(kern') => \A q \in kern.load \ m.load : m.stat[q] = "NULL"
  OBVIOUS
<1>7. /\ cur' = p => p \in m.load /\ pc'[p] # "dead"
      /\ pc'[p] = "dead" => \A r \in Users : kern'.pptr[p] = r => kern'.wchan[r] # r
  BY <1>1, <1>3
<1> QED BY <1>1, <1>3, <1>4, <1>5, <1>6, <1>7, TurnInv

LEMMA ExitChildStep == ASSUME Inv, NEW p \in Users, ExitChild(p) PROVE Inv' /\ Starts
<1>1. PICK q \in Children(p) :
        /\ At(p, "exit") /\ kern' = Orphaned(kern, q)
        /\ UNCHANGED <<cur, pc, back, ready, SchedVars>>
  BY DEF ExitChild
<1>2. /\ p \in Procs /\ Core(kern, p) /\ cur = p /\ kern.stat[p] = "SZOMB" /\ TypeOK
      /\ kern.wchan[p] = NONE /\ pc[p] = "exit" /\ pc \in [Procs -> UserPc \cup SchedPc]
  BY <1>1, EndsFacts
<1>3. q \in Users
  BY DEF Children
<1> DEFINE i == [kern EXCEPT !.pptr[q] = PROC1]
<1>4. Core(i, p) /\ Own(p, kern, i) /\ i.load = kern.load
  BY <1>2, <1>3, AdoptedIs
<1>5. i.stat = kern.stat /\ i.wchan = kern.wchan
  BY <1>2 DEF Core, Kern
<1>6. Core(kern', p) /\ Gentle(i, kern') /\ Heeds(i, kern')
  BY <1>1, <1>3, <1>4, OrphanedIs
<1> HIDE DEF i
<1>7. Core(kern', cur') /\ Calm(i, kern') /\ cur' = p /\ i \in Kern
  BY <1>1, <1>2, <1>4, <1>6 DEF Gentle, Core
<1>8. PICK a : a = "exit"
  OBVIOUS
<1>9. /\ pc' = [pc EXCEPT ![p] = a] /\ UNCHANGED <<back, ready, SchedVars>>
      /\ i.stat[p] = "SZOMB" /\ i.wchan[p] = NONE
  BY <1>1, <1>2, <1>5, <1>8
<1> QED BY <1>1, <1>4, <1>6, <1>7, <1>8, <1>9, EndsTurn

LEMMA ExitDoneStep == ASSUME Inv, NEW p \in Users, ExitDone(p) PROVE Inv' /\ Starts
<1> DEFINE k == Chld(kern, kern.pptr[p])
<1>1. /\ At(p, "exit") /\ kern' = Parents(k, p) /\ cur' = NONE
      /\ pc' = [pc EXCEPT ![p] = "dead"] /\ UNCHANGED <<back, ready, SchedVars>>
  BY DEF ExitDone, Swtch, Goto
<1>2. /\ p \in Procs /\ Core(kern, p) /\ kern.stat[p] = "SZOMB" /\ kern.wchan[p] = NONE
  BY <1>1, EndsFacts
<1>3. Core(kern, NONE) /\ kern \in Kern
  BY <1>2, NoneApart DEF Core, QueuedOK
<1>4. Core(k, NONE) /\ Gentle(kern, k) /\ Heeds(kern, k)
  BY <1>3, ChldIs
<1> HIDE DEF k
<1>5. /\ Core(kern', NONE) /\ Gentle(k, kern') /\ Heeds(k, kern')
      /\ \A r \in Users : k.pptr[p] = r => kern'.wchan[r] # r
  BY <1>1, <1>4, ParentsIs
<1>6. Gentle(kern, kern') /\ Heeds(kern, kern')
  BY <1>3, <1>4, <1>5, GentleOnce
<1>7. \A r \in Users : kern'.pptr[p] = r => kern'.wchan[r] # r
  BY <1>5 DEF Gentle, Calm
<1>8. Own(p, kern, kern) /\ Calm(kern, kern') /\ Core(kern', cur')
  BY <1>1, <1>5, <1>6 DEF Own, Gentle
<1> QED BY <1>1, <1>2, <1>3, <1>6, <1>7, <1>8, EndsTurn

-----------------------------------------------------------------------------
(* ptexpand.                                                               *)

LEMMA ExpandsTurn ==
  ASSUME NEW p, Runs(p), pc[p] = "call",
         kern' = Roused([kern EXCEPT !.load = @ \ {p}]), cur' = NONE,
         UNCHANGED <<pc, back, ready, SchedVars>>
  PROVE  Inv' /\ Starts
<1> DEFINE m == [kern EXCEPT !.load = @ \ {p}]
<1>1. /\ p \in Users /\ p \in Procs /\ p # SCHED /\ p # NONE /\ TypeOK /\ Core(kern, p)
      /\ kern \in Kern /\ kern.stat[p] = "SRUN" /\ kern.wchan[p] = NONE /\ NONE \notin ready
  BY RunsFacts
<1>2. /\ Inv /\ cur = p /\ pc[p] \notin {"exit", "dead"} /\ Alert(kern)
      /\ \A q \in Users : kern.wchan[q] # "runout"
  BY DEF Runs, Inv, Place
<1>3. m \in Kern /\ Same(kern, m, {"load"}) /\ m.load = kern.load \ {p}
  BY <1>1 DEF Kern, Same
<1> HIDE DEF m
<1>4. /\ m.stat = kern.stat /\ m.wchan = kern.wchan /\ m.runq = kern.runq /\ m.sig = kern.sig
      /\ m.intr = kern.intr /\ m.pptr = kern.pptr /\ m.runout = kern.runout /\ m.panic = kern.panic
  BY <1>3 DEF Same
<1>5. Core(m, NONE)
  BY <1>1, <1>3, <1>4, NoneApart DEF Core, QueuedOK, ChainOK
<1>6. Own(p, kern, m)
  BY <1>3, <1>4 DEF Own, Lull, Weighty, Pending
<1>7. Alert(m)
  BY <1>2, <1>4 DEF Alert, Watching
<1>8. /\ Core(kern', NONE) /\ Same(m, kern', {"stat", "wchan", "runq", "runout"})
      /\ \A q \in Procs : /\ Woken(m, kern', q)
                          /\ m.wchan[q] # "runout" => kern'.stat[q] = m.stat[q]
      /\ ~Watching(kern')
  BY <1>5, <1>7, RousedIs DEF m
<1>9. \A q \in Procs : ~Fresh(m, kern', q)
  <2> SUFFICES ASSUME NEW q \in Procs, Fresh(m, kern', q) PROVE FALSE
    OBVIOUS
  <2>1. q = SCHED
    BY <1>2, <1>4, <1>8 DEF Fresh, Procs
  <2> QED BY <1>5, <2>1 DEF Fresh, Core
<1>10. Calm(m, kern') /\ Heeds(m, kern')
  <2>1. kern' \in Kern /\ (m.wantin => kern'.wantin)
    BY <1>8 DEF Core, Same
  <2>2. Same(m, kern', {"stat", "wchan", "runq", "runout", "wantin"})
    BY <1>8 DEF Same
  <2>3. Gentle(m, kern')
    BY <1>3, <1>8, <1>9, <2>1, <2>2, WokenGentle
  <2> QED BY <1>8, <2>3 DEF Gentle, Heeds, Alert
<1>11. kern'.stat[p] = "SRUN" /\ kern'.wchan[p] = NONE
  <2>1. Woken(m, kern', p) /\ (m.wchan[p] # "runout" => kern'.stat[p] = m.stat[p])
    BY <1>1, <1>8
  <2>2. m.wchan[p] = NONE /\ m.stat[p] = "SRUN" /\ NONE # "runout"
    BY <1>1, <1>4, NoneApart
  <2> QED BY <2>1, <2>2 DEF Woken
<1>12. Place(p)' /\ Lull(kern', p) /\ kern'.wchan[p] \notin ready
  <2>1. pc'[p] \notin {"exit", "dead"} /\ pc'[p] # "sleep"
    BY <1>1, <1>2 DEF TypeOK
  <2> QED BY <1>1, <1>11, <2>1, NoneApart DEF Place, Lull
<1>13. /\ pc' \in [Procs -> UserPc \cup SchedPc] /\ \A q \in Procs \ {p} : pc'[q] = pc[q]
       /\ back' \in [Users -> {"call", "wait"}] /\ ready' \in SUBSET ready /\ UNCHANGED SchedVars
       /\ pc'[p] \in UserPc /\ cur' \in {p, NONE} /\ p \in Users \cup {NONE} /\ cur' # p
       /\ pc'[p] # "dead"
  BY <1>1, <1>2 DEF TypeOK
<1>14. Core(kern', cur')
  BY <1>8
<1> QED BY <1>2, <1>3, <1>6, <1>8, <1>10, <1>12, <1>13, <1>14, TurnInv

LEMMA KilledRunning ==
  ASSUME NEW p \in Users, NEW k \in Kern, ~k.panic, k.stat[p] = "SRUN"
  PROVE  LET l == Swkill(k, p) IN Only(p, k, l) /\ l.stat = k.stat /\ l.wchan = k.wchan
<1> DEFINE l == Swkill(k, p)
<1>1. CASE "KILL" \notin Signals
  BY <1>1 DEF Swkill, Only
<1>2. CASE "KILL" \in Signals
  <2>1. "KILL" \notin Ignored[p] \cup Held[p] /\ "KILL" \notin Stops
    BY ProcSwitchAssumption DEF Stops
  <2>2. l = Post(k, p, "KILL")
    BY <1>2, <2>1 DEF Swkill, Psignal, PsignalPlain
  <2> HIDE DEF l
  <2>3. /\ l \in Kern /\ Same(k, l, {"sig"})
        /\ \A q \in Users : l.sig[q] =
             IF q = p THEN (k.sig[p] \ Cancels("KILL")) \cup {"KILL"} ELSE k.sig[q]
    BY <1>2, <2>2, PostIs
  <2>4. /\ Same(k, l, {"stat", "wchan", "sig", "cursig", "intr", "wted"})
        /\ l.stat = k.stat /\ l.wchan = k.wchan /\ l.intr = k.intr /\ p \in Procs
    BY <2>3, NoneApart DEF Same
  <2>5. \A q \in Users \ {p} : l.sig[q] = k.sig[q]
    BY <2>3
  <2>6. Only(p, k, l)
    BY <2>3, <2>4, <2>5, OnlyIf
  <2> QED BY <2>4, <2>6 DEF l
<1> QED BY <1>1, <1>2

LEMMA PtexpandStep == ASSUME Inv, NEW p \in Users, Ptexpand(p) PROVE Inv' /\ Starts
<1>1. Runs(p) /\ UNCHANGED <<ready, SchedVars>> /\ cur' = NONE /\ pc[p] = "call"
  BY DEF Ptexpand, At, Running, Runs, Swtch
<1>2. CASE kern' = Roused([kern EXCEPT !.load = @ \ {p}]) /\ UNCHANGED <<pc, back>>
  BY <1>1, <1>2, ExpandsTurn
<1>3. CASE /\ kern' = Stat(OnChain(Swkill(kern, p), p, "lbolt", FALSE), {p}, "SSLEEP")
           /\ Sleeping(p, "call")
  <2>1. PICK ch : ch = "lbolt"
    OBVIOUS
  <2> DEFINE k == Swkill(kern, p)
             l == QuietChain(k, p, ch)
  <2>2. /\ p \in Users /\ p \in Procs /\ TypeOK /\ kern \in Kern /\ ~kern.panic
        /\ kern.stat[p] = "SRUN" /\ p \notin kern.runq
    BY <1>1, RunsFacts
  <2>3. Only(p, kern, k) /\ k.stat = kern.stat /\ k.wchan = kern.wchan
    BY <2>2, KilledRunning
  <2>4. k \in Kern /\ ~k.panic /\ k.stat[p] = "SRUN" /\ p \notin k.runq
    BY <2>2, <2>3 DEF Only
  <2> HIDE DEF k
  <2>5. ch \in Chans /\ ch \notin Users \cup Events \cup {NONE, "runout"}
    BY <2>1, ChansAssumption DEF Chans, Apart
  <2>6. kern' = Stat(l, {p}, "SSLEEP")
    BY <1>3, <2>1 DEF k, QuietChain
  <2>7. Only(p, k, l) /\ l.wchan[p] = ch /\ p \notin l.intr /\ l \in Kern /\ ~l.panic
    <3>1. Only(p, k, l) /\ l.wchan[p] = ch /\ p \notin l.intr
      BY <2>2, <2>4, <2>5, QuietChainIs
    <3> QED BY <3>1 DEF Only
  <2> HIDE DEF l
  <2>8. Only(p, l, kern') /\ kern'.stat[p] = "SSLEEP" /\ kern'.wchan = l.wchan /\ kern'.intr = l.intr
    BY <2>2, <2>6, <2>7, StatOnly DEF Alive
  <2>9. Only(p, kern, kern')
    BY <2>3, <2>7, <2>8, OnlyTrans
  <2>10. Lull(kern', p)
    BY <2>7, <2>8 DEF Lull
  <2>11. /\ pc' = [pc EXCEPT ![p] = "swtch"] /\ back' \in [Users -> {"call", "wait"}]
         /\ ready' = ready /\ UNCHANGED SchedVars
    BY <1>1, <1>3, <2>2 DEF Sleeping, TypeOK
  <2>12. /\ kern'.wchan[p] = ch /\ ch \notin ready \cup {NONE, "runout"}
         /\ ch = p => Zombies(p) = {}
    BY <2>2, <2>5, <2>7, <2>8 DEF TypeOK
  <2> QED BY <1>1, <2>8, <2>9, <2>10, <2>11, <2>12, GoToSleep
<1> QED BY <1>2, <1>3 DEF Ptexpand

-----------------------------------------------------------------------------
(* sched.                                                                  *)

LEMMA SchedFacts ==
  ASSUME Inv, NEW at, SchedAt(at)
  PROVE  /\ TypeOK /\ Core(kern, SCHED) /\ kern \in Kern /\ ~kern.panic /\ cur = SCHED
         /\ kern.stat[SCHED] = "SRUN" /\ kern.wchan[SCHED] = NONE /\ pc[SCHED] = at
         /\ SCHED \in Procs /\ SCHED \notin Users /\ NONE \notin ready /\ ~Watching(kern)
         /\ pc \in [Procs -> UserPc \cup SchedPc]
         /\ \A q \in Users : q \in Procs /\ Lull(kern, q)
<1>1. TypeOK /\ Core(kern, SCHED) /\ cur = SCHED /\ pc[SCHED] = at /\ \A q \in Users : Lull(kern, q)
  BY DEF Inv, SchedAt, At, Running
<1>2. SCHED \in Procs /\ SCHED \notin Users /\ SCHED # NONE /\ \A q \in Users : q \in Procs
  BY NoneApart
<1>3. kern \in Kern /\ ~kern.panic /\ kern.stat[SCHED] = "SRUN"
  BY <1>1, <1>2 DEF Core
<1>4. kern.wchan[SCHED] = NONE
  BY <1>1, <1>2, <1>3 DEF Core, ChainOK
<1>5. NONE \notin ready /\ pc \in [Procs -> UserPc \cup SchedPc]
  BY <1>1, NoneApart DEF TypeOK, Chans
<1> QED BY <1>1, <1>2, <1>3, <1>4, <1>5 DEF Watching

(* What a step of sched leaves alone: what the users do and wait for.      *)
Spares(k, l) ==
  /\ l.pptr = k.pptr
  /\ \A q \in Users : l.stat[q] = k.stat[q] /\ l.wchan[q] = k.wchan[q] /\ Lull(l, q)

LEMMA SparesIf ==
  ASSUME Inv, NEW F, F \in SUBSET {"runq", "load", "runout", "wantin", "runin", "panic"},
         NEW k, Same(kern, k, F)
  PROVE  /\ Spares(kern, k)
         /\ k.stat = kern.stat /\ k.wchan = kern.wchan
<1>1. /\ k.stat = kern.stat /\ k.wchan = kern.wchan /\ k.sig = kern.sig /\ k.intr = kern.intr
      /\ k.pptr = kern.pptr
  BY DEF Same
<1>2. \A q \in Users : Lull(k, q)
  BY <1>1 DEF Inv, Lull, Weighty, Pending
<1> QED BY <1>1, <1>2 DEF Spares

LEMMA SpareTurn ==
  ASSUME Inv, NEW at, SchedAt(at), Spares(kern, kern'), cur' \in {SCHED, NONE},
         Core(kern', cur'), Alert(kern'), kern'.wchan[SCHED] \notin ready,
         NEW to \in SchedPc, pc' = [pc EXCEPT ![SCHED] = to], UNCHANGED <<back, ready>>,
         inp' \in Users \cup {NONE}, todo' \in SUBSET Users, skipped' \in SUBSET Users,
         Chosen'
  PROVE  Inv' /\ Starts
<1>1. /\ cur = SCHED /\ pc \in [Procs -> UserPc \cup SchedPc] /\ SCHED \in Procs
      /\ SCHED \notin Users
  BY SchedFacts
<1>2. /\ pc' \in [Procs -> UserPc \cup SchedPc] /\ \A q \in Users : pc'[q] = pc[q]
      /\ pc'[SCHED] \in SchedPc
  BY <1>1, NoneApart
<1>3. /\ kern'.pptr = kern.pptr
      /\ \A q \in Users : /\ Moves(kern, kern', q) /\ Lull(kern', q)
                          /\ kern'.wchan[q] \in {kern.wchan[q], NONE}
  BY DEF Spares, Moves
<1>4. Inv'
  BY <1>1, <1>2, <1>3, SchedInv
<1>5. Starts
  BY DEF Starts, Spares
<1> QED BY <1>4, <1>5

LEMMA SchedSleepTurn ==
  ASSUME Inv, NEW a, SchedAt(a), NEW k, Core(k, SCHED), Spares(kern, k), k.stat[SCHED] = "SRUN",
         NEW ch, ch \in Chans, ch \notin ready,
         NEW at \in {"loop", "swapin"}, SchedSleep(k, ch, at),
         ch = "runout" => /\ k.runout
                          /\ \A q \in Users \ skipped : ~(k.stat[q] = "SRUN" /\ q \notin k.load),
         at = "swapin" => inp' # NONE /\ inp' \notin k.load,
         inp' \in Users \cup {NONE}, UNCHANGED <<back, ready, todo, skipped>>
  PROVE  Inv' /\ Starts
<1>1. /\ TypeOK /\ SCHED \in Procs /\ SCHED \notin Users /\ pc \in [Procs -> UserPc \cup SchedPc]
      /\ cur = SCHED
  BY SchedFacts
<1>2. k \in Kern /\ ~k.panic /\ SCHED \notin k.runq
  BY <1>1 DEF Core, QueuedOK
<1> DEFINE l == QuietChain(k, SCHED, ch)
<1>3. Only(SCHED, k, l) /\ l.wchan[SCHED] = ch
  BY <1>1, <1>2, QuietChainIs
<1>4. kern' = Stat(l, {SCHED}, "SSLEEP") /\ cur' = NONE /\ pc' = [pc EXCEPT ![SCHED] = at]
  BY DEF SchedSleep, QuietChain, Swtch, Goto
<1>5. l \in Kern /\ ~l.panic
  BY <1>3 DEF Only
<1> HIDE DEF l
<1>6. Only(SCHED, l, kern') /\ kern'.stat[SCHED] = "SSLEEP" /\ kern'.wchan = l.wchan
  BY <1>1, <1>4, <1>5, StatOnly DEF Alive
<1>7. Only(SCHED, k, kern') /\ kern'.wchan[SCHED] = ch
  BY <1>3, <1>6, OnlyTrans
<1>8. Core(kern', NONE) /\ NONE \in {SCHED, NONE}
  <2>1. ch # NONE /\ NONE \in {SCHED, NONE} /\ SCHED # NONE
    BY NoneApart
  <2> QED BY <1>1, <1>6, <1>7, <2>1, OnlyCore
<1>9. Spares(kern, kern')
  <2>1. Own(SCHED, k, kern')
    BY <1>7, OnlyOwn
  <2>2. \A q \in Users : Lull(kern', q)
    BY <1>1, <2>1 DEF Own, Spares
  <2>3. \A q \in Users : q \in Procs \ {SCHED}
    BY <1>1, NoneApart
  <2>4. kern'.pptr = k.pptr /\ \A q \in Procs \ {SCHED} : kern'.stat[q] = k.stat[q] /\ kern'.wchan[q] = k.wchan[q]
    BY <1>7 DEF Only
  <2> QED BY <2>2, <2>3, <2>4 DEF Spares
<1>10. kern'.load = k.load /\ kern'.runout = k.runout /\ \A q \in Users : kern'.stat[q] = k.stat[q]
  BY <1>7, <1>9 DEF Only, Spares
<1>11. Alert(kern')
  BY <1>7, <1>10 DEF Alert, Watching
<1>12. at \in SchedPc /\ pc'[SCHED] = at
  BY <1>1, <1>4 DEF SchedPc
<1>13. Watching(kern') => \A q \in Users \ skipped' : ~(kern'.stat[q] = "SRUN" /\ q \notin kern'.load)
  BY <1>7, <1>10 DEF Watching
<1>14. Chosen'
  BY <1>10, <1>12, <1>13 DEF Chosen, Wants
<1>15. todo' \in SUBSET Users /\ skipped' \in SUBSET Users /\ UNCHANGED <<back, ready>>
       /\ kern'.wchan[SCHED] \notin ready /\ cur' \in {SCHED, NONE} /\ Core(kern', cur')
  BY <1>1, <1>4, <1>7, <1>8 DEF TypeOK
<1> QED BY <1>4, <1>9, <1>11, <1>12, <1>14, <1>15, SpareTurn

LEMMA SchedLoopStep == ASSUME Inv, SchedLoop PROVE Inv' /\ Starts
<1>1. /\ SchedAt("loop") /\ kern' = [kern EXCEPT !.wantin = FALSE] /\ cur' = cur
      /\ inp' = NONE /\ skipped' = {} /\ UNCHANGED <<back, ready>>
  BY DEF SchedLoop, Keep
<1>2. /\ TypeOK /\ Core(kern, SCHED) /\ kern \in Kern /\ cur = SCHED /\ SCHED \in Procs
      /\ kern.wchan[SCHED] = NONE /\ NONE \notin ready /\ pc \in [Procs -> UserPc \cup SchedPc]
      /\ kern.stat[SCHED] = "SRUN"
  BY <1>1, SchedFacts
<1>3. kern' \in Kern /\ Same(kern, kern', {"wantin"})
  BY <1>1, <1>2 DEF Kern, Same
<1>4. Spares(kern, kern') /\ kern'.stat = kern.stat /\ kern'.wchan = kern.wchan
  <2>1. PICK F : F = {"wantin"}
    OBVIOUS
  <2> QED BY <1>3, <2>1, SparesIf
<1>5. Core(kern', cur') /\ cur' = SCHED
  BY <1>1, <1>2, <1>3 DEF Core, QueuedOK, ChainOK, Same
<1>6. Alert(kern') /\ ~Watching(kern') /\ kern'.wchan[SCHED] \notin ready
  BY <1>2, <1>4 DEF Alert, Watching
<1>7. PICK to : /\ pc' = [pc EXCEPT ![SCHED] = to] /\ to \in {"hardswap", "look"}
                /\ to = "look" => todo' = Users
                /\ todo' \in SUBSET Users
  <2>1. CASE todo' = {} /\ Goto(SCHED, "hardswap")
    BY <2>1 DEF Goto
  <2>2. CASE todo' = Users /\ Goto(SCHED, "look")
    BY <2>2 DEF Goto
  <2> QED BY <2>1, <2>2 DEF SchedLoop
<1>8. pc'[SCHED] = to /\ to \in SchedPc
  BY <1>2, <1>7 DEF SchedPc
<1>9. Chosen'
  BY <1>1, <1>5, <1>6, <1>7, <1>8 DEF Chosen
<1>10. inp' \in Users \cup {NONE} /\ skipped' \in SUBSET Users /\ cur' \in {SCHED, NONE}
  BY <1>1, <1>5
<1> QED BY <1>1, <1>4, <1>5, <1>6, <1>7, <1>8, <1>9, <1>10, SpareTurn

LEMMA SchedLookStep == ASSUME Inv, NEW p \in Users, SchedLook(p) PROVE Inv' /\ Starts
<1>1. /\ SchedAt("look") /\ p \in todo /\ UNCHANGED <<kern, cur, back, ready>>
  BY DEF SchedLook
<1>2. /\ TypeOK /\ Core(kern, SCHED) /\ kern \in Kern /\ cur = SCHED /\ SCHED \in Procs
      /\ kern.wchan[SCHED] = NONE /\ NONE \notin ready /\ pc \in [Procs -> UserPc \cup SchedPc]
      /\ pc[SCHED] = "look" /\ ~Watching(kern)
  BY <1>1, SchedFacts
<1>3. Spares(kern, kern')
  <2>1. \A q \in Users : Lull(kern, q)
    BY DEF Inv
  <2> QED BY <1>1, <2>1 DEF Spares
<1>4. Alert(kern') /\ ~Watching(kern') /\ Core(kern', cur') /\ kern'.wchan[SCHED] \notin ready
  BY <1>1, <1>2 DEF Alert
<1>5. PICK to \in {"look", "outswap"} :
        /\ pc' = [pc EXCEPT ![SCHED] = to] /\ inp' \in Users \cup {NONE}
        /\ todo' \in SUBSET Users /\ skipped' \in SUBSET Users
        /\ to = "outswap" => inp' \in Users \cap kern.load /\ kern.stat[inp'] \in Alive
        /\ to = "look" => /\ inp' # NONE => inp' \notin kern.load
                          /\ inp' = NONE /\ ~kern.wantin
                               => \A q \in Users \ (todo' \cup skipped') : ~Wants(q)
  <2>1. /\ inp # NONE => inp \notin kern.load
        /\ inp = NONE /\ ~kern.wantin => \A q \in Users \ (todo \cup skipped) : ~Wants(q)
    BY <1>2 DEF Inv, Chosen
  <2>2. todo \in SUBSET Users /\ skipped \in SUBSET Users /\ inp \in Users \cup {NONE}
        /\ pc = [pc EXCEPT ![SCHED] = "look"] /\ p # NONE
    BY <1>2, NoneApart DEF TypeOK
  <2>3. CASE Wants(p) /\ inp' = p /\ todo' = todo \ {p} /\ UNCHANGED <<pc, skipped>>
    <3>1. inp' # NONE /\ inp' \notin kern.load
      BY <2>2, <2>3 DEF Wants
    <3> QED BY <2>2, <2>3, <3>1
  <2>4. CASE (Wants(p) => inp # NONE) /\ todo' = todo \ {p} /\ UNCHANGED <<pc, inp, skipped>>
    BY <2>1, <2>2, <2>4
  <2>5. CASE skipped' = skipped \cup {p} /\ todo' = todo \ {p} /\ UNCHANGED <<pc, inp>>
    BY <2>1, <2>2, <2>5
  <2>6. CASE /\ p \in kern.load /\ kern.stat[p] \in {"SSLEEP", "SSTOP"}
             /\ inp' = p /\ todo' = {} /\ Goto(SCHED, "outswap") /\ UNCHANGED skipped
    <3>1. inp' \in Users \cap kern.load /\ kern.stat[inp'] \in Alive
      BY <2>6 DEF Alive
    <3> QED BY <2>2, <2>6, <3>1 DEF Goto
  <2> QED BY <2>3, <2>4, <2>5, <2>6 DEF SchedLook
<1>6. pc'[SCHED] = to /\ to \in SchedPc
  BY <1>2, <1>5 DEF SchedPc
<1>7. Chosen'
  BY <1>1, <1>2, <1>4, <1>5, <1>6 DEF Chosen, Wants
<1>8. cur' \in {SCHED, NONE} /\ UNCHANGED <<back, ready>>
  BY <1>1, <1>2
<1> QED BY <1>1, <1>3, <1>4, <1>5, <1>6, <1>7, <1>8, SpareTurn

LEMMA SchedIdleStep == ASSUME Inv, SchedIdle PROVE Inv' /\ Starts
<1>1. SchedAt("look") /\ todo = {} /\ inp = NONE /\ UNCHANGED <<back, ready, SchedVars>>
  BY DEF SchedIdle
<1>2. /\ TypeOK /\ Core(kern, SCHED) /\ kern \in Kern /\ kern.stat[SCHED] = "SRUN"
      /\ pc[SCHED] = "look"
  BY <1>1, SchedFacts
<1>3. ~kern.wantin => \A q \in Users \ skipped : ~(kern.stat[q] = "SRUN" /\ q \notin kern.load)
  BY <1>1, <1>2 DEF Inv, Chosen, Wants
<1>4. /\ inp' \in Users \cup {NONE} /\ UNCHANGED <<back, ready, todo, skipped>>
      /\ ready \in SUBSET Events
  BY <1>1, <1>2 DEF TypeOK, SchedVars
<1>5. PICK at : at = "loop"
  OBVIOUS
<1>6. CASE kern.wantin
  <2> DEFINE k == [kern EXCEPT !.wantin = FALSE]
  <2>1. k \in Kern /\ Same(kern, k, {"wantin"})
    BY <1>2 DEF Kern, Same
  <2>2. PICK ch : ch = "lbolt"
    OBVIOUS
  <2>3. SchedSleep(k, ch, at)
    BY <1>5, <1>6, <2>2 DEF SchedIdle
  <2> HIDE DEF k
  <2>4. PICK F : F = {"wantin"}
    OBVIOUS
  <2>5. Spares(kern, k) /\ k.stat = kern.stat
    BY <2>1, <2>4, SparesIf
  <2>6. Core(k, SCHED)
    BY <1>2, <2>1 DEF Core, QueuedOK, ChainOK, Same
  <2>7. ch \in Chans /\ ch \notin ready /\ ch # "runout"
    BY <1>4, <2>2, ChansAssumption DEF Chans, Apart
  <2>8. k.stat[SCHED] = "SRUN" /\ at \in {"loop", "swapin"} /\ at # "swapin"
    BY <1>2, <1>5, <2>5
  <2> QED BY <1>1, <1>4, <2>3, <2>5, <2>6, <2>7, <2>8, SchedSleepTurn
<1>7. CASE ~kern.wantin
  <2> DEFINE k == [kern EXCEPT !.runout = TRUE]
  <2>1. k \in Kern /\ Same(kern, k, {"runout"}) /\ k.runout
    BY <1>2 DEF Kern, Same
  <2>2. PICK ch : ch = "runout"
    OBVIOUS
  <2>3. SchedSleep(k, ch, at)
    BY <1>5, <1>7, <2>2 DEF SchedIdle
  <2> HIDE DEF k
  <2>4. PICK F : F = {"runout"}
    OBVIOUS
  <2>5. Spares(kern, k) /\ k.stat = kern.stat /\ k.load = kern.load
    <3>1. k.load = kern.load
      BY <2>1 DEF Same
    <3> QED BY <2>1, <2>4, <3>1, SparesIf
  <2>6. Core(k, SCHED)
    BY <1>2, <2>1 DEF Core, QueuedOK, ChainOK, Same
  <2>7. ch \in Chans /\ ch \notin ready
    BY <1>4, <2>2, ChansAssumption DEF Chans, Apart
  <2>8. k.stat[SCHED] = "SRUN" /\ at \in {"loop", "swapin"} /\ at # "swapin"
    BY <1>2, <1>5, <2>5
  <2>9. \A q \in Users \ skipped : ~(k.stat[q] = "SRUN" /\ q \notin k.load)
    BY <1>3, <1>7, <2>5
  <2> QED BY <1>1, <1>4, <2>1, <2>3, <2>5, <2>6, <2>7, <2>8, <2>9, SchedSleepTurn
<1> QED BY <1>6, <1>7

LEMMA SparesSelf == ASSUME Inv PROVE Spares(kern, kern)
BY DEF Inv, Spares

LEMMA SwapinStep == ASSUME Inv, Swapin PROVE Inv' /\ Starts
<1>1. SchedAt("look") /\ inp # NONE /\ UNCHANGED <<back, ready, SchedVars>>
  BY DEF Swapin
<1>2. /\ TypeOK /\ Core(kern, SCHED) /\ kern.stat[SCHED] = "SRUN" /\ pc[SCHED] = "look"
      /\ cur = SCHED /\ kern.wchan[SCHED] = NONE /\ NONE \notin ready /\ ~Watching(kern)
      /\ SCHED \in Procs /\ pc \in [Procs -> UserPc \cup SchedPc]
  BY <1>1, SchedFacts
<1>3. inp \notin kern.load
  BY <1>1, <1>2 DEF Inv, Chosen
<1>4. /\ inp' \in Users \cup {NONE} /\ UNCHANGED <<back, ready, todo, skipped>> /\ inp' = inp
      /\ ready \in SUBSET Events /\ todo' \in SUBSET Users /\ skipped' \in SUBSET Users
  BY <1>1, <1>2 DEF TypeOK, SchedVars
<1>5. Spares(kern, kern)
  BY SparesSelf
<1>6. CASE SchedSleep(kern, "swapio", "swapin")
  <2>1. PICK ch, at : ch = "swapio" /\ at = "swapin"
    OBVIOUS
  <2>2. SchedSleep(kern, ch, at)
    BY <1>6, <2>1
  <2>3. ch \in Chans /\ ch \notin ready /\ ch # "runout" /\ at \in {"loop", "swapin"}
    BY <1>4, <2>1, ChansAssumption DEF Chans, Apart
  <2>4. inp' # NONE /\ inp' \notin kern.load
    BY <1>1, <1>3, <1>4
  <2> QED BY <1>1, <1>2, <1>4, <1>5, <2>2, <2>3, <2>4, SchedSleepTurn
<1>7. CASE Goto(SCHED, "hardswap") /\ UNCHANGED <<kern, cur>>
  <2>1. PICK to : to = "hardswap"
    OBVIOUS
  <2>2. pc' = [pc EXCEPT ![SCHED] = to] /\ pc'[SCHED] = to /\ to \in SchedPc
    BY <1>2, <1>7, <2>1 DEF Goto, SchedPc
  <2>3. /\ Alert(kern') /\ Core(kern', cur') /\ cur' = SCHED /\ kern'.wchan[SCHED] \notin ready
        /\ Spares(kern, kern') /\ cur' \in {SCHED, NONE}
    BY <1>2, <1>5, <1>7 DEF Alert
  <2>4. Chosen'
    BY <1>1, <1>2, <1>3, <1>4, <1>7, <2>1, <2>2, <2>3 DEF Chosen
  <2> QED BY <1>1, <1>4, <2>2, <2>3, <2>4, SpareTurn
<1> QED BY <1>6, <1>7 DEF Swapin

LEMMA HardswapStep == ASSUME Inv, Hardswap PROVE Inv' /\ Starts
<1>1. SchedAt("hardswap") /\ UNCHANGED <<back, ready, todo, skipped>>
  BY DEF Hardswap
<1>2. /\ TypeOK /\ Core(kern, SCHED) /\ kern \in Kern /\ kern.stat[SCHED] = "SRUN"
      /\ cur = SCHED /\ kern.wchan[SCHED] = NONE /\ NONE \notin ready /\ ~Watching(kern)
      /\ SCHED \in Procs /\ pc \in [Procs -> UserPc \cup SchedPc]
  BY <1>1, SchedFacts
<1>3. ready \in SUBSET Events /\ todo' \in SUBSET Users /\ skipped' \in SUBSET Users
  BY <1>1, <1>2 DEF TypeOK
<1>4. CASE \E p \in (Users \cap kern.load) \ {inp} :
             /\ kern.stat[p] \in {"SRUN", "SSLEEP", "SSTOP"}
             /\ inp' = p /\ Goto(SCHED, "outswap") /\ UNCHANGED <<kern, cur>>
  <2>1. PICK p \in (Users \cap kern.load) \ {inp} :
          /\ kern.stat[p] \in {"SRUN", "SSLEEP", "SSTOP"}
          /\ inp' = p /\ Goto(SCHED, "outswap") /\ UNCHANGED <<kern, cur>>
    BY <1>4
  <2>2. PICK to : to = "outswap"
    OBVIOUS
  <2>3. pc' = [pc EXCEPT ![SCHED] = to] /\ pc'[SCHED] = to /\ to \in SchedPc
    BY <1>2, <2>1, <2>2 DEF Goto, SchedPc
  <2>4. /\ Alert(kern') /\ Core(kern', cur') /\ cur' = SCHED /\ kern'.wchan[SCHED] \notin ready
        /\ Spares(kern, kern') /\ cur' \in {SCHED, NONE} /\ ~Watching(kern')
    BY <1>2, <2>1, SparesSelf DEF Alert
  <2>5. inp' \in Users \cap kern'.load /\ kern'.stat[inp'] \in Alive
    BY <2>1 DEF Alive
  <2>6. Chosen'
    BY <2>2, <2>3, <2>4, <2>5 DEF Chosen
  <2> QED BY <1>1, <1>3, <2>3, <2>4, <2>5, <2>6, SpareTurn
<1>5. CASE SchedSleep([kern EXCEPT !.runin = TRUE], "runin", "loop") /\ inp' = NONE
  <2> DEFINE k == [kern EXCEPT !.runin = TRUE]
  <2>1. k \in Kern /\ Same(kern, k, {"runin"})
    BY <1>2 DEF Kern, Same
  <2>2. PICK ch, at : ch = "runin" /\ at = "loop"
    OBVIOUS
  <2>3. SchedSleep(k, ch, at)
    BY <1>5, <2>2
  <2> HIDE DEF k
  <2>4. PICK F : F = {"runin"}
    OBVIOUS
  <2>5. Spares(kern, k) /\ k.stat = kern.stat
    BY <2>1, <2>4, SparesIf
  <2>6. Core(k, SCHED)
    BY <1>2, <2>1 DEF Core, QueuedOK, ChainOK, Same
  <2>7. ch \in Chans /\ ch \notin ready /\ ch # "runout"
    BY <1>3, <2>2, ChansAssumption DEF Chans, Apart
  <2>8. k.stat[SCHED] = "SRUN" /\ at \in {"loop", "swapin"} /\ at # "swapin"
        /\ inp' \in Users \cup {NONE}
    BY <1>2, <1>5, <2>2, <2>5
  <2> QED BY <1>1, <2>3, <2>5, <2>6, <2>7, <2>8, SchedSleepTurn
<1> QED BY <1>4, <1>5 DEF Hardswap

-----------------------------------------------------------------------------
(* Into core and out of it.                                                *)

LEMMA LoadedIs ==
  ASSUME NEW k, NEW c, Core(k, c), NEW p \in Users, p \notin k.load, p # c,
         NEW h, h = IF k.stat[p] = "SRUN" THEN Setrq(k, {p}) ELSE k,
         NEW l, l = [h EXCEPT !.load = @ \cup {p}]
  PROVE  Core(l, c) /\ Same(k, l, {"runq", "load", "panic"})
<1>1. /\ k \in Kern /\ ~k.panic /\ QueuedOK(k, c) /\ ChainOK(k) /\ SCHED \in k.load
      /\ p \in Procs /\ p \notin k.runq /\ {p} \in SUBSET Procs
  BY NoneApart DEF Core, QueuedOK
<1>2. /\ h \in Kern /\ Same(k, h, {"runq", "panic"}) /\ ~h.panic
      /\ h.runq = IF k.stat[p] = "SRUN" THEN k.runq \cup {p} ELSE k.runq
  <2>1. CASE k.stat[p] = "SRUN"
    <3>1. h = Setrq(k, {p})
      BY <2>1
    <3>2. /\ h \in Kern /\ Same(k, h, {"runq", "panic"}) /\ h.runq = k.runq \cup {p}
          /\ (h.panic <=> k.panic \/ {p} \cap k.runq # {})
      BY <1>1, <3>1, SetrqIs
    <3> QED BY <1>1, <2>1, <3>2
  <2>2. CASE k.stat[p] # "SRUN"
    BY <1>1, <2>2 DEF Same
  <2> QED BY <2>1, <2>2
<1>3. l \in Kern /\ Same(h, l, {"load"}) /\ l.load = h.load \cup {p}
  <2>1. h \in Kern /\ h.load \cup {p} \in SUBSET Procs
    BY <1>1, <1>2 DEF Kern
  <2> QED BY <2>1, ZenonT(60) DEF Kern, Same
<1>4. Same(k, l, {"runq", "load", "panic"}) /\ ~l.panic
  BY <1>2, <1>3 DEF Same
<1>5. l.runq = h.runq /\ l.load = k.load \cup {p} /\ l.stat = k.stat /\ l.wchan = k.wchan
  BY <1>2, <1>3 DEF Same
<1>6. QueuedOK(l, c)
  BY <1>1, <1>2, <1>5 DEF QueuedOK
<1> QED BY <1>1, <1>3, <1>4, <1>5, <1>6 DEF Core, ChainOK

LEMMA UnloadIs ==
  ASSUME NEW k, Core(k, SCHED), NEW p \in Users \cap k.load
  PROVE  LET l == Unload(k, p) IN
         Core(l, SCHED) /\ Same(k, l, {"runq", "load", "panic"}) /\ l.load = k.load \ {p}
<1> DEFINE j == [k EXCEPT !.load = @ \ {p}]
           l == Unload(k, p)
<1>1. /\ k \in Kern /\ ~k.panic /\ QueuedOK(k, SCHED) /\ ChainOK(k) /\ SCHED \in k.load
      /\ p \in Procs /\ p # SCHED
  BY NoneApart DEF Core
<1>2. j \in Kern /\ Same(k, j, {"load"}) /\ j.load = k.load \ {p}
  BY <1>1 DEF Kern, Same
<1>3. l = IF k.stat[p] = "SRUN" THEN Remrq(j, p) ELSE j
  BY DEF Unload
<1> HIDE DEF j, l
<1>4. /\ l \in Kern /\ Same(j, l, {"runq", "panic"}) /\ ~l.panic
      /\ l.runq = IF k.stat[p] = "SRUN" THEN k.runq \ {p} ELSE k.runq
  <2>1. CASE k.stat[p] = "SRUN"
    <3>1. /\ l \in Kern /\ Same(j, l, {"runq", "panic"}) /\ l.runq = j.runq \ {p}
          /\ (l.panic <=> j.panic \/ p \notin j.runq)
      BY <1>2, <1>3, <2>1, RemrqIs
    <3>2. p \in k.runq
      BY <1>1, <2>1 DEF QueuedOK
    <3> QED BY <1>1, <1>2, <2>1, <3>1, <3>2 DEF Same
  <2>2. CASE k.stat[p] # "SRUN"
    BY <1>1, <1>2, <1>3, <2>2 DEF Same
  <2> QED BY <2>1, <2>2
<1>5. /\ Same(k, l, {"runq", "load", "panic"}) /\ l.load = k.load \ {p} /\ l.stat = k.stat
      /\ l.wchan = k.wchan
  BY <1>2, <1>4 DEF Same
<1>6. QueuedOK(l, SCHED)
  BY <1>1, <1>4, <1>5 DEF QueuedOK
<1>7. Core(l, SCHED)
  BY <1>1, <1>4, <1>5, <1>6 DEF Core, ChainOK
<1> QED BY <1>5, <1>7 DEF l

LEMMA SwapinDoneStep == ASSUME Inv, SwapinDone PROVE Inv' /\ Starts
<1> DEFINE h == IF kern.stat[inp] = "SRUN" THEN Setrq(kern, {inp}) ELSE kern
<1>1. /\ SchedAt("swapin") /\ kern' = [h EXCEPT !.load = @ \cup {inp}]
      /\ inp' = NONE /\ cur' = cur /\ Goto(SCHED, "loop")
      /\ UNCHANGED <<back, ready, todo, skipped>>
  BY DEF SwapinDone, Keep
<1>2. /\ TypeOK /\ Core(kern, SCHED) /\ cur = SCHED /\ kern.wchan[SCHED] = NONE
      /\ NONE \notin ready /\ ~Watching(kern) /\ SCHED \in Procs /\ SCHED \notin Users
      /\ pc \in [Procs -> UserPc \cup SchedPc] /\ pc[SCHED] = "swapin"
  BY <1>1, SchedFacts
<1>3. inp \in Users /\ inp \notin kern.load /\ inp # SCHED
  BY <1>2 DEF Inv, Chosen, TypeOK
<1> HIDE DEF h
<1>4. Core(kern', SCHED) /\ Same(kern, kern', {"runq", "load", "panic"})
  BY <1>1, <1>2, <1>3, LoadedIs DEF h
<1>5. Spares(kern, kern') /\ kern'.stat = kern.stat /\ kern'.wchan = kern.wchan
  <2>1. PICK F : F = {"runq", "load", "panic"}
    OBVIOUS
  <2> QED BY <1>4, <2>1, SparesIf
<1>6. /\ Alert(kern') /\ ~Watching(kern') /\ kern'.wchan[SCHED] \notin ready
      /\ Core(kern', cur') /\ cur' \in {SCHED, NONE}
  BY <1>1, <1>2, <1>4, <1>5 DEF Alert, Watching
<1>7. PICK to : to = "loop"
  OBVIOUS
<1>8. pc' = [pc EXCEPT ![SCHED] = to] /\ pc'[SCHED] = to /\ to \in SchedPc
  BY <1>1, <1>2, <1>7 DEF Goto, SchedPc
<1>9. Chosen'
  BY <1>6, <1>7, <1>8 DEF Chosen
<1>10. inp' \in Users \cup {NONE} /\ todo' \in SUBSET Users /\ skipped' \in SUBSET Users
       /\ UNCHANGED <<back, ready>>
  BY <1>1, <1>2 DEF TypeOK
<1> QED BY <1>1, <1>5, <1>6, <1>8, <1>9, <1>10, SpareTurn

(* The swapout that fails.                                                 *)
LEMMA KilledTurn ==
  ASSUME Inv, SchedAt("outswap"), NEW p \in Users \cap kern.load,
         kern' = Reload(Swkill(Unload(kern, p), p), p), cur' = cur, Goto(SCHED, "loop"),
         inp' = NONE, UNCHANGED <<back, ready, todo, skipped>>
  PROVE  Inv' /\ Starts
<1>1. /\ TypeOK /\ Core(kern, SCHED) /\ cur = SCHED /\ kern.wchan[SCHED] = NONE
      /\ NONE \notin ready /\ ~Watching(kern) /\ SCHED \in Procs /\ SCHED \notin Users
      /\ pc \in [Procs -> UserPc \cup SchedPc] /\ kern.stat[SCHED] = "SRUN"
  BY SchedFacts
<1> DEFINE k == Unload(kern, p)
           l == Swkill(k, p)
           h == IF l.stat[p] = "SRUN" THEN Setrq(l, {p}) ELSE l
<1>2. /\ Core(k, SCHED) /\ Same(kern, k, {"runq", "load", "panic"})
      /\ k.load = kern.load \ {p}
  BY <1>1, UnloadIs
<1> HIDE DEF k
<1>3. Core(l, SCHED) /\ Gentle(k, l) /\ Heeds(k, l)
  <2>1. PICK s : s = "KILL"
    OBVIOUS
  <2>2. l = IF s \in Signals THEN Psignal(k, p, s) ELSE k
    BY <2>1 DEF Swkill
  <2> QED BY <1>2, <2>1, <2>2, GentlePsignal
<1>4. kern' = Reload(l, p)
  BY DEF k
<1> HIDE DEF l
<1>5. kern' = [h EXCEPT !.load = @ \cup {p}]
  <2>1. l \in Kern
    BY <1>3 DEF Core
  <2>2. {p} \in SUBSET Procs
    BY NoneApart
  <2>3. CASE l.stat[p] = "SRUN"
    <3> DEFINE n == l.load \cup {p}
               r == l.runq \cup {p}
               b == l.panic \/ {p} \cap l.runq # {}
               j == [l EXCEPT !.load = n]
    <3>1. b \in BOOLEAN /\ j.runq = l.runq /\ j.panic = l.panic /\ j \in Kern
      BY <2>1, <2>2 DEF Kern
    <3>2. kern' = Setrq(j, {p}) /\ h = Setrq(l, {p})
      BY <1>4, <2>1, <2>3 DEF Reload
    <3>3. Setrq(j, {p}) = [j EXCEPT !.runq = r, !.panic = b]
      BY <2>1, <3>1 DEF Setrq, Kern
    <3>4. Setrq(l, {p}) = [l EXCEPT !.runq = r, !.panic = b]
      BY <2>1 DEF Setrq, Kern
    <3>5. l.load \cup {p} = n
      OBVIOUS
    <3>6. j = [l EXCEPT !.load = n]
      OBVIOUS
    <3> HIDE DEF b, n, r, j, h
    <3>7. h = [l EXCEPT !.runq = r, !.panic = b]
      BY <3>2, <3>4
    <3>8. kern' = [[l EXCEPT !.load = n] EXCEPT !.runq = r, !.panic = b]
      BY <3>2, <3>3, <3>6
    <3>9. kern' = [h EXCEPT !.load = n] /\ h.load = l.load
      BY <2>1, <3>7, <3>8 DEF Kern
    <3> QED BY <3>5, <3>9
  <2>4. CASE l.stat[p] # "SRUN"
    BY <1>4, <2>4 DEF Reload
  <2> QED BY <2>3, <2>4
<1>6. p \notin l.load /\ p # SCHED /\ p \in Users
  BY <1>1, <1>2, <1>3 DEF Gentle, Calm
<1> HIDE DEF h
<1>7. Core(kern', SCHED) /\ Same(l, kern', {"runq", "load", "panic"})
  BY <1>3, <1>5, <1>6, LoadedIs DEF h
<1>8. Spares(kern, k) /\ k.stat = kern.stat /\ k.wchan = kern.wchan
  <2>1. PICK F : F = {"runq", "load", "panic"}
    OBVIOUS
  <2> QED BY <1>2, <2>1, SparesIf
<1>9. /\ kern'.stat = l.stat /\ kern'.wchan = l.wchan /\ kern'.sig = l.sig
      /\ kern'.intr = l.intr /\ kern'.pptr = l.pptr
  BY <1>7 DEF Same
<1>10. ASSUME NEW q \in Users
       PROVE  /\ Moves(kern, kern', q) /\ Lull(kern', q)
              /\ kern'.wchan[q] \in {kern.wchan[q], NONE}
              /\ kern.stat[q] = "SSTOP" /\ kern'.stat[q] # "SSTOP"
                   => {"CONT", "KILL"} \cap kern'.sig[q] # {}
  <2>1. q \in Procs /\ Lull(k, q)
    BY <1>8, NoneApart DEF Spares
  <2>2. Mild(k, l, q) /\ Obeys(k, l, q)
    BY <1>3, <2>1 DEF Gentle, Calm
  <2>3. Lull(kern', q)
    BY <1>9, <2>1, <2>2 DEF Obeys, Lull, Weighty, Pending
  <2>4. Moves(kern, kern', q) /\ kern'.wchan[q] \in {kern.wchan[q], NONE}
    BY <1>8, <1>9, <2>2 DEF Mild, Moves, Alive
  <2>5. kern.stat[q] = "SSTOP" /\ kern'.stat[q] # "SSTOP"
          => {"CONT", "KILL"} \cap kern'.sig[q] # {}
    BY <1>8, <1>9, <2>2 DEF Obeys
  <2> QED BY <2>3, <2>4, <2>5
<1>11. kern'.stat[SCHED] = "SRUN" /\ kern'.wchan[SCHED] = NONE
  <2>1. Mild(k, l, SCHED)
    BY <1>1, <1>3 DEF Gentle, Calm
  <2> QED BY <1>1, <1>8, <1>9, <2>1 DEF Mild
<1>12. /\ Alert(kern') /\ ~Watching(kern') /\ kern'.wchan[SCHED] \notin ready
       /\ Core(kern', cur') /\ cur' \in {SCHED, NONE}
  BY <1>1, <1>7, <1>11 DEF Alert, Watching
<1>13. /\ pc'[SCHED] = "loop" /\ "loop" \in SchedPc
       /\ pc' \in [Procs -> UserPc \cup SchedPc] /\ \A q \in Users : pc'[q] = pc[q]
  BY <1>1 DEF Goto, SchedPc
<1>14. Chosen'
  BY <1>12, <1>13 DEF Chosen
<1>15. inp' \in Users \cup {NONE} /\ todo' \in SUBSET Users /\ skipped' \in SUBSET Users
       /\ UNCHANGED <<back, ready>>
  BY <1>1 DEF TypeOK
<1>16. kern'.pptr = kern.pptr
  BY <1>3, <1>8, <1>9 DEF Gentle, Calm, Spares
<1>17. Inv'
  BY <1>1, <1>10, <1>12, <1>13, <1>14, <1>15, <1>16, SchedInv
<1> QED BY <1>10, <1>17 DEF Starts

LEMMA SwapoutStep == ASSUME Inv, Swapout PROVE Inv' /\ Starts
<1>1. SchedAt("outswap") /\ inp' = NONE /\ UNCHANGED <<back, ready, todo, skipped>>
  BY DEF Swapout
<1>2. /\ TypeOK /\ Core(kern, SCHED) /\ kern.stat[SCHED] = "SRUN" /\ pc[SCHED] = "outswap"
  BY <1>1, SchedFacts
<1>3. PICK p \in Users \cap kern.load : inp = p
  BY <1>2 DEF Inv, Chosen
<1>4. CASE SchedSleep(Unload(kern, p), "swapio", "loop")
  <2> DEFINE k == Unload(kern, p)
  <2>1. Core(k, SCHED) /\ Same(kern, k, {"runq", "load", "panic"})
    BY <1>2, UnloadIs
  <2>2. PICK ch, at : ch = "swapio" /\ at = "loop"
    OBVIOUS
  <2>3. SchedSleep(k, ch, at)
    BY <1>4, <2>2
  <2> HIDE DEF k
  <2>4. Spares(kern, k) /\ k.stat = kern.stat
    <3>1. PICK F : F = {"runq", "load", "panic"}
      OBVIOUS
    <3> QED BY <2>1, <3>1, SparesIf
  <2>5. ch \in Chans /\ ch \notin ready /\ ch # "runout"
    BY <1>2, <2>2, ChansAssumption DEF Chans, Apart, TypeOK
  <2>6. k.stat[SCHED] = "SRUN" /\ at \in {"loop", "swapin"} /\ at # "swapin"
        /\ inp' \in Users \cup {NONE}
    BY <1>1, <1>2, <2>2, <2>4
  <2> QED BY <1>1, <2>1, <2>3, <2>4, <2>5, <2>6, SchedSleepTurn
<1>5. CASE /\ kern' = Reload(Swkill(Unload(kern, p), p), p)
           /\ Keep /\ Goto(SCHED, "loop")
  BY <1>1, <1>5, KilledTurn DEF Keep
<1> QED BY <1>3, <1>4, <1>5 DEF Swapout

-----------------------------------------------------------------------------
(* The invariant holds at first, and every step keeps it.                  *)

LEMMA InitInv == ASSUME Init PROVE Inv
<1> USE DEF Init
<1>1. /\ SCHED \in Procs /\ SCHED \notin Users /\ SCHED # NONE /\ NONE # "runout"
      /\ \A p \in Users : p \in Procs /\ p # NONE
      /\ \A p \in Procs : p # SCHED => p \in Users
  BY NoneApart DEF Procs
<1>2. /\ kern.stat = [p \in Procs |-> "SRUN"] /\ kern.wchan = [p \in Procs |-> NONE]
      /\ kern.runq = Users /\ kern.load = Procs /\ ~kern.panic
  OBVIOUS
<1>3. kern \in Kern
  <2>1. Parent \in [Users -> Users \cup {PROC1, NONE}]
    BY ProcSwitchAssumption
  <2> QED BY <1>1, <2>1 DEF Kern, Action
<1>4. QueuedOK(kern, SCHED) /\ ChainOK(kern)
  BY <1>1, <1>2 DEF QueuedOK, ChainOK
<1>5. Core(kern, cur)
  BY <1>1, <1>2, <1>3, <1>4 DEF Core
<1>6. TypeOK
  BY <1>1, <1>3 DEF TypeOK, UserPc, SchedPc
<1>7. ~Watching(kern)
  BY <1>1, <1>2 DEF Watching
<1>8. ASSUME NEW p \in Users PROVE Lull(kern, p) /\ Place(p)
  <2>1. kern.stat[p] = "SRUN" /\ kern.wchan[p] = NONE /\ pc[p] = "call"
    BY <1>1, <1>2
  <2> QED BY <1>1, <2>1 DEF Lull, Place
<1>9. OffReady /\ Turn
  BY <1>1, <1>2 DEF OffReady, Turn
<1>10. Chosen
  BY <1>1, <1>7 DEF Chosen
<1> QED BY <1>5, <1>6, <1>7, <1>8, <1>9, <1>10 DEF Inv, Alert

LEMMA UserStep == ASSUME Inv, NEW p \in Users, User(p) PROVE Inv' /\ Starts
BY SleepIssigStep, SleepReturnStep, SleepEventStep, StayStep, WaitReapStep, WaitSleepStep,
   ReturnIssigStep, PsigStep, RexitStep, ExitChildStep, ExitDoneStep, PtexpandStep DEF User

LEMMA SchedStep == ASSUME Inv, Sched PROVE Inv' /\ Starts
BY SchedLoopStep, SchedLookStep, SchedIdleStep, SwapinStep, SwapinDoneStep, HardswapStep,
   SwapoutStep DEF Sched

LEMMA NextInv == ASSUME Inv, Next PROVE Inv' /\ Starts
<1>1. CASE \E p \in Users : User(p)
  BY <1>1, UserStep
<1>2. CASE Sched
  BY <1>2, SchedStep
<1>3. CASE Interrupts
  BY <1>3, SignalStep, EventStep, SwapioStep, SchedcpuStep DEF Interrupts
<1>4. CASE \E p \in Procs : Dispatch(p)
  BY <1>4, DispatchStep
<1>5. CASE InitReaps
  BY <1>5, InitReapsStep
<1> QED BY <1>1, <1>2, <1>3, <1>4, <1>5 DEF Next

LEMMA StutterInv == ASSUME Inv, UNCHANGED vars PROVE Inv'
BY DEF vars, Inv, TypeOK, Place, Zombies, Children, OffReady, Turn, Chosen, Wants

LEMMA Invariant == Spec => []Inv
<1>1. Init => Inv
  BY InitInv
<1>2. Inv /\ [Next]_vars => Inv'
  BY NextInv, StutterInv
<1> QED BY <1>1, <1>2, PTL DEF Spec

-----------------------------------------------------------------------------
(* What follows, for every system of processes.                            *)

(* The process table, the places where processes are in the kernel and     *)
(* what sched remembers keep their types.                                  *)
THEOREM TypeCorrect == Spec => []TypeOK
<1>1. Inv => TypeOK
  BY DEF Inv
<1> QED BY <1>1, Invariant, PTL

(* No process ever panics the system in sleep, wakeup, setrun, setrq,      *)
(* remrq or swtch, however signals, events, ends of processes and swapping *)
(* fall together.                                                          *)
THEOREM NeverPanics == Spec => []NoPanic
<1>1. Inv => NoPanic
  BY DEF Inv, Core, NoPanic
<1> QED BY <1>1, Invariant, PTL

(* The run queue holds exactly the processes in core that can run but do   *)
(* not, and a process is on the chain of a channel if it sleeps, and only  *)
(* if it sleeps or was stopped while it did.                               *)
THEOREM QueuesAlwaysSound == Spec => []QueuesSound
<1>1. Inv => QueuesSound
  BY DEF Inv, Core, QueuedOK, ChainOK, QueuesSound, Queued, OnTheirChain
<1> QED BY <1>1, Invariant, PTL

(* Nobody sleeps for an event that has happened, nor in wait beside a      *)
(* child that has ended, nor over a signal to be acted on: but a CHLD that *)
(* came before, or with, the signal that stopped it in its sleep.          *)
SleepsOverChldOnly ==
  \A p \in Users : kern.stat[p] = "SSLEEP" /\ p \in kern.intr
    => Weighty(kern, p) \subseteq {"CHLD"}

THEOREM OnlyChldMissed == Spec => [](EventSeen /\ ZombieSeen /\ SleepsOverChldOnly)
<1>1. Inv => EventSeen
  BY DEF Inv, OffReady, EventSeen
<1>2. Inv => ZombieSeen
  BY DEF Inv, Place, ZombieSeen
<1>3. ASSUME Inv PROVE SleepsOverChldOnly
  <2> SUFFICES ASSUME NEW p \in Users, kern.stat[p] = "SSLEEP", p \in kern.intr
               PROVE  Weighty(kern, p) \subseteq {"CHLD"}
    BY DEF SleepsOverChldOnly
  <2>1. kern.wchan[p] # NONE /\ Lull(kern, p)
    BY <1>3, NoneApart DEF Inv, Core, ChainOK
  <2> QED BY <2>1 DEF Lull
<1> QED BY <1>1, <1>2, <1>3, Invariant, PTL

(* Where no process has a handler for CHLD nothing at all is missed:       *)
(* every sleep is ended by its event, by a child's end, or by a signal     *)
(* that is to be acted on, whenever it came.                               *)
THEOREM NothingIsMissed ==
  ASSUME \A p \in Users : "CHLD" \notin Caught[p]
  PROVE  Spec => []NothingMissed
<1>1. ASSUME NEW p \in Users PROVE "CHLD" \notin Weighty(kern, p)
  BY DEF Weighty, Stops
<1>2. EventSeen /\ ZombieSeen /\ SleepsOverChldOnly => NothingMissed
  BY <1>1 DEF NothingMissed, SignalSeen, SleepsOverChldOnly
<1> QED BY <1>2, OnlyChldMissed, PTL

(* When sched sleeps until somebody wants to come in, nobody wants to but  *)
(* those it has passed over: no request is lost that came while it looked  *)
(* through the process table, or between its look and its sleep.           *)
THEOREM NobodyForgotten == Spec => []NoneForgotten
<1>1. Inv => NoneForgotten
  BY DEF Inv, Chosen, Watching, NoneForgotten
<1> QED BY <1>1, Invariant, PTL

(* A stopped process goes on only with a continue or kill signal pending.  *)
THEOREM StoppedStaysStopped == Spec => StaysStopped
<1> DEFINE Step == \A p \in Users :
                     kern.stat[p] = "SSTOP" /\ kern'.stat[p] # "SSTOP"
                       => {"CONT", "KILL"} \cap kern'.sig[p] # {}
<1>1. Inv /\ [Next]_vars => [Step]_vars
  BY NextInv DEF Starts
<1> QED BY <1>1, Invariant, PTL DEF Spec, StaysStopped

=============================================================================
