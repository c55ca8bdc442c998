----------------------------- MODULE ProcSwitch -----------------------------
(***************************************************************************)
(* How processes sleep, run, stop, end and are swapped: sleep, wakeup and  *)
(* setrun (sys/sys/kern_synch.c), the run queue and swtch (sys/vax/        *)
(* locore.s), psignal, issig, stop and psig (sys/sys/kern_sig.c), exit and *)
(* wait (sys/sys/kern_process.c), and sched, the process that swaps the    *)
(* others (sys/sys/vm_sched.c, vm_swap.c).                                 *)
(*                                                                         *)
(* There is one processor and the kernel is not preempted: what it does    *)
(* from one swtch to the next is one step, but for the places where        *)
(* interrupts are let in and what they change matters: between wait's look *)
(* at the children and its sleep, while sched looks through the process    *)
(* table, and in swtch, before a process is chosen.                        *)
(*                                                                         *)
(* No process is traced or in vfork, none is created, and what it does     *)
(* with a signal does not change.  Priorities are left out, but for        *)
(* whether a signal may interrupt a sleep.  All the channels share one     *)
(* chain of slpque: then the firewall of wakeup sees every sleeper.        *)
(***************************************************************************)
EXTENDS Naturals, FiniteSets

CONSTANTS
  Users,      (* the processes other than sched and init                   *)
  Slot,       (* their places in the process table                         *)
  Parent,     (* [Users -> Users \cup {PROC1}], at first                    *)
  Events,     (* the events users wait for, and drivers signal             *)
  Signals,    (* the signals in use                                        *)
  Sent,       (* those that may be sent to each process                    *)
  Caught,     (* those that have a handler, of each process                *)
  Held,       (* those that are held                                       *)
  Ignored,
  Untraced,   (* whether wait is asked for stopped children too            *)
  Swapping,   (* whether memory is ever short                              *)
  SCHED, PROC1, (* proc[0] and proc[1], init                              *)
  NONE

Number == [HUP |-> 1, KILL |-> 9, STOP |-> 17, TSTP |-> 18,
           CONT |-> 19, CHLD |-> 20]
Stops  == {"STOP", "TSTP"}

ASSUME ProcSwitchAssumption ==
  /\ Slot \in [Users -> Nat]
  /\ Parent \in [Users -> Users \cup {PROC1}]
  /\ Signals \subseteq DOMAIN Number
  /\ Sent \in [Users -> SUBSET Signals]
  /\ Caught \in [Users -> SUBSET Signals]
  /\ Held \in [Users -> SUBSET Signals]
  /\ Ignored \in [Users -> SUBSET Signals]
  /\ \A p \in Users :
       /\ (Caught[p] \cup Held[p] \cup Ignored[p]) \cap {"KILL", "STOP"} = {}
       /\ Caught[p] \cap (Held[p] \cup Ignored[p]) = {}
  /\ "TSTP" \in Signals => "KILL" \in Signals
  /\ Untraced \in BOOLEAN /\ Swapping \in BOOLEAN
  /\ SCHED \notin Users \cup {PROC1, NONE} /\ PROC1 \notin Users

Procs  == Users \cup {SCHED}
Action == Signals \cup {NONE}

(* What sleep is called with: an event, lbolt, runout, runin, the end of a *)
(* transfer to or from the swap space, or a process (wait sleeps on the    *)
(* caller's own slot of the process table).                                *)
Apart == {"lbolt", "runout", "runin", "swapio"}
Chans == Events \cup Users \cup Apart

ASSUME ChansAssumption ==
  /\ NONE \notin Chans /\ NONE \notin Signals
  /\ Events \cap Users = {} /\ (Events \cup Users) \cap Apart = {}

VARIABLES
  kern,      (* the process table and its queues, see Kern                 *)
  cur,       (* u.u_procp; NONE while swtch looks for a process (noproc)   *)
  pc, back,  (* where each process is in the kernel, and where its sleep   *)
             (* returns to                                                 *)
  ready,     (* the events that have happened                              *)
  inp,       (* sched: the process chosen to come in, or to go out         *)
  todo,      (* sched: the slots of the table not yet looked at            *)
  skipped    (* those it passed over because of page-outs                  *)

vars == <<kern, cur, pc, back, ready, inp, todo, skipped>>

(* Fields of struct proc: p_stat, p_wchan, p_sig, p_cursig, p_pptr, and    *)
(* the sets of processes that are on the run queue (p_rlink), in core      *)
(* (SLOAD), reported to wait (SWTED), and those whose sleep, if they do    *)
(* sleep, may be interrupted (p_pri above PZERO).                          *)
Kern == [stat : [Procs -> {"NULL", "SSLEEP", "SRUN", "SZOMB", "SSTOP"}],
         wchan : [Procs -> Chans \cup {NONE}],
         sig : [Users -> SUBSET Signals], cursig : [Users -> Action],
         pptr : [Users -> Users \cup {PROC1, NONE}],
         runq : SUBSET Procs, load : SUBSET Procs, intr : SUBSET Procs,
         wted : SUBSET Users,
         runout : BOOLEAN, wantin : BOOLEAN, runin : BOOLEAN,
         panic : BOOLEAN]

-----------------------------------------------------------------------------
(* The queues.                                                             *)

PanicIf(k, bad) == [k EXCEPT !.panic = @ \/ bad]

Setrq(k, W)  == [k EXCEPT !.runq = @ \cup W, !.panic = @ \/ W \cap k.runq # {}]
Remrq(k, p)  == [k EXCEPT !.runq = @ \ {p}, !.panic = @ \/ p \notin k.runq]
Unsleep(k, W) == [k EXCEPT !.wchan = [p \in Procs |->
                                        IF p \in W THEN NONE ELSE k.wchan[p]]]
Stat(k, W, s) == [k EXCEPT !.stat = [p \in Procs |->
                                       IF p \in W THEN s ELSE k.stat[p]]]

(* The processes of W run, those in core from the run queue.               *)
(* (Variant: all of them.)                                                 *)
RunnableAnywhere(k, W) == Setrq(Stat(k, W, "SRUN"), W)

Runnable(k, W) == Setrq(Stat(k, W, "SRUN"), W \cap k.load)

(* The firewall of wakeup: whoever is on the chain.                        *)
Astray(k) == \E p \in Procs : /\ k.wchan[p] # NONE
                              /\ \/ p \in k.runq
                                 \/ k.stat[p] \notin {"SSLEEP", "SSTOP"}

(* Those wakeup takes off the chain, and those of them it runs.            *)
Sleepers(k, c) == {p \in Procs : k.wchan[p] = c}

(* (Variant: those that are stopped, too.)                                 *)
AsleepOrStopped(k, c) == Sleepers(k, c)

Asleep(k, c) == {p \in Sleepers(k, c) : k.stat[p] = "SSLEEP"}

WakeupIn(k, c) ==
  PanicIf(Runnable(Unsleep(k, Sleepers(k, c)), Asleep(k, c)), Astray(k))

(* What setrun and wakeup do for processes that are not in core: get sched *)
(* to see to them.  (Variant: count them in wantin, but let it sleep.)     *)
SummonSilently(k, W) ==
  IF W \subseteq k.load THEN k ELSE [k EXCEPT !.wantin = TRUE]

Roused(k) == IF k.runout THEN WakeupIn([k EXCEPT !.runout = FALSE], "runout")
             ELSE k
Summon(k, W) ==
  IF W \subseteq k.load THEN k ELSE [Roused(k) EXCEPT !.wantin = TRUE]

Wakeup(k, c) == Summon(WakeupIn(k, c), Asleep(k, c))
Setrun(k, p) ==
  PanicIf(Summon(Runnable(Unsleep(k, {p}), {p}), {p}),
          k.stat[p] \notin {"SSLEEP", "SSTOP"})

-----------------------------------------------------------------------------
(* Signals.                                                                *)

Take(k, p, s) == [k EXCEPT !.sig[p] = @ \ {s}]
Cancels(s) == CASE s = "CONT" -> Stops [] s \in Stops -> {"CONT"}
                [] OTHER -> {}
Post(k, p, s) == [k EXCEPT !.sig[p] = (@ \ Cancels(s)) \cup {s}]

(* psignal, of a signal that stops nobody: to a sleeper, and to one that   *)
(* is stopped.                                                             *)
Interrupt(k, p, s) ==
  IF p \notin k.intr THEN k
  ELSE IF s = "CHLD" /\ s \notin Caught[p] THEN Take(k, p, s)
  ELSE Setrun(k, p)

(* (Variant: a stopped process is not unstuck from its sleep.)             *)
ResumeStuck(k, p, s) ==
  IF s = "KILL" \/ (s = "CONT" /\ (s \in Caught[p] \/ k.wchan[p] = NONE))
    THEN Setrun(k, p)
  ELSE IF s = "CONT" THEN Stat(k, {p}, "SSLEEP")
  ELSE k

Resume(k, p, s) ==
  IF s = "KILL" \/ (s = "CONT" /\ (s \in Caught[p] \/ k.wchan[p] = NONE))
    THEN Setrun(k, p)
  ELSE IF s = "CONT" THEN Stat(k, {p}, "SSLEEP")
  ELSE IF k.wchan[p] # NONE /\ p \in k.intr THEN Unsleep(k, {p})
  ELSE k
PsignalPlain(k, p, s) ==
  IF s \in Ignored[p] \/ k.stat[p] = "SZOMB" THEN k
  ELSE IF s \in Held[p] THEN Post(k, p, s)
  ELSE CASE k.stat[p] = "SSLEEP" -> Interrupt(Post(k, p, s), p, s)
         [] k.stat[p] = "SSTOP"  -> Resume(Post(k, p, s), p, s)
         [] OTHER -> Post(k, p, s)

Chld(k, q) ==
  IF q \in Users /\ "CHLD" \in Signals THEN PsignalPlain(k, q, "CHLD") ELSE k
Parents(k, p) == IF k.pptr[p] \in Users THEN Wakeup(k, k.pptr[p]) ELSE k
Stop(k, p) ==
  Chld(Parents([Stat(k, {p}, "SSTOP") EXCEPT !.wted = @ \ {p}], p), k.pptr[p])

(* psignal, of one that does.  Init's children are killed by those from    *)
(* the keyboard.                                                           *)
Kills(k, p, s) == s = "TSTP" /\ k.pptr[p] = PROC1
StopSleeper(k, p, s) ==
  IF s \in Caught[p] THEN Setrun(k, p)
  ELSE IF Kills(k, p, s) THEN Take(PsignalPlain(k, p, "KILL"), p, s)
  ELSE Stop([Take(k, p, s) EXCEPT !.cursig[p] = s], p)
PsignalStop(k, p, s) ==
  IF s \in Ignored[p] \/ k.stat[p] = "SZOMB" THEN k
  ELSE IF s \in Held[p] THEN Post(k, p, s)
  ELSE CASE k.stat[p] = "SSLEEP" /\ p \in k.intr ->
              StopSleeper(Post(k, p, s), p, s)
         [] k.stat[p] = "SSTOP" -> Take(Post(k, p, s), p, s)
         [] OTHER -> Post(k, p, s)

Psignal(k, p, s) ==
  IF s \in Stops THEN PsignalStop(k, p, s) ELSE PsignalPlain(k, p, s)

(* issig takes signals in the order of their numbers.  CONT and CHLD, the  *)
(* last two, come to nothing unless they are caught.                       *)
Pending(k, p) == k.sig[p] \ (Held[p] \cup Ignored[p])
Weighty(k, p) == {s \in Pending(k, p) : s \in Caught[p] \cup {"HUP", "KILL"} \cup Stops}
First(k, p)   == {s \in Weighty(k, p) :
                    \A t \in Weighty(k, p) : Number[s] <= Number[t]}
StopsOn(k, p, s) == s \in Stops \ Caught[p] /\ ~Kills(k, p, s)

(* issig: with no signal to act on, which leaves p_cursig alone when the   *)
(* test of ISSIG keeps it from being called; with signal s to stop on, up  *)
(* to swtch; with signal s to return.                                      *)
Unsignalled(k, p) == [k EXCEPT !.sig[p] = @ \ Pending(k, p),
                               !.cursig[p] = NONE]
Passed(k, p) == IF Pending(k, p) = {} THEN k ELSE Unsignalled(k, p)
Stopped(k, p, s) == Stop([Take(k, p, s) EXCEPT !.cursig[p] = s], p)
Taken(k, p, s) ==
  LET t == IF Kills(k, p, s) /\ s \notin Caught[p] THEN "KILL" ELSE s
  IN  [Take(k, p, s) EXCEPT !.cursig[p] = t]

-----------------------------------------------------------------------------
(* Processes.                                                              *)

Running(p) == ~kern.panic /\ cur = p
At(p, at)  == Running(p) /\ pc[p] = at
Goto(p, at) == pc' = [pc EXCEPT ![p] = at]
Keep  == UNCHANGED cur
Swtch == cur' = NONE
SchedVars == <<inp, todo, skipped>>

(* sleep, up to its swtch.                                                 *)
OnChain(k, p, c, intr) ==
  [k EXCEPT !.wchan[p] = c,
            !.intr = IF intr THEN @ \cup {p} ELSE @ \ {p},
            !.panic = @ \/ k.stat[p] # "SRUN" \/ p \in k.runq]

(* Looking at signals at the point at: one stops the process, one is there *)
(* to be handled, or there is none.                                        *)
IssigStops(k, p, at) ==
  \E s \in First(k, p) : /\ StopsOn(k, p, s)
                         /\ kern' = Stopped(k, p, s)
                         /\ Swtch /\ Goto(p, at)
IssigTakes(k, p) ==
  \E s \in First(k, p) : /\ ~StopsOn(k, p, s)
                         /\ kern' = Stat(Unsleep(Taken(k, p, s), {p}), {p}, "SRUN")
                         /\ Keep /\ Goto(p, "return")
Quiet(k, p) == Weighty(k, p) = {}

(* In sleep: before its swtch, on the chain; after it; and in issig, where *)
(* the process has been stopped.                                           *)
Sleeping(p, to) == /\ pc' = [pc EXCEPT ![p] = "swtch"]
                   /\ back' = [back EXCEPT ![p] = to]
SleepSwtch(k, p, to) ==
  \/ IssigStops(k, p, "issig") /\ back' = [back EXCEPT ![p] = to]
  \/ IssigTakes(k, p) /\ UNCHANGED back
  \/ /\ Quiet(k, p) /\ k.wchan[p] # NONE
     /\ kern' = Stat(Passed(k, p), {p}, "SSLEEP") /\ Swtch /\ Sleeping(p, to)
SleepReturns(k, p) ==
  /\ kern' = [k EXCEPT !.intr = @ \cup {p}] /\ Keep
  /\ Goto(p, back[p]) /\ back' = [back EXCEPT ![p] = "call"]
SleepReturn(p) ==
  /\ At(p, "swtch")
  /\ \/ p \in kern.intr /\ IssigStops(kern, p, "issig") /\ UNCHANGED back
     \/ /\ p \in kern.intr /\ IssigTakes(kern, p)
        /\ back' = [back EXCEPT ![p] = "call"]
     \/ p \in kern.intr /\ Quiet(kern, p) /\ SleepReturns(Passed(kern, p), p)
     \/ p \notin kern.intr /\ SleepReturns(kern, p)
  /\ UNCHANGED <<ready, SchedVars>>

SleepIssig(p) ==
  /\ At(p, "issig")
  /\ \/ IssigStops(kern, p, "issig") /\ UNCHANGED back
     \/ IssigTakes(kern, p) /\ back' = [back EXCEPT ![p] = "call"]
     \/ Quiet(kern, p) /\ SleepReturns(Unsignalled(kern, p), p)
  /\ UNCHANGED <<ready, SchedVars>>

(* In a system call: while (!event) sleep, with the interrupt kept out.    *)
SleepEvent(p) ==
  \E c \in Events, intr \in BOOLEAN :
    LET k == OnChain(kern, p, c, intr) IN
    /\ At(p, "call") /\ c \notin ready
    /\ \/ intr /\ SleepSwtch(k, p, "call")
       \/ /\ ~intr /\ kern' = Stat(k, {p}, "SSLEEP") /\ Swtch
          /\ Sleeping(p, "call")
    /\ UNCHANGED <<ready, SchedVars>>
UseEvent(p) ==
  \E c \in ready : /\ At(p, "call") /\ ready' = ready \ {c}
                   /\ UNCHANGED <<kern, cur, pc, back, SchedVars>>

(* wait1: the look at the children, and the sleep if there is nothing to   *)
(* tell of any.                                                            *)
Wait(p) == /\ At(p, "call") /\ Goto(p, "wait")
           /\ UNCHANGED <<kern, cur, back, ready, SchedVars>>
Children(p) == {q \in Users : kern.pptr[q] = p}
Zombies(p)  == {q \in Children(p) : kern.stat[q] = "SZOMB"}
Halted(p)   == {q \in Children(p) \ kern.wted : kern.stat[q] = "SSTOP"}
WaitReap(p) ==
  \E q \in Zombies(p) :
    /\ At(p, "wait") /\ Goto(p, "call")
    /\ kern' = [Stat(kern, {q}, "NULL") EXCEPT
                  !.sig[q] = {}, !.cursig[q] = NONE,
                  !.pptr[q] = NONE, !.load = @ \ {q},
                  !.wted = @ \ {q}]
    /\ UNCHANGED <<cur, back, ready, SchedVars>>
WaitStopped(p) ==
  \E q \in Halted(p) :
    /\ At(p, "wait") /\ Untraced /\ Goto(p, "call")
    /\ kern' = [kern EXCEPT !.wted = @ \cup {q}]
    /\ UNCHANGED <<cur, back, ready, SchedVars>>
Unreported(p) == Zombies(p) \cup (IF Untraced THEN Halted(p) ELSE {})
WaitNone(p) ==
  /\ At(p, "wait") /\ Unreported(p) = {}
  /\ Goto(p, IF Children(p) = {} THEN "call" ELSE "sleep")
  /\ UNCHANGED <<kern, cur, back, ready, SchedVars>>
WaitSleep(p) ==
  /\ At(p, "sleep") /\ SleepSwtch(OnChain(kern, p, p, TRUE), p, "wait")
  /\ UNCHANGED <<ready, SchedVars>>

(* The return to user mode: signals, and another process's turn.           *)
AtReturn(p) == At(p, "call") \/ At(p, "return")
Leaves(p, k) ==
  /\ Quiet(kern, p) /\ Goto(p, "call")
  /\ \/ kern' = k /\ Keep
     \/ kern' = Setrq(k, {p}) /\ Swtch
ReturnIssig(p) ==
  /\ \/ /\ AtReturn(p) /\ kern.cursig[p] = NONE
        /\ \/ IssigStops(kern, p, "trap") \/ IssigTakes(kern, p)
           \/ Leaves(p, Passed(kern, p))
     \/ /\ At(p, "trap")
        /\ \/ IssigStops(kern, p, "trap") \/ IssigTakes(kern, p)
           \/ Leaves(p, Unsignalled(kern, p))
  /\ UNCHANGED <<back, ready, SchedVars>>
Exited(p) ==
  /\ kern' = [Stat(kern, {p}, "SZOMB") EXCEPT !.sig[p] = {},
                                              !.cursig[p] = NONE]
  /\ Goto(p, "exit")
Psig(p) ==
  LET n == kern.cursig[p] IN
  /\ AtReturn(p) /\ n # NONE
  /\ \/ /\ n \in Caught[p]
        /\ kern' = [kern EXCEPT !.cursig[p] = NONE]
        /\ Goto(p, "call")
     \/ /\ n \notin Caught[p]
        /\ Exited(p)
  /\ UNCHANGED <<cur, back, ready, SchedVars>>

Rexit(p) ==
  /\ At(p, "call") /\ Exited(p)
  /\ UNCHANGED <<cur, back, ready, SchedVars>>

(* exit, from where the process is a zombie: its children go to init, one  *)
(* after the other; stopped ones are sent HUP and CONT.                    *)
Inferiors(k, q) ==
  {r \in Users : \A S \in SUBSET Users :
     (q \in S /\ \A x \in Users : k.pptr[x] \in S => x \in S) => r \in S}
Spgrp(k, q) ==
  [k EXCEPT !.sig = [r \in Users |-> IF r \in Inferiors(k, q)
                                       THEN k.sig[r] \ {"TSTP"} ELSE k.sig[r]]]

Orphaned(k, q) ==
  LET i == [k EXCEPT !.pptr[q] = PROC1]
      j == IF "HUP" \in Signals THEN Psignal(i, q, "HUP") ELSE i
  IN  IF k.stat[q] = "SSTOP"
        THEN Spgrp(IF "CONT" \in Signals THEN Psignal(j, q, "CONT") ELSE j, q)
        ELSE Spgrp(i, q)
ExitChild(p) ==
  \E q \in Children(p) :
    /\ At(p, "exit") /\ kern' = Orphaned(kern, q)
    /\ UNCHANGED <<cur, pc, back, ready, SchedVars>>

ExitDone(p) ==
  /\ At(p, "exit") /\ Children(p) = {}
  /\ kern' = Parents(Chld(kern, kern.pptr[p]), p)
  /\ Swtch /\ Goto(p, "dead")
  /\ UNCHANGED <<back, ready, SchedVars>>

-----------------------------------------------------------------------------
(* sched.                                                                  *)

SchedAt(at) == At(SCHED, at)
SchedSleep(k, c, at) ==
  /\ kern' = Stat(OnChain(k, SCHED, c, FALSE), {SCHED}, "SSLEEP")
  /\ Swtch /\ Goto(SCHED, at)

(* From the top of its loop; either memory or the kernel map is so short   *)
(* that somebody must go, or it looks for somebody to bring in.            *)
SchedLoop ==
  /\ SchedAt("loop")
  /\ kern' = [kern EXCEPT !.wantin = FALSE]
  /\ inp' = NONE /\ skipped' = {}
  /\ \/ Swapping /\ todo' = {} /\ Goto(SCHED, "hardswap")
     \/ todo' = Users /\ Goto(SCHED, "look")
  /\ Keep /\ UNCHANGED <<back, ready>>

Wants(p) == kern.stat[p] = "SRUN" /\ p \notin kern.load
SchedLook(p) ==
  /\ SchedAt("look") /\ p \in todo /\ \A q \in todo : Slot[p] <= Slot[q]
  /\ \/ /\ Wants(p) /\ inp' = p
        /\ todo' = todo \ {p} /\ UNCHANGED <<pc, skipped>>
     \/ /\ Wants(p) => inp # NONE
        /\ todo' = todo \ {p} /\ UNCHANGED <<pc, inp, skipped>>
     \/ /\ Swapping /\ Wants(p)
        /\ skipped' = skipped \cup {p}
        /\ todo' = todo \ {p} /\ UNCHANGED <<pc, inp>>
     \/ /\ Swapping /\ p \in kern.load /\ kern.stat[p] \in {"SSLEEP", "SSTOP"}
        /\ inp' = p /\ todo' = {} /\ Goto(SCHED, "outswap")
        /\ UNCHANGED skipped
  /\ UNCHANGED <<kern, cur, back, ready>>

SchedIdle ==
  /\ SchedAt("look") /\ todo = {} /\ inp = NONE
  /\ IF kern.wantin THEN SchedSleep([kern EXCEPT !.wantin = FALSE], "lbolt", "loop")
     ELSE SchedSleep([kern EXCEPT !.runout = TRUE], "runout", "loop")
  /\ UNCHANGED <<back, ready, SchedVars>>

(* swapin: there may be no room, at once or later.                         *)
Swapin ==
  /\ SchedAt("look") /\ todo = {} /\ inp # NONE
  /\ \/ SchedSleep(kern, "swapio", "swapin")
     \/ Swapping /\ Goto(SCHED, "hardswap") /\ UNCHANGED <<kern, cur>>
  /\ UNCHANGED <<back, ready, SchedVars>>
SwapinDone ==
  /\ SchedAt("swapin")
  /\ kern' = LET k == IF kern.stat[inp] = "SRUN" THEN Setrq(kern, {inp}) ELSE kern
             IN  [k EXCEPT !.load = @ \cup {inp}]
  /\ inp' = NONE
  /\ Keep /\ Goto(SCHED, "loop") /\ UNCHANGED <<back, ready, todo, skipped>>

Hardswap ==
  /\ SchedAt("hardswap")
  /\ \/ \E p \in (Users \cap kern.load) \ {inp} :
          /\ kern.stat[p] \in {"SRUN", "SSLEEP", "SSTOP"}
          /\ inp' = p /\ Goto(SCHED, "outswap")
          /\ UNCHANGED <<kern, cur>>
     \/ /\ SchedSleep([kern EXCEPT !.runin = TRUE], "runin", "loop")
        /\ inp' = NONE
  /\ UNCHANGED <<back, ready, todo, skipped>>

(* swapout of inp, which fails if there is no swap space.                  *)
(* (Variant: a process that runs is left on the run queue.)                *)
UnloadQueued(k, p) == [k EXCEPT !.load = @ \ {p}]

Unload(k, p) ==
  LET j == [k EXCEPT !.load = @ \ {p}]
  IN  IF k.stat[p] = "SRUN" THEN Remrq(j, p) ELSE j
Reload(k, p) ==
  LET j == [k EXCEPT !.load = @ \cup {p}]
  IN  IF k.stat[p] = "SRUN" THEN Setrq(j, {p}) ELSE j
Swkill(k, p) == IF "KILL" \in Signals THEN Psignal(k, p, "KILL") ELSE k
Swapout ==
  /\ SchedAt("outswap")
  /\ \/ SchedSleep(Unload(kern, inp), "swapio", "loop")
     \/ /\ kern' = Reload(Swkill(Unload(kern, inp), inp), inp)
        /\ Keep /\ Goto(SCHED, "loop")
  /\ inp' = NONE /\ UNCHANGED <<back, ready, todo, skipped>>

(* ptexpand: a process that finds no room to grow swaps itself out (its    *)
(* sleep for the transfer is left out), or waits if that fails.            *)
Ptexpand(p) ==
  /\ At(p, "call") /\ Swapping
  /\ \/ /\ kern' = Roused([kern EXCEPT !.load = @ \ {p}])
        /\ Swtch /\ UNCHANGED <<pc, back>>
     \/ /\ kern' = Stat(OnChain(Swkill(kern, p), p, "lbolt", FALSE), {p}, "SSLEEP")
        /\ Swtch /\ Sleeping(p, "call")
  /\ UNCHANGED <<ready, SchedVars>>

-----------------------------------------------------------------------------
(* Interrupts, the choice of the next process, and those left out.         *)

Up == ~kern.panic
Signal == \E p \in Users : \E s \in Sent[p] :
  /\ Up /\ kern.stat[p] # "NULL" /\ kern' = Psignal(kern, p, s)
  /\ UNCHANGED <<cur, pc, back, ready, SchedVars>>
Event == \E c \in Events :
  /\ Up /\ ready' = ready \cup {c} /\ kern' = Wakeup(kern, c)
  /\ UNCHANGED <<cur, pc, back, SchedVars>>
Swapio ==
  /\ Up /\ kern' = Wakeup(kern, "swapio")
  /\ UNCHANGED <<cur, pc, back, ready, SchedVars>>

(* Once a second; processes in core that run are moved from one run queue  *)
(* to another, and sched is woken if it has slept for long.                *)
Requeued(k) ==
  PanicIf(k, \E p \in k.load : /\ k.stat[p] = "SRUN" /\ p \notin k.runq
                               /\ p # cur)
Schedcpu ==
  LET k == Requeued(Wakeup(kern, "lbolt"))
      l == IF k.runin THEN Wakeup([k EXCEPT !.runin = FALSE], "runin") ELSE k
  IN  /\ Up
      /\ \/ kern' = l
         \/ kern' = Wakeup(Wakeup([l EXCEPT !.runout = FALSE, !.runin = FALSE],
                                  "runin"), "runout")
      /\ UNCHANGED <<cur, pc, back, ready, SchedVars>>

(* swtch takes a process off the run queue.                                *)
Dispatch(p) ==
  /\ Up /\ cur = NONE /\ p \in kern.runq
  /\ kern' = [kern EXCEPT !.runq = @ \ {p},
                          !.panic = kern.wchan[p] # NONE \/ kern.stat[p] # "SRUN"]
  /\ cur' = p
  /\ UNCHANGED <<pc, back, ready, SchedVars>>

(* Init reaps its children.                                                *)
InitReaps == \E q \in Zombies(PROC1) :
  /\ Up /\ cur = NONE
  /\ kern' = [Stat(kern, {q}, "NULL") EXCEPT
                !.sig[q] = {}, !.cursig[q] = NONE,
                !.pptr[q] = NONE, !.load = @ \ {q},
                !.wted = @ \ {q}]
  /\ UNCHANGED <<cur, pc, back, ready, SchedVars>>

Init ==
  /\ kern = [stat |-> [p \in Procs |-> "SRUN"],
             wchan |-> [p \in Procs |-> NONE],
             sig |-> [p \in Users |-> {}], cursig |-> [p \in Users |-> NONE],
             pptr |-> Parent,
             runq |-> Users, load |-> Procs, intr |-> Users, wted |-> {},
             runout |-> FALSE, wantin |-> FALSE, runin |-> FALSE,
             panic |-> FALSE]
  /\ cur = SCHED
  /\ pc = [p \in Procs |-> IF p = SCHED THEN "loop" ELSE "call"]
  /\ back = [p \in Users |-> "call"]
  /\ ready = {} /\ inp = NONE /\ todo = {} /\ skipped = {}

User(p) ==
  \/ SleepIssig(p) \/ SleepReturn(p) \/ SleepEvent(p) \/ UseEvent(p)
  \/ Wait(p) \/ WaitReap(p) \/ WaitStopped(p) \/ WaitNone(p) \/ WaitSleep(p)
  \/ ReturnIssig(p) \/ Psig(p) \/ Rexit(p) \/ ExitChild(p) \/ ExitDone(p)
  \/ Ptexpand(p)
Sched == \/ SchedLoop \/ (\E p \in Users : SchedLook(p)) \/ SchedIdle
         \/ Swapin \/ SwapinDone \/ Hardswap \/ Swapout
Interrupts == Signal \/ Event \/ Swapio \/ Schedcpu
Next == \/ (\E p \in Users : User(p)) \/ Sched \/ Interrupts
        \/ (\E p \in Procs : Dispatch(p)) \/ InitReaps

Spec == Init /\ [][Next]_vars

=============================================================================
