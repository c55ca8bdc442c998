--------------------------- MODULE ProcSwitchProps --------------------------
(***************************************************************************)
(* What must hold of sleeping, running, stopping, ending and swapping.     *)
(***************************************************************************)
EXTENDS ProcSwitch

UserPc  == {"call", "issig", "swtch", "wait", "sleep", "return", "trap",
            "exit", "dead"}
SchedPc == {"loop", "look", "hardswap", "outswap", "swapin"}
TypeOK ==
  /\ kern \in Kern
  /\ cur \in Procs \cup {NONE}
  /\ pc \in [Procs -> UserPc \cup SchedPc]
  /\ \A p \in Procs : pc[p] \in IF p = SCHED THEN SchedPc ELSE UserPc
  /\ back \in [Users -> {"call", "wait"}]
  /\ ready \in SUBSET Events
  /\ inp \in Users \cup {NONE}
  /\ todo \in SUBSET Users /\ skipped \in SUBSET Users

(* None of the panics of sleep, wakeup, setrun, setrq, remrq and swtch     *)
(* happens, whatever signals, events and swapping do in between.           *)
NoPanic == ~kern.panic

(* On the run queue are exactly the processes that are in core and can     *)
(* run, but for the one that does: none is lost by a swap, a signal or a   *)
(* failed swap, none is there twice, and swtch starts nothing swapped out. *)
Queued ==
  \A p \in Procs : p \in kern.runq <=>
    kern.stat[p] = "SRUN" /\ p \in kern.load /\ p # cur

(* Whoever sleeps is on the chain of a channel, where a wakeup finds it;   *)
(* whoever is on one sleeps, or is stopped.  sleep looks at p_wchan again  *)
(* after the signals, as it may have been stopped and taken off.           *)
OnTheirChain ==
  \A p \in Procs : /\ kern.stat[p] = "SSLEEP" => kern.wchan[p] # NONE
                   /\ kern.wchan[p] # NONE => kern.stat[p] \in {"SSLEEP", "SSTOP"}

(* Sleep queue and run queue agree with p_stat.                            *)
QueuesSound == Queued /\ OnTheirChain

(* Nobody sleeps for what has happened, nor goes back to sleep for it      *)
(* after having been stopped while it happened.                            *)
EventSeen ==
  \A p \in Procs : kern.stat[p] = "SSLEEP" => kern.wchan[p] \notin ready

(* Nobody sleeps in wait beside a child that has ended, also when it has   *)
(* ended between the look at the children and the sleep (exit's last       *)
(* wakeup comes after SZOMB), or was inherited.                            *)
ZombieSeen ==
  \A p \in Users : kern.stat[p] = "SSLEEP" /\ kern.wchan[p] = p
    => \A q \in Zombies(p) : pc[q] = "exit"

(* Nobody sleeps, where signals may disturb it, over a signal that is to   *)
(* be acted on: not one that came before the sleep, nor one that came      *)
(* while it was stopped, when it is continued.                             *)
SignalSeen ==
  \A p \in Users : kern.stat[p] = "SSLEEP" /\ p \in kern.intr
    => Weighty(kern, p) = {}

(* No sleep misses what should have ended it: an event, a child's end, or  *)
(* a signal, whenever it came.                                             *)
NothingMissed == EventSeen /\ ZombieSeen /\ SignalSeen

(* sched does not sleep for someone to want in while someone does, unless  *)
(* it has passed over him because of page-outs (only vmmeter then wakes    *)
(* it): the requests that come while it looks at others are in wantin.     *)
NoneForgotten ==
  kern.stat[SCHED] = "SSLEEP" /\ kern.wchan[SCHED] = "runout"
    => \A p \in Users \ skipped : ~Wants(p)

(* What is stopped is started again only by a continue or kill signal,     *)
(* never by a wakeup or by sched.                                          *)
StaysStopped ==
  [][\A p \in Users :
       kern.stat[p] = "SSTOP" /\ kern'.stat[p] # "SSTOP"
         => {"CONT", "KILL"} \cap kern'.sig[p] # {}]_vars

=============================================================================
