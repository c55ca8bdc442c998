------------------------------- MODULE Callout ------------------------------
(***************************************************************************)
(* The callout queue, sys/sys/kern_clock.c: a list of functions to be      *)
(* called, each with the ticks that pass between the one before it and     *)
(* itself.  The clock interrupt counts only the first entry that is not    *)
(* due; softclock, at the lowest interrupt priority, calls what is due.    *)
(*                                                                         *)
(* timeout, untimeout, the loop of hardclock and each removal of an entry  *)
(* by softclock run at spl7 and are steps; anything may come in between:   *)
(* a tick, or a device interrupt or called function that uses the queue.   *)
(***************************************************************************)
EXTENDS Integers, Sequences, FiniteSets, Functions, SequencesExt

CONSTANTS
  Slots,     (* the entries callout[ncallout]                              *)
  Fns,       (* functions with their arguments                             *)
  Ticks,     (* times given to timeout                                     *)
  Most,      (* how often each function may be on the queue at a time      *)
  MaxLate,   (* bound: ticks by which softclock may be held off            *)
  NONE,      (* no function; softclock is not running                      *)
  SCAN       (* softclock is between two calls                             *)

ASSUME CalloutAssumption ==
  /\ IsFiniteSet(Slots) /\ IsFiniteSet(Fns)
  /\ Ticks \subseteq Nat
  /\ Most \in [Fns -> Nat]
  /\ MaxLate \in Nat
  /\ NONE # SCAN /\ NONE \notin Fns
  /\ {NONE, SCAN} \cap ([fn : Fns, late : Int] \cup [fn : Fns, left : Int]) = {}

VARIABLES
  calltodo,  (* the entries of the queue in order                          *)
  callfree,  (* the free entries (a stack; nobody can tell its order)      *)
  c_time,    (* ticks after the entry before; if not positive, ticks late  *)
  c_func,    (* function and argument of an entry                          *)
  soft,      (* softclock is requested                                     *)
  running,   (* NONE, SCAN, or the function softclock calls and how late   *)
  panicked   (* "timeout table overflow"                                   *)

vars == <<calltodo, callfree, c_time, c_func, soft, running, panicked>>

Time(i)   == c_time[calltodo[i]]
Queued(f) == { i \in 1..Len(calltodo) : c_func[calltodo[i]] = f }

-----------------------------------------------------------------------------
(* timeout.  What is left of tim after the first k entries; the search     *)
(* stops before the first entry that is not sooner than that.              *)
Waited(k)    == SumFunctionOnSet(c_time, { calltodo[i] : i \in
                  { j \in 1..k : Time(j) > 0 } })
Rest(tim, k) == tim - Waited(k)

Behind(k, t) ==
  IF k < Len(calltodo) THEN [c_time EXCEPT ![calltodo[k + 1]] = @ - t] ELSE c_time

Timeout(f, tim) ==
  /\ ~panicked
  /\ Cardinality(Queued(f)) < Most[f]
  /\ \/ /\ callfree = {}
        /\ panicked' = TRUE
        /\ UNCHANGED <<calltodo, callfree, c_time, c_func>>
     \/ \E s \in callfree, k \in 0..Len(calltodo) :
          /\ \A i \in 1..k : Time(i) < Rest(tim, i - 1)
          /\ k < Len(calltodo) => Time(k + 1) >= Rest(tim, k)
          /\ callfree' = callfree \ {s}
          /\ calltodo' = InsertAt(calltodo, k + 1, s)
          /\ c_time' = [Behind(k, Rest(tim, k)) EXCEPT ![s] = Rest(tim, k)]
          /\ c_func' = [c_func EXCEPT ![s] = f]
          /\ UNCHANGED panicked
  /\ UNCHANGED <<soft, running>>

(* untimeout: the first entry for f, if any, is removed.                   *)
(* (Variant: the time to the entry behind is not corrected.)               *)
CarriedNot(i) == c_time

Carried(i) ==
  IF i < Len(calltodo) /\ Time(i) > 0
    THEN [c_time EXCEPT ![calltodo[i + 1]] = @ + Time(i)]
    ELSE c_time

Untimeout(f) ==
  /\ ~panicked
  /\ \E i \in 1..Len(calltodo) :
       /\ c_func[calltodo[i]] = f
       /\ \A j \in 1..(i - 1) : c_func[calltodo[j]] # f
       /\ c_time' = Carried(i)
       /\ calltodo' = RemoveAt(calltodo, i)
       /\ callfree' = callfree \cup {calltodo[i]}
  /\ UNCHANGED <<c_func, soft, running, panicked>>

-----------------------------------------------------------------------------
(* hardclock: entries that are due get later, and the first that is not    *)
(* due gets nearer.                                                        *)
(* (Variants: every entry is counted; only what is due is.)                *)
CountedAll == { calltodo[i] : i \in 1..Len(calltodo) }
CountedDue == { calltodo[i] : i \in
                  { j \in 1..Len(calltodo) : \A h \in 1..j : Time(h) <= 0 } }

Counted == { calltodo[i] : i \in
               { j \in 1..Len(calltodo) : \A h \in 1..(j - 1) : Time(h) <= 0 } }

Hardclock ==
  /\ ~panicked
  /\ \A i \in 1..Len(calltodo) : Time(i) > -MaxLate
  /\ c_time' = [s \in Slots |-> IF s \in Counted THEN c_time[s] - 1 ELSE c_time[s]]
  /\ soft' = TRUE
  /\ UNCHANGED <<calltodo, callfree, c_func, running, panicked>>

(* softclock: the interrupt, a call, the return from it, and the end.      *)
SoftclockEnter ==
  /\ ~panicked /\ soft /\ running = NONE
  /\ soft' = FALSE /\ running' = SCAN
  /\ UNCHANGED <<calltodo, callfree, c_time, c_func, panicked>>

Due == calltodo # <<>> /\ Time(1) <= 0

(* (Variant: the entry is not given back.)                                 *)
FreedNever(s) == callfree

Freed(s) == callfree \cup {s}

SoftclockCall ==
  /\ ~panicked /\ running = SCAN /\ Due
  /\ running' = [fn |-> c_func[Head(calltodo)], late |-> -Time(1)]
  /\ calltodo' = Tail(calltodo)
  /\ callfree' = Freed(Head(calltodo))
  /\ UNCHANGED <<c_time, c_func, soft, panicked>>

SoftclockReturn ==
  /\ ~panicked /\ running \notin {NONE, SCAN}
  /\ running' = SCAN
  /\ UNCHANGED <<calltodo, callfree, c_time, c_func, soft, panicked>>

SoftclockLeave ==
  /\ ~panicked /\ running = SCAN /\ ~Due
  /\ running' = NONE
  /\ UNCHANGED <<calltodo, callfree, c_time, c_func, soft, panicked>>

-----------------------------------------------------------------------------
(* At boot all entries are free (startup); their fields are zero.          *)
Init ==
  /\ calltodo = <<>> /\ callfree = Slots
  /\ c_time = [s \in Slots |-> 0]
  /\ c_func = [s \in Slots |-> NONE]
  /\ soft = FALSE /\ running = NONE /\ panicked = FALSE

Softclock == SoftclockEnter \/ SoftclockCall \/ SoftclockReturn \/ SoftclockLeave

Next == \/ \E f \in Fns : Untimeout(f) \/ \E tim \in Ticks : Timeout(f, tim)
        \/ Hardclock \/ Softclock

Spec == Init /\ [][Next]_vars

=============================================================================
