---------------------------- MODULE CalloutProps ----------------------------
(***************************************************************************)
(* What the callout queue promises.                                        *)
(***************************************************************************)
EXTENDS Callout

(* Every variable has its type; what is due is late by a bounded time.     *)
TypeOK ==
  /\ calltodo \in Seq(Slots)
  /\ callfree \in SUBSET Slots
  /\ c_time \in [Slots -> Int]
  /\ c_func \in [Slots -> Fns \cup {NONE}]
  /\ soft \in BOOLEAN
  /\ running \in {NONE, SCAN} \cup [fn : Fns, late : 0..MaxLate]
  /\ panicked \in BOOLEAN

(* An entry of the table is on the queue, once, or free: none is lost, and *)
(* none is linked twice, by any order of timeout, untimeout and softclock. *)
Accounted ==
  /\ \A i, j \in 1..Len(calltodo) : calltodo[i] = calltodo[j] => i = j
  /\ callfree = Slots \ { calltodo[i] : i \in 1..Len(calltodo) }
  /\ \A i \in 1..Len(calltodo) : c_func[calltodo[i]] \in Fns

(* What hardclock's comment says of the queue: first the entries that are  *)
(* due, the longest overdue first, then those to come with the difference  *)
(* from the entry before, which is never negative.                         *)
Ordered ==
  \A i \in 1..(Len(calltodo) - 1) :
    IF \A j \in 1..(i + 1) : Time(j) <= 0 THEN Time(i) <= Time(i + 1)
    ELSE Time(i + 1) >= 0

(* The queue is a well-formed list of differences of times.                *)
WellFormed == TypeOK /\ Ordered

(* A table with an entry for each request there may be at a time never     *)
(* overflows, though softclock's functions ask for themselves again.       *)
NoPanic == ~panicked

(* The queue with its differences of times behaves as a set of requests,   *)
(* each with the ticks it has left.                                        *)
Left(i) == IF \A j \in 1..i : Time(j) <= 0 THEN Time(i) ELSE Waited(i)
Requests ==
  [s \in Slots |->
     IF s \notin Range(calltodo) THEN NONE
     ELSE [fn   |-> c_func[s],
           left |-> Left(CHOOSE i \in 1..Len(calltodo) : calltodo[i] = s)]]
Calling == IF running = SCAN THEN NONE ELSE running
Clock == INSTANCE Timers WITH pending <- Requests, called <- Calling
TimersSpec == Clock!Spec

(* Every request is met or withdrawn in the end, whatever else is asked    *)
(* for: the clock ticks, softclock's interrupt is taken and the functions  *)
(* it calls return.                                                        *)
FairSpec == Spec /\ WF_vars(Hardclock) /\ WF_vars(Softclock)
Met == \A s \in Slots : (s \notin callfree) ~> (s \in callfree)

=============================================================================
