------------------------------- MODULE Timers -------------------------------
(***************************************************************************)
(* What timeout, untimeout and the clock promise (sys/sys/kern_clock.c):   *)
(* a request to call a function in so many ticks is met once, not before   *)
(* its time, the longest overdue first, and the function learns how many   *)
(* ticks late it is.  A request that is withdrawn is not met.              *)
(***************************************************************************)
EXTENDS Integers

CONSTANTS
  Slots,     (* the requests there may be at a time                        *)
  Fns,       (* functions with their arguments                             *)
  Ticks,     (* times that are asked for                                   *)
  NONE       (* no request                                                 *)

VARIABLES
  pending,   (* the function and the ticks left of each request            *)
  called     (* the function the clock is calling, and with what lateness  *)

Pending    == { s \in Slots : pending[s] # NONE }
Soonest(S) == { s \in S : \A r \in S : pending[s].left <= pending[r].left }

Init == /\ pending = [s \in Slots |-> NONE]
        /\ called = NONE

Set ==
  \E s \in Slots \ Pending, f \in Fns, t \in Ticks :
    /\ pending' = [pending EXCEPT ![s] = [fn |-> f, left |-> t]]
    /\ UNCHANGED called

Tick ==
  /\ pending' = [s \in Slots |->
                   IF s \in Pending THEN [pending[s] EXCEPT !.left = @ - 1]
                                    ELSE NONE]
  /\ UNCHANGED called

Call ==
  \E s \in Soonest(Pending) :
    /\ called = NONE /\ pending[s].left <= 0
    /\ called' = [fn |-> pending[s].fn, late |-> -pending[s].left]
    /\ pending' = [pending EXCEPT ![s] = NONE]

Return == called # NONE /\ called' = NONE /\ UNCHANGED pending

(* Of two requests for one function the one that is due first is dropped.  *)
Cancel ==
  \E f \in Fns : \E s \in Soonest({ r \in Pending : pending[r].fn = f }) :
    /\ pending' = [pending EXCEPT ![s] = NONE]
    /\ UNCHANGED called

Next == Set \/ Tick \/ Call \/ Return \/ Cancel

Spec == Init /\ [][Next]_<<pending, called>>

=============================================================================
