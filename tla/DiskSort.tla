------------------------------ MODULE DiskSort ------------------------------
(***************************************************************************)
(* disksort, sys/sys/ufs_dsort.c: where a request goes in a drive's queue. *)
(* The queue is one ascending sweep that starts with the request at work,  *)
(* and the sweep after it, for requests whose cylinder has been passed.    *)
(***************************************************************************)
EXTENDS Integers, Sequences, SequencesExt, FiniteSetsExt

CONSTANTS
  Requests,  (* buffers that may be queued                                 *)
  b_cylin    (* [Requests -> Nat], the cylinder of each                    *)

ASSUME DiskSortAssumption == b_cylin \in [Requests -> Nat]

(* After the i-th request the next sweep begins.                           *)
Inversion(q, i) == i < Len(q) /\ b_cylin[q[i + 1]] < b_cylin[q[i]]

(* The request comes before the i+1-st.  (Variant: also if they are for    *)
(* the same cylinder.)                                                     *)
SoonerOrSame(q, i, bp) == i < Len(q) /\ b_cylin[bp] <= b_cylin[q[i + 1]]

Sooner(q, i, bp) == i < Len(q) /\ b_cylin[bp] < b_cylin[q[i + 1]]

(* Where a request can go: one at or after the cylinder at work into the   *)
(* first sweep, any other into the second.                                 *)
ThisSweep(q, bp) ==
  { i \in 1..Len(q) : i = Len(q) \/ Inversion(q, i) \/ Sooner(q, i, bp) }
NextSweep(q, bp) ==
  { i \in 1..Len(q) : \/ i = Len(q)
                      \/ Sooner(q, i, bp) /\ \E f \in 1..i : Inversion(q, f) }

(* It goes behind the first of these.  (Variant: in front of it.)          *)
InFront(S) == Min(S)
Behind(S)  == Min(S) + 1

Disksort(q, bp) ==
  IF q = <<>> THEN <<bp>>
  ELSE InsertAt(q, Behind(IF b_cylin[bp] < b_cylin[Head(q)] THEN NextSweep(q, bp)
                                                            ELSE ThisSweep(q, bp)), bp)

=============================================================================
