------------------------------ MODULE MCCallout -----------------------------
(***************************************************************************)
(* Small instances of Callout.                                             *)
(***************************************************************************)
EXTENDS CalloutProps

CONSTANTS s1, s2, s3, f1, f2

(* f1 may be on the queue twice.                                           *)
TwiceAndOnce == [f \in Fns |-> IF f = f1 THEN 2 ELSE 1]
=============================================================================
