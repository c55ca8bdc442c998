----------------------------- MODULE MCUpDriver -----------------------------
(***************************************************************************)
(* Small instances of UpDriver.                                            *)
(***************************************************************************)
EXTENDS UpDriverProps

CONSTANTS a, b, c, x, y

(* Two requests for one cylinder of drive 0, and one for drive 1; the      *)
(* bad-sector tables are on the last cylinder.                             *)
Tables   == [d \in Drives |-> IF d = 0 THEN x ELSE y]
Unit     == [bp \in Buffers |-> IF bp = c THEN 1 ELSE 0]
Cylinder == [bp \in Requests |-> IF bp \in {x, y} THEN 2 ELSE 1]
=============================================================================
