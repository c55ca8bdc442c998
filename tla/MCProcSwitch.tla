---------------------------- MODULE MCProcSwitch ----------------------------
(***************************************************************************)
(* A shell and its job, a child of the shell that gets the signals; both   *)
(* sleep, exit and are swapped.                                            *)
(***************************************************************************)
EXTENDS ProcSwitchProps

CONSTANTS sh, job, c1

Family == [p \in Users |-> IF p = job THEN sh ELSE PROC1]
Table  == [p \in Users |-> IF p = job THEN 3 ELSE 2]
ToJob  == [p \in Users |-> IF p = job THEN {"TSTP", "CONT"} ELSE {}]
NoneOf == [p \in Users |-> {}]

=============================================================================
