--------------------------- MODULE UpDriverProps ----------------------------
(***************************************************************************)
(* What the disk driver promises.                                          *)
(***************************************************************************)
EXTENDS UpDriver

TypeOK ==
  /\ queue \in [Drives -> Seq(Requests)]
  /\ active \in [Drives -> 0..2]
  /\ ready \in Seq(Drives)
  /\ um_active \in 0..2
  /\ errcnt \in 0..(Retries + 1)
  /\ softas \subseteq Drives
  /\ recal \in 0..3
  /\ fresh \subseteq Drives
  /\ uba \in [wait : BOOLEAN, others : BOOLEAN]
  /\ hw \in [as : SUBSET Drives, pos : SUBSET Drives, busy : BOOLEAN, irq : BOOLEAN,
             ie : BOOLEAN]
  /\ pc \in {"out", "upustart", "upstart"}
  /\ caller \in {NONE, "upstrategy", "doattn", "upreset"}
  /\ again \in Drives \cup {NONE} /\ todo \subseteq Drives
  /\ moving \in Requests \cup {NONE}
  /\ parts \in 0..MaxParts /\ losses \in 0..MaxLosses

(* While the controller is active, the first drive on the ready queue has  *)
(* a request: upintr and ubago follow the pointers unchecked.              *)
HasWork == um_active # 0 => ready # <<>> /\ queue[Dp] # <<>>

(* A drive is on the ready queue once, and is there if it says so.         *)
Resetting  == pc = "upustart" /\ caller = "upreset"
ReadySound ==
  /\ IsInjective(ready)
  /\ \A d \in Drives : active[d] = 2 /\ ~Resetting => Contains(ready, d)
  /\ HasWork

(* The request that ends with a transfer is the one that was transferred:  *)
(* nothing gets in front of it, in either queue.                           *)
EndsWhatRuns == um_active = 2 => moving = Bp

(* Between its routines the driver never leaves the controller idle with a *)
(* drive ready, nor deaf to it.                                            *)
NeverIdle ==
  pc = "out" =>
    /\ um_active = 0 => ready = <<>>
    /\ hw.pos # {} \/ hw.as # {} \/ hw.busy \/ hw.irq => hw.ie \/ uba.wait

(* The elements of a list that are in S, in their order.                   *)
Among(q, S) ==
  LET F[i \in 0..Len(q)] == IF i = 0 THEN <<>>
                            ELSE IF q[i] \in S THEN Append(F[i - 1], q[i]) ELSE F[i - 1]
  IN  F[Len(q)]

(* Requests for one cylinder of a drive are done in order, each once.  (If *)
(* a drive has requests for several before it is set up, the one for its   *)
(* bad-sector table, put in front, makes a third sweep, and disksort may   *)
(* put a later request in front of an earlier one.)                        *)
Place  == [bp \in Buffers |-> <<unit[bp], b_cylin[bp]>>]
Places == { Place[bp] : bp \in Buffers }
For(c) == { bp \in Buffers : b_cylin[bp] = c }
Lines  == [x \in Places |-> Among(queue[x[1]], For(x[2]))]
Order  == INSTANCE DiskOrder WITH place <- Place, line <- Lines
OrderSpec == Order!Spec

(* A drive with requests that was not positioned because the controller    *)
(* was active should be remembered until it can be (comment in upustart);  *)
(* upintr forgets it when it has cleared sc_softas and returns early.      *)
Forgotten(d) == /\ pc = "out" /\ queue[d] # <<>> /\ active[d] = 0
                /\ d \notin softas /\ (um_active # 0 => Dp # d)

(* When requests stop coming, each drive works off its queue, by way of    *)
(* retries, recalibrations, waits for the UNIBUS and the watchdog, or is   *)
(* forgotten.  (While they come, a drive whose interrupt was lost may wait *)
(* for ever: upwatch counts the seconds in which no drive interrupts.)     *)
Fair == /\ WF_vars(Driver) /\ WF_vars(Upintr) /\ WF_vars(Quiet /\ Upwatch)
        /\ WF_vars(Transferred) /\ WF_vars(Ubarelse)
        /\ \A d \in Drives : WF_vars(Positioned(d))
FairSpec == Spec /\ Fair
NoneComes == <>[][\A bp \in Buffers : ~Upstrategy(bp)]_vars
Drained   == \A d \in Drives : queue[d] = <<>> \/ Forgotten(d)
Drains    == NoneComes => <>[]Drained

=============================================================================
