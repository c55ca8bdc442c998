------------------------------ MODULE UpDriver ------------------------------
(***************************************************************************)
(* The driver of the disks on an SC21 UNIBUS controller, sys/vaxuba/up.c,  *)
(* with disksort and with the queue for UNIBUS resources (ubago, ubarelse, *)
(* ubareset in uba.c).  Drives search on their own and raise an attention  *)
(* bit when they are there; the controller transfers for one at a time.    *)
(*                                                                         *)
(* The driver runs at spl5: upstrategy, an interrupt and the watchdog each *)
(* run to their end ("out") before the next begins.  Only the hardware     *)
(* goes on meanwhile, so their loops over drives are steps of their own.   *)
(***************************************************************************)
EXTENDS DiskSort

CONSTANTS
  Drives,    (* units of the controller, numbers                           *)
  Buffers,   (* the requests upstrategy gets                               *)
  bupbuf,    (* [Drives -> Requests], to read the bad-sector table         *)
  unit,      (* [Buffers -> Drives]                                        *)
  Fresh,     (* drives whose pack is not set up yet                        *)
  Retries,   (* 27 in the code: errors after which a transfer fails        *)
  RecalAt,   (* {4, 12, 20}: those after which the drive is recalibrated   *)
  OffsetAt,  (* 16: from which on the heads are offset                     *)
  MaxParts,  (* bound: times a transfer is continued after a bad sector    *)
  MaxLosses, (* bound: interrupts that are lost, and late ones             *)
  NONE

ASSUME UpDriverAssumption ==
  /\ Drives \subseteq Nat
  /\ bupbuf \in [Drives -> Requests \ Buffers]
  /\ unit \in [Buffers -> Drives] /\ Buffers \subseteq Requests
  /\ Fresh \subseteq Drives
  /\ {Retries, OffsetAt, MaxParts, MaxLosses} \subseteq Nat /\ RecalAt \subseteq Nat
  /\ NONE \notin Requests /\ NONE \notin Drives /\ NONE \notin {"doattn", "upreset"}

VARIABLES
  queue,     (* the buffers on b_actf of each drive's uputab               *)
  active,    (* b_active of uputab: 0, 1 searching, 2 on the ready queue   *)
  ready,     (* um_tab.b_actf: drives that are ready to transfer           *)
  um_active, (* um_tab.b_active: 2 transferring, 1 about to                *)
  errcnt,    (* um_tab.b_errcnt                                            *)
  softas,    (* sc_softas: drives to be positioned                         *)
  recal,     (* sc_recal                                                   *)
  fresh,     (* drives that need setting up                                *)
  uba,       (* [wait: is on uh_actf, others: resources are in use]        *)
  hw,        (* as, pos: drives with attention, and positioning;           *)
             (* busy: transferring; irq: interrupt requested; ie: UP_IE    *)
  pc,        (* "out", or the routine that runs: "upustart", "upstart"     *)
  caller,    (* who called it                                              *)
  again,     (* the drive whose request has ended, if it has more          *)
  todo,      (* the drives it is still to be called for after it           *)
  moving,    (* ghost: the buffer the hardware works for                   *)
  parts, losses

sw   == <<queue, active, ready, um_active, errcnt, softas, recal, fresh, uba>>
vars == <<sw, hw, pc, caller, again, todo, moving, parts, losses>>

Dp == Head(ready)          (* the drive that transfers                     *)
Bp == Head(queue[Dp])      (* its request                                  *)

(* A command to a drive also clears its attention.                         *)
Command(h, d) == [h EXCEPT !.as = @ \ {d}, !.pos = @ \cup {d}, !.ie = TRUE]

-----------------------------------------------------------------------------
(* upstrategy, and upustart(d).                                            *)

Upstrategy(bp) ==
  LET d == unit[bp] IN
  /\ pc = "out"
  /\ ~ Contains(queue[d], bp)
  /\ queue' = [queue EXCEPT ![d] = Disksort(@, bp)]
  /\ IF active[d] = 0
       THEN pc' = "upustart" /\ caller' = "upstrategy" /\ todo' = {d}
       ELSE UNCHANGED <<pc, caller, todo>>
  /\ UNCHANGED <<again, active, ready, um_active, errcnt, softas, recal, fresh, uba,
                 hw, moving, parts, losses>>

(* (Variant: a drive that is on the ready queue gets there again.)         *)
ReadyAgain(d) ==
  /\ ready' = Append(ready, d)
  /\ active' = [active EXCEPT ![d] = 2]

Ready(d) ==
  /\ ready' = IF active[d] = 2 /\ caller # "upreset" THEN ready ELSE Append(ready, d)
  /\ active' = [active EXCEPT ![d] = 2]

Remember(d) == softas' = softas \cup {d}

(* upreset clears b_active first.                                          *)
Inactive(d) == active[d] = 0 \/ caller = "upreset"

(* A drive just up reads its bad-sector table first.                       *)
Setup(d) == /\ queue' = IF d \in fresh THEN [queue EXCEPT ![d] = <<bupbuf[d]>> \o @]
                                       ELSE queue
            /\ fresh' = fresh \ {d}

Upustart(d, h) ==
  \/ /\ queue[d] = <<>>
     /\ active' = [active EXCEPT ![d] = IF Inactive(d) THEN 0 ELSE @]
     /\ hw' = h
     /\ UNCHANGED <<queue, ready, softas, fresh>>
  \/ /\ queue[d] # <<>> /\ um_active # 0
     /\ Remember(d)
     /\ hw' = h
     /\ UNCHANGED <<queue, active, ready, fresh>>
  \/ /\ queue[d] # <<>> /\ um_active = 0 /\ ~Inactive(d)
     /\ Ready(d)
     /\ hw' = h
     /\ UNCHANGED <<queue, softas, fresh>>
  \/ (* off line, the only drive, or near enough *)
     /\ queue[d] # <<>> /\ um_active = 0 /\ Inactive(d)
     /\ Setup(d)
     /\ Ready(d)
     /\ hw' = IF d \in fresh THEN [h EXCEPT !.ie = TRUE] ELSE h
     /\ UNCHANGED softas
  \/ (* a search *)
     /\ queue[d] # <<>> /\ um_active = 0 /\ Inactive(d) /\ Drives # {d}
     /\ Setup(d)
     /\ active' = [active EXCEPT ![d] = 1]
     /\ hw' = Command(h, d)
     /\ UNCHANGED <<ready, softas>>

(* One turn of the loops over drives.  upintr clears the attention bits it *)
(* serves, but for the drive whose transfer has ended.                     *)
UpustartNext ==
  LET d == IF again # NONE THEN again ELSE Min(todo)
      h == IF caller = "doattn" /\ again = NONE THEN [hw EXCEPT !.as = @ \ {d}] ELSE hw
  IN
  /\ pc = "upustart" /\ (again # NONE \/ todo # {})
  /\ Upustart(d, h)
  /\ again' = NONE
  /\ todo' = IF again # NONE THEN todo ELSE todo \ {d}
  /\ UNCHANGED <<um_active, errcnt, recal, uba, pc, caller, moving, parts, losses>>

(* After them the controller is started, if it is idle and a drive ready.  *)
(* (Variant: only if a request was queued.)                                *)
StartableLazily == ready # <<>> /\ um_active = 0 /\ caller # "doattn"

Startable == ready # <<>> /\ um_active = 0

Leave == /\ pc' = "out" /\ caller' = NONE
         /\ hw' = IF caller = "doattn" THEN [hw EXCEPT !.ie = TRUE] ELSE hw

UpustartDone ==
  /\ pc = "upustart" /\ again = NONE /\ todo = {}
  /\ IF Startable THEN pc' = "upstart" /\ UNCHANGED <<hw, caller>> ELSE Leave
  /\ UNCHANGED <<sw, again, todo, moving, parts, losses>>

-----------------------------------------------------------------------------
(* upstart: one turn of its loop.                                          *)

UpstartEmpty ==
  /\ pc = "upstart" /\ ready = <<>>
  /\ Leave
  /\ UNCHANGED <<sw, again, todo, moving, parts, losses>>

UpstartSkip ==
  /\ pc = "upstart" /\ ready # <<>> /\ queue[Dp] = <<>>
  /\ ready' = Tail(ready)
  /\ UNCHANGED <<queue, active, um_active, errcnt, softas, recal, fresh, uba, hw, pc,
                 caller, again, todo, moving, parts, losses>>

UpstartNotReady ==
  /\ pc = "upstart" /\ ready # <<>> /\ queue[Dp] # <<>>
  /\ um_active' = 0 /\ errcnt' = 0
  /\ queue' = [queue EXCEPT ![Dp] = Tail(@)]
  /\ active' = [active EXCEPT ![Dp] = 0]
  /\ UNCHANGED <<ready, softas, recal, fresh, uba, hw, pc, caller, again, todo,
                 moving, parts, losses>>

(* updgo: the transfer starts.                                             *)
Updgo == /\ um_active' = 2
         /\ hw' = [hw EXCEPT !.as = @ \ {Dp}, !.busy = TRUE, !.ie = TRUE]
         /\ moving' = Bp

UpstartGo ==
  /\ pc = "upstart" /\ ready # <<>> /\ queue[Dp] # <<>>
  /\ Updgo
  /\ pc' = "out" /\ caller' = NONE
  /\ UNCHANGED <<queue, active, ready, errcnt, softas, recal, fresh, uba, again, todo,
                 parts, losses>>

(* ubago finds no resources.                                               *)
UpstartWait ==
  /\ pc = "upstart" /\ ready # <<>> /\ queue[Dp] # <<>> /\ uba.others
  /\ um_active' = 1
  /\ uba' = [uba EXCEPT !.wait = TRUE]
  /\ pc' = "out" /\ caller' = NONE
  /\ UNCHANGED <<queue, active, ready, errcnt, softas, recal, fresh, hw, again, todo,
                 moving, parts, losses>>

(* Other devices take UNIBUS resources, and give them back (ubarelse).     *)
OthersTake ==
  /\ pc = "out" /\ ~uba.others
  /\ uba' = [uba EXCEPT !.others = TRUE]
  /\ UNCHANGED <<queue, active, ready, um_active, errcnt, softas, recal, fresh, hw,
                 pc, caller, again, todo, moving, parts, losses>>

Ubarelse ==
  /\ pc = "out" /\ uba.others
  /\ uba' = [wait |-> FALSE, others |-> FALSE]
  /\ IF uba.wait THEN Updgo ELSE UNCHANGED <<um_active, hw, moving>>
  /\ UNCHANGED <<queue, active, ready, errcnt, softas, recal, fresh, pc, caller,
                 again, todo, parts, losses>>

-----------------------------------------------------------------------------
(* The hardware.                                                           *)

Loses == losses < MaxLosses /\ losses' = losses + 1

(* A drive has reached its position.                                       *)
Positioned(d) ==
  /\ d \in hw.pos
  /\ \/ hw' = [hw EXCEPT !.pos = @ \ {d}, !.as = @ \cup {d}] /\ UNCHANGED losses
     \/ hw' = [hw EXCEPT !.pos = @ \ {d}] /\ Loses
  /\ UNCHANGED <<sw, pc, caller, again, todo, moving, parts>>

Transferred ==
  /\ hw.busy
  /\ \/ hw' = [hw EXCEPT !.busy = FALSE, !.irq = TRUE] /\ UNCHANGED losses
     \/ hw' = [hw EXCEPT !.busy = FALSE] /\ Loses
  /\ UNCHANGED <<sw, pc, caller, again, todo, moving, parts>>

Interrupt == pc = "out" /\ hw.ie /\ ~hw.busy /\ (hw.irq \/ hw.as # {})
Taken     == [hw EXCEPT !.irq = FALSE, !.ie = FALSE]

-----------------------------------------------------------------------------
(* upintr.  The attention bits are read and sc_softas is cleared first.    *)

As == hw.as \cup softas

(* Nothing was being transferred: only attention.                          *)
UpintrAttention ==
  /\ Interrupt /\ um_active # 2 /\ recal = 0
  /\ softas' = {}
  /\ pc' = "upustart" /\ caller' = "doattn" /\ todo' = As
  /\ hw' = Taken
  /\ UNCHANGED <<again, queue, active, ready, um_active, errcnt, recal, fresh, uba,
                 moving, parts, losses>>

UpintrTransfer == Interrupt /\ (um_active = 2 \/ recal # 0) /\ softas' = {}

(* upecc: part of the transfer remains to be done.                         *)
UpintrContinue ==
  /\ UpintrTransfer /\ recal = 0
  /\ parts < MaxParts /\ parts' = parts + 1
  /\ um_active' = 2 /\ errcnt' = 0
  /\ hw' = [Taken EXCEPT !.as = @ \ {Dp}, !.busy = TRUE, !.ie = TRUE]
  /\ UNCHANGED <<queue, active, ready, recal, fresh, uba, pc, caller, again, todo,
                 moving, losses>>

(* The steps of a recalibration: RECAL, SEEK, OFFSET, and a retry.         *)
Nextrecal(n) ==
  /\ recal' = n
  /\ um_active' = 1
  /\ hw' = Command(Taken, Dp)
  /\ UNCHANGED <<queue, active, ready, fresh, uba, pc, caller, again, todo, moving,
                 parts, losses>>

(* b_errcnt after an interrupt that does not start to recalibrate: as it   *)
(* was, or with one more error.  (From Retries on it need not be counted.) *)
Errcnt == {errcnt} \cup ({ Min({errcnt + 1, Retries + 1}) } \ RecalAt)

UpintrRecal ==
  /\ UpintrTransfer
  /\ errcnt < Retries /\ errcnt + 1 \in RecalAt
  /\ errcnt' = errcnt + 1
  /\ Nextrecal(1)

(* A seek, and for a read with many errors an offset.                      *)
Moves(e) == recal = 1 \/ (recal = 2 /\ e >= OffsetAt)

UpintrSeek ==
  /\ UpintrTransfer
  /\ errcnt' \in Errcnt
  /\ Moves(errcnt')
  /\ Nextrecal(recal + 1)

(* What follows, unless upintr has returned: the end of a request, if it   *)
(* was the last try, and its drive's next one; then the other drives.      *)
ReadyAfter == Tail(ready)

Iodone ==
  /\ um_active' = 0 /\ errcnt' = 0 /\ parts' = 0
  /\ ready' = ReadyAfter
  /\ active' = [active EXCEPT ![Dp] = 0]
  /\ queue' = [queue EXCEPT ![Dp] = Tail(@)]
  /\ caller' = "doattn" /\ todo' = As \ {Dp}
  /\ again' = IF Tail(queue[Dp]) = <<>> THEN NONE ELSE Dp

(* Success, or an error nothing helps against.  An error is cleared, and   *)
(* heads that were offset return, which raises attention.  (A write to a   *)
(* locked drive is an error that is not counted.)                          *)
UpintrDone ==
  \E e \in {errcnt, errcnt + 1}, failed \in BOOLEAN :
    /\ e # errcnt => failed
    /\ UpintrTransfer /\ recal = 0
    /\ Iodone
    /\ recal' = 0 /\ moving' = NONE
    /\ hw' = IF e >= OffsetAt THEN [Taken EXCEPT !.ie = TRUE, !.as = @ \cup {Dp}]
             ELSE [Taken EXCEPT !.ie = failed]
    /\ pc' = "upustart"
    /\ UNCHANGED <<fresh, uba, losses>>

(* A retry, after an error or after recalibrating.                         *)
UpintrRetry ==
  /\ UpintrTransfer
  /\ errcnt' \in Errcnt
  /\ \/ recal = 0 /\ errcnt < Retries /\ errcnt' # errcnt
     \/ recal \in {2, 3}
  /\ um_active' = 0 /\ recal' = 0 /\ moving' = NONE
  /\ hw' = [Taken EXCEPT !.ie = errcnt' # errcnt]
  /\ pc' = "upustart" /\ caller' = "doattn" /\ todo' = As \ {Dp}
  /\ UNCHANGED <<again, queue, active, ready, fresh, uba, parts, losses>>

-----------------------------------------------------------------------------
(* upwatch: 20 seconds without an interrupt, though something is active.   *)

Quiet == /\ ~hw.busy /\ hw.pos = {} /\ ~uba.wait
         /\ ~(hw.ie /\ (hw.irq \/ hw.as # {}))

(* (Variant: only the controller is watched.)                              *)
WatchedController == um_active # 0

Watched == um_active # 0 \/ \E d \in Drives : active[d] # 0

Upwatch ==
  /\ pc = "out"
  /\ Watched
  /\ IF Quiet THEN UNCHANGED losses ELSE Loses
  /\ um_active' = 0 /\ ready' = <<>> /\ recal' = 0
  /\ uba' = [wait |-> FALSE, others |-> FALSE]
  /\ hw' = [as |-> {}, pos |-> {}, busy |-> FALSE, irq |-> FALSE, ie |-> FALSE]
  /\ pc' = "upustart" /\ caller' = "upreset" /\ todo' = Drives
  /\ moving' = NONE
  /\ UNCHANGED <<again, queue, active, errcnt, softas, fresh, parts>>

-----------------------------------------------------------------------------
Init ==
  /\ queue = [d \in Drives |-> <<>>] /\ active = [d \in Drives |-> 0]
  /\ ready = <<>> /\ um_active = 0 /\ errcnt = 0 /\ softas = {} /\ recal = 0
  /\ fresh = Fresh
  /\ uba = [wait |-> FALSE, others |-> FALSE]
  /\ hw = [as |-> {}, pos |-> {}, busy |-> FALSE, irq |-> FALSE, ie |-> FALSE]
  /\ pc = "out" /\ caller = NONE /\ again = NONE /\ todo = {} /\ moving = NONE
  /\ parts = 0 /\ losses = 0

Driver == \/ UpustartNext \/ UpustartDone
          \/ UpstartEmpty \/ UpstartSkip \/ UpstartNotReady \/ UpstartGo \/ UpstartWait
Upintr == \/ UpintrAttention \/ UpintrContinue \/ UpintrRecal \/ UpintrSeek
          \/ UpintrDone \/ UpintrRetry
Hardware == Transferred \/ \E d \in Drives : Positioned(d)

Next == \/ \E bp \in Buffers : Upstrategy(bp)
        \/ Driver \/ Upintr \/ Hardware \/ Upwatch \/ OthersTake \/ Ubarelse

Spec == Init /\ [][Next]_vars

=============================================================================
