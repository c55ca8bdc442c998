------------------------------ MODULE BufCache ------------------------------
(***************************************************************************)
(* The block buffer cache of the kernel, sys/sys/ufs_bio.c, as a protocol  *)
(* between processes, the free lists, and the disk interrupt.              *)
(*                                                                         *)
(* A process inside the kernel keeps the processor until it sleeps; only   *)
(* interrupts come in between.  An action below is a piece of code that    *)
(* runs without sleeping, "cpu" is the process that is in the middle of    *)
(* such a run, and DiskIntr (biodone) may happen between any two pieces.   *)
(*                                                                         *)
(* Disk addresses and sizes are in sectors of DEV_BSIZE bytes; memory is   *)
(* handed out in clusters of ClSectors sectors (CLBYTES).  All the blocks  *)
(* of a device lie in one hash chain (one BUFHASH group of RND sectors),   *)
(* so the chain of a block is the set of buffers of its device.  B_LOCKED  *)
(* is never set by any code of the kernel and is left out, with its queue. *)
(***************************************************************************)
EXTENDS Integers, Sequences, FiniteSets

CONSTANTS
  Procs,        (* processes that enter the block I/O system               *)
  Bufs,         (* buffer headers, the array buf[nbuf]                     *)
  Devs,         (* block devices                                           *)
  Sectors,      (* sector numbers of a device                              *)
  Ops,          (* the entry points and the ways to write that are used    *)
  ClSectors,    (* sectors of a memory cluster, CLBYTES / DEV_BSIZE        *)
  InitBufsize,  (* b_bufsize given to each header by binit                 *)
  InitFsize,    (* size of the block that starts at each sector, 0: none   *)
  MaxSize,      (* sectors of the largest block, MAXBSIZE / DEV_BSIZE      *)
  ReadAhead,    (* the block read ahead of each block, NONE: none          *)
  IOErrors,     (* whether a transfer may fail                             *)
  NODEV,        (* the device of a buffer that holds no block              *)
  FREELIST,     (* the sleep channel bfreelist                             *)
  NONE          (* no buffer, no request, no channel, no process           *)

ASSUME BufCacheAssumption ==
  /\ IsFiniteSet(Bufs)
  /\ Sectors \subseteq Nat /\ Sectors # {}
  /\ ClSectors \in Nat \ {0}
  /\ MaxSize \in Nat \ {0}
  /\ InitBufsize \in [Bufs -> Nat]
  /\ InitFsize \in [Devs \X Sectors -> 0..MaxSize]
  /\ ReadAhead \in [Devs \X Sectors -> Sectors \cup {NONE}]
  /\ IOErrors \in BOOLEAN
  /\ NODEV \notin Devs
  /\ NONE \notin Bufs \cup Procs \cup {FREELIST}
  /\ NONE \notin [dev : Devs \cup {NODEV}, blkno : Sectors, size : 0..MaxSize]
  /\ FREELIST \notin Bufs

(* The blocks that are there at the start lie on their devices.            *)
ASSUME OnDeviceAssumption ==
  \A d \in Devs, b \in Sectors : b..(b + InitFsize[<<d, b>>] - 1) \subseteq Sectors

VARIABLES
  buf,        (* the headers: flags, device, block, size, memory           *)
  bfreelist,  (* the free lists, oldest buffer first                       *)
  flwanted,   (* B_WANTED of bfreelist[0]                                  *)
  ioq,        (* buffers handed to a driver, in the order of the calls     *)
  u,          (* what each process is doing                                *)
  wchan,      (* p_wchan: what a process sleeps on                         *)
  cpu,        (* the process in the middle of a run, NONE between runs     *)
  fsize,      (* how the file system has cut the device into blocks        *)
  cur,        (* the sectors whose last written contents a buffer holds    *)
  diskcur,    (* the sectors whose last written contents the disk holds    *)
  lost        (* the sectors whose last write the device failed            *)

vars == <<buf, bfreelist, flwanted, ioq, u, wchan, cpu, fsize,
          cur, diskcur, lost>>

-----------------------------------------------------------------------------
(* Types and constants of h/buf.h.                                         *)

Flags == {"READ", "DONE", "ERROR", "BUSY", "WANTED", "AGE", "ASYNC",
          "DELWRI", "INVAL"}

BQ == {"LRU", "AGE", "EMPTY"}

Buf == [b_flags : SUBSET Flags, b_dev : Devs \cup {NODEV},
        b_blkno : Sectors \cup {0}, b_bcount : Nat, b_bufsize : Nat]

Request == [dev : Devs \cup {NODEV}, blkno : Sectors, size : 0..MaxSize]

PCs == {"idle", "getblk", "getnew", "overlap", "owait", "alloc", "swait",
        "gotten", "rwait", "own", "wwait", "breada", "ra", "blkflush",
        "fwait", "bflush", "binval"}

AllSectors == Devs \X Sectors

Has(bp, f)  == f \in buf[bp].b_flags
SectorsOf(d, b, n) == { <<d, i>> : i \in b..(b + n - 1) }
Extent(B)   == SectorsOf(B.b_dev, B.b_blkno, B.b_bcount)
Span(r)     == SectorsOf(r.dev, r.blkno, r.size)
Idle        == [pc |-> "idle", op |-> "none", req |-> NONE, main |-> NONE,
                ra |-> NONE, tp |-> NONE, ep |-> NONE, hold |-> NONE]

(* (Variant: rounding down.)                                               *)
RoundDown(n) == (n \div ClSectors) * ClSectors

Roundup(n)  == ((n + ClSectors - 1) \div ClSectors) * ClSectors

(* The processor: p may run if it is awake and nobody is in mid-run.       *)
Running(p)  == cpu \in {p, NONE} /\ wchan[p] = NONE

(* p goes on to pc, with the processor or giving it up.                    *)
Goto(p, pc)  == /\ u' = [u EXCEPT ![p].pc = pc] /\ cpu' = p
Return(p)    == /\ u' = [u EXCEPT ![p] = Idle] /\ cpu' = NONE

(* sleep(chan): the run ends.  wakeup(chan) makes its sleepers runnable.   *)
Sleep(p, chan)   == /\ wchan' = [wchan EXCEPT ![p] = chan] /\ cpu' = NONE
Wakeup(w, chans) == [p \in Procs |-> IF w[p] \in chans THEN NONE ELSE w[p]]

(* The buffers a chain search for (d, b) stops at.                         *)
Incore(d, b) == { bp \in Bufs : /\ buf[bp].b_blkno = b
                                /\ buf[bp].b_dev = d
                                /\ ~Has(bp, "INVAL") }

(* The buffers that map a sector of b..b+n-1, as brealloc and blkflush     *)
(* look for them: valid, with contents, and not disjoint from the range.   *)
(* (Variant: the last sector of the range is left out.)                    *)
OverlappingShort(d, b, n) ==
  { ep \in Bufs : /\ buf[ep].b_dev = d
                  /\ ~Has(ep, "INVAL")
                  /\ buf[ep].b_bcount # 0
                  /\ buf[ep].b_blkno < b + n - 1
                  /\ buf[ep].b_blkno + buf[ep].b_bcount > b }

Overlapping(d, b, n) ==
  { ep \in Bufs : /\ buf[ep].b_dev = d
                  /\ ~Has(ep, "INVAL")
                  /\ buf[ep].b_bcount # 0
                  /\ buf[ep].b_blkno <= b + n - 1
                  /\ buf[ep].b_blkno + buf[ep].b_bcount > b }

-----------------------------------------------------------------------------
(* Free lists.                                                             *)

Elems(s) == { s[i] : i \in 1..Len(s) }

(* bremfree: unlink bp from the list it is on.                             *)
Unlink(s, bp) ==
  IF bp \in Elems(s)
    THEN LET k == CHOOSE i \in 1..Len(s) : s[i] = bp
         IN  [i \in 1..(Len(s) - 1) |-> IF i < k THEN s[i] ELSE s[i + 1]]
    ELSE s

(* (Variant: the buffer stays on the free list.)                           *)
NotavailForgotten(bp) == bfreelist

Notavail(bp) == [q \in BQ |-> Unlink(bfreelist[q], bp)]

(* The queue brelse puts a buffer on, and whether at its head.             *)
NoInfo(B)    == B.b_bufsize = 0 \/ B.b_flags \cap {"ERROR", "INVAL"} # {}
FreeQueue(B) == IF B.b_bufsize = 0 THEN "EMPTY"
                ELSE IF NoInfo(B) \/ "AGE" \in B.b_flags THEN "AGE" ELSE "LRU"
Put(fl, bp, B) ==
  [fl EXCEPT ![FreeQueue(B)] = IF NoInfo(B) THEN <<bp>> \o @ ELSE Append(@, bp)]

(* brelse(bp), for headers b and free lists fl.                            *)
Released(B) ==
  [B EXCEPT !.b_flags = @ \ {"WANTED", "BUSY", "ASYNC", "AGE"},
            !.b_dev   = IF "ERROR" \in B.b_flags THEN NODEV ELSE @]

Brelse(bp, b, fl) ==
  /\ buf' = [b EXCEPT ![bp] = Released(@)]
  /\ bfreelist' = Put(fl, bp, b[bp])
  /\ flwanted' = FALSE
  /\ wchan' = Wakeup(wchan, (IF "WANTED" \in b[bp].b_flags THEN {bp} ELSE {})
                            \cup (IF flwanted THEN {FREELIST} ELSE {}))

(* The header after bwrite has given it to the driver.  (bwrite sets B_AGE *)
(* when the driver has returned; were the transfer to end within it, the   *)
(* buffer would be released to LRU and age the next time.)                 *)
Bwritten(B) ==
  [B EXCEPT !.b_flags = (@ \ {"READ", "DONE", "ERROR", "DELWRI"})
                        \cup (IF {"ASYNC", "DELWRI"} \subseteq @
                                THEN {"AGE"} ELSE {})]

Strategy(bp) == ioq' = Append(ioq, bp)

(* The headers once bp is marked busy with flags fs added, or wanted by    *)
(* somebody who goes to sleep on it.                                       *)
(* (Variants: not marked busy; not marked wanted.)                         *)
TakenUnmarked(bp, fs) == [buf EXCEPT ![bp].b_flags = @ \cup fs]
WantedUnmarked(bp)    == buf

Taken(bp, fs) == [buf EXCEPT ![bp].b_flags = @ \cup {"BUSY"} \cup fs]
Wanted(bp)    == [buf EXCEPT ![bp].b_flags = @ \cup {"WANTED"}]

-----------------------------------------------------------------------------
(* getnewbuf: the buffer at the head of AGE, or else of LRU.               *)

NoneFree == bfreelist["AGE"] = <<>> /\ bfreelist["LRU"] = <<>>
Victim   == Head(bfreelist[IF bfreelist["AGE"] # <<>> THEN "AGE" ELSE "LRU"])

(* The header of a victim that getnewbuf hands over, in the hash chain of  *)
(* block b of d with no contents.                                          *)
(* (Variant: B_DONE is kept from the block it had before.)                 *)
BoundKeepDone(bp, fs, d, b) ==
  [buf EXCEPT ![bp] = [@ EXCEPT !.b_flags = fs \cup (@ \cap {"DONE"}),
                                !.b_dev = d, !.b_blkno = b, !.b_bcount = 0]]

Bound(bp, fs, d, b) ==
  [buf EXCEPT ![bp] = [@ EXCEPT !.b_flags = fs, !.b_dev = d, !.b_blkno = b,
                                !.b_bcount = 0]]

NeedsNew(p) ==
  /\ Running(p)
  /\ \/ u[p].pc = "getnew"
     \/ u[p].pc = "alloc" /\ Roundup(u[p].req.size) > buf[u[p].tp].b_bufsize

GetnewSleep(p) ==
  /\ NeedsNew(p) /\ NoneFree
  /\ flwanted' = TRUE
  /\ Sleep(p, FREELIST)
  /\ UNCHANGED <<buf, bfreelist, ioq, u, fsize, cur, diskcur, lost>>

(* A delayed-write victim is written asynchronously, and the search goes   *)
(* on.  The buffer ages because it was delayed (end of bwrite).            *)
GetnewFlush(p) ==
  /\ NeedsNew(p) /\ ~NoneFree /\ Has(Victim, "DELWRI")
  /\ buf' = [buf EXCEPT ![Victim] = Bwritten(Taken(Victim, {"ASYNC"})[Victim])]
  /\ bfreelist' = Notavail(Victim)
  /\ Strategy(Victim)
  /\ Goto(p, u[p].pc)
  /\ UNCHANGED <<flwanted, wchan, fsize, cur, diskcur, lost>>

(* getblk takes the victim over for its block, without contents.           *)
GetblkBind(p) ==
  /\ NeedsNew(p) /\ u[p].pc = "getnew" /\ u[p].op # "geteblk"
  /\ ~NoneFree /\ ~Has(Victim, "DELWRI")
  /\ buf' = Bound(Victim, {"BUSY"}, u[p].req.dev, u[p].req.blkno)
  /\ cur' = [cur EXCEPT ![Victim] = {}]
  /\ bfreelist' = Notavail(Victim)
  /\ u' = [u EXCEPT ![p] = [@ EXCEPT !.pc = "overlap", !.tp = Victim]]
  /\ cpu' = p
  /\ UNCHANGED <<flwanted, ioq, wchan, fsize, diskcur, lost>>

(* geteblk: the same, for no block of any device.                          *)
GeteblkBind(p) ==
  /\ NeedsNew(p) /\ u[p].pc = "getnew" /\ u[p].op = "geteblk"
  /\ ~NoneFree /\ ~Has(Victim, "DELWRI")
  /\ buf' = Bound(Victim, {"BUSY", "INVAL"}, NODEV, buf[Victim].b_blkno)
  /\ cur' = [cur EXCEPT ![Victim] = {}]
  /\ bfreelist' = Notavail(Victim)
  /\ u' = [u EXCEPT ![p] = [@ EXCEPT !.pc = "alloc", !.tp = Victim]]
  /\ cpu' = p
  /\ UNCHANGED <<flwanted, ioq, wchan, fsize, diskcur, lost>>

-----------------------------------------------------------------------------
(* brealloc(bp, n) for a busy bp whose header is B: same size, dirty and   *)
(* shrinking (write it, start again), shrinking, or growing.               *)

Brealloc(p, bp, B, n) ==
  \/ /\ n = B.b_bcount
     /\ buf' = [buf EXCEPT ![bp] = B]
     /\ u' = [u EXCEPT ![p] = [@ EXCEPT !.pc = "gotten", !.tp = bp]]
     /\ UNCHANGED ioq
  \/ /\ n < B.b_bcount /\ "DELWRI" \in B.b_flags
     /\ buf' = [buf EXCEPT ![bp] = Bwritten(B)]
     /\ Strategy(bp)
     /\ u' = [u EXCEPT ![p] = [@ EXCEPT !.pc = "swait", !.tp = bp]]
  \/ /\ n < B.b_bcount /\ "DELWRI" \notin B.b_flags
     /\ buf' = [buf EXCEPT ![bp] = B]
     /\ u' = [u EXCEPT ![p] = [@ EXCEPT !.pc = "alloc", !.tp = bp]]
     /\ UNCHANGED ioq
  \/ /\ n > B.b_bcount
     /\ buf' = [buf EXCEPT ![bp] = [B EXCEPT !.b_flags = @ \ {"DONE"}]]
     /\ u' = [u EXCEPT ![p] = [@ EXCEPT !.pc = "overlap", !.tp = bp]]
     /\ UNCHANGED ioq

(* getblk, the search: sleep on a busy hit, take a free one, or miss.      *)
GetblkBusy(p) ==
  /\ Running(p) /\ u[p].pc = "getblk"
  /\ \E bp \in Incore(u[p].req.dev, u[p].req.blkno) :
       /\ Has(bp, "BUSY")
       /\ buf' = Wanted(bp)
       /\ Sleep(p, bp)
  /\ UNCHANGED <<bfreelist, flwanted, ioq, u, fsize, cur, diskcur, lost>>

GetblkHit(p) ==
  /\ Running(p) /\ u[p].pc = "getblk"
  /\ \E bp \in Incore(u[p].req.dev, u[p].req.blkno) :
       /\ ~Has(bp, "BUSY")
       /\ bfreelist' = Notavail(bp)
       /\ Brealloc(p, bp, Taken(bp, {})[bp], u[p].req.size)
  /\ cpu' = p
  /\ UNCHANGED <<flwanted, wchan, fsize, cur, diskcur, lost>>

GetblkMiss(p) ==
  /\ Running(p) /\ u[p].pc = "getblk"
  /\ Incore(u[p].req.dev, u[p].req.blkno) = {}
  /\ Goto(p, "getnew")
  /\ UNCHANGED <<buf, bfreelist, flwanted, ioq, wchan, fsize, cur, diskcur, lost>>

(* brealloc, the loop over the other buffers that map part of the block.   *)
Others(p) == Overlapping(u[p].req.dev, u[p].req.blkno, u[p].req.size) \ {u[p].tp}

OverlapBusy(p) ==
  /\ Running(p) /\ u[p].pc = "overlap"
  /\ \E ep \in Others(p) :
       /\ Has(ep, "BUSY")
       /\ buf' = Wanted(ep)
       /\ Sleep(p, ep)
  /\ UNCHANGED <<bfreelist, flwanted, ioq, u, fsize, cur, diskcur, lost>>

OverlapDirty(p) ==
  /\ Running(p) /\ u[p].pc = "overlap"
  /\ \E ep \in Others(p) :
       /\ ~Has(ep, "BUSY") /\ Has(ep, "DELWRI")
       /\ buf' = [buf EXCEPT ![ep] = Bwritten(Taken(ep, {})[ep])]
       /\ bfreelist' = Notavail(ep)
       /\ Strategy(ep)
       /\ u' = [u EXCEPT ![p] = [@ EXCEPT !.pc = "owait", !.ep = ep]]
  /\ cpu' = p
  /\ UNCHANGED <<flwanted, wchan, fsize, cur, diskcur, lost>>

OverlapClean(p) ==
  /\ Running(p) /\ u[p].pc = "overlap"
  /\ \E ep \in Others(p) :
       /\ ~Has(ep, "BUSY") /\ ~Has(ep, "DELWRI")
       /\ Brelse(ep, Taken(ep, {"INVAL"}), Notavail(ep))
  /\ cpu' = p
  /\ UNCHANGED <<ioq, u, fsize, cur, diskcur, lost>>

OverlapNone(p) ==
  /\ Running(p) /\ u[p].pc = "overlap"
  /\ Others(p) = {}
  /\ Goto(p, "alloc")
  /\ UNCHANGED <<buf, bfreelist, flwanted, ioq, wchan, fsize, cur, diskcur, lost>>

-----------------------------------------------------------------------------
(* allocbuf(tp, n), n = req.size.                                          *)

(* tp's block is now n sectors long.                                       *)
Sized(b, tp, n) == [b EXCEPT ![tp].b_bcount = n]
(* (Variant: the excess is computed before rounding.)                      *)
ExcessUnrounded(tp, n) == buf[tp].b_bufsize - n

Excess(tp, n)   == buf[tp].b_bufsize - Roundup(n)
Trimmed(tp, n)  == [cur EXCEPT ![tp] =
                      @ \cap SectorsOf(buf[tp].b_dev, buf[tp].b_blkno, n)]

AllocKeep(p) ==
  LET tp == u[p].tp
      n  == u[p].req.size
  IN  /\ Running(p) /\ u[p].pc = "alloc"
      /\ \/ Roundup(n) = buf[tp].b_bufsize
         \/ Roundup(n) < buf[tp].b_bufsize /\ bfreelist["EMPTY"] = <<>>
      /\ buf' = Sized(buf, tp, n)
      /\ cur' = Trimmed(tp, n)
      /\ Goto(p, "gotten")
      /\ UNCHANGED <<bfreelist, flwanted, ioq, wchan, fsize, diskcur, lost>>

(* The excess goes to an empty header, which is released.                  *)
AllocShrink(p) ==
  LET tp == u[p].tp
      n  == u[p].req.size
      ep == Head(bfreelist["EMPTY"])
  IN  /\ Running(p) /\ u[p].pc = "alloc"
      /\ Roundup(n) < buf[tp].b_bufsize /\ bfreelist["EMPTY"] # <<>>
      /\ Brelse(ep, [Sized(Taken(ep, {"INVAL"}), tp, n) EXCEPT
                       ![tp].b_bufsize = Roundup(n),
                       ![ep].b_bufsize = Excess(tp, n),
                       ![ep].b_bcount  = 0],
                    Notavail(ep))
      /\ cur' = [Trimmed(tp, n) EXCEPT ![ep] = {}]
      /\ Goto(p, "gotten")
      /\ UNCHANGED <<ioq, fsize, diskcur, lost>>

(* Memory is taken from a victim: as much as is needed, or all of it.  A   *)
(* victim left with some keeps its block, cut short and without contents;  *)
(* one left with none becomes an empty header.  The loop ends when tp has  *)
(* enough (AllocKeep).                                                     *)
Least(m, n) == IF m <= n THEN m ELSE n
Robbed(B, left) ==
  [b_flags   |-> IF left = 0 THEN {"BUSY", "INVAL"} ELSE {"BUSY"},
   b_dev     |-> IF left = 0 THEN NODEV ELSE B.b_dev,
   b_blkno   |-> B.b_blkno,
   b_bcount  |-> Least(B.b_bcount, left),
   b_bufsize |-> left]

AllocTake(p) ==
  LET tp   == u[p].tp
      bp   == Victim
      take == Least(Roundup(u[p].req.size) - buf[tp].b_bufsize, buf[bp].b_bufsize)
      b    == [buf EXCEPT ![tp].b_bufsize = @ + take]
  IN  /\ NeedsNew(p) /\ u[p].pc = "alloc"
      /\ ~NoneFree /\ ~Has(bp, "DELWRI")
      /\ Brelse(bp, [b EXCEPT ![bp] = Robbed(b[bp], b[bp].b_bufsize - take)],
                    Notavail(bp))
      /\ cur' = [cur EXCEPT ![bp] = {}]
      /\ Goto(p, "alloc")
      /\ UNCHANGED <<ioq, fsize, diskcur, lost>>

-----------------------------------------------------------------------------
(* biowait: sleep until the transfer of the buffer the process waits for   *)
(* is done.                                                                *)

Awaited(p) == IF u[p].pc \in {"owait", "fwait"} THEN u[p].ep ELSE u[p].tp

BiowaitSleep(p) ==
  /\ Running(p) /\ u[p].pc \in {"rwait", "wwait", "swait", "owait", "fwait"}
  /\ ~Has(Awaited(p), "DONE")
  /\ Sleep(p, Awaited(p))
  /\ UNCHANGED <<buf, bfreelist, flwanted, ioq, u, fsize, cur, diskcur, lost>>

(* The end of a synchronous bwrite: brelse, and back to the caller, which  *)
(* is the loop of brealloc or blkflush, getblk again, or the outside.      *)
BwriteDone(p) ==
  /\ Running(p) /\ u[p].pc \in {"wwait", "swait", "owait", "fwait"}
  /\ Has(Awaited(p), "DONE")
  /\ Brelse(Awaited(p), buf, bfreelist)
  /\ CASE u[p].pc = "wwait" -> Return(p)
       [] u[p].pc = "swait" -> /\ u' = [u EXCEPT ![p] = [@ EXCEPT !.pc = "getblk", !.tp = NONE]]
                               /\ cpu' = p
       [] u[p].pc = "owait" -> /\ u' = [u EXCEPT ![p] = [@ EXCEPT !.pc = "overlap", !.ep = NONE]]
                               /\ cpu' = p
       [] u[p].pc = "fwait" -> /\ u' = [u EXCEPT ![p] = [@ EXCEPT !.pc = "blkflush", !.ep = NONE]]
                               /\ cpu' = p
  /\ UNCHANGED <<ioq, fsize, cur, diskcur, lost>>

(* The end of the read of bread, breada and realloccg.                     *)
ReadDone(p) ==
  /\ Running(p) /\ u[p].pc = "rwait"
  /\ Has(u[p].tp, "DONE")
  /\ u' = [u EXCEPT ![p].pc = "own"] /\ cpu' = NONE
  /\ UNCHANGED <<buf, bfreelist, flwanted, ioq, wchan, fsize, cur, diskcur, lost>>

-----------------------------------------------------------------------------
(* The callers of getblk, once it returns.                                 *)

GottenBread(p) ==
  /\ Running(p) /\ u[p].pc = "gotten" /\ u[p].op \in {"bread", "extend"}
  /\ IF Has(u[p].tp, "DONE")
       THEN /\ u' = [u EXCEPT ![p].pc = "own"] /\ cpu' = NONE
            /\ UNCHANGED <<buf, ioq>>
       ELSE /\ buf' = [buf EXCEPT ![u[p].tp].b_flags = @ \cup {"READ"}]
            /\ Strategy(u[p].tp)
            /\ Goto(p, "rwait")
  /\ UNCHANGED <<bfreelist, flwanted, wchan, fsize, cur, diskcur, lost>>

GottenWrite(p) ==
  /\ Running(p) /\ u[p].pc = "gotten" /\ u[p].op \in {"getblk", "alloc", "geteblk"}
  /\ u' = [u EXCEPT ![p].pc = "own"] /\ cpu' = NONE
  /\ UNCHANGED <<buf, bfreelist, flwanted, ioq, wchan, fsize, cur, diskcur, lost>>

(* realloccg after brealloc: the block has grown, its contents are there.  *)
GottenExtended(p) ==
  /\ Running(p) /\ u[p].pc = "gotten" /\ u[p].op = "extended"
  /\ buf' = [buf EXCEPT ![u[p].tp].b_flags = @ \cup {"DONE"}]
  /\ fsize' = [fsize EXCEPT ![<<u[p].req.dev, u[p].req.blkno>>] = u[p].req.size]
  /\ u' = [u EXCEPT ![p].pc = "own"] /\ cpu' = NONE
  /\ UNCHANGED <<bfreelist, flwanted, ioq, wchan, cur, diskcur, lost>>

(* breada: start the read of the block unless it is in core, then that of  *)
(* the read-ahead block, then wait for the first (or bread it).            *)
BreadaStart(p) ==
  /\ Running(p) /\ u[p].pc = "breada"
  /\ Goto(p, IF Incore(u[p].main.dev, u[p].main.blkno) = {} THEN "getblk" ELSE "ra")
  /\ UNCHANGED <<buf, bfreelist, flwanted, ioq, wchan, fsize, cur, diskcur, lost>>

GottenBreada(p) ==
  /\ Running(p) /\ u[p].pc = "gotten" /\ u[p].op = "breada"
  /\ IF Has(u[p].tp, "DONE")
       THEN UNCHANGED <<buf, ioq>>
       ELSE /\ buf' = [buf EXCEPT ![u[p].tp].b_flags = @ \cup {"READ"}]
            /\ Strategy(u[p].tp)
  /\ u' = [u EXCEPT ![p] = [@ EXCEPT !.pc = "ra", !.hold = u[p].tp, !.tp = NONE]]
  /\ cpu' = p
  /\ UNCHANGED <<bfreelist, flwanted, wchan, fsize, cur, diskcur, lost>>

(* The last part of breada: from here on it is a bread of the block.       *)
BreadaRest(p) ==
  /\ u' = [u EXCEPT ![p] = [Idle EXCEPT
               !.pc = IF u[p].hold = NONE THEN "getblk" ELSE "rwait",
               !.op = "bread", !.req = u[p].main, !.tp = u[p].hold]]
  /\ cpu' = p

ReadAheadStart(p) ==
  /\ Running(p) /\ u[p].pc = "ra"
  /\ u[p].ra # NONE /\ Incore(u[p].ra.dev, u[p].ra.blkno) = {}
  /\ u' = [u EXCEPT ![p] = [@ EXCEPT !.pc = "getblk", !.op = "ra", !.req = u[p].ra]]
  /\ cpu' = p
  /\ UNCHANGED <<buf, bfreelist, flwanted, ioq, wchan, fsize, cur, diskcur, lost>>

ReadAheadNone(p) ==
  /\ Running(p) /\ u[p].pc = "ra"
  /\ u[p].ra # NONE => Incore(u[p].ra.dev, u[p].ra.blkno) # {}
  /\ BreadaRest(p)
  /\ UNCHANGED <<buf, bfreelist, flwanted, ioq, wchan, fsize, cur, diskcur, lost>>

GottenReadAhead(p) ==
  /\ Running(p) /\ u[p].pc = "gotten" /\ u[p].op = "ra"
  /\ IF Has(u[p].tp, "DONE")
       THEN Brelse(u[p].tp, buf, bfreelist) /\ UNCHANGED ioq
       ELSE /\ buf' = [buf EXCEPT ![u[p].tp].b_flags = @ \cup {"READ", "ASYNC"}]
            /\ Strategy(u[p].tp)
            /\ UNCHANGED <<bfreelist, flwanted, wchan>>
  /\ BreadaRest(p)
  /\ UNCHANGED <<fsize, cur, diskcur, lost>>

-----------------------------------------------------------------------------
(* What the owner of a buffer does with it.  A buffer in error can only be *)
(* released; one gotten to be overwritten is filled and written.           *)

Owns(p) == Running(p) /\ u[p].pc = "own"

Release(p) ==
  /\ Owns(p)
  /\ Has(u[p].tp, "ERROR") \/ u[p].op \in {"bread", "geteblk"}
  /\ \E age \in SUBSET {"AGE"} : Brelse(u[p].tp, Taken(u[p].tp, age), bfreelist)
  /\ Return(p)
  /\ UNCHANGED <<ioq, fsize, cur, diskcur, lost>>

(* The owner fills the buffer: the only current copy of its sectors.       *)
Writable(p) == /\ Owns(p) /\ ~Has(u[p].tp, "ERROR")
               /\ u[p].op \in {"bread", "getblk", "alloc", "extended"}
Modify(bp) ==
  LET S == Extent(buf[bp])
  IN  /\ cur' = [b \in Bufs |-> IF b = bp THEN S ELSE cur[b] \ S]
      /\ diskcur' = diskcur \ S
      /\ lost' = lost \ S

(* bdwrite: kept in the cache, to be written when it is needed for reuse.  *)
(* (On a device with B_TAPE it is bawrite instead.)                        *)
Bdwrite(p) ==
  /\ Writable(p) /\ "bdwrite" \in Ops
  /\ Modify(u[p].tp)
  /\ Brelse(u[p].tp, Taken(u[p].tp, {"DELWRI", "DONE"}), bfreelist)
  /\ Return(p)
  /\ UNCHANGED <<ioq, fsize>>

Bawrite(p) ==
  /\ Writable(p) /\ "bawrite" \in Ops
  /\ Modify(u[p].tp)
  /\ \E age \in SUBSET {"AGE"} :
       buf' = [buf EXCEPT ![u[p].tp] =
                 Bwritten(Taken(u[p].tp, {"ASYNC"} \cup age)[u[p].tp])]
  /\ Strategy(u[p].tp)
  /\ Return(p)
  /\ UNCHANGED <<bfreelist, flwanted, wchan, fsize>>

Bwrite(p) ==
  /\ Writable(p) /\ "bwrite" \in Ops
  /\ Modify(u[p].tp)
  /\ buf' = [buf EXCEPT ![u[p].tp] = Bwritten(@)]
  /\ Strategy(u[p].tp)
  /\ Goto(p, "wwait")
  /\ UNCHANGED <<bfreelist, flwanted, wchan, fsize>>

(* realloccg: the block just read is to grow to the size in "main".        *)
Extend(p) ==
  /\ Owns(p) /\ u[p].op = "extend" /\ ~Has(u[p].tp, "ERROR")
  /\ LET tp == u[p].tp IN
       /\ buf' = [buf EXCEPT ![tp].b_flags = @ \ {"DONE"}]
       /\ u' = [u EXCEPT ![p] = [@ EXCEPT !.pc = "overlap", !.op = "extended",
                                          !.req = u[p].main, !.main = NONE]]
  /\ cpu' = p
  /\ UNCHANGED <<bfreelist, flwanted, ioq, wchan, fsize, cur, diskcur, lost>>

-----------------------------------------------------------------------------
(* blkflush: write what is dirty in a range, wait for what is busy.        *)

Flushees(p) == Overlapping(u[p].req.dev, u[p].req.blkno, u[p].req.size)

BlkflushBusy(p) ==
  /\ Running(p) /\ u[p].pc = "blkflush"
  /\ \E ep \in Flushees(p) :
       /\ Has(ep, "BUSY")
       /\ buf' = Wanted(ep)
       /\ Sleep(p, ep)
  /\ UNCHANGED <<bfreelist, flwanted, ioq, u, fsize, cur, diskcur, lost>>

BlkflushDirty(p) ==
  /\ Running(p) /\ u[p].pc = "blkflush"
  /\ \E ep \in Flushees(p) :
       /\ ~Has(ep, "BUSY") /\ Has(ep, "DELWRI")
       /\ buf' = [buf EXCEPT ![ep] = Bwritten(Taken(ep, {})[ep])]
       /\ bfreelist' = Notavail(ep)
       /\ Strategy(ep)
       /\ u' = [u EXCEPT ![p] = [@ EXCEPT !.pc = "fwait", !.ep = ep]]
  /\ cpu' = p
  /\ UNCHANGED <<flwanted, wchan, fsize, cur, diskcur, lost>>

BlkflushDone(p) ==
  /\ Running(p) /\ u[p].pc = "blkflush"
  /\ \A ep \in Flushees(p) : ~Has(ep, "BUSY") /\ ~Has(ep, "DELWRI")
  /\ Return(p)
  /\ UNCHANGED <<buf, bfreelist, flwanted, ioq, wchan, fsize, cur, diskcur, lost>>

(* bflush: every dirty buffer on a free list is started; no interrupt      *)
(* comes in (spl6).  closef then invalidates the device (binval).          *)
(* (Variant: only the aged buffers are looked at.)                         *)
DirtyAged(p, q) == { i \in 1..Len(bfreelist[q]) :
                       q = "AGE" /\ Has(bfreelist[q][i], "DELWRI") }

Dirty(p, q) == { i \in 1..Len(bfreelist[q]) :
                   /\ Has(bfreelist[q][i], "DELWRI")
                   /\ u[p].req.dev \in {NODEV, buf[bfreelist[q][i]].b_dev} }
First(p, q) == { bfreelist[q][i] : i \in
                   { k \in Dirty(p, q) : \A j \in Dirty(p, q) : k <= j } }

BflushOne(p) ==
  /\ Running(p) /\ u[p].pc = "bflush"
  /\ \E q \in {"LRU", "AGE"} :
       /\ q = "AGE" => Dirty(p, "LRU") = {}
       /\ \E bp \in First(p, q) :
            /\ buf' = [buf EXCEPT ![bp] = Bwritten(Taken(bp, {"ASYNC"})[bp])]
            /\ bfreelist' = Notavail(bp)
            /\ Strategy(bp)
  /\ Goto(p, "bflush")
  /\ UNCHANGED <<flwanted, wchan, fsize, cur, diskcur, lost>>

BflushDone(p) ==
  /\ Running(p) /\ u[p].pc = "bflush"
  /\ Dirty(p, "LRU") = {} /\ Dirty(p, "AGE") = {}
  /\ IF u[p].op = "close" THEN Goto(p, "binval") ELSE Return(p)
  /\ UNCHANGED <<buf, bfreelist, flwanted, ioq, wchan, fsize, cur, diskcur, lost>>

Binval(p) ==
  /\ Running(p) /\ u[p].pc = "binval"
  /\ buf' = [bp \in Bufs |-> IF buf[bp].b_dev = u[p].req.dev
                               THEN [buf[bp] EXCEPT !.b_flags = @ \cup {"INVAL"}]
                               ELSE buf[bp]]
  /\ Return(p)
  /\ UNCHANGED <<bfreelist, flwanted, ioq, wchan, fsize, cur, diskcur, lost>>

-----------------------------------------------------------------------------
(* The file system above: which calls a process may make.  A block is read *)
(* with the size it has; it is created, grown and freed only under the     *)
(* inode lock, when no other process is at it.                             *)

Requests(q) == {u[q].req, u[q].main, u[q].ra} \ {NONE}
Untouched(p, S) == \A q \in Procs \ {p} : \A r \in Requests(q) : Span(r) \cap S = {}
Growing(q)  == u[q].op \in {"alloc", "extend", "extended"}
Readable(p, d, b) ==
  /\ fsize[<<d, b>>] > 0
  /\ \A q \in Procs : Growing(q) =>
       \A r \in Requests(q) : Span(r) \cap SectorsOf(d, b, fsize[<<d, b>>]) = {}

Begin(p, op, pc, r) ==
  /\ Running(p) /\ u[p].pc = "idle" /\ op \in Ops
  /\ u' = [u EXCEPT ![p] = [Idle EXCEPT !.pc = pc, !.op = op, !.req = r]]
  /\ cpu' = p
  /\ UNCHANGED <<buf, bfreelist, flwanted, ioq, wchan, fsize, cur, diskcur, lost>>

Block(d, b)   == [dev |-> d, blkno |-> b, size |-> fsize[<<d, b>>]]
NoBlock(d, n) == [dev |-> d, blkno |-> CHOOSE b \in Sectors : TRUE, size |-> n]

CallBread(p) ==
  \E d \in Devs, b \in Sectors :
    Readable(p, d, b) /\ Begin(p, "bread", "getblk", Block(d, b))
CallBlkflush(p) ==
  \E d \in Devs, b \in Sectors :
    Readable(p, d, b) /\ Begin(p, "blkflush", "blkflush", Block(d, b))
CallGetblk(p) ==
  \E d \in Devs, b \in Sectors :
    Readable(p, d, b) /\ Begin(p, "getblk", "getblk", Block(d, b))
CallGeteblk(p) ==
  \E n \in 1..MaxSize : Begin(p, "geteblk", "getnew", NoBlock(NODEV, n))
CallSync(p) ==
  Begin(p, "sync", "bflush", NoBlock(NODEV, 0))

CallBreada(p) ==
  \E d \in Devs, b \in Sectors :
    LET rab == ReadAhead[<<d, b>>] IN
    /\ Readable(p, d, b) /\ rab # NONE /\ Readable(p, d, rab)
    /\ Running(p) /\ u[p].pc = "idle" /\ "breada" \in Ops
    /\ u' = [u EXCEPT ![p] = [Idle EXCEPT !.pc = "breada", !.op = "breada",
               !.req = Block(d, b), !.main = Block(d, b), !.ra = Block(d, rab)]]
    /\ cpu' = p
    /\ UNCHANGED <<buf, bfreelist, flwanted, ioq, wchan, fsize, cur, diskcur, lost>>

(* The last close of a device: nobody else is using it.                    *)
CallClose(p) ==
  \E d \in Devs :
    /\ \A q \in Procs \ {p} : \A r \in Requests(q) : r.dev # d
    /\ Begin(p, "close", "bflush", NoBlock(d, 0))

(* The sectors b..b+n-1 of d exist and belong to no block but b itself.    *)
Unallocated(d, b, n) ==
  /\ b..(b + n - 1) \subseteq Sectors
  /\ \A c \in Sectors \ {b} : \A i \in b..(b + n - 1) :
       i \notin c..(c + fsize[<<d, c>>] - 1)

CallExtend(p) ==
  \E d \in Devs, b \in Sectors, n \in 1..MaxSize :
    /\ 0 < fsize[<<d, b>>] /\ fsize[<<d, b>>] < n
    /\ Unallocated(d, b, n) /\ Untouched(p, SectorsOf(d, b, n))
    /\ Running(p) /\ u[p].pc = "idle" /\ "extend" \in Ops
    /\ u' = [u EXCEPT ![p] = [Idle EXCEPT !.pc = "getblk", !.op = "extend",
               !.req = Block(d, b), !.main = [Block(d, b) EXCEPT !.size = n]]]
    /\ cpu' = p
    /\ UNCHANGED <<buf, bfreelist, flwanted, ioq, wchan, fsize, cur, diskcur, lost>>

(* alloc: a new block, gotten to be filled.                                *)
CallAlloc(p) ==
  \E d \in Devs, b \in Sectors, n \in 1..MaxSize :
    /\ fsize[<<d, b>>] = 0
    /\ Unallocated(d, b, n) /\ Untouched(p, SectorsOf(d, b, n))
    /\ Running(p) /\ u[p].pc = "idle" /\ "alloc" \in Ops
    /\ fsize' = [fsize EXCEPT ![<<d, b>>] = n]
    /\ u' = [u EXCEPT ![p] = [Idle EXCEPT !.pc = "getblk", !.op = "alloc",
                          !.req = [dev |-> d, blkno |-> b, size |-> n]]]
    /\ cpu' = p
    /\ UNCHANGED <<buf, bfreelist, flwanted, ioq, wchan, cur, diskcur, lost>>

(* free: the sectors of a block go back to the file system.                *)
Free(p) ==
  \E d \in Devs, b \in Sectors :
    /\ "alloc" \in Ops /\ cpu = NONE /\ u[p].pc = "idle"
    /\ fsize[<<d, b>>] > 0 /\ Untouched(p, SectorsOf(d, b, fsize[<<d, b>>]))
    /\ fsize' = [fsize EXCEPT ![<<d, b>>] = 0]
    /\ UNCHANGED <<buf, bfreelist, flwanted, ioq, u, wchan, cpu, cur, diskcur, lost>>

-----------------------------------------------------------------------------
(* The end of a transfer, from a driver's interrupt routine through        *)
(* biodone.  disksort keeps requests for the same place in order.          *)

Position(bp) == CHOOSE i \in 1..Len(ioq) : ioq[i] = bp
MayFinish(bp) ==
  /\ bp \in Elems(ioq)
  /\ \A i \in 1..(Position(bp) - 1) :
       Extent(buf[ioq[i]]) \cap Extent(buf[bp]) = {}
Splx(p) == u[p].pc # "bflush"

Transfer(bp, ok) ==
  LET S == Extent(buf[bp]) IN
  IF Has(bp, "READ")
    THEN /\ cur' = [cur EXCEPT ![bp] = IF ok THEN S \cap diskcur ELSE {}]
         /\ UNCHANGED <<diskcur, lost>>
    ELSE /\ diskcur' = (diskcur \ S) \cup (IF ok THEN S \cap cur[bp] ELSE {})
         /\ lost' = IF ok THEN lost ELSE lost \cup S
         /\ UNCHANGED cur

DiskIntr(bp) ==
  /\ MayFinish(bp)
  /\ cpu # NONE => Splx(cpu)
  /\ ioq' = Unlink(ioq, bp)
  /\ \E ok \in {TRUE, ~IOErrors} :
       LET b == [buf EXCEPT ![bp].b_flags =
                   @ \cup {"DONE"} \cup (IF ok THEN {} ELSE {"ERROR"})]
       IN  /\ Transfer(bp, ok)
           /\ IF Has(bp, "ASYNC")
                THEN Brelse(bp, b, bfreelist)
                ELSE /\ buf' = [b EXCEPT ![bp].b_flags = @ \ {"WANTED"}]
                     /\ wchan' = Wakeup(wchan, {bp})
                     /\ UNCHANGED <<bfreelist, flwanted>>
  /\ UNCHANGED <<u, cpu, fsize>>

-----------------------------------------------------------------------------
(* binit: every header, busy and invalid, is released; headers differ in   *)
(* nothing but memory, so their order on the lists is any.                 *)

Init ==
  /\ buf = [bp \in Bufs |->
              [b_flags |-> {"INVAL"}, b_dev |-> NODEV, b_blkno |-> 0,
               b_bcount |-> 0, b_bufsize |-> InitBufsize[bp]]]
  /\ bfreelist \in
       { fl \in [BQ -> UNION { [1..n -> Bufs] : n \in 0..Cardinality(Bufs) }] :
           /\ fl["LRU"] = <<>>
           /\ Elems(fl["AGE"]) = { bp \in Bufs : InitBufsize[bp] > 0 }
           /\ Elems(fl["EMPTY"]) = { bp \in Bufs : InitBufsize[bp] = 0 }
           /\ \A q \in BQ : Len(fl[q]) = Cardinality(Elems(fl[q])) }
  /\ flwanted = FALSE
  /\ ioq = <<>>
  /\ u = [p \in Procs |-> Idle]
  /\ wchan = [p \in Procs |-> NONE]
  /\ cpu = NONE
  /\ fsize = InitFsize
  /\ cur = [bp \in Bufs |-> {}]
  /\ diskcur = AllSectors
  /\ lost = {}

Getnewbuf(p) == GetnewSleep(p) \/ GetnewFlush(p) \/ GetblkBind(p) \/ GeteblkBind(p)
Getblk(p)    == GetblkBusy(p) \/ GetblkHit(p) \/ GetblkMiss(p)
Overlap(p)   == OverlapBusy(p) \/ OverlapDirty(p) \/ OverlapClean(p) \/ OverlapNone(p)
Allocbuf(p)  == AllocKeep(p) \/ AllocShrink(p) \/ AllocTake(p)
Biowait(p)   == BiowaitSleep(p) \/ BwriteDone(p) \/ ReadDone(p)
Gotten(p)    == \/ GottenBread(p) \/ GottenWrite(p) \/ GottenExtended(p)
                \/ GottenBreada(p) \/ GottenReadAhead(p)
Breada(p)    == BreadaStart(p) \/ ReadAheadStart(p) \/ ReadAheadNone(p)
Owner(p)     == Release(p) \/ Bdwrite(p) \/ Bawrite(p) \/ Bwrite(p) \/ Extend(p)
Flush(p)     == \/ BlkflushBusy(p) \/ BlkflushDirty(p) \/ BlkflushDone(p)
                \/ BflushOne(p) \/ BflushDone(p) \/ Binval(p)
Call(p)      == \/ CallBread(p) \/ CallBlkflush(p) \/ CallGetblk(p)
                \/ CallGeteblk(p) \/ CallSync(p) \/ CallBreada(p)
                \/ CallClose(p) \/ CallExtend(p) \/ CallAlloc(p) \/ Free(p)

Inside(p)    == \/ Getnewbuf(p) \/ Getblk(p) \/ Overlap(p) \/ Allocbuf(p)
                \/ Biowait(p) \/ Gotten(p) \/ Breada(p) \/ Owner(p) \/ Flush(p)

Next == \/ \E p \in Procs : Call(p) \/ Inside(p)
        \/ \E bp \in Bufs : DiskIntr(bp)

Spec == Init /\ [][Next]_vars

=============================================================================
