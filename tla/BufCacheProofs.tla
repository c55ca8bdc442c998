--------------------------- MODULE BufCacheProofs ---------------------------
(***************************************************************************)
(* Theorems about the buffer cache, for any number of processes, headers,  *)
(* devices and blocks: every variable has its type, and B_BUSY and         *)
(* B_WANTED are a lock.  Then what the theorems about the contents of the  *)
(* buffers (BufCacheDataProofs) begin with: what the file system asks for  *)
(* (FsInv), and what a step does to one sector (DataAt).                   *)
(***************************************************************************)
EXTENDS BufCacheProps, SequenceTheorems, FiniteSetTheorems, TLAPS

-----------------------------------------------------------------------------
(* The helpers return what their names say.                                *)

(* bremfree leaves a list of buffers.                                      *)
LEMMA UnlinkType ==
  ASSUME NEW S, NEW s \in Seq(S), NEW bp
  PROVE  Unlink(s, bp) \in Seq(S)
<1>1. CASE bp \notin Elems(s)
  BY <1>1 DEF Unlink
<1>2. CASE bp \in Elems(s)
  <2> DEFINE k == CHOOSE i \in 1..Len(s) : s[i] = bp
             t == [i \in 1..(Len(s) - 1) |-> IF i < k THEN s[i] ELSE s[i + 1]]
  <2>1. k \in 1..Len(s)
    BY <1>2 DEF Elems
  <2>2. Len(s) - 1 \in Nat
    BY <2>1
  <2>3. \A i \in 1..(Len(s) - 1) : t[i] \in S
    BY <2>1, ElementOfSeq
  <2>4. t \in [1..(Len(s) - 1) -> S]
    BY <2>3
  <2>5. t \in Seq(S)
    BY <2>2, <2>4
  <2>6. Unlink(s, bp) = t
    BY <1>2 DEF Unlink
  <2> QED BY <2>5, <2>6
<1> QED BY <1>1, <1>2

LEMMA NotavailType ==
  ASSUME bfreelist \in [BQ -> Seq(Bufs)], NEW bp
  PROVE  Notavail(bp) \in [BQ -> Seq(Bufs)]
BY UnlinkType DEF Notavail

LEMMA FreeQueueType ==
  ASSUME NEW B
  PROVE  FreeQueue(B) \in BQ
BY DEF FreeQueue, BQ

LEMMA PutType ==
  ASSUME NEW fl \in [BQ -> Seq(Bufs)], NEW bp \in Bufs, NEW B
  PROVE  Put(fl, bp, B) \in [BQ -> Seq(Bufs)]
<1>1. FreeQueue(B) \in BQ
  BY FreeQueueType
<1>2. fl[FreeQueue(B)] \in Seq(Bufs)
  BY <1>1
<1>3. <<bp>> \o fl[FreeQueue(B)] \in Seq(Bufs)
  BY <1>2, ConcatProperties
<1>4. Append(fl[FreeQueue(B)], bp) \in Seq(Bufs)
  BY <1>2, AppendProperties
<1> QED BY <1>1, <1>3, <1>4 DEF Put

LEMMA RoundupType ==
  ASSUME NEW n \in Nat
  PROVE  Roundup(n) \in Nat
<1> DEFINE m == n + ClSectors - 1
           d == m \div ClSectors
<1>1. ClSectors \in Nat /\ ClSectors > 0 /\ m \in Nat
  BY BufCacheAssumption
<1>2. d \in Nat
  BY <1>1
<1>3. d * ClSectors \in Nat
  BY <1>1, <1>2
<1> QED BY <1>3 DEF Roundup

LEMMA ReleasedType ==
  ASSUME NEW B \in Buf
  PROVE  Released(B) \in Buf
BY Zenon DEF Released, Buf, Flags

LEMMA BwrittenType ==
  ASSUME NEW B \in Buf
  PROVE  Bwritten(B) \in Buf
BY DEF Bwritten, Buf, Flags

LEMMA TakenType ==
  ASSUME buf \in [Bufs -> Buf], NEW bp \in Bufs, NEW fs \in SUBSET Flags
  PROVE  Taken(bp, fs) \in [Bufs -> Buf]
BY DEF Taken, Buf, Flags

LEMMA BrelseType ==
  ASSUME TypeOK, NEW bp \in Bufs, NEW b \in [Bufs -> Buf],
         NEW fl \in [BQ -> Seq(Bufs)], Brelse(bp, b, fl)
  PROVE  /\ buf' \in [Bufs -> Buf]
         /\ bfreelist' \in [BQ -> Seq(Bufs)]
         /\ flwanted' \in BOOLEAN
         /\ wchan' \in [Procs -> Bufs \cup {FREELIST, NONE}]
<1>1. Released(b[bp]) \in Buf
  BY ReleasedType
<1>2. bfreelist' \in [BQ -> Seq(Bufs)]
  BY PutType DEF Brelse
<1> QED BY <1>1, <1>2, Zenon DEF Brelse, TypeOK, Wakeup

LEMMA StrategyType ==
  ASSUME TypeOK, NEW bp \in Bufs, Strategy(bp)
  PROVE  ioq' \in Seq(Bufs)
BY AppendProperties DEF Strategy, TypeOK

LEMMA VictimType ==
  ASSUME TypeOK, ~NoneFree
  PROVE  Victim \in Bufs
<1> DEFINE q == IF bfreelist["AGE"] # <<>> THEN "AGE" ELSE "LRU"
<1>1. bfreelist[q] \in Seq(Bufs) /\ bfreelist[q] # <<>>
  BY DEF TypeOK, NoneFree, BQ
<1>2. Head(bfreelist[q]) \in Bufs
  BY <1>1, HeadTailProperties
<1> QED BY <1>2 DEF Victim

-----------------------------------------------------------------------------
(* What a step does to the processes.                                      *)

LEMMA ProcType ==
  ASSUME TypeOK, NEW p \in Procs
  PROVE  u[p] \in Proc
BY DEF TypeOK

LEMMA IdleType == Idle \in Proc
BY DEF Idle, Proc, PCs

LEMMA UpdateType ==
  ASSUME TypeOK, NEW p \in Procs, NEW P \in Proc,
         u' = [u EXCEPT ![p] = P]
  PROVE  u' \in [Procs -> Proc]
BY DEF TypeOK

(* A process goes on to a place for which it has what it needs.            *)
LEMMA GotoType ==
  ASSUME TypeOK, NEW p \in Procs, NEW pc \in PCs, Goto(p, pc),
         pc # "idle" => u[p].req \in Request,
         pc \in {"breada", "ra"} => u[p].op = "breada",
         pc \in {"overlap", "owait", "alloc", "swait", "gotten", "rwait",
                 "own", "wwait"} => u[p].tp \in Bufs,
         pc \in {"owait", "fwait"} => u[p].ep \in Bufs
  PROVE  u' \in [Procs -> Proc] /\ cpu' \in Procs \cup {NONE}
<1> DEFINE P == [u[p] EXCEPT !.pc = pc]
<1>1. P \in Proc
  BY ProcType DEF Proc
<1>2. u' = [u EXCEPT ![p] = P]
  BY DEF Goto
<1> QED BY <1>1, <1>2, UpdateType, Zenon DEF Goto

LEMMA ReturnType ==
  ASSUME TypeOK, NEW p \in Procs, Return(p)
  PROVE  u' \in [Procs -> Proc] /\ cpu' \in Procs \cup {NONE}
BY IdleType, UpdateType, Zenon DEF Return

LEMMA SleepType ==
  ASSUME TypeOK, NEW p \in Procs, NEW chan \in Bufs \cup {FREELIST},
         Sleep(p, chan)
  PROVE  /\ wchan' \in [Procs -> Bufs \cup {FREELIST, NONE}]
         /\ cpu' \in Procs \cup {NONE}
BY DEF Sleep, TypeOK

LEMMA WantedType ==
  ASSUME TypeOK, NEW bp \in Bufs
  PROVE  Wanted(bp) \in [Bufs -> Buf]
BY Zenon DEF TypeOK, Wanted, Buf, Flags

LEMMA BoundType ==
  ASSUME TypeOK, NEW bp \in Bufs, NEW fs \in SUBSET Flags,
         NEW d \in Devs \cup {NODEV}, NEW b \in Sectors \cup {0}
  PROVE  Bound(bp, fs, d, b) \in [Bufs -> Buf]
<1>1. buf[bp] \in Buf
  BY DEF TypeOK
<1>2. [buf[bp] EXCEPT !.b_flags = fs, !.b_dev = d, !.b_blkno = b,
                      !.b_bcount = 0] \in Buf
  BY <1>1, Zenon DEF Buf
<1> QED BY <1>2 DEF Bound, TypeOK

LEMMA SizedType ==
  ASSUME NEW b \in [Bufs -> Buf], NEW tp \in Bufs, NEW n \in Nat
  PROVE  Sized(b, tp, n) \in [Bufs -> Buf]
BY DEF Sized, Buf

LEMMA BufsizeType ==
  ASSUME NEW b \in [Bufs -> Buf], NEW bp \in Bufs, NEW n \in Nat
  PROVE  /\ [b EXCEPT ![bp].b_bufsize = n] \in [Bufs -> Buf]
         /\ [b EXCEPT ![bp].b_bcount = n] \in [Bufs -> Buf]
         /\ [b EXCEPT ![bp].b_bufsize = n][bp].b_bufsize = n
<1>1. b[bp] \in Buf
  OBVIOUS
<1>2. [b[bp] EXCEPT !.b_bufsize = n] \in Buf /\ [b[bp] EXCEPT !.b_bcount = n] \in Buf
  BY <1>1 DEF Buf
<1>3. [b EXCEPT ![bp].b_bufsize = n] = [b EXCEPT ![bp] = [b[bp] EXCEPT !.b_bufsize = n]]
  OBVIOUS
<1>4. [b EXCEPT ![bp].b_bcount = n] = [b EXCEPT ![bp] = [b[bp] EXCEPT !.b_bcount = n]]
  OBVIOUS
<1>5. [b[bp] EXCEPT !.b_bufsize = n].b_bufsize = n
  BY <1>1 DEF Buf
<1> QED BY <1>2, <1>3, <1>4, <1>5

LEMMA ExtentType ==
  ASSUME TypeOK, NEW bp \in Bufs
  PROVE  Extent(buf[bp]) \subseteq Copies
<1>1. buf[bp] \in Buf
  BY DEF TypeOK
<1>2. /\ buf[bp].b_dev \in Devs \cup {NODEV}
      /\ buf[bp].b_blkno \in Nat /\ buf[bp].b_bcount \in Nat
  <2>1. Sectors \cup {0} \subseteq Nat
    BY BufCacheAssumption
  <2> QED BY <1>1, <2>1 DEF Buf
<1> QED BY <1>2 DEF Extent, SectorsOf, Copies

LEMMA ModifyType ==
  ASSUME TypeOK, NEW bp \in Bufs, Modify(bp)
  PROVE  /\ cur' \in [Bufs -> SUBSET Copies]
         /\ diskcur' \in SUBSET Copies
         /\ lost' \in SUBSET Copies
BY ExtentType DEF Modify, TypeOK

-----------------------------------------------------------------------------
(* getnewbuf and its callers keep the types.                               *)

LEMMA GetnewbufType ==
  ASSUME TypeOK, NEW p \in Procs, Getnewbuf(p)
  PROVE  TypeOK'
<1>1. CASE GetnewSleep(p)
  BY <1>1, SleepType DEF GetnewSleep, TypeOK
<1>2. CASE GetnewFlush(p)
  <2> USE <1>2 DEF GetnewFlush
  <2>1. Victim \in Bufs
    BY VictimType
  <2>2. Taken(Victim, {"ASYNC"}) \in [Bufs -> Buf]
    BY <2>1, TakenType DEF TypeOK, Flags
  <2>3. buf' \in [Bufs -> Buf]
    BY <2>1, <2>2, BwrittenType DEF TypeOK
  <2>4. bfreelist' \in [BQ -> Seq(Bufs)]
    BY NotavailType DEF TypeOK
  <2>5. ioq' \in Seq(Bufs)
    BY <2>1, StrategyType
  <2>6. u' \in [Procs -> Proc] /\ cpu' \in Procs \cup {NONE}
    BY ProcType, GotoType DEF NeedsNew, Proc, PCs
  <2> QED BY <2>3, <2>4, <2>5, <2>6 DEF TypeOK
<1>3. CASE GetblkBind(p)
  <2> USE <1>3 DEF GetblkBind
  <2>1. Victim \in Bufs
    BY VictimType
  <2>2. u[p] \in Proc /\ u[p].req \in Request
    BY ProcType DEF NeedsNew, Proc
  <2>3. buf' \in [Bufs -> Buf]
    BY <2>1, <2>2, BoundType, Zenon DEF Flags, Request
  <2>4. bfreelist' \in [BQ -> Seq(Bufs)]
    BY NotavailType DEF TypeOK
  <2>5. [u[p] EXCEPT !.pc = "overlap", !.tp = Victim] \in Proc
    BY <2>1, <2>2, Zenon DEF Proc, PCs
  <2>6. u' \in [Procs -> Proc]
    BY <2>5, UpdateType, Zenon
  <2>7. cur' \in [Bufs -> SUBSET Copies]
    BY <2>1 DEF TypeOK
  <2> QED BY <2>3, <2>4, <2>6, <2>7 DEF TypeOK
<1>4. CASE GeteblkBind(p)
  <2> USE <1>4 DEF GeteblkBind
  <2>1. Victim \in Bufs
    BY VictimType
  <2>2. u[p] \in Proc /\ u[p].req \in Request
    BY ProcType DEF NeedsNew, Proc
  <2>3. buf' \in [Bufs -> Buf]
    BY <2>1, BoundType, Zenon DEF TypeOK, Buf, Flags
  <2>4. bfreelist' \in [BQ -> Seq(Bufs)]
    BY NotavailType DEF TypeOK
  <2>5. [u[p] EXCEPT !.pc = "alloc", !.tp = Victim] \in Proc
    BY <2>1, <2>2, Zenon DEF Proc, PCs
  <2>6. u' \in [Procs -> Proc]
    BY <2>5, UpdateType, Zenon
  <2>7. cur' \in [Bufs -> SUBSET Copies]
    BY <2>1 DEF TypeOK
  <2> QED BY <2>3, <2>4, <2>6, <2>7 DEF TypeOK
<1> QED BY <1>1, <1>2, <1>3, <1>4 DEF Getnewbuf

-----------------------------------------------------------------------------
(* getblk and brealloc keep the types.                                     *)

LEMMA BreallocType ==
  ASSUME TypeOK, NEW p \in Procs, NEW bp \in Bufs, NEW B \in Buf,
         NEW n \in Nat, u[p].pc = "getblk", Brealloc(p, bp, B, n)
  PROVE  /\ buf' \in [Bufs -> Buf]
         /\ ioq' \in Seq(Bufs)
         /\ u' \in [Procs -> Proc]
<1>1. u[p] \in Proc /\ u[p].req \in Request /\ ioq \in Seq(Bufs)
  BY ProcType DEF Proc, TypeOK
<1>2. \A pc \in {"gotten", "swait", "alloc", "overlap"} :
        [u[p] EXCEPT !.pc = pc, !.tp = bp] \in Proc
  BY <1>1, Zenon DEF Proc, PCs
<1>3. (buf' = [buf EXCEPT ![bp] = B])
        => buf' \in [Bufs -> Buf]
  BY DEF TypeOK
<1>4. (buf' = [buf EXCEPT ![bp] = Bwritten(B)])
        => buf' \in [Bufs -> Buf]
  BY BwrittenType DEF TypeOK
<1>5. (buf' = [buf EXCEPT ![bp] = [B EXCEPT !.b_flags = @ \ {"DONE"}]])
        => buf' \in [Bufs -> Buf]
  <2>1. [B EXCEPT !.b_flags = @ \ {"DONE"}] \in Buf
    BY DEF Buf
  <2> QED BY <2>1 DEF TypeOK
<1>6. buf' \in [Bufs -> Buf]
  BY <1>3, <1>4, <1>5 DEF Brealloc
<1>7. ioq' \in Seq(Bufs)
  BY <1>1, StrategyType DEF Brealloc
<1>8. \E P \in Proc : u' = [u EXCEPT ![p] = P]
  <2>1. \E pc \in {"gotten", "swait", "alloc", "overlap"} :
          u' = [u EXCEPT ![p].pc = pc, ![p].tp = bp]
    BY Zenon DEF Brealloc
  <2>2. PICK pc \in {"gotten", "swait", "alloc", "overlap"} :
          u' = [u EXCEPT ![p].pc = pc, ![p].tp = bp]
    BY <2>1, Zenon
  <2>3. u' = [u EXCEPT ![p] = [u[p] EXCEPT !.pc = pc, !.tp = bp]]
    BY <2>2, Zenon DEF TypeOK
  <2> QED BY <1>2, <2>3, Zenon
<1> QED BY <1>6, <1>7, <1>8, UpdateType, Zenon

LEMMA GetblkType ==
  ASSUME TypeOK, NEW p \in Procs, Getblk(p)
  PROVE  TypeOK'
<1>1. CASE GetblkBusy(p)
  <2>1. PICK bp \in Incore(u[p].req.dev, u[p].req.blkno) :
          buf' = Wanted(bp) /\ Sleep(p, bp)
    BY <1>1 DEF GetblkBusy
  <2>2. bp \in Bufs
    BY DEF Incore
  <2> QED BY <1>1, <2>1, <2>2, WantedType, SleepType DEF GetblkBusy, TypeOK
<1>2. CASE GetblkHit(p)
  <2>1. PICK bp \in Incore(u[p].req.dev, u[p].req.blkno) :
          /\ bfreelist' = Notavail(bp)
          /\ Brealloc(p, bp, Taken(bp, {})[bp], u[p].req.size)
    BY <1>2 DEF GetblkHit
  <2>2. bp \in Bufs
    BY DEF Incore
  <2>3. Taken(bp, {})[bp] \in Buf
    BY <2>2, TakenType, Zenon DEF TypeOK
  <2>4. u[p].pc = "getblk" /\ u[p].req \in Request
    BY <1>2, ProcType DEF GetblkHit, Proc
  <2>5. u[p].req.size \in Nat
    BY <2>4, BufCacheAssumption DEF Request
  <2>6. /\ buf' \in [Bufs -> Buf]
        /\ ioq' \in Seq(Bufs)
        /\ u' \in [Procs -> Proc]
    BY <2>1, <2>2, <2>3, <2>4, <2>5, BreallocType
  <2>7. bfreelist' \in [BQ -> Seq(Bufs)]
    BY <2>1, NotavailType DEF TypeOK
  <2> QED BY <1>2, <2>6, <2>7 DEF GetblkHit, TypeOK
<1>3. CASE GetblkMiss(p)
  <2>1. u' \in [Procs -> Proc] /\ cpu' \in Procs \cup {NONE}
    BY <1>3, ProcType, GotoType DEF GetblkMiss, Proc, PCs
  <2> QED BY <1>3, <2>1 DEF GetblkMiss, TypeOK
<1> QED BY <1>1, <1>2, <1>3 DEF Getblk

LEMMA OverlapType ==
  ASSUME TypeOK, NEW p \in Procs, Overlap(p)
  PROVE  TypeOK'
<1>1. Others(p) \subseteq Bufs
  BY DEF Others, Overlapping
<1>2. CASE OverlapBusy(p)
  <2>1. PICK ep \in Others(p) : buf' = Wanted(ep) /\ Sleep(p, ep)
    BY <1>2 DEF OverlapBusy
  <2> QED BY <1>1, <1>2, <2>1, WantedType, SleepType DEF OverlapBusy, TypeOK
<1>3. CASE OverlapDirty(p)
  <2>1. PICK ep \in Others(p) :
          /\ buf' = [buf EXCEPT ![ep] = Bwritten(Taken(ep, {})[ep])]
          /\ bfreelist' = Notavail(ep)
          /\ Strategy(ep)
          /\ u' = [u EXCEPT ![p].pc = "owait", ![p].ep = ep]
    BY <1>3, Zenon DEF OverlapDirty
  <2>2. ep \in Bufs
    BY <1>1
  <2>3. buf' \in [Bufs -> Buf]
    BY <2>1, <2>2, TakenType, BwrittenType DEF TypeOK
  <2>4. bfreelist' \in [BQ -> Seq(Bufs)] /\ ioq' \in Seq(Bufs)
    BY <2>1, <2>2, NotavailType, StrategyType DEF TypeOK
  <2>5. u[p] \in Proc /\ u[p].pc = "overlap"
    BY <1>3, ProcType DEF OverlapDirty
  <2>6. [u[p] EXCEPT !.pc = "owait", !.ep = ep] \in Proc
    BY <2>2, <2>5, Zenon DEF Proc, PCs
  <2>7. u' \in [Procs -> Proc]
    BY <2>1, <2>6, UpdateType, ZenonT(60)
  <2> QED BY <1>3, <2>3, <2>4, <2>7 DEF OverlapDirty, TypeOK
<1>4. CASE OverlapClean(p)
  <2>1. PICK ep \in Others(p) : Brelse(ep, Taken(ep, {"INVAL"}), Notavail(ep))
    BY <1>4 DEF OverlapClean
  <2>2. Taken(ep, {"INVAL"}) \in [Bufs -> Buf]
    BY <1>1, TakenType DEF TypeOK, Flags
  <2>3. Notavail(ep) \in [BQ -> Seq(Bufs)]
    BY NotavailType DEF TypeOK
  <2> QED BY <1>1, <1>4, <2>1, <2>2, <2>3, BrelseType, Zenon DEF OverlapClean, TypeOK
<1>5. CASE OverlapNone(p)
  <2>1. u' \in [Procs -> Proc] /\ cpu' \in Procs \cup {NONE}
    BY <1>5, ProcType, GotoType DEF OverlapNone, Proc, PCs
  <2> QED BY <1>5, <2>1 DEF OverlapNone, TypeOK
<1> QED BY <1>2, <1>3, <1>4, <1>5 DEF Overlap

-----------------------------------------------------------------------------
(* allocbuf and biowait keep the types.                                    *)

LEMMA AllocbufType ==
  ASSUME TypeOK, NEW p \in Procs, Allocbuf(p)
  PROVE  TypeOK'
<1> DEFINE tp == u[p].tp
           n  == u[p].req.size
<1>1. u[p] \in Proc /\ u[p].pc = "alloc"
  BY ProcType, Zenon DEF Allocbuf, AllocKeep, AllocShrink, AllocTake
<1>2. tp \in Bufs /\ n \in Nat
  BY <1>1, BufCacheAssumption DEF Proc, Request
<1>3. Roundup(n) \in Nat
  BY <1>2, RoundupType
<1>4. Trimmed(tp, n) \in [Bufs -> SUBSET Copies]
  BY <1>2 DEF Trimmed, TypeOK
<1>5. \A pc \in {"gotten", "alloc"} : Goto(p, pc) =>
        u' \in [Procs -> Proc] /\ cpu' \in Procs \cup {NONE}
  BY <1>1, <1>2, GotoType DEF Proc, PCs
<1>6. CASE AllocKeep(p)
  <2>1. buf' \in [Bufs -> Buf]
    BY <1>2, <1>6, SizedType, ZenonT(60) DEF AllocKeep, TypeOK
  <2> QED BY <1>4, <1>5, <1>6, <2>1 DEF AllocKeep, TypeOK
<1>7. CASE AllocShrink(p)
  <2> DEFINE ep == Head(bfreelist["EMPTY"])
             b1 == Sized(Taken(ep, {"INVAL"}), tp, n)
             b2 == [b1 EXCEPT ![tp].b_bufsize = Roundup(n),
                              ![ep].b_bufsize = Excess(tp, n),
                              ![ep].b_bcount  = 0]
  <2>1. ep \in Bufs
    BY <1>7, HeadTailProperties DEF AllocShrink, TypeOK, BQ
  <2>2. b1 \in [Bufs -> Buf]
    BY <1>2, <2>1, TakenType, SizedType, Zenon DEF TypeOK, Flags
  <2>3. Excess(tp, n) \in Nat
    <3>1. buf[tp].b_bufsize \in Nat /\ Roundup(n) < buf[tp].b_bufsize
      BY <1>2, <1>7, Zenon DEF AllocShrink, TypeOK, Buf
    <3> QED BY <1>3, <3>1 DEF Excess
  <2>4. b2 \in [Bufs -> Buf]
    <3> HIDE DEF b1, tp, ep, n
    <3> DEFINE b3 == [b1 EXCEPT ![tp].b_bufsize = Roundup(n)]
               b4 == [b3 EXCEPT ![ep].b_bufsize = Excess(tp, n)]
    <3>1. b3 \in [Bufs -> Buf]
      BY <1>2, <1>3, <2>2, BufsizeType, Zenon
    <3>2. b4 \in [Bufs -> Buf]
      BY <3>1, <2>1, <2>3, BufsizeType, Zenon
    <3>3. [b4 EXCEPT ![ep].b_bcount = 0] \in [Bufs -> Buf]
      BY <3>2, <2>1, BufsizeType, ZenonT(60)
    <3> QED BY <3>3
  <2>5. Notavail(ep) \in [BQ -> Seq(Bufs)]
    BY NotavailType DEF TypeOK
  <2>6. Brelse(ep, b2, Notavail(ep))
    BY <1>7, Zenon DEF AllocShrink
  <2>7. /\ buf' \in [Bufs -> Buf]
        /\ bfreelist' \in [BQ -> Seq(Bufs)]
        /\ flwanted' \in BOOLEAN
        /\ wchan' \in [Procs -> Bufs \cup {FREELIST, NONE}]
    BY <2>1, <2>4, <2>5, <2>6, BrelseType, ZenonT(60)
  <2>8. cur' \in [Bufs -> SUBSET Copies]
    BY <1>4, <1>7, <2>1, Zenon DEF AllocShrink
  <2> QED BY <1>5, <1>7, <2>7, <2>8, Zenon DEF AllocShrink, TypeOK
<1>8. CASE AllocTake(p)
  <2> DEFINE bp   == Victim
             take == Least(Roundup(n) - buf[tp].b_bufsize, buf[bp].b_bufsize)
             b1   == [buf EXCEPT ![tp].b_bufsize = @ + take]
             b2   == [b1 EXCEPT ![bp] = Robbed(b1[bp], b1[bp].b_bufsize - take)]
  <2>1. bp \in Bufs
    BY <1>8, VictimType DEF AllocTake
  <2>2. /\ buf[tp].b_bufsize \in Nat /\ buf[bp].b_bufsize \in Nat
        /\ Roundup(n) > buf[tp].b_bufsize
    BY <1>1, <1>2, <1>8, <2>1 DEF AllocTake, NeedsNew, TypeOK, Buf
  <2>3. take \in Nat /\ take <= buf[bp].b_bufsize
    BY <1>3, <2>2 DEF Least
  <2>4. b1 \in [Bufs -> Buf] /\ b1[bp].b_bufsize >= take
    <3> HIDE DEF take, bp, tp
    <3> DEFINE m == buf[tp].b_bufsize + take
    <3>1. b1 = [buf EXCEPT ![tp].b_bufsize = m] /\ m \in Nat /\ m >= take
      BY <1>2, <2>2, <2>3 DEF TypeOK
    <3>2. buf \in [Bufs -> Buf]
      BY DEF TypeOK
    <3>3. b1 \in [Bufs -> Buf] /\ b1[tp].b_bufsize = m
      <4> HIDE DEF m, b1
      <4> QED BY <1>2, <3>1, <3>2, BufsizeType, Zenon
    <3>4. bp # tp => b1[bp] = buf[bp]
      BY <2>1, <3>1, <3>2
    <3> QED BY <2>2, <2>3, <3>1, <3>3, <3>4
  <2>5. \A B \in Buf, left \in Nat : Robbed(B, left) \in Buf
    BY DEF Robbed, Least, Buf, Flags
  <2>6. b2 \in [Bufs -> Buf]
    <3> HIDE DEF take, bp, b1
    <3>1. b1[bp] \in Buf /\ b1[bp].b_bufsize \in Nat
      BY <2>1, <2>4 DEF Buf
    <3>2. b1[bp].b_bufsize - take \in Nat
      BY <2>3, <2>4, <3>1
    <3> QED BY <2>4, <2>5, <3>1, <3>2, Zenon
  <2>7. Brelse(bp, b2, Notavail(bp))
    BY <1>8 DEF AllocTake
  <2>8. Notavail(bp) \in [BQ -> Seq(Bufs)]
    BY NotavailType DEF TypeOK
  <2>9. /\ buf' \in [Bufs -> Buf]
        /\ bfreelist' \in [BQ -> Seq(Bufs)]
        /\ flwanted' \in BOOLEAN
        /\ wchan' \in [Procs -> Bufs \cup {FREELIST, NONE}]
    BY <2>1, <2>6, <2>7, <2>8, BrelseType, Zenon
  <2>10. cur' \in [Bufs -> SUBSET Copies]
    BY <1>8, <2>1 DEF AllocTake, TypeOK
  <2> QED BY <1>5, <1>8, <2>9, <2>10 DEF AllocTake, TypeOK
<1> QED BY <1>6, <1>7, <1>8 DEF Allocbuf

LEMMA BiowaitType ==
  ASSUME TypeOK, NEW p \in Procs, Biowait(p)
  PROVE  TypeOK'
<1>1. u[p] \in Proc /\ u[p].pc \in {"rwait", "wwait", "swait", "owait", "fwait"}
  BY ProcType, Zenon DEF Biowait, BiowaitSleep, BwriteDone, ReadDone
<1>2. Awaited(p) \in Bufs
  BY <1>1 DEF Awaited, Proc
<1>3. CASE BiowaitSleep(p)
  BY <1>2, <1>3, SleepType DEF BiowaitSleep, TypeOK
<1>4. CASE BwriteDone(p)
  <2>1. /\ buf' \in [Bufs -> Buf]
        /\ bfreelist' \in [BQ -> Seq(Bufs)]
        /\ flwanted' \in BOOLEAN
        /\ wchan' \in [Procs -> Bufs \cup {FREELIST, NONE}]
    BY <1>2, <1>4, BrelseType, Zenon DEF BwriteDone, TypeOK
  <2>2. u' \in [Procs -> Proc] /\ cpu' \in Procs \cup {NONE}
    <3>1. CASE u[p].pc = "wwait"
      BY <1>4, <3>1, ReturnType DEF BwriteDone
    <3>2. CASE u[p].pc = "swait"
      <4>1. [u[p] EXCEPT !.pc = "getblk", !.tp = NONE] \in Proc
        BY <1>1, <3>2, Zenon DEF Proc, PCs
      <4>2. u' = [u EXCEPT ![p].pc = "getblk", ![p].tp = NONE] /\ cpu' = p
        BY <1>4, <3>2, Zenon DEF BwriteDone
      <4> QED BY <4>1, <4>2, UpdateType, ZenonT(60)
    <3>3. CASE u[p].pc = "owait"
      <4>1. [u[p] EXCEPT !.pc = "overlap", !.ep = NONE] \in Proc
        BY <1>1, <3>3, Zenon DEF Proc, PCs
      <4>2. u' = [u EXCEPT ![p].pc = "overlap", ![p].ep = NONE] /\ cpu' = p
        BY <1>4, <3>3, Zenon DEF BwriteDone
      <4> QED BY <4>1, <4>2, UpdateType, ZenonT(60)
    <3>4. CASE u[p].pc = "fwait"
      <4>1. [u[p] EXCEPT !.pc = "blkflush", !.ep = NONE] \in Proc
        BY <1>1, <3>4, Zenon DEF Proc, PCs
      <4>2. u' = [u EXCEPT ![p].pc = "blkflush", ![p].ep = NONE] /\ cpu' = p
        BY <1>4, <3>4, Zenon DEF BwriteDone
      <4> QED BY <4>1, <4>2, UpdateType, ZenonT(60)
    <3> QED BY <1>4, <3>1, <3>2, <3>3, <3>4 DEF BwriteDone
  <2> QED BY <1>4, <2>1, <2>2 DEF BwriteDone, TypeOK
<1>5. CASE ReadDone(p)
  <2>1. [u[p] EXCEPT !.pc = "own"] \in Proc
    BY <1>1, <1>5 DEF ReadDone, Proc, PCs
  <2>2. u' \in [Procs -> Proc]
    BY <1>5, <2>1, UpdateType, Zenon DEF ReadDone
  <2> QED BY <1>5, <2>2 DEF ReadDone, TypeOK
<1> QED BY <1>3, <1>4, <1>5 DEF Biowait

-----------------------------------------------------------------------------
(* The callers of getblk, and breada, keep the types.                      *)

LEMMA FlagsType ==
  ASSUME TypeOK, NEW bp \in Bufs, NEW fs \in SUBSET Flags
  PROVE  /\ [buf EXCEPT ![bp].b_flags = @ \cup fs] \in [Bufs -> Buf]
         /\ [buf EXCEPT ![bp].b_flags = @ \ fs] \in [Bufs -> Buf]
<1>1. buf[bp] \in Buf /\ buf \in [Bufs -> Buf]
  BY DEF TypeOK
<1>2. /\ [buf[bp] EXCEPT !.b_flags = @ \cup fs] \in Buf
      /\ [buf[bp] EXCEPT !.b_flags = @ \ fs] \in Buf
  BY <1>1 DEF Buf
<1> QED BY <1>1, <1>2

LEMMA Started ==
  ASSUME TypeOK, NEW bp \in Bufs, NEW fs \in SUBSET {"READ", "ASYNC"},
         \/ UNCHANGED <<buf, ioq>>
         \/ /\ buf' = [buf EXCEPT ![bp].b_flags = @ \cup fs]
            /\ Strategy(bp)
  PROVE  buf' \in [Bufs -> Buf] /\ ioq' \in Seq(Bufs)
<1>1. CASE UNCHANGED <<buf, ioq>>
  BY <1>1 DEF TypeOK
<1>2. CASE buf' = [buf EXCEPT ![bp].b_flags = @ \cup fs] /\ Strategy(bp)
  <2>1. fs \in SUBSET Flags
    BY DEF Flags
  <2> QED BY <1>2, <2>1, FlagsType, StrategyType, Zenon
<1> QED BY <1>1, <1>2

LEMMA BreadaRestType ==
  ASSUME TypeOK, NEW p \in Procs, BreadaRest(p),
         u[p].main \in Request
  PROVE  u' \in [Procs -> Proc] /\ cpu' \in Procs \cup {NONE}
<1> DEFINE P == [Idle EXCEPT
                   !.pc = IF u[p].hold = NONE THEN "getblk" ELSE "rwait",
                   !.op = "bread", !.req = u[p].main, !.tp = u[p].hold]
<1>1. u[p].hold \in Bufs \cup {NONE}
  BY ProcType DEF Proc
<1>2. P \in Proc
  BY <1>1, Zenon DEF Idle, Proc, PCs
<1>3. u' = [u EXCEPT ![p] = P] /\ cpu' = p
  BY DEF BreadaRest
<1> QED BY <1>2, <1>3, UpdateType, Zenon

LEMMA GottenType ==
  ASSUME TypeOK, NEW p \in Procs, Gotten(p)
  PROVE  TypeOK'
<1>1. u[p] \in Proc /\ u[p].pc = "gotten"
  BY ProcType DEF Gotten, GottenBread, GottenWrite, GottenExtended,
                  GottenBreada, GottenReadAhead
<1>2. u[p].tp \in Bufs /\ u[p].req \in Request
  BY <1>1 DEF Proc
<1>3. (u' = [u EXCEPT ![p].pc = "own"]) => u' \in [Procs -> Proc]
  <2>1. [u[p] EXCEPT !.pc = "own"] \in Proc
    BY <1>1 DEF Proc, PCs
  <2> QED BY <2>1, UpdateType, Zenon
<1>4. CASE GottenBread(p)
  <2>1. u' \in [Procs -> Proc] /\ cpu' \in Procs \cup {NONE}
    BY <1>1, <1>3, <1>4, GotoType DEF GottenBread, Proc, PCs
  <2>2. buf' \in [Bufs -> Buf] /\ ioq' \in Seq(Bufs)
    <3>1. \/ UNCHANGED <<buf, ioq>>
          \/ /\ buf' = [buf EXCEPT ![u[p].tp].b_flags = @ \cup {"READ"}]
             /\ Strategy(u[p].tp)
      BY <1>4 DEF GottenBread
    <3> QED BY <1>2, <3>1, Started, ZenonT(60)
  <2> QED BY <1>4, <2>1, <2>2 DEF GottenBread, TypeOK
<1>5. CASE GottenWrite(p)
  BY <1>3, <1>5 DEF GottenWrite, TypeOK
<1>6. CASE GottenExtended(p)
  <2>1. u[p].req.size \in 0..MaxSize
    BY <1>2 DEF Request
  <2>2. fsize' \in [AllSectors -> 0..MaxSize]
    BY <1>6, <2>1, Zenon DEF GottenExtended, TypeOK
  <2>3. buf' \in [Bufs -> Buf]
    BY <1>2, <1>6, FlagsType, Zenon DEF GottenExtended, Flags
  <2> QED BY <1>3, <1>6, <2>2, <2>3 DEF GottenExtended, TypeOK
<1>7. CASE GottenBreada(p)
  <2>1. [u[p] EXCEPT !.pc = "ra", !.hold = u[p].tp, !.tp = NONE] \in Proc
    BY <1>1, <1>7, Zenon DEF GottenBreada, Proc, PCs
  <2>2. u' \in [Procs -> Proc]
    BY <1>7, <2>1, UpdateType, Zenon DEF GottenBreada
  <2>3. buf' \in [Bufs -> Buf] /\ ioq' \in Seq(Bufs)
    <3>1. \/ UNCHANGED <<buf, ioq>>
          \/ /\ buf' = [buf EXCEPT ![u[p].tp].b_flags = @ \cup {"READ"}]
             /\ Strategy(u[p].tp)
      BY <1>7 DEF GottenBreada
    <3> QED BY <1>2, <3>1, Started, ZenonT(60)
  <2> QED BY <1>7, <2>2, <2>3 DEF GottenBreada, TypeOK
<1>8. CASE GottenReadAhead(p)
  <2>1. u[p].main \in Request
    BY <1>1, <1>8 DEF GottenReadAhead, Proc
  <2>2. u' \in [Procs -> Proc] /\ cpu' \in Procs \cup {NONE}
    BY <1>8, <2>1, BreadaRestType DEF GottenReadAhead
  <2>3. CASE Has(u[p].tp, "DONE")
    <3>1. Brelse(u[p].tp, buf, bfreelist) /\ UNCHANGED ioq
      BY <1>8, <2>3 DEF GottenReadAhead
    <3>2. /\ buf' \in [Bufs -> Buf]
          /\ bfreelist' \in [BQ -> Seq(Bufs)]
          /\ flwanted' \in BOOLEAN
          /\ wchan' \in [Procs -> Bufs \cup {FREELIST, NONE}]
      BY <1>2, <3>1, BrelseType, Zenon DEF TypeOK
    <3> QED BY <1>8, <2>2, <3>1, <3>2 DEF GottenReadAhead, TypeOK
  <2>4. CASE ~Has(u[p].tp, "DONE")
    <3>1. /\ buf' = [buf EXCEPT ![u[p].tp].b_flags = @ \cup {"READ", "ASYNC"}]
          /\ Strategy(u[p].tp)
          /\ UNCHANGED <<bfreelist, flwanted, wchan>>
      BY <1>8, <2>4 DEF GottenReadAhead
    <3>2. buf' \in [Bufs -> Buf] /\ ioq' \in Seq(Bufs)
      BY <1>2, <3>1, Started, Zenon
    <3> QED BY <1>8, <2>2, <3>1, <3>2 DEF GottenReadAhead, TypeOK
  <2> QED BY <2>3, <2>4
<1> QED BY <1>4, <1>5, <1>6, <1>7, <1>8 DEF Gotten

LEMMA BreadaType ==
  ASSUME TypeOK, NEW p \in Procs, Breada(p)
  PROVE  TypeOK'
<1>1. u[p] \in Proc /\ u[p].pc \in {"breada", "ra"}
  BY ProcType DEF Breada, BreadaStart, ReadAheadStart, ReadAheadNone
<1>2. u[p].op = "breada" /\ u[p].main \in Request /\ u[p].req \in Request
  BY <1>1 DEF Proc
<1>3. CASE BreadaStart(p)
  <2>1. u' \in [Procs -> Proc] /\ cpu' \in Procs \cup {NONE}
    BY <1>1, <1>2, <1>3, GotoType DEF BreadaStart, PCs
  <2> QED BY <1>3, <2>1 DEF BreadaStart, TypeOK
<1>4. CASE ReadAheadStart(p)
  <2>1. [u[p] EXCEPT !.pc = "getblk", !.op = "ra", !.req = u[p].ra] \in Proc
    BY <1>1, <1>2, <1>4, Zenon DEF ReadAheadStart, Proc, PCs
  <2>2. u' \in [Procs -> Proc]
    BY <1>4, <2>1, UpdateType, Zenon DEF ReadAheadStart
  <2> QED BY <1>4, <2>2 DEF ReadAheadStart, TypeOK
<1>5. CASE ReadAheadNone(p)
  BY <1>2, <1>5, BreadaRestType DEF ReadAheadNone, TypeOK
<1> QED BY <1>3, <1>4, <1>5 DEF Breada

-----------------------------------------------------------------------------
(* The owner of a buffer, and the flushes, keep the types.                 *)

LEMMA OwnerType ==
  ASSUME TypeOK, NEW p \in Procs, Owner(p)
  PROVE  TypeOK'
<1>1. u[p] \in Proc /\ u[p].pc = "own"
  BY ProcType DEF Owner, Release, Bdwrite, Bawrite, Bwrite, Extend, Writable, Owns
<1>2. u[p].tp \in Bufs /\ u[p].req \in Request
  BY <1>1 DEF Proc
<1> DEFINE tp == u[p].tp
<1>3. bfreelist \in [BQ -> Seq(Bufs)] /\ buf \in [Bufs -> Buf]
  BY DEF TypeOK
<1>4. CASE Release(p)
  <2>1. PICK age \in SUBSET {"AGE"} : Brelse(tp, Taken(tp, age), bfreelist)
    BY <1>4 DEF Release
  <2>2. Taken(tp, age) \in [Bufs -> Buf]
    BY <1>2, <1>3, TakenType DEF Flags
  <2> QED BY <1>2, <1>3, <1>4, <2>1, <2>2, BrelseType, ReturnType, Zenon DEF Release, TypeOK
<1>5. CASE Bdwrite(p)
  <2>1. Taken(tp, {"DELWRI", "DONE"}) \in [Bufs -> Buf]
    BY <1>2, <1>3, TakenType DEF Flags
  <2>2. Brelse(tp, Taken(tp, {"DELWRI", "DONE"}), bfreelist) /\ Modify(tp)
    BY <1>5 DEF Bdwrite
  <2> QED BY <1>2, <1>3, <1>5, <2>1, <2>2, BrelseType, ModifyType, ReturnType
          DEF Bdwrite, TypeOK
<1>6. CASE Bawrite(p)
  <2>1. PICK age \in SUBSET {"AGE"} :
          buf' = [buf EXCEPT ![tp] = Bwritten(Taken(tp, {"ASYNC"} \cup age)[tp])]
    BY <1>6, Zenon DEF Bawrite
  <2>2. Taken(tp, {"ASYNC"} \cup age) \in [Bufs -> Buf]
    BY <1>2, <1>3, TakenType DEF Flags
  <2>3. buf' \in [Bufs -> Buf]
    BY <1>2, <1>3, <2>1, <2>2, BwrittenType, Zenon
  <2>4. Modify(tp) /\ Strategy(tp) /\ Return(p)
    BY <1>6 DEF Bawrite
  <2> QED BY <1>2, <1>6, <2>3, <2>4, ModifyType, StrategyType, ReturnType
          DEF Bawrite, TypeOK
<1>7. CASE Bwrite(p)
  <2>1. buf' \in [Bufs -> Buf]
    BY <1>2, <1>3, <1>7, BwrittenType DEF Bwrite
  <2>2. u' \in [Procs -> Proc] /\ cpu' \in Procs \cup {NONE}
    BY <1>1, <1>2, <1>7, GotoType DEF Bwrite, PCs
  <2>3. Modify(tp) /\ Strategy(tp)
    BY <1>7 DEF Bwrite
  <2> QED BY <1>2, <1>7, <2>1, <2>2, <2>3, ModifyType, StrategyType
          DEF Bwrite, TypeOK
<1>8. CASE Extend(p)
  <2>1. buf' \in [Bufs -> Buf]
    BY <1>2, <1>8, FlagsType, Zenon DEF Extend, Flags
  <2>2. [u[p] EXCEPT !.pc = "overlap", !.op = "extended",
                     !.req = u[p].main, !.main = NONE] \in Proc
    BY <1>1, <1>2, <1>8, Zenon DEF Extend, Proc, PCs
  <2>3. u' \in [Procs -> Proc]
    BY <1>8, <2>2, UpdateType, Zenon DEF Extend
  <2> QED BY <1>8, <2>1, <2>3 DEF Extend, TypeOK
<1> QED BY <1>4, <1>5, <1>6, <1>7, <1>8 DEF Owner


LEMMA FlushType ==
  ASSUME TypeOK, NEW p \in Procs, Flush(p)
  PROVE  TypeOK'
<1>1. u[p] \in Proc /\ bfreelist \in [BQ -> Seq(Bufs)] /\ buf \in [Bufs -> Buf]
  BY ProcType DEF TypeOK
<1>2. Flushees(p) \subseteq Bufs
  BY DEF Flushees, Overlapping
<1>3. CASE BlkflushBusy(p)
  <2>1. PICK ep \in Flushees(p) : buf' = Wanted(ep) /\ Sleep(p, ep)
    BY <1>3 DEF BlkflushBusy
  <2> QED BY <1>2, <1>3, <2>1, WantedType, SleepType DEF BlkflushBusy, TypeOK
<1>4. CASE BlkflushDirty(p)
  <2>1. PICK ep \in Flushees(p) :
          /\ buf' = [buf EXCEPT ![ep] = Bwritten(Taken(ep, {})[ep])]
          /\ bfreelist' = Notavail(ep)
          /\ Strategy(ep)
          /\ u' = [u EXCEPT ![p].pc = "fwait", ![p].ep = ep]
    BY <1>4, Zenon DEF BlkflushDirty
  <2>2. ep \in Bufs
    BY <1>2
  <2>3. buf' \in [Bufs -> Buf]
    BY <1>1, <2>1, <2>2, TakenType, BwrittenType
  <2>4. bfreelist' \in [BQ -> Seq(Bufs)] /\ ioq' \in Seq(Bufs)
    BY <1>1, <2>1, <2>2, NotavailType, StrategyType
  <2>5. [u[p] EXCEPT !.pc = "fwait", !.ep = ep] \in Proc
    BY <1>1, <1>4, <2>2, Zenon DEF BlkflushDirty, Proc, PCs
  <2>6. u' \in [Procs -> Proc]
    BY <2>1, <2>5, UpdateType, ZenonT(60)
  <2> QED BY <1>4, <2>3, <2>4, <2>6 DEF BlkflushDirty, TypeOK
<1>5. CASE BlkflushDone(p)
  BY <1>5, ReturnType DEF BlkflushDone, TypeOK
<1>6. CASE BflushOne(p)
  <2>0. PICK q \in {"LRU", "AGE"} : \E bp \in First(p, q) :
          /\ buf' = [buf EXCEPT ![bp] = Bwritten(Taken(bp, {"ASYNC"})[bp])]
          /\ bfreelist' = Notavail(bp)
          /\ Strategy(bp)
    BY <1>6, Zenon DEF BflushOne
  <2>1. PICK bp \in First(p, q) :
          /\ buf' = [buf EXCEPT ![bp] = Bwritten(Taken(bp, {"ASYNC"})[bp])]
          /\ bfreelist' = Notavail(bp)
          /\ Strategy(bp)
    BY <2>0, Zenon
  <2>2. bp \in Bufs
    BY <1>1, ElementOfSeq DEF First, Dirty, BQ
  <2>3. Taken(bp, {"ASYNC"}) \in [Bufs -> Buf]
    BY <1>1, <2>2, TakenType DEF Flags
  <2>4. buf' \in [Bufs -> Buf]
    BY <1>1, <2>1, <2>2, <2>3, BwrittenType
  <2>5. bfreelist' \in [BQ -> Seq(Bufs)] /\ ioq' \in Seq(Bufs)
    BY <1>1, <2>1, <2>2, NotavailType, StrategyType
  <2>6. u' \in [Procs -> Proc] /\ cpu' \in Procs \cup {NONE}
    <3>1. u[p].pc = "bflush" /\ u[p].req \in Request /\ Goto(p, "bflush")
      BY <1>1, <1>6 DEF BflushOne, Proc
    <3> QED BY <3>1, GotoType DEF PCs
  <2> QED BY <1>6, <2>4, <2>5, <2>6 DEF BflushOne, TypeOK
<1>7. CASE BflushDone(p)
  <2>1. u[p].pc = "bflush" /\ u[p].req \in Request
    BY <1>1, <1>7 DEF BflushDone, Proc
  <2>2. Goto(p, "binval") \/ Return(p)
    BY <1>7 DEF BflushDone
  <2>3. u' \in [Procs -> Proc] /\ cpu' \in Procs \cup {NONE}
    BY <2>1, <2>2, GotoType, ReturnType DEF PCs
  <2> QED BY <1>7, <2>3 DEF BflushDone, TypeOK
<1>8. CASE Binval(p)
  <2>1. \A bp \in Bufs : [buf[bp] EXCEPT !.b_flags = @ \cup {"INVAL"}] \in Buf
    <3> TAKE bp \in Bufs
    <3>1. buf[bp] \in Buf
      BY <1>1
    <3> QED BY <3>1 DEF Buf, Flags
  <2>2. buf' \in [Bufs -> Buf]
    BY <1>1, <1>8, <2>1 DEF Binval
  <2> QED BY <1>8, <2>2, ReturnType, Zenon DEF Binval, TypeOK
<1> QED BY <1>3, <1>4, <1>5, <1>6, <1>7, <1>8 DEF Flush

-----------------------------------------------------------------------------
(* The calls and the disk interrupt keep the types.                        *)

LEMMA BlockType ==
  ASSUME TypeOK, NEW d \in Devs, NEW b \in Sectors
  PROVE  Block(d, b) \in Request
BY DEF Block, Request, TypeOK, AllSectors

LEMMA NoBlockType ==
  ASSUME NEW d \in Devs \cup {NODEV}, NEW n \in 0..MaxSize
  PROVE  NoBlock(d, n) \in Request
<1>1. (CHOOSE b \in Sectors : TRUE) \in Sectors
  BY BufCacheAssumption
<1> QED BY <1>1 DEF NoBlock, Request

LEMMA BeginType ==
  ASSUME TypeOK, NEW p \in Procs,
         NEW op \in {"bread", "blkflush", "getblk", "geteblk", "sync", "close"},
         NEW pc \in {"getblk", "blkflush", "getnew", "bflush"},
         NEW r \in Request, Begin(p, op, pc, r)
  PROVE  TypeOK'
<1>1. op \in Ops
  BY DEF Begin
<1>2. [Idle EXCEPT !.pc = pc, !.op = op, !.req = r] \in Proc
  BY <1>1, Zenon DEF Idle, Proc, PCs
<1>3. u' \in [Procs -> Proc]
  BY <1>2, UpdateType, Zenon DEF Begin
<1> QED BY <1>3 DEF Begin, TypeOK

LEMMA CallType ==
  ASSUME TypeOK, NEW p \in Procs, Call(p)
  PROVE  TypeOK'
<1>1. CASE CallBread(p)
  BY <1>1, BlockType, BeginType DEF CallBread
<1>2. CASE CallBlkflush(p)
  BY <1>2, BlockType, BeginType DEF CallBlkflush
<1>3. CASE CallGetblk(p)
  BY <1>3, BlockType, BeginType DEF CallGetblk
<1>4. CASE CallGeteblk(p)
  <2>1. PICK n \in 1..MaxSize : Begin(p, "geteblk", "getnew", NoBlock(NODEV, n))
    BY <1>4 DEF CallGeteblk
  <2>2. n \in 0..MaxSize
    BY BufCacheAssumption
  <2> QED BY <2>1, <2>2, NoBlockType, BeginType
<1>5. CASE CallSync(p)
  <2>1. 0 \in 0..MaxSize
    BY BufCacheAssumption
  <2> QED BY <1>5, <2>1, NoBlockType, BeginType DEF CallSync
<1>6. CASE CallBreada(p)
  <2>1. PICK d \in Devs, b \in Sectors :
          /\ ReadAhead[<<d, b>>] # NONE /\ "breada" \in Ops
          /\ u' = [u EXCEPT ![p] = [Idle EXCEPT !.pc = "breada", !.op = "breada",
                     !.req = Block(d, b), !.main = Block(d, b),
                     !.ra = Block(d, ReadAhead[<<d, b>>])]]
          /\ cpu' = p
          /\ UNCHANGED <<buf, bfreelist, flwanted, ioq, wchan, fsize, cur, diskcur, lost>>
    BY <1>6, Zenon DEF CallBreada
  <2>2. ReadAhead[<<d, b>>] \in Sectors
    BY <2>1, BufCacheAssumption
  <2>3. Block(d, b) \in Request /\ Block(d, ReadAhead[<<d, b>>]) \in Request
    BY <2>2, BlockType
  <2>4. [Idle EXCEPT !.pc = "breada", !.op = "breada", !.req = Block(d, b),
           !.main = Block(d, b), !.ra = Block(d, ReadAhead[<<d, b>>])] \in Proc
    BY <2>1, <2>3, Zenon DEF Idle, Proc, PCs
  <2>5. u' \in [Procs -> Proc]
    BY <2>1, <2>4, UpdateType, Zenon
  <2> QED BY <2>1, <2>5 DEF TypeOK
<1>7. CASE CallClose(p)
  <2>1. 0 \in 0..MaxSize
    BY BufCacheAssumption
  <2> QED BY <1>7, <2>1, NoBlockType, BeginType DEF CallClose
<1>8. CASE CallExtend(p)
  <2>1. PICK d \in Devs, b \in Sectors, n \in 1..MaxSize :
          /\ "extend" \in Ops
          /\ u' = [u EXCEPT ![p] = [Idle EXCEPT !.pc = "getblk", !.op = "extend",
                     !.req = Block(d, b), !.main = [Block(d, b) EXCEPT !.size = n]]]
          /\ cpu' = p
          /\ UNCHANGED <<buf, bfreelist, flwanted, ioq, wchan, fsize, cur, diskcur, lost>>
    BY <1>8, Zenon DEF CallExtend
  <2>2. n \in 0..MaxSize
    BY BufCacheAssumption
  <2>3. Block(d, b) \in Request /\ [Block(d, b) EXCEPT !.size = n] \in Request
    BY <2>2, BlockType DEF Request
  <2>4. [Idle EXCEPT !.pc = "getblk", !.op = "extend", !.req = Block(d, b),
           !.main = [Block(d, b) EXCEPT !.size = n]] \in Proc
    BY <2>1, <2>3, Zenon DEF Idle, Proc, PCs
  <2>5. u' \in [Procs -> Proc]
    BY <2>1, <2>4, UpdateType, Zenon
  <2> QED BY <2>1, <2>5 DEF TypeOK
<1>9. CASE CallAlloc(p)
  <2>1. PICK d \in Devs, b \in Sectors, n \in 1..MaxSize :
          /\ "alloc" \in Ops
          /\ fsize' = [fsize EXCEPT ![<<d, b>>] = n]
          /\ u' = [u EXCEPT ![p] = [Idle EXCEPT !.pc = "getblk", !.op = "alloc",
                     !.req = [dev |-> d, blkno |-> b, size |-> n]]]
          /\ cpu' = p
          /\ UNCHANGED <<buf, bfreelist, flwanted, ioq, wchan, cur, diskcur, lost>>
    BY <1>9, Zenon DEF CallAlloc
  <2>2. n \in 0..MaxSize
    BY BufCacheAssumption
  <2>3. [dev |-> d, blkno |-> b, size |-> n] \in Request
    BY <2>2 DEF Request
  <2>4. [Idle EXCEPT !.pc = "getblk", !.op = "alloc",
           !.req = [dev |-> d, blkno |-> b, size |-> n]] \in Proc
    BY <2>1, <2>3, Zenon DEF Idle, Proc, PCs
  <2>5. u' \in [Procs -> Proc]
    BY <2>1, <2>4, UpdateType, Zenon
  <2>6. fsize' \in [AllSectors -> 0..MaxSize]
    BY <2>1, <2>2, Zenon DEF TypeOK
  <2> QED BY <2>1, <2>5, <2>6 DEF TypeOK
<1>10. CASE Free(p)
  <2>1. 0 \in 0..MaxSize
    BY BufCacheAssumption
  <2> QED BY <1>10, <2>1, Zenon DEF Free, TypeOK
<1> QED BY <1>1, <1>2, <1>3, <1>4, <1>5, <1>6, <1>7, <1>8, <1>9, <1>10 DEF Call

LEMMA DiskIntrType ==
  ASSUME TypeOK, NEW bp \in Bufs, DiskIntr(bp)
  PROVE  TypeOK'
<1>1. Extent(buf[bp]) \subseteq Copies
  BY ExtentType
<1>2. PICK ok \in {TRUE, ~IOErrors} :
        LET b == [buf EXCEPT ![bp].b_flags =
                    @ \cup {"DONE"} \cup (IF ok THEN {} ELSE {"ERROR"})]
        IN  /\ Transfer(bp, ok)
            /\ IF Has(bp, "ASYNC")
                 THEN Brelse(bp, b, bfreelist)
                 ELSE /\ buf' = [b EXCEPT ![bp].b_flags = @ \ {"WANTED"}]
                      /\ wchan' = Wakeup(wchan, {bp})
                      /\ UNCHANGED <<bfreelist, flwanted>>
  BY Zenon DEF DiskIntr
<1> DEFINE fs == {"DONE"} \cup (IF ok THEN {} ELSE {"ERROR"})
           b  == [buf EXCEPT ![bp].b_flags = @ \cup {"DONE"} \cup (IF ok THEN {} ELSE {"ERROR"})]
<1>3. b \in [Bufs -> Buf]
  <2>1. buf[bp] \in Buf /\ buf \in [Bufs -> Buf]
    BY DEF TypeOK
  <2>2. buf[bp].b_flags \cup {"DONE"} \cup (IF ok THEN {} ELSE {"ERROR"}) \in SUBSET Flags
    BY <2>1 DEF Buf, Flags
  <2>3. [buf[bp] EXCEPT !.b_flags = @ \cup {"DONE"} \cup (IF ok THEN {} ELSE {"ERROR"})] \in Buf
    BY <2>1, <2>2 DEF Buf
  <2> QED BY <2>1, <2>3
<1>4. /\ cur' \in [Bufs -> SUBSET Copies]
      /\ diskcur' \in SUBSET Copies
      /\ lost' \in SUBSET Copies
  <2>1. /\ cur \in [Bufs -> SUBSET Copies]
        /\ diskcur \in SUBSET Copies
        /\ lost \in SUBSET Copies
    BY DEF TypeOK
  <2>2. Transfer(bp, ok)
    BY <1>2
  <2>3. CASE Has(bp, "READ")
    BY <1>1, <2>1, <2>2, <2>3 DEF Transfer
  <2>4. CASE ~Has(bp, "READ")
    BY <1>1, <2>1, <2>2, <2>4 DEF Transfer
  <2> QED BY <2>3, <2>4
<1>5. ioq' \in Seq(Bufs)
  BY UnlinkType DEF DiskIntr, TypeOK
<1>6. /\ buf' \in [Bufs -> Buf]
      /\ bfreelist' \in [BQ -> Seq(Bufs)]
      /\ flwanted' \in BOOLEAN
      /\ wchan' \in [Procs -> Bufs \cup {FREELIST, NONE}]
  <2> HIDE DEF b
  <2>1. bfreelist \in [BQ -> Seq(Bufs)] /\ flwanted \in BOOLEAN
        /\ wchan \in [Procs -> Bufs \cup {FREELIST, NONE}]
    BY DEF TypeOK
  <2>2. CASE Has(bp, "ASYNC")
    <3>1. Brelse(bp, b, bfreelist)
      BY <1>2, <2>2 DEF b
    <3> QED BY <1>3, <2>1, <3>1, BrelseType
  <2>3. CASE ~Has(bp, "ASYNC")
    <3>1. /\ buf' = [b EXCEPT ![bp].b_flags = @ \ {"WANTED"}]
          /\ wchan' = Wakeup(wchan, {bp})
          /\ UNCHANGED <<bfreelist, flwanted>>
      BY <1>2, <2>3 DEF b
    <3>2. [b[bp] EXCEPT !.b_flags = @ \ {"WANTED"}] \in Buf
      <4>1. b[bp] \in Buf
        BY <1>3
      <4> QED BY <4>1 DEF Buf
    <3>3. buf' \in [Bufs -> Buf]
      BY <1>3, <3>1, <3>2
    <3> QED BY <2>1, <3>1, <3>3 DEF Wakeup
  <2> QED BY <2>2, <2>3
<1> QED BY <1>4, <1>5, <1>6 DEF DiskIntr, TypeOK

-----------------------------------------------------------------------------
(* Type correctness.                                                       *)

LEMMA InitType ==
  ASSUME Init
  PROVE  TypeOK
<1>1. buf \in [Bufs -> Buf]
  BY BufCacheAssumption DEF Init, Buf, Flags
<1>2. bfreelist \in [BQ -> Seq(Bufs)]
  <2>1. Cardinality(Bufs) \in Nat
    BY BufCacheAssumption, FS_CardinalityType
  <2>2. UNION { [1..n -> Bufs] : n \in 0..Cardinality(Bufs) } \subseteq Seq(Bufs)
    BY <2>1
  <2>3. bfreelist \in [BQ -> UNION { [1..n -> Bufs] : n \in 0..Cardinality(Bufs) }]
    BY DEF Init
  <2> QED BY <2>2, <2>3
<1>3. u \in [Procs -> Proc]
  BY IdleType DEF Init
<1>4. fsize \in [AllSectors -> 0..MaxSize]
  BY BufCacheAssumption DEF Init, AllSectors
<1>5. ioq \in Seq(Bufs)
  BY DEF Init
<1>6. cur \in [Bufs -> SUBSET Copies] /\ diskcur \in SUBSET Copies /\ lost \in SUBSET Copies
  BY BufCacheAssumption, Zenon DEF Init, AllSectors, Copies
<1>7. flwanted \in BOOLEAN /\ cpu \in Procs \cup {NONE}
      /\ wchan \in [Procs -> Bufs \cup {FREELIST, NONE}]
  BY Zenon DEF Init
<1> QED BY <1>1, <1>2, <1>3, <1>4, <1>5, <1>6, <1>7 DEF TypeOK

LEMMA NextType ==
  ASSUME TypeOK, [Next]_vars
  PROVE  TypeOK'
<1>1. ASSUME NEW p \in Procs, Call(p) PROVE TypeOK'
  BY <1>1, CallType
<1>2. ASSUME NEW p \in Procs, Inside(p) PROVE TypeOK'
  BY <1>2, GetnewbufType, GetblkType, OverlapType, AllocbufType, BiowaitType,
     GottenType, BreadaType, OwnerType, FlushType DEF Inside
<1>3. ASSUME NEW bp \in Bufs, DiskIntr(bp) PROVE TypeOK'
  BY <1>3, DiskIntrType
<1>4. CASE UNCHANGED vars
  BY <1>4 DEF vars, TypeOK
<1> QED BY <1>1, <1>2, <1>3, <1>4 DEF Next

(* In every state of the buffer cache, for any number of headers, blocks   *)
(* and processes, every variable has its type, and a process that is       *)
(* between two sleeps of getblk, bwrite or breada has the buffers and the  *)
(* requests that the code there will use.                                  *)
THEOREM TypeCorrect == Spec => []TypeOK
BY InitType, NextType, PTL DEF Spec

-----------------------------------------------------------------------------
(* The invariant of the lock.                                              *)

NoDup(s) == \A i, j \in 1..Len(s) : s[i] = s[j] => i = j

Queued(bp) == bp \in Elems(ioq)
OnFree(bp) == \E q \in BQ : bp \in Elems(bfreelist[q])
Owned(bp)  == \E p \in Procs : bp \in Held(p)

(* Where a process has a buffer in tp; where breada keeps one in hold; and *)
(* where the transfer of tp may be under way.                              *)
TpAt   == {"overlap", "owait", "alloc", "swait", "gotten", "rwait", "own", "wwait"}
HoldAt == {"ra", "getblk", "getnew", "overlap", "owait", "alloc", "swait", "gotten"}
Waits  == {"rwait", "wwait", "swait"}

(* What a process has checked out depends on its step, and is never one    *)
(* buffer twice.                                                           *)
Shapely(pc, op, tp, ep, hold) ==
  /\ tp # NONE => pc \in TpAt /\ tp # ep /\ tp # hold
  /\ ep # NONE => pc \in {"owait", "fwait"} /\ ep # hold
  /\ hold # NONE => pc \in HoldAt /\ (pc = "ra" \/ op = "ra")
Shape(P) == Shapely(P.pc, P.op, P.tp, P.ep, P.hold)

(* A buffer with a process is with the driver only while the process waits *)
(* for the transfer, or has breada wait for it later.                      *)
Finishing(bp) == Has(bp, "DONE") \/ Queued(bp)
PlacedAs(pc, tp, ep, hold) ==
  /\ tp # NONE => IF pc \in Waits THEN Finishing(tp) ELSE ~Queued(tp)
  /\ ep # NONE => Finishing(ep)
  /\ hold # NONE => Finishing(hold)
Placed(P) == PlacedAs(P.pc, P.tp, P.ep, P.hold)

(* A header is busy when it is owned or with the driver, and only then; it *)
(* is asynchronous while the driver alone has it; it is free, or busy.     *)
Fits(bp, own) ==
  /\ Has(bp, "BUSY") <=> (own \/ Queued(bp))
  /\ Queued(bp) => (Has(bp, "ASYNC") <=> ~own) /\ ~Has(bp, "DONE")
  /\ Has(bp, "ASYNC") => Queued(bp)
  /\ OnFree(bp) <=> ~Has(bp, "BUSY")

FreeOnce(fl) ==
  /\ \A q \in BQ : NoDup(fl[q])
  /\ \A q, r \in BQ : q # r => Elems(fl[q]) \cap Elems(fl[r]) = {}

LockInv ==
  /\ TypeOK
  /\ \A p \in Procs : Shape(u[p]) /\ Placed(u[p])
  /\ \A p, q \in Procs : \A b \in Held(p) : b \in Held(q) => p = q
  /\ \A b \in Bufs : Fits(b, Owned(b))
  /\ NoDup(ioq)
  /\ FreeOnce(bfreelist)
  /\ NoLostWakeup

-----------------------------------------------------------------------------
(* The lists.                                                              *)

LEMMA UnlinkElems ==
  ASSUME NEW S, NEW s \in Seq(S), NEW bp, NoDup(s)
  PROVE  /\ NoDup(Unlink(s, bp))
         /\ Elems(Unlink(s, bp)) = Elems(s) \ {bp}
<1>1. CASE bp \notin Elems(s)
  BY <1>1 DEF Unlink
<1>2. CASE bp \in Elems(s)
  <2> DEFINE k == CHOOSE i \in 1..Len(s) : s[i] = bp
             t == [i \in 1..(Len(s) - 1) |-> IF i < k THEN s[i] ELSE s[i + 1]]
  <2>1. k \in 1..Len(s) /\ s[k] = bp
    BY <1>2 DEF Elems
  <2>2. Unlink(s, bp) = t
    BY <1>2 DEF Unlink
  <2>3. Len(s) \in Nat \ {0} /\ Len(s) - 1 \in Nat
    BY <2>1
  <2>4. t \in Seq(S)
    BY <2>2, UnlinkType
  <2>5. /\ Len(t) = Len(s) - 1
        /\ \A i \in 1..(Len(s) - 1) : t[i] = IF i < k THEN s[i] ELSE s[i + 1]
    <3> DEFINE n == Len(s) - 1
    <3>1. DOMAIN t = 1..n
      OBVIOUS
    <3>2. Len(t) \in Nat /\ DOMAIN t = 1..Len(t)
      BY <2>4, LenProperties, Zenon
    <3> HIDE DEF t
    <3>3. Len(t) = n
      BY <2>3, <3>1, <3>2
    <3> QED BY <3>3, Zenon DEF t
  <2> HIDE DEF k, t
  <2>6. NoDup(t)
    <3> SUFFICES ASSUME NEW i \in 1..Len(t), NEW j \in 1..Len(t), t[i] = t[j]
                 PROVE  i = j
      BY DEF NoDup
    <3> DEFINE ii == IF i < k THEN i ELSE i + 1
               jj == IF j < k THEN j ELSE j + 1
    <3>1. ii \in 1..Len(s) /\ jj \in 1..Len(s)
      BY <2>1, <2>3, <2>5
    <3>2. s[ii] = s[jj]
      BY <2>3, <2>5
    <3>3. ii = jj
      BY <3>1, <3>2 DEF NoDup
    <3> QED BY <2>1, <2>3, <2>5, <3>3
  <2>7. ASSUME NEW x \in Elems(t) PROVE x \in Elems(s) \ {bp}
    <3>1. PICK i \in 1..Len(t) : x = t[i]
      BY <2>7 DEF Elems
    <3> DEFINE ii == IF i < k THEN i ELSE i + 1
    <3>2. ii \in 1..Len(s) /\ ii # k /\ x = s[ii]
      BY <2>1, <2>3, <2>5, <3>1
    <3> HIDE DEF ii
    <3>3. x \in Elems(s)
      BY <3>2 DEF Elems
    <3>4. x # bp
      BY <2>1, <3>2 DEF NoDup
    <3> QED BY <3>3, <3>4
  <2>8. ASSUME NEW x \in Elems(s) \ {bp} PROVE x \in Elems(t)
    <3>1. PICK i \in 1..Len(s) : x = s[i]
      BY <2>8 DEF Elems
    <3>2. i # k
      BY <2>1, <3>1
    <3> DEFINE ii == IF i < k THEN i ELSE i - 1
    <3>3. ii \in 1..Len(t) /\ t[ii] = s[i]
      BY <2>1, <2>3, <2>5, <3>2
    <3> HIDE DEF ii
    <3> QED BY <3>1, <3>3 DEF Elems
  <2> QED BY <2>2, <2>6, <2>7, <2>8
<1> QED BY <1>1, <1>2

LEMMA AppendElems ==
  ASSUME NEW S, NEW s \in Seq(S), NEW e \in S, NoDup(s), e \notin Elems(s)
  PROVE  /\ NoDup(Append(s, e))
         /\ Elems(Append(s, e)) = Elems(s) \cup {e}
<1> DEFINE r == Append(s, e)
<1>1. /\ Len(s) \in Nat /\ Len(r) = Len(s) + 1
      /\ \A i \in 1..Len(s) : r[i] = s[i]
      /\ r[Len(s) + 1] = e
  OBVIOUS
<1> HIDE DEF r
<1>2. \A k \in 1..Len(s) : s[k] # e
  BY DEF Elems
<1>3. NoDup(r)
  <2> SUFFICES ASSUME NEW i \in 1..Len(r), NEW j \in 1..Len(r), r[i] = r[j]
               PROVE  i = j
    BY DEF NoDup
  <2>2. CASE i \in 1..Len(s) /\ j \in 1..Len(s)
    BY <1>1, <2>2 DEF NoDup
  <2>3. CASE i \in 1..Len(s) /\ j = Len(s) + 1
    BY <1>1, <1>2, <2>3
  <2>4. CASE i = Len(s) + 1 /\ j \in 1..Len(s)
    BY <1>1, <1>2, <2>4
  <2>5. CASE i = Len(s) + 1 /\ j = Len(s) + 1
    BY <2>5
  <2> QED BY <1>1, <2>2, <2>3, <2>4, <2>5
<1>4. ASSUME NEW x \in Elems(r) PROVE x \in Elems(s) \cup {e}
  <2>1. PICK i \in 1..Len(r) : x = r[i]
    BY <1>4 DEF Elems
  <2>2. CASE i \in 1..Len(s)
    BY <1>1, <2>1, <2>2 DEF Elems
  <2>3. CASE i = Len(s) + 1
    BY <1>1, <2>1, <2>3
  <2> QED BY <1>1, <2>2, <2>3
<1>5. ASSUME NEW x \in Elems(s) PROVE x \in Elems(r)
  <2>1. PICK i \in 1..Len(s) : x = s[i]
    BY <1>5 DEF Elems
  <2>2. i \in 1..Len(r) /\ x = r[i]
    BY <1>1, <2>1
  <2> QED BY <2>2 DEF Elems
<1>6. e \in Elems(r)
  <2>1. Len(s) + 1 \in 1..Len(r) /\ e = r[Len(s) + 1]
    BY <1>1
  <2> QED BY <2>1 DEF Elems
<1>7. Elems(r) = Elems(s) \cup {e}
  BY <1>4, <1>5, <1>6
<1> QED BY <1>3, <1>7 DEF r

LEMMA PushElems ==
  ASSUME NEW S, NEW s \in Seq(S), NEW e \in S, NoDup(s), e \notin Elems(s)
  PROVE  /\ NoDup(<<e>> \o s)
         /\ Elems(<<e>> \o s) = Elems(s) \cup {e}
<1> DEFINE r == <<e>> \o s
<1>1. /\ Len(s) \in Nat /\ Len(r) = Len(s) + 1
      /\ \A i \in 1..Len(s) : r[i + 1] = s[i]
      /\ r[1] = e
  OBVIOUS
<1> HIDE DEF r
<1>2. \A k \in 1..Len(s) : s[k] # e
  BY DEF Elems
<1>3. \A i \in 1..Len(r) : i = 1 \/ (i - 1 \in 1..Len(s) /\ r[i] = s[i - 1])
  <2> SUFFICES ASSUME NEW i \in 1..Len(r), i # 1
               PROVE  i - 1 \in 1..Len(s) /\ r[i] = s[i - 1]
    OBVIOUS
  <2>1. i - 1 \in 1..Len(s) /\ (i - 1) + 1 = i
    BY <1>1
  <2> QED BY <1>1, <2>1
<1>4. NoDup(r)
  <2> SUFFICES ASSUME NEW i \in 1..Len(r), NEW j \in 1..Len(r), r[i] = r[j]
               PROVE  i = j
    BY DEF NoDup
  <2>1. CASE i = 1 /\ j = 1
    BY <2>1
  <2>2. CASE i = 1 /\ j # 1
    BY <1>1, <1>2, <1>3, <2>2
  <2>3. CASE i # 1 /\ j = 1
    BY <1>1, <1>2, <1>3, <2>3
  <2>4. CASE i # 1 /\ j # 1
    <3>1. i - 1 \in 1..Len(s) /\ j - 1 \in 1..Len(s) /\ s[i - 1] = s[j - 1]
      BY <1>3, <2>4
    <3>2. i - 1 = j - 1
      BY <3>1 DEF NoDup
    <3> QED BY <3>2
  <2> QED BY <2>1, <2>2, <2>3, <2>4
<1>5. ASSUME NEW x \in Elems(r) PROVE x \in Elems(s) \cup {e}
  <2>1. PICK i \in 1..Len(r) : x = r[i]
    BY <1>5 DEF Elems
  <2>2. CASE i = 1
    BY <1>1, <2>1, <2>2
  <2>3. CASE i # 1
    <3>1. i - 1 \in 1..Len(s) /\ x = s[i - 1]
      BY <1>3, <2>1, <2>3
    <3> QED BY <3>1 DEF Elems
  <2> QED BY <2>2, <2>3
<1>6. ASSUME NEW x \in Elems(s) PROVE x \in Elems(r)
  <2>1. PICK i \in 1..Len(s) : x = s[i]
    BY <1>6 DEF Elems
  <2>2. i + 1 \in 1..Len(r) /\ x = r[i + 1]
    BY <1>1, <2>1
  <2> QED BY <2>2 DEF Elems
<1>7. e \in Elems(r)
  <2>1. 1 \in 1..Len(r) /\ e = r[1]
    BY <1>1
  <2> QED BY <2>1 DEF Elems
<1>8. Elems(r) = Elems(s) \cup {e}
  BY <1>5, <1>6, <1>7
<1> QED BY <1>4, <1>8 DEF r

(* bremfree: the buffer is on no free list any more.                       *)
LEMMA TakeFree ==
  ASSUME LockInv, NEW bp, bfreelist' = Notavail(bp)
  PROVE  /\ FreeOnce(bfreelist)'
         /\ \A q \in BQ : Elems(bfreelist'[q]) \subseteq Elems(bfreelist[q])
         /\ \A b \in Bufs : OnFree(b)' <=> OnFree(b) /\ b # bp
         /\ NoneFree => NoneFree'
<1>1. \A q \in BQ : bfreelist[q] \in Seq(Bufs) /\ NoDup(bfreelist[q])
  BY DEF LockInv, TypeOK, FreeOnce
<1>2. \A q \in BQ : bfreelist'[q] = Unlink(bfreelist[q], bp)
  BY DEF Notavail
<1>3. Unlink(<<>>, bp) = <<>>
  <2>1. Elems(<<>>) = {}
    BY DEF Elems
  <2> QED BY <2>1 DEF Unlink
<1>4. \A q \in BQ : /\ NoDup(bfreelist'[q])
                    /\ Elems(bfreelist'[q]) = Elems(bfreelist[q]) \ {bp}
  BY <1>1, <1>2, UnlinkElems
<1>5. NoneFree => NoneFree'
  BY <1>2, <1>3 DEF NoneFree, BQ
<1>6. \A q, r \in BQ : q # r => Elems(bfreelist[q]) \cap Elems(bfreelist[r]) = {}
  BY DEF LockInv, FreeOnce
<1>7. FreeOnce(bfreelist')
  BY <1>4, <1>6, Zenon DEF FreeOnce
<1>8. \A b \in Bufs : OnFree(b)' <=> OnFree(b) /\ b # bp
  BY <1>4, Zenon DEF OnFree
<1>9. \A q \in BQ : Elems(bfreelist'[q]) \subseteq Elems(bfreelist[q])
  BY <1>4
<1> QED BY <1>5, <1>7, <1>8, <1>9

(* The end of brelse: a buffer that is on no list is put on one.           *)
LEMMA PutElems ==
  ASSUME NEW fl \in [BQ -> Seq(Bufs)], FreeOnce(fl), NEW bp \in Bufs, NEW B,
         \A q \in BQ : bp \notin Elems(fl[q])
  PROVE  /\ FreeOnce(Put(fl, bp, B))
         /\ Elems(Put(fl, bp, B)[FreeQueue(B)]) = Elems(fl[FreeQueue(B)]) \cup {bp}
         /\ \A q \in BQ \ {FreeQueue(B)} : Put(fl, bp, B)[q] = fl[q]
<1> DEFINE r == FreeQueue(B)
           s == fl[r]
           t == IF NoInfo(B) THEN <<bp>> \o s ELSE Append(s, bp)
           g == Put(fl, bp, B)
<1>1. r \in BQ
  BY FreeQueueType
<1> HIDE DEF r
<1>2. s \in Seq(Bufs) /\ NoDup(s) /\ bp \notin Elems(s)
  BY <1>1 DEF FreeOnce
<1>3. g = [fl EXCEPT ![r] = t]
  BY DEF Put, r
<1> HIDE DEF s
<1>4. NoDup(t) /\ Elems(t) = Elems(s) \cup {bp}
  <2>1. CASE NoInfo(B)
    BY <1>2, <2>1, PushElems
  <2>2. CASE ~NoInfo(B)
    BY <1>2, <2>2, AppendElems
  <2> QED BY <2>1, <2>2
<1> HIDE DEF t
<1>5. g[r] = t /\ \A q \in BQ \ {r} : g[q] = fl[q]
  BY <1>1, <1>3
<1> HIDE DEF g
<1>6. \A q \in BQ : NoDup(g[q])
  BY <1>4, <1>5 DEF FreeOnce
<1>7. \A q \in BQ \ {r} : Elems(fl[q]) \cap Elems(t) = {}
  <2>1. \A q \in BQ \ {r} : Elems(fl[q]) \cap Elems(s) = {}
    BY <1>1 DEF FreeOnce, s
  <2> QED BY <1>4, <2>1
<1>8. \A q1, q2 \in BQ : q1 # q2 => Elems(g[q1]) \cap Elems(g[q2]) = {}
  BY <1>1, <1>5, <1>7 DEF FreeOnce
<1> QED BY <1>4, <1>5, <1>6, <1>8 DEF FreeOnce, r, s, g

(* brelse of a buffer that is on no list, or has just been taken off its   *)
(* list.                                                                   *)
LEMMA GiveBack ==
  ASSUME LockInv, NEW bp \in Bufs, NEW B, NEW fl,
         fl = Notavail(bp) \/ (fl = bfreelist /\ ~OnFree(bp)),
         bfreelist' = Put(fl, bp, B)
  PROVE  /\ FreeOnce(bfreelist)'
         /\ bp \in Elems(bfreelist'[FreeQueue(B)])
         /\ \A q \in BQ : \A b \in Elems(bfreelist'[q]) :
              b \in Elems(bfreelist[q]) \/ (b = bp /\ q = FreeQueue(B))
         /\ \A b \in Bufs : OnFree(b)' <=> OnFree(b) \/ b = bp
<1>1. \A q \in BQ : bfreelist[q] \in Seq(Bufs) /\ NoDup(bfreelist[q])
  BY DEF LockInv, TypeOK, FreeOnce
<1>2. \A q, r \in BQ : q # r => Elems(bfreelist[q]) \cap Elems(bfreelist[r]) = {}
  BY DEF LockInv, FreeOnce
<1>3. /\ fl \in [BQ -> Seq(Bufs)]
      /\ \A q \in BQ : NoDup(fl[q]) /\ Elems(fl[q]) = Elems(bfreelist[q]) \ {bp}
  <2>1. CASE fl = Notavail(bp)
    <3>1. fl \in [BQ -> Seq(Bufs)]
      BY <2>1, NotavailType DEF LockInv, TypeOK
    <3>2. \A q \in BQ : fl[q] = Unlink(bfreelist[q], bp)
      BY <2>1 DEF Notavail
    <3>3. \A q \in BQ : NoDup(fl[q]) /\ Elems(fl[q]) = Elems(bfreelist[q]) \ {bp}
      BY <1>1, <3>2, UnlinkElems
    <3> QED BY <3>1, <3>3
  <2>2. CASE fl = bfreelist /\ ~OnFree(bp)
    BY <1>1, <2>2 DEF LockInv, TypeOK, OnFree
  <2> QED BY <2>1, <2>2, Zenon
<1>4. FreeOnce(fl) /\ \A q \in BQ : bp \notin Elems(fl[q])
  BY <1>2, <1>3, Zenon DEF FreeOnce
<1>5. /\ FreeOnce(bfreelist')
      /\ Elems(bfreelist'[FreeQueue(B)]) = Elems(fl[FreeQueue(B)]) \cup {bp}
      /\ \A q \in BQ \ {FreeQueue(B)} : bfreelist'[q] = fl[q]
  BY <1>3, <1>4, PutElems, SMTT(60)
<1>6. ASSUME NEW b \in Bufs PROVE OnFree(b)' <=> OnFree(b) \/ b = bp
  <2>1. OnFree(b)' <=> \E q \in BQ : b \in Elems(bfreelist'[q])
    BY DEF OnFree
  <2>2. FreeQueue(B) \in BQ
    BY FreeQueueType
  <2> HIDE DEF FreeQueue
  <2>3. \A q \in BQ : b \in Elems(bfreelist'[q]) <=>
          (b \in Elems(bfreelist[q]) /\ b # bp) \/ (q = FreeQueue(B) /\ b = bp)
    BY <1>3, <1>5, <2>2, Zenon
  <2> QED BY <2>1, <2>2, <2>3 DEF OnFree
<1>7. bp \in Elems(bfreelist'[FreeQueue(B)])
  BY <1>5
<1>8. ASSUME NEW q \in BQ, NEW b \in Elems(bfreelist'[q])
      PROVE  b \in Elems(bfreelist[q]) \/ (b = bp /\ q = FreeQueue(B))
  <2>1. CASE q = FreeQueue(B)
    BY <1>3, <1>5, <2>1
  <2>2. CASE q # FreeQueue(B)
    BY <1>3, <1>5, <2>2
  <2> QED BY <2>1, <2>2
<1> QED BY <1>5, <1>6, <1>7, <1>8

(* A buffer is handed to the driver.                                       *)
LEMMA Enqueue ==
  ASSUME LockInv, NEW bp \in Bufs, ~Queued(bp), Strategy(bp)
  PROVE  /\ NoDup(ioq)'
         /\ \A b \in Bufs : Queued(b)' <=> Queued(b) \/ b = bp
<1>1. ioq \in Seq(Bufs) /\ NoDup(ioq) /\ bp \notin Elems(ioq)
  BY DEF LockInv, TypeOK, Queued
<1>2. NoDup(ioq') /\ Elems(ioq') = Elems(ioq) \cup {bp}
  BY <1>1, AppendElems DEF Strategy
<1> QED BY <1>2 DEF Queued

-----------------------------------------------------------------------------
(* A step of one process.                                                  *)

LockFlags == {"BUSY", "DONE", "ASYNC", "WANTED"}

Kept(b) ==
  /\ \A f \in LockFlags : Has(b, f)' <=> Has(b, f)
  /\ Queued(b)' <=> Queued(b)
  /\ OnFree(b)' <=> OnFree(b)

(* Somebody who sleeps on the buffer will be woken.                        *)
Alert(b) == Has(b, "BUSY") /\ (Has(b, "WANTED") \/ (Queued(b) /\ ~Has(b, "ASYNC")))

FitsNext(b, own) ==
  /\ Has(b, "BUSY")' <=> (own \/ Queued(b)')
  /\ Queued(b)' => (Has(b, "ASYNC")' <=> ~own) /\ ~Has(b, "DONE")'
  /\ Has(b, "ASYNC")' => Queued(b)'
  /\ OnFree(b)' <=> ~Has(b, "BUSY")'

(* The step leaves the sleepers to be woken by somebody, if it changes     *)
(* nothing but the buffers X.                                              *)
Minds(X) ==
  /\ \A q \in Procs : wchan'[q] \in {NONE, wchan[q]}
  /\ \A b \in X : Alert(b) => Alert(b)' \/ \A q \in Procs : wchan'[q] # b
  /\ \/ \A q \in Procs : wchan'[q] # FREELIST
     \/ flwanted' = flwanted /\ (NoneFree => NoneFree')

LEMMA MindsWakes ==
  ASSUME LockInv, TypeOK', NEW X, Minds(X), \A b \in Bufs \ X : Kept(b)
  PROVE  NoLostWakeup'
<1> SUFFICES ASSUME NEW q \in Procs
             PROVE  /\ wchan'[q] \in Bufs => Alert(wchan[q])'
                    /\ wchan'[q] = FREELIST => flwanted' /\ NoneFree'
  BY DEF NoLostWakeup, Alert, Queued
<1>1. /\ wchan[q] \in Bufs => Alert(wchan[q])
      /\ wchan[q] = FREELIST => flwanted /\ NoneFree
  BY DEF LockInv, NoLostWakeup, Alert, Queued
<1>2. wchan'[q] \in {NONE, wchan[q]}
  BY DEF Minds
<1>3. NONE \notin Bufs /\ NONE # FREELIST
  BY BufCacheAssumption
<1>4. ASSUME wchan'[q] = FREELIST PROVE flwanted' /\ NoneFree'
  BY <1>1, <1>2, <1>3, <1>4 DEF Minds
<1>5. ASSUME NEW b \in Bufs, wchan'[q] = b PROVE Alert(b)'
  <2>1. Alert(b)
    BY <1>1, <1>2, <1>3, <1>5
  <2>2. CASE b \in X
    BY <1>5, <2>1, <2>2 DEF Minds
  <2>3. CASE b \notin X
    <3>1. Kept(b)
      BY <2>3
    <3> QED BY <2>1, <3>1 DEF Alert, Kept, LockFlags
  <2> QED BY <2>2, <2>3
<1> QED BY <1>4, <1>5

(* What a step of process p must show, if it changes nothing but the       *)
(* buffers X: those are its own or were free, it has checked out no others *)
(* and given back no others.                                               *)
LEMMA Local ==
  ASSUME LockInv, TypeOK', NEW p \in Procs, NEW X \in SUBSET Bufs, NEW H, Held(p)' = H,
         \A q \in Procs \ {p} : u'[q] = u[q],
         Shape(u[p])', Placed(u[p])',
         \A b \in Bufs \ X : Kept(b) /\ (b \in H <=> b \in Held(p)),
         \A b \in X : b \in Held(p) \/ ~Has(b, "BUSY"),
         \A b \in X : FitsNext(b, b \in H),
         NoDup(ioq)', FreeOnce(bfreelist)', Minds(X)
  PROVE  LockInv'
<1>1. \A q \in Procs : Held(q) \subseteq Bufs /\ Held(q)' \subseteq Bufs
  BY DEF LockInv, TypeOK, Proc, Held
<1>2. \A q \in Procs \ {p} : Held(q)' = Held(q)
  BY DEF Held
<1>3. \A q \in Procs \ {p} : Held(q) \cap X = {}
  <2> SUFFICES ASSUME NEW q \in Procs \ {p}, NEW b \in Bufs, b \in Held(q), b \in X
               PROVE  FALSE
    BY <1>1
  <2>1. Has(b, "BUSY")
    BY DEF LockInv, Fits, Owned
  <2>2. b \in Held(p)
    BY <2>1
  <2> QED BY <2>2 DEF LockInv
<1>4. \A q \in Procs : Shape(u[q])' /\ Placed(u[q])'
  <2> SUFFICES ASSUME NEW q \in Procs, q # p
               PROVE  Shape(u[q])' /\ Placed(u[q])'
    OBVIOUS
  <2>1. u'[q] = u[q] /\ Shape(u[q]) /\ Placed(u[q])
    BY DEF LockInv
  <2>2. Shape(u[q])'
    BY <2>1 DEF Shape
  <2>3. \A b \in Held(q) : Kept(b)
    BY <1>1, <1>3
  <2>4. \A b \in Held(q) : (Finishing(b)' <=> Finishing(b)) /\ (Queued(b)' <=> Queued(b))
    BY <2>3 DEF Kept, LockFlags, Finishing
  <2>5. /\ u[q].tp # NONE => u[q].tp \in Held(q)
        /\ u[q].ep # NONE => u[q].ep \in Held(q)
        /\ u[q].hold # NONE => u[q].hold \in Held(q)
    BY DEF Held
  <2>6. Placed(u[q])'
    <3>1. u'[q].tp # NONE => IF u'[q].pc \in Waits THEN Finishing(u[q].tp)' ELSE ~Queued(u[q].tp)'
      BY <2>1, <2>4, <2>5 DEF Placed, PlacedAs
    <3>2. u'[q].ep # NONE => Finishing(u[q].ep)'
      BY <2>1, <2>4, <2>5 DEF Placed, PlacedAs
    <3>3. u'[q].hold # NONE => Finishing(u[q].hold)'
      BY <2>1, <2>4, <2>5 DEF Placed, PlacedAs
    <3> QED BY <3>1, <3>2, <3>3 DEF Placed, PlacedAs
  <2> QED BY <2>2, <2>6
<1>5. \A q, r \in Procs : \A b \in Held(q)' : b \in Held(r)' => q = r
  <2> SUFFICES ASSUME NEW q \in Procs, NEW r \in Procs, q # r, NEW b \in Bufs,
                      b \in Held(q)', b \in Held(r)'
               PROVE  FALSE
    BY <1>1
  <2>1. b \in Held(q) /\ b \in Held(r)
    BY <1>2, <1>3
  <2> QED BY <2>1 DEF LockInv
<1>6. \A b \in Bufs : Fits(b, Owned(b))'
  <2> SUFFICES ASSUME NEW b \in Bufs PROVE Fits(b, Owned(b))'
    OBVIOUS
  <2>1. Owned(b)' <=> \E q \in Procs : b \in Held(q)'
    BY DEF Owned
  <2>2. CASE b \notin X
    <3>1. Kept(b) /\ Fits(b, Owned(b))
      BY <2>2 DEF LockInv
    <3>2. Owned(b)' <=> Owned(b)
      BY <1>2, <2>1, <2>2 DEF Owned
    <3> QED BY <3>1, <3>2 DEF Fits, Kept, LockFlags
  <2>3. CASE b \in X
    <3>1. Owned(b)' <=> b \in Held(p)'
      BY <1>2, <1>3, <2>1, <2>3
    <3>2. FitsNext(b, b \in H)
      BY <2>3
    <3> QED BY <3>1, <3>2 DEF Fits, FitsNext
  <2> QED BY <2>2, <2>3
<1>7. NoLostWakeup'
  BY MindsWakes
<1> QED BY <1>4, <1>5, <1>6, <1>7 DEF LockInv

-----------------------------------------------------------------------------
(* What the routines do to one buffer.                                     *)

(* A step that touches no buffer but bp, as far as the lock goes.          *)
Effect(bp) ==
  /\ \A b \in Bufs \ {bp} : Kept(b)
  /\ NoDup(ioq)' /\ FreeOnce(bfreelist)'
  /\ Minds({bp})

SameFlags(b) == buf'[b].b_flags = buf[b].b_flags

LEMMA LockFacts ==
  ASSUME LockInv, NEW bp \in Bufs
  PROVE  /\ buf[bp] \in Buf
         /\ ~Has(bp, "BUSY") => OnFree(bp) /\ ~Queued(bp) /\ ~Has(bp, "ASYNC") /\ ~Alert(bp)
         /\ Has(bp, "BUSY") => ~OnFree(bp)
         /\ ~Queued(bp) => ~Has(bp, "ASYNC")
         /\ NoDup(ioq) /\ FreeOnce(bfreelist)
<1>1. Fits(bp, Owned(bp))
  BY DEF LockInv
<1>2. buf[bp] \in Buf
  BY DEF LockInv, TypeOK
<1> QED BY <1>1, <1>2 DEF LockInv, Fits, Alert

LEMMA BwrittenFlags ==
  ASSUME NEW B \in Buf
  PROVE  /\ "BUSY" \in B.b_flags => "BUSY" \in Bwritten(B).b_flags
         /\ "WANTED" \in B.b_flags => "WANTED" \in Bwritten(B).b_flags
         /\ "ASYNC" \in Bwritten(B).b_flags <=> "ASYNC" \in B.b_flags
         /\ "DONE" \notin Bwritten(B).b_flags
BY DEF Bwritten, Buf

LEMMA TakenFlags ==
  ASSUME buf \in [Bufs -> Buf], NEW bp \in Bufs, NEW fs \in SUBSET Flags
  PROVE  /\ Taken(bp, fs) \in [Bufs -> Buf]
         /\ Taken(bp, fs)[bp].b_flags = buf[bp].b_flags \cup {"BUSY"} \cup fs
         /\ \A c \in Bufs \ {bp} : Taken(bp, fs)[c] = buf[c]
<1>1. Taken(bp, fs) \in [Bufs -> Buf]
  BY TakenType
<1>2. buf[bp] \in Buf
  OBVIOUS
<1>3. \A c \in Bufs \ {bp} : Taken(bp, fs)[c] = buf[c]
  BY DEF Taken
<1>4. Taken(bp, fs)[bp].b_flags = buf[bp].b_flags \cup {"BUSY"} \cup fs
  BY <1>2 DEF Taken, Buf
<1> QED BY <1>1, <1>3, <1>4

(* A step that only replaces the header of bp.                             *)
LEMMA HeaderKept ==
  ASSUME LockInv, NEW bp \in Bufs, NEW B, buf' = [buf EXCEPT ![bp] = B]
  PROVE  buf'[bp] = B /\ \A b \in Bufs \ {bp} : SameFlags(b)
BY DEF LockInv, TypeOK, SameFlags

(* A free buffer is taken: getblk, getnewbuf and allocbuf.                 *)
LEMMA TakeEffect ==
  ASSUME LockInv, NEW bp \in Bufs, ~Has(bp, "BUSY"), NEW B,
         buf' = [buf EXCEPT ![bp] = B], "BUSY" \in B.b_flags, "ASYNC" \notin B.b_flags,
         bfreelist' = Notavail(bp), ioq' = ioq, flwanted' = flwanted, wchan' = wchan
  PROVE  /\ Effect(bp)
         /\ Has(bp, "BUSY")' /\ ~Has(bp, "ASYNC")' /\ ~Queued(bp)' /\ ~OnFree(bp)'
<1>1. buf'[bp] = B /\ \A b \in Bufs \ {bp} : SameFlags(b)
  BY HeaderKept, Zenon
<1>2. /\ FreeOnce(bfreelist)' /\ (NoneFree => NoneFree')
      /\ \A b \in Bufs : OnFree(b)' <=> OnFree(b) /\ b # bp
  BY TakeFree
<1>3. NoDup(ioq)' /\ \A b \in Bufs : Queued(b)' <=> Queued(b)
  BY DEF LockInv, Queued
<1>4. ~Alert(bp) /\ ~Queued(bp)
  BY LockFacts
<1>5. Minds({bp})
  BY <1>2, <1>4 DEF Minds
<1>6. \A b \in Bufs \ {bp} : Kept(b)
  BY <1>1, <1>2, <1>3 DEF Kept, SameFlags, Has
<1> QED BY <1>1, <1>2, <1>3, <1>4, <1>5, <1>6 DEF Effect, Has

(* A free dirty buffer is taken and written.                               *)
LEMMA FlushEffect ==
  ASSUME LockInv, NEW bp \in Bufs, ~Has(bp, "BUSY"), NEW fs \in SUBSET {"ASYNC"},
         buf' = [buf EXCEPT ![bp] = Bwritten(Taken(bp, fs)[bp])],
         bfreelist' = Notavail(bp), Strategy(bp), flwanted' = flwanted, wchan' = wchan
  PROVE  /\ Effect(bp)
         /\ Has(bp, "BUSY")' /\ ~Has(bp, "DONE")' /\ Queued(bp)' /\ ~OnFree(bp)'
         /\ Has(bp, "ASYNC")' <=> "ASYNC" \in fs
<1> DEFINE T == Taken(bp, fs)[bp]
<1>0. fs \in SUBSET Flags /\ buf \in [Bufs -> Buf]
  BY DEF Flags, LockInv, TypeOK
<1>1. /\ T \in Buf /\ T.b_flags = buf[bp].b_flags \cup {"BUSY"} \cup fs
  BY <1>0, TakenFlags
<1> HIDE DEF T
<1>2. buf'[bp] = Bwritten(T) /\ \A b \in Bufs \ {bp} : SameFlags(b)
  BY HeaderKept, Zenon DEF T
<1>3. /\ FreeOnce(bfreelist)' /\ (NoneFree => NoneFree')
      /\ \A b \in Bufs : OnFree(b)' <=> OnFree(b) /\ b # bp
  BY TakeFree
<1>4. ~Alert(bp) /\ ~Queued(bp) /\ ~Has(bp, "ASYNC")
  BY LockFacts
<1>5. NoDup(ioq)' /\ \A b \in Bufs : Queued(b)' <=> Queued(b) \/ b = bp
  BY <1>4, Enqueue
<1>6. Minds({bp})
  BY <1>3, <1>4 DEF Minds
<1>7. \A b \in Bufs \ {bp} : Kept(b)
  BY <1>2, <1>3, <1>5 DEF Kept, SameFlags, Has
<1>8. /\ Has(bp, "BUSY")' /\ ~Has(bp, "DONE")'
      /\ Has(bp, "ASYNC")' <=> "ASYNC" \in fs
  BY <1>1, <1>2, <1>4, BwrittenFlags DEF Has
<1> QED BY <1>3, <1>5, <1>6, <1>7, <1>8 DEF Effect

(* A buffer is handed to the driver by its owner.                          *)
LEMMA DriveEffect ==
  ASSUME LockInv, NEW bp \in Bufs, Has(bp, "BUSY"), ~Queued(bp), NEW B,
         buf' = [buf EXCEPT ![bp] = B], "BUSY" \in B.b_flags, "DONE" \notin B.b_flags,
         Has(bp, "WANTED") => "WANTED" \in B.b_flags,
         Strategy(bp), bfreelist' = bfreelist, flwanted' = flwanted, wchan' = wchan
  PROVE  /\ Effect(bp)
         /\ Has(bp, "BUSY")' /\ ~Has(bp, "DONE")' /\ Queued(bp)' /\ ~OnFree(bp)'
         /\ Has(bp, "ASYNC")' <=> "ASYNC" \in B.b_flags
<1>1. buf'[bp] = B /\ \A b \in Bufs \ {bp} : SameFlags(b)
  BY HeaderKept, Zenon
<1>2. NoDup(ioq)' /\ \A b \in Bufs : Queued(b)' <=> Queued(b) \/ b = bp
  BY Enqueue
<1>3. FreeOnce(bfreelist)' /\ ~OnFree(bp) /\ (\A b \in Bufs : OnFree(b)' <=> OnFree(b))
  BY LockFacts DEF LockInv, OnFree
<1>4. NoneFree => NoneFree'
  BY DEF NoneFree
<1>5. Minds({bp})
  BY <1>1, <1>4 DEF Minds, Alert, Has
<1>6. \A b \in Bufs \ {bp} : Kept(b)
  BY <1>1, <1>2, <1>3 DEF Kept, SameFlags, Has
<1>7. Has(bp, "BUSY")' /\ ~Has(bp, "DONE")' /\ (Has(bp, "ASYNC")' <=> "ASYNC" \in B.b_flags)
  BY <1>1 DEF Has
<1> QED BY <1>2, <1>3, <1>5, <1>6, <1>7 DEF Effect

(* The owner changes B_DONE.                                               *)
LEMMA MarkEffect ==
  ASSUME LockInv, NEW bp \in Bufs, Has(bp, "BUSY"), ~Queued(bp), NEW B,
         buf' = [buf EXCEPT ![bp] = B],
         \A f \in {"BUSY", "ASYNC", "WANTED"} : f \in B.b_flags <=> Has(bp, f),
         ioq' = ioq, bfreelist' = bfreelist, flwanted' = flwanted, wchan' = wchan
  PROVE  /\ Effect(bp)
         /\ Has(bp, "BUSY")' /\ ~Has(bp, "ASYNC")' /\ ~Queued(bp)' /\ ~OnFree(bp)'
<1>1. buf'[bp] = B /\ \A b \in Bufs \ {bp} : SameFlags(b)
  BY HeaderKept, Zenon
<1>2. NoDup(ioq)' /\ \A b \in Bufs : Queued(b)' <=> Queued(b)
  BY DEF LockInv, Queued
<1>3. /\ FreeOnce(bfreelist)' /\ ~OnFree(bp) /\ ~Has(bp, "ASYNC")
      /\ \A b \in Bufs : OnFree(b)' <=> OnFree(b)
  BY LockFacts DEF LockInv, OnFree
<1>4. NoneFree => NoneFree'
  BY DEF NoneFree
<1>5. \A f \in {"BUSY", "ASYNC", "WANTED"} : Has(bp, f)' <=> Has(bp, f)
  BY <1>1 DEF Has
<1>6. Minds({bp})
  BY <1>4, <1>5 DEF Minds, Alert
<1>7. \A b \in Bufs \ {bp} : Kept(b)
  BY <1>1, <1>2, <1>3 DEF Kept, SameFlags, Has
<1> QED BY <1>2, <1>3, <1>5, <1>6, <1>7 DEF Effect

(* Headers, whatever their numbers.                                        *)
Hdr == [b_flags : SUBSET Flags, b_dev : Devs \cup {NODEV},
        b_blkno : Sectors \cup {0}, b_bcount : Int, b_bufsize : Int]

LEMMA HdrBuf == Buf \subseteq Hdr
<1> SUFFICES ASSUME NEW B \in Buf PROVE B \in Hdr
  OBVIOUS
<1>1. B \in [b_flags : SUBSET Flags, b_dev : Devs \cup {NODEV},
             b_blkno : Sectors \cup {0}, b_bcount : Nat, b_bufsize : Nat]
  BY DEF Buf
<1>2. Nat \subseteq Int
  OBVIOUS
<1> QED BY <1>1, <1>2 DEF Hdr

(* brelse: of a buffer of the owner, of the driver, or of one taken for    *)
(* the time of a step.                                                     *)
LEMMA BrelseEffect ==
  ASSUME LockInv, NEW bp \in Bufs, NEW b \in [Bufs -> Hdr], NEW fl,
         \A c \in Bufs \ {bp} : b[c].b_flags = buf[c].b_flags,
         Alert(bp) => "WANTED" \in b[bp].b_flags,
         fl = Notavail(bp) \/ (fl = bfreelist /\ ~OnFree(bp)),
         Brelse(bp, b, fl),
         NoDup(ioq)', \A c \in Bufs \ {bp} : Queued(c)' <=> Queued(c)
  PROVE  /\ Effect(bp)
         /\ ~Has(bp, "BUSY")' /\ ~Has(bp, "ASYNC")' /\ OnFree(bp)'
<1>1. /\ FreeOnce(bfreelist)'
      /\ \A c \in Bufs : OnFree(c)' <=> OnFree(c) \/ c = bp
  BY GiveBack DEF Brelse
<1>2. buf' = [b EXCEPT ![bp] = Released(@)]
  BY DEF Brelse
<1>3. buf'[bp] = Released(b[bp]) /\ \A c \in Bufs \ {bp} : buf'[c] = b[c]
  BY <1>2
<1>4. \A c \in Bufs \ {bp} : SameFlags(c)
  BY <1>3 DEF SameFlags
<1>5. "BUSY" \notin buf'[bp].b_flags /\ "ASYNC" \notin buf'[bp].b_flags
  <2>1. b[bp] \in Hdr
    OBVIOUS
  <2> QED BY <1>3, <2>1 DEF Released, Hdr
<1>6. \A q \in Procs :
        wchan'[q] = IF wchan[q] \in (IF "WANTED" \in b[bp].b_flags THEN {bp} ELSE {})
                                    \cup (IF flwanted THEN {FREELIST} ELSE {})
                      THEN NONE ELSE wchan[q]
  BY DEF Brelse, Wakeup
<1>7. \A q \in Procs : wchan[q] = FREELIST => flwanted
  BY DEF LockInv, NoLostWakeup
<1>8. NONE # bp /\ NONE # FREELIST
  BY BufCacheAssumption
<1>9. Minds({bp})
  <2>1. \A q \in Procs : wchan'[q] \in {NONE, wchan[q]}
    BY <1>6
  <2>2. \A q \in Procs : wchan'[q] # FREELIST
    BY <1>6, <1>7, <1>8
  <2>3. Alert(bp) => \A q \in Procs : wchan'[q] # bp
    BY <1>6, <1>8
  <2> QED BY <2>1, <2>2, <2>3 DEF Minds
<1>10. \A c \in Bufs \ {bp} : Kept(c)
  BY <1>1, <1>4 DEF Kept, SameFlags, Has
<1> QED BY <1>1, <1>5, <1>9, <1>10 DEF Effect, Has

-----------------------------------------------------------------------------
(* What a process has, before and after a step.                            *)

Now(p, pc, op, tp, ep, hold) ==
  /\ u[p].pc = pc /\ u[p].op = op
  /\ u[p].tp = tp /\ u[p].ep = ep /\ u[p].hold = hold

Becomes(p, pc, op, tp, ep, hold) ==
  /\ u'[p].pc = pc /\ u'[p].op = op
  /\ u'[p].tp = tp /\ u'[p].ep = ep /\ u'[p].hold = hold
  /\ \A q \in Procs \ {p} : u'[q] = u[q]

MaybeBuf == Bufs \cup {NONE}

Checked(p, pc, op, tp, ep, hold) ==
  /\ Now(p, pc, op, tp, ep, hold)
  /\ Shapely(pc, op, tp, ep, hold)
  /\ PlacedAs(pc, tp, ep, hold)
  /\ Held(p) = {tp, ep, hold} \ {NONE}
  /\ \A b \in Held(p) : Has(b, "BUSY") /\ ~OnFree(b)

LEMMA CheckedOut ==
  ASSUME LockInv, NEW p \in Procs
  PROVE  \E pc, op : \E tp, ep, hold \in MaybeBuf : Checked(p, pc, op, tp, ep, hold)
<1>1. /\ u[p].tp \in MaybeBuf /\ u[p].ep \in MaybeBuf /\ u[p].hold \in MaybeBuf
  BY DEF LockInv, TypeOK, Proc, MaybeBuf
<1>2. Shape(u[p]) /\ Placed(u[p])
  BY DEF LockInv
<1>3. \A b \in Held(p) : b \in Bufs /\ Has(b, "BUSY") /\ ~OnFree(b)
  <2> SUFFICES ASSUME NEW b \in Held(p) PROVE b \in Bufs /\ Has(b, "BUSY") /\ ~OnFree(b)
    OBVIOUS
  <2>1. b \in Bufs
    BY <1>1 DEF Held, MaybeBuf
  <2>2. Owned(b) /\ Fits(b, Owned(b))
    BY <2>1, Zenon DEF Owned, LockInv
  <2> QED BY <2>1, <2>2 DEF Fits
<1>4. Checked(p, u[p].pc, u[p].op, u[p].tp, u[p].ep, u[p].hold)
  BY <1>2, <1>3 DEF Checked, Now, Shape, Placed, Held
<1> QED BY <1>1, <1>4

LEMMA BecomesWhat ==
  ASSUME NEW p \in Procs, NEW pc, NEW op, NEW tp, NEW ep, NEW hold,
         Becomes(p, pc, op, tp, ep, hold), Shapely(pc, op, tp, ep, hold),
         PlacedAs(pc, tp, ep, hold)'
  PROVE  /\ Shape(u[p])' /\ Placed(u[p])'
         /\ Held(p)' = {tp, ep, hold} \ {NONE}
         /\ \A q \in Procs \ {p} : u'[q] = u[q]
BY DEF Becomes, Shape, Placed, Held

(* A step of p that touches bp, which was its own or free.                 *)
LEMMA StepOne ==
  ASSUME LockInv, TypeOK', NEW p \in Procs, NEW bp \in Bufs,
         NEW pc, NEW op, NEW tp, NEW ep, NEW hold,
         Becomes(p, pc, op, tp, ep, hold), Shapely(pc, op, tp, ep, hold),
         PlacedAs(pc, tp, ep, hold)',
         Effect(bp),
         {tp, ep, hold} \ {NONE, bp} = Held(p) \ {bp},
         bp \in Held(p) \/ ~Has(bp, "BUSY"),
         FitsNext(bp, bp \in {tp, ep, hold})
  PROVE  LockInv'
<1> DEFINE H == {tp, ep, hold} \ {NONE}
<1>1. /\ Shape(u[p])' /\ Placed(u[p])'
      /\ Held(p)' = H
      /\ \A q \in Procs \ {p} : u'[q] = u[q]
  BY BecomesWhat
<1>2. NONE \notin Bufs
  BY BufCacheAssumption
<1>3. \A b \in Bufs \ {bp} : Kept(b) /\ (b \in H <=> b \in Held(p))
  BY <1>1, <1>2 DEF Effect
<1>4. FitsNext(bp, bp \in H)
  BY <1>1, <1>2
<1>5. NoDup(ioq)' /\ FreeOnce(bfreelist)' /\ Minds({bp})
  BY DEF Effect
<1> HIDE DEF H
<1> QED BY <1>1, <1>3, <1>4, <1>5, Local

(* A step of p that touches no buffer.                                     *)
LEMMA StepNone ==
  ASSUME LockInv, TypeOK', NEW p \in Procs,
         NEW pc, NEW op, NEW tp, NEW ep, NEW hold,
         Becomes(p, pc, op, tp, ep, hold), Shapely(pc, op, tp, ep, hold),
         PlacedAs(pc, tp, ep, hold)',
         {tp, ep, hold} \ {NONE} = Held(p),
         \A b \in Bufs : \A f \in LockFlags : Has(b, f)' <=> Has(b, f),
         UNCHANGED <<bfreelist, flwanted, ioq, wchan>>
  PROVE  LockInv'
<1> DEFINE H == {tp, ep, hold} \ {NONE}
<1>1. /\ Shape(u[p])' /\ Placed(u[p])'
      /\ Held(p)' = H
      /\ \A q \in Procs \ {p} : u'[q] = u[q]
  BY BecomesWhat
<1>2. \A b \in Bufs : (OnFree(b)' <=> OnFree(b)) /\ (Queued(b)' <=> Queued(b))
  BY DEF OnFree, Queued
<1>3. \A b \in Bufs \ {} : Kept(b) /\ (b \in H <=> b \in Held(p))
  BY <1>1, <1>2 DEF Kept
<1>4. NoDup(ioq)' /\ FreeOnce(bfreelist)'
  BY DEF LockInv
<1>5. Minds({})
  BY DEF Minds, NoneFree
<1> HIDE DEF H
<1> QED BY <1>1, <1>3, <1>4, <1>5, Local

(* A process goes to sleep.                                                *)
LEMMA StepSleep ==
  ASSUME LockInv, TypeOK', NEW p \in Procs, NEW chan \in Bufs \cup {FREELIST},
         Sleep(p, chan), UNCHANGED <<bfreelist, ioq, u>>,
         \A b \in Bufs : \A f \in LockFlags : Has(b, f) => Has(b, f)',
         \A b \in Bufs : \A f \in {"BUSY", "DONE", "ASYNC"} : Has(b, f)' => Has(b, f),
         flwanted => flwanted',
         chan \in Bufs => Alert(chan)',
         chan = FREELIST => flwanted' /\ NoneFree
  PROVE  LockInv'
<1>1. \A b \in Bufs : /\ (OnFree(b)' <=> OnFree(b)) /\ (Queued(b)' <=> Queued(b))
                      /\ \A f \in {"BUSY", "DONE", "ASYNC"} : Has(b, f)' <=> Has(b, f)
                      /\ Has(b, "WANTED") => Has(b, "WANTED")'
  BY DEF OnFree, Queued, LockFlags
<1>2. \A q \in Procs : Held(q)' = Held(q) /\ Held(q) \subseteq Bufs
  BY DEF Held, LockInv, TypeOK, Proc
<1>3. \A b \in Bufs : Fits(b, Owned(b))'
  <2> SUFFICES ASSUME NEW b \in Bufs PROVE Fits(b, Owned(b))'
    OBVIOUS
  <2>1. Owned(b)' <=> Owned(b)
    BY <1>2 DEF Owned
  <2>2. Fits(b, Owned(b))
    BY DEF LockInv
  <2> QED BY <1>1, <2>1, <2>2 DEF Fits
<1>4. \A q \in Procs : Shape(u[q])' /\ Placed(u[q])'
  <2> SUFFICES ASSUME NEW q \in Procs PROVE Shape(u[q])' /\ Placed(u[q])'
    OBVIOUS
  <2>1. PICK pc, op : \E tp, ep, hold \in MaybeBuf : Checked(q, pc, op, tp, ep, hold)
    BY CheckedOut
  <2>2. PICK tp \in MaybeBuf, ep \in MaybeBuf, hold \in MaybeBuf :
          Checked(q, pc, op, tp, ep, hold)
    BY <2>1
  <2>3. \A b \in Bufs : (Finishing(b)' <=> Finishing(b)) /\ (Queued(b)' <=> Queued(b))
    BY <1>1 DEF Finishing
  <2>4. PlacedAs(pc, tp, ep, hold)'
    BY <2>2, <2>3 DEF Checked, PlacedAs, MaybeBuf
  <2>5. Becomes(q, pc, op, tp, ep, hold)
    BY <2>2 DEF Becomes, Checked, Now
  <2> QED BY <2>2, <2>4, <2>5, BecomesWhat DEF Checked
<1>5. \A q, r \in Procs : \A b \in Held(q)' : b \in Held(r)' => q = r
  BY <1>2 DEF LockInv
<1>6. NoLostWakeup'
  <2> SUFFICES ASSUME NEW q \in Procs
               PROVE  /\ wchan'[q] \in Bufs => Alert(wchan[q])'
                      /\ wchan'[q] = FREELIST => flwanted' /\ NoneFree'
    BY DEF NoLostWakeup, Alert, Queued
  <2>1. NoneFree' <=> NoneFree
    BY DEF NoneFree
  <2>2. CASE q = p
    BY <2>1, <2>2 DEF Sleep, LockInv, TypeOK
  <2>3. CASE q # p
    <3>1. wchan'[q] = wchan[q]
      BY <2>3 DEF Sleep
    <3>2. /\ wchan[q] \in Bufs => Alert(wchan[q])
          /\ wchan[q] = FREELIST => flwanted /\ NoneFree
      BY DEF LockInv, NoLostWakeup, Alert, Queued
    <3>3. \A b \in Bufs : Alert(b) => Alert(b)'
      BY <1>1 DEF Alert
    <3> QED BY <2>1, <3>1, <3>2, <3>3
  <2> QED BY <2>2, <2>3
<1>7. NoDup(ioq)' /\ FreeOnce(bfreelist)'
  BY DEF LockInv
<1> QED BY <1>3, <1>4, <1>5, <1>6, <1>7 DEF LockInv

LEMMA EffectKeeps ==
  ASSUME NEW bp, Effect(bp), NEW b \in Bufs, b # bp
  PROVE  (Finishing(b)' <=> Finishing(b)) /\ (Queued(b)' <=> Queued(b))
BY DEF Effect, Kept, LockFlags, Finishing

(* A process marks a busy buffer and sleeps on it.                         *)
LEMMA WantedSleep ==
  ASSUME LockInv, TypeOK', NEW p \in Procs, NEW bp \in Bufs, Has(bp, "BUSY"),
         buf' = Wanted(bp), Sleep(p, bp), UNCHANGED <<bfreelist, flwanted, ioq, u>>
  PROVE  LockInv'
<1>1. /\ buf[bp] \in Buf /\ buf \in [Bufs -> Buf]
  BY DEF LockInv, TypeOK
<1>2. /\ buf'[bp].b_flags = buf[bp].b_flags \cup {"WANTED"}
      /\ \A b \in Bufs \ {bp} : buf'[b] = buf[b]
  BY <1>1 DEF Wanted, Buf
<1>3. /\ \A b \in Bufs : \A f \in LockFlags : Has(b, f) => Has(b, f)'
      /\ \A b \in Bufs : \A f \in {"BUSY", "DONE", "ASYNC"} : Has(b, f)' => Has(b, f)
  BY <1>2 DEF Has
<1>4. Alert(bp)'
  BY <1>2 DEF Alert, Has
<1>5. FREELIST \notin Bufs
  BY BufCacheAssumption
<1> QED BY <1>3, <1>4, <1>5, StepSleep

(* The ways in which the code moves a process on.                          *)
LEMMA MovePc ==
  ASSUME LockInv, NEW p \in Procs, NEW pc, NEW op, NEW tp, NEW ep, NEW hold,
         Now(p, pc, op, tp, ep, hold), NEW npc, u' = [u EXCEPT ![p].pc = npc]
  PROVE  Becomes(p, npc, op, tp, ep, hold)
<1>1. u[p] \in Proc /\ u \in [Procs -> Proc]
  BY DEF LockInv, TypeOK
<1>2. u'[p] = [u[p] EXCEPT !.pc = npc] /\ \A q \in Procs \ {p} : u'[q] = u[q]
  BY <1>1
<1> QED BY <1>1, <1>2 DEF Becomes, Now, Proc

LEMMA MoveTp ==
  ASSUME LockInv, NEW p \in Procs, NEW pc, NEW op, NEW tp, NEW ep, NEW hold,
         Now(p, pc, op, tp, ep, hold), NEW npc, NEW v,
         u' = [u EXCEPT ![p] = [@ EXCEPT !.pc = npc, !.tp = v]]
  PROVE  Becomes(p, npc, op, v, ep, hold)
<1>1. u[p] \in Proc /\ u \in [Procs -> Proc]
  BY DEF LockInv, TypeOK
<1>2. /\ u'[p] = [u[p] EXCEPT !.pc = npc, !.tp = v]
      /\ \A q \in Procs \ {p} : u'[q] = u[q]
  BY <1>1
<1> QED BY <1>1, <1>2 DEF Becomes, Now, Proc

LEMMA MoveEp ==
  ASSUME LockInv, NEW p \in Procs, NEW pc, NEW op, NEW tp, NEW ep, NEW hold,
         Now(p, pc, op, tp, ep, hold), NEW npc, NEW v,
         u' = [u EXCEPT ![p] = [@ EXCEPT !.pc = npc, !.ep = v]]
  PROVE  Becomes(p, npc, op, tp, v, hold)
<1>1. u[p] \in Proc /\ u \in [Procs -> Proc]
  BY DEF LockInv, TypeOK
<1>2. /\ u'[p] = [u[p] EXCEPT !.pc = npc, !.ep = v]
      /\ \A q \in Procs \ {p} : u'[q] = u[q]
  BY <1>1
<1> QED BY <1>1, <1>2 DEF Becomes, Now, Proc

LEMMA MoveIdle ==
  ASSUME LockInv, NEW p \in Procs, u' = [u EXCEPT ![p] = Idle]
  PROVE  Becomes(p, "idle", "none", NONE, NONE, NONE)
<1>1. u'[p] = Idle /\ \A q \in Procs \ {p} : u'[q] = u[q]
  BY DEF LockInv, TypeOK
<1> QED BY <1>1 DEF Becomes, Idle

-----------------------------------------------------------------------------
(* getnewbuf and getblk keep the lock.                                     *)

LEMMA BoundFlags ==
  ASSUME LockInv, NEW bp \in Bufs, NEW fs, NEW d, NEW b, buf' = Bound(bp, fs, d, b)
  PROVE  \E B : buf' = [buf EXCEPT ![bp] = B] /\ B.b_flags = fs
<1> DEFINE B == [buf[bp] EXCEPT !.b_flags = fs, !.b_dev = d, !.b_blkno = b,
                                !.b_bcount = 0]
<1>1. buf[bp] \in Buf
  BY DEF LockInv, TypeOK
<1>2. B.b_flags = fs
  BY <1>1 DEF Buf
<1>3. buf' = [buf EXCEPT ![bp] = B]
  BY DEF Bound
<1> QED BY <1>2, <1>3, Zenon

(* What getnewbuf takes is free.                                           *)
LEMMA VictimFree ==
  ASSUME LockInv, ~NoneFree
  PROVE  Victim \in Bufs /\ ~Has(Victim, "BUSY")
<1> DEFINE q == IF bfreelist["AGE"] # <<>> THEN "AGE" ELSE "LRU"
           s == bfreelist[q]
<1>1. q \in BQ /\ s \in Seq(Bufs) /\ s # <<>>
  BY DEF LockInv, TypeOK, NoneFree, BQ
<1>2. Victim = Head(s)
  BY DEF Victim
<1> HIDE DEF q
<1>3. Head(s) = s[1] /\ 1 \in 1..Len(s) /\ Head(s) \in Bufs
  BY <1>1
<1> HIDE DEF s
<1>4. Victim \in Elems(s)
  BY <1>2, <1>3 DEF Elems
<1>5. OnFree(Victim)
  BY <1>1, <1>4 DEF OnFree, s
<1> QED BY <1>2, <1>3, <1>5 DEF LockInv, Fits

LEMMA GetnewbufLock ==
  ASSUME LockInv, TypeOK', NEW p \in Procs, Getnewbuf(p)
  PROVE  LockInv'
<1>1. PICK pc, op : \E tp, ep, hold \in MaybeBuf : Checked(p, pc, op, tp, ep, hold)
  BY CheckedOut
<1>2. PICK tp \in MaybeBuf, ep \in MaybeBuf, hold \in MaybeBuf :
        Checked(p, pc, op, tp, ep, hold)
  BY <1>1
<1>4. NONE \notin Bufs
  BY BufCacheAssumption
<1>5. CASE GetnewSleep(p)
  <2>1. ~(FREELIST \in Bufs)
    BY BufCacheAssumption
  <2>2. Sleep(p, FREELIST) /\ UNCHANGED <<buf, bfreelist, ioq, u>> /\ flwanted' /\ NoneFree
    BY <1>5 DEF GetnewSleep
  <2>3. \A b \in Bufs : \A f \in LockFlags \cup {"BUSY", "DONE", "ASYNC"} : Has(b, f)' <=> Has(b, f)
    BY <2>2 DEF Has
  <2> QED BY <2>1, <2>2, <2>3, StepSleep
<1>6. CASE ~NoneFree
  <2>1. PICK v \in Bufs : v = Victim /\ ~Has(v, "BUSY")
    BY <1>6, VictimFree
  <2>2. v # tp /\ v # ep /\ v # hold /\ v # NONE
    BY <1>2, <1>4, <2>1 DEF Checked
  <2>3. CASE GetnewFlush(p)
    <3>1. /\ Effect(v) /\ Has(v, "BUSY")' /\ ~Has(v, "DONE")' /\ Queued(v)' /\ ~OnFree(v)'
          /\ Has(v, "ASYNC")'
      BY <2>1, <2>3, FlushEffect, Zenon DEF GetnewFlush
    <3>2. Becomes(p, pc, op, tp, ep, hold)
      BY <1>2, <2>3, MovePc, Zenon DEF GetnewFlush, Goto, Checked, Now
    <3>3. \A b \in {tp, ep, hold} \ {NONE} : (Finishing(b)' <=> Finishing(b)) /\ (Queued(b)' <=> Queued(b))
      BY <2>2, <3>1 DEF Effect, Kept, LockFlags, Finishing, MaybeBuf
    <3>4. PlacedAs(pc, tp, ep, hold)'
      BY <1>2, <3>3 DEF Checked, PlacedAs
    <3>5. FitsNext(v, v \in {tp, ep, hold})
      BY <2>2, <3>1 DEF FitsNext
    <3> QED BY <1>2, <2>1, <2>2, <3>1, <3>2, <3>4, <3>5, StepOne DEF Checked
  <2>4. CASE GetblkBind(p) \/ GeteblkBind(p)
    <3>1. tp = NONE /\ ep = NONE
      BY <1>2, <2>4 DEF GetblkBind, GeteblkBind, NeedsNew, Checked, Now, Shapely, TpAt
    <3>2. \E B : /\ buf' = [buf EXCEPT ![v] = B]
                 /\ "BUSY" \in B.b_flags /\ "ASYNC" \notin B.b_flags
      <4>1. CASE GetblkBind(p)
        <5>1. \E B : buf' = [buf EXCEPT ![v] = B] /\ B.b_flags = {"BUSY"}
          BY <2>1, <4>1, BoundFlags, Zenon DEF GetblkBind
        <5> QED BY <5>1, Zenon
      <4>2. CASE GeteblkBind(p)
        <5>1. \E B : buf' = [buf EXCEPT ![v] = B] /\ B.b_flags = {"BUSY", "INVAL"}
          BY <2>1, <4>2, BoundFlags, Zenon DEF GeteblkBind
        <5> QED BY <5>1, Zenon
      <4> QED BY <2>4, <4>1, <4>2
    <3>3. /\ bfreelist' = Notavail(v) /\ ioq' = ioq
          /\ flwanted' = flwanted /\ wchan' = wchan
      BY <2>1, <2>4 DEF GetblkBind, GeteblkBind
    <3>4. /\ Effect(v)
          /\ Has(v, "BUSY")' /\ ~Has(v, "ASYNC")' /\ ~Queued(v)' /\ ~OnFree(v)'
      BY <2>1, <3>2, <3>3, TakeEffect, Zenon
    <3>5. \E npc \in {"overlap", "alloc"} : Becomes(p, npc, op, v, ep, hold)
      BY <1>2, <2>1, <2>4, MoveTp, Zenon DEF GetblkBind, GeteblkBind, Checked
    <3>6. PICK npc \in {"overlap", "alloc"} : Becomes(p, npc, op, v, ep, hold)
      BY <3>5
    <3>7. Shapely(npc, op, v, ep, hold)
      <4>1. pc = "getnew"
        BY <1>2, <2>4 DEF GetblkBind, GeteblkBind, NeedsNew, Checked, Now
      <4> QED BY <1>2, <2>2, <3>1, <4>1 DEF Checked, Shapely, TpAt, HoldAt
    <3>8. PlacedAs(npc, v, ep, hold)'
      <4>1. hold # NONE => (Finishing(hold)' <=> Finishing(hold))
        BY <2>2, <3>4 DEF Effect, Kept, LockFlags, Finishing, MaybeBuf
      <4> QED BY <1>2, <3>1, <3>4, <4>1 DEF Checked, PlacedAs, Waits
    <3>9. FitsNext(v, v \in {v, ep, hold})
      BY <3>4 DEF FitsNext
    <3>10. {v, ep, hold} \ {NONE, v} = Held(p) \ {v}
      BY <1>2, <2>2, <3>1 DEF Checked
    <3> QED BY <2>1, <3>4, <3>6, <3>7, <3>8, <3>9, <3>10, StepOne
  <2> QED BY <1>5, <2>3, <2>4 DEF Getnewbuf
<1> QED BY <1>5, <1>6 DEF Getnewbuf, GetnewFlush, GetblkBind, GeteblkBind

(* brealloc of a buffer that getblk has found free.                        *)
LEMMA GetblkHitLock ==
  ASSUME LockInv, TypeOK', NEW p \in Procs, GetblkHit(p)
  PROVE  LockInv'
<1>1. PICK pc, op : \E tp, ep, hold \in MaybeBuf : Checked(p, pc, op, tp, ep, hold)
  BY CheckedOut
<1>2. PICK tp \in MaybeBuf, ep \in MaybeBuf, hold \in MaybeBuf :
        Checked(p, pc, op, tp, ep, hold)
  BY <1>1
<1>3. tp = NONE /\ ep = NONE
  BY <1>2 DEF GetblkHit, Checked, Now, Shapely, TpAt
<1>4. PICK bp \in Bufs :
        /\ ~Has(bp, "BUSY") /\ bfreelist' = Notavail(bp)
        /\ Brealloc(p, bp, Taken(bp, {})[bp], u[p].req.size)
  BY DEF GetblkHit, Incore
<1>5. bp # hold /\ bp # NONE
  BY <1>2, <1>4, BufCacheAssumption DEF Checked
<1>6. hold # NONE => pc = "getblk" /\ op = "ra" /\ hold \in Bufs
  BY <1>2 DEF GetblkHit, Checked, Now, Shapely, MaybeBuf
<1>7. flwanted' = flwanted /\ wchan' = wchan
  BY DEF GetblkHit
<1>8. {bp, ep, hold} \ {NONE, bp} = Held(p) \ {bp}
  BY <1>2, <1>3, <1>5 DEF Checked
<1> DEFINE B == Taken(bp, {})[bp]
<1>9. B \in Buf /\ "BUSY" \in B.b_flags /\ "ASYNC" \notin B.b_flags
  <2>1. buf \in [Bufs -> Buf] /\ ~Has(bp, "ASYNC")
    BY <1>4, LockFacts DEF LockInv, TypeOK
  <2> QED BY <2>1, TakenFlags DEF Has
<1>10. CASE /\ buf' = [buf EXCEPT ![bp] = Bwritten(B)]
            /\ Strategy(bp)
            /\ u' = [u EXCEPT ![p] = [@ EXCEPT !.pc = "swait", !.tp = bp]]
  <2>1. /\ Effect(bp) /\ Has(bp, "BUSY")' /\ ~Has(bp, "DONE")' /\ Queued(bp)'
        /\ ~OnFree(bp)' /\ ~Has(bp, "ASYNC")'
    <3> DEFINE fs == {}
    <3>1. fs \in SUBSET {"ASYNC"} /\ "ASYNC" \notin fs
      OBVIOUS
    <3>2. buf' = [buf EXCEPT ![bp] = Bwritten(Taken(bp, fs)[bp])]
      BY <1>10
    <3> HIDE DEF fs
    <3> QED BY <1>4, <1>7, <1>10, <3>1, <3>2, FlushEffect, Zenon
  <2>2. Becomes(p, "swait", op, bp, ep, hold)
    BY <1>2, <1>10, MoveTp, Zenon DEF Checked
  <2>3. Shapely("swait", op, bp, ep, hold)
    BY <1>3, <1>5, <1>6 DEF Shapely, TpAt, HoldAt
  <2>4. PlacedAs("swait", bp, ep, hold)'
    <3>1. hold # NONE => Finishing(hold)'
      BY <1>2, <1>5, <1>6, <2>1, EffectKeeps DEF Checked, PlacedAs
    <3>2. Finishing(bp)'
      BY <2>1 DEF Finishing
    <3> QED BY <1>3, <3>1, <3>2 DEF PlacedAs, Waits
  <2>5. FitsNext(bp, bp \in {bp, ep, hold})
    BY <2>1 DEF FitsNext
  <2> QED BY <1>4, <1>8, <2>1, <2>2, <2>3, <2>4, <2>5, StepOne
<1>11. CASE \E C, npc : /\ buf' = [buf EXCEPT ![bp] = C]
                        /\ "BUSY" \in C.b_flags /\ "ASYNC" \notin C.b_flags
                        /\ npc \in {"gotten", "alloc", "overlap"}
                        /\ u' = [u EXCEPT ![p] = [@ EXCEPT !.pc = npc, !.tp = bp]]
                        /\ ioq' = ioq
  <2>1. PICK C, npc : /\ buf' = [buf EXCEPT ![bp] = C]
                      /\ "BUSY" \in C.b_flags /\ "ASYNC" \notin C.b_flags
                      /\ npc \in {"gotten", "alloc", "overlap"}
                      /\ u' = [u EXCEPT ![p] = [@ EXCEPT !.pc = npc, !.tp = bp]]
                      /\ ioq' = ioq
    BY <1>11, Zenon
  <2>2. /\ Effect(bp) /\ Has(bp, "BUSY")' /\ ~Has(bp, "ASYNC")'
        /\ ~Queued(bp)' /\ ~OnFree(bp)'
    BY <1>4, <1>7, <2>1, TakeEffect, Zenon
  <2>3. Becomes(p, npc, op, bp, ep, hold)
    BY <1>2, <2>1, MoveTp, Zenon DEF Checked
  <2>4. Shapely(npc, op, bp, ep, hold)
    BY <1>3, <1>5, <1>6, <2>1 DEF Shapely, TpAt, HoldAt
  <2>5. PlacedAs(npc, bp, ep, hold)'
    <3>1. hold # NONE => Finishing(hold)'
      BY <1>2, <1>5, <1>6, <2>2, EffectKeeps DEF Checked, PlacedAs
    <3> QED BY <1>3, <2>1, <2>2, <3>1 DEF PlacedAs, Waits
  <2>6. FitsNext(bp, bp \in {bp, ep, hold})
    BY <2>2 DEF FitsNext
  <2> QED BY <1>4, <1>8, <2>2, <2>3, <2>4, <2>5, <2>6, StepOne
<1>12. [B EXCEPT !.b_flags = @ \ {"DONE"}].b_flags = B.b_flags \ {"DONE"}
  BY <1>9 DEF Buf
<1> HIDE DEF B
<1>13. Brealloc(p, bp, B, u[p].req.size)
  BY <1>4 DEF B
<1> QED BY <1>9, <1>10, <1>11, <1>12, <1>13, Zenon DEF Brealloc

LEMMA GetblkLock ==
  ASSUME LockInv, TypeOK', NEW p \in Procs, Getblk(p)
  PROVE  LockInv'
<1>1. CASE GetblkBusy(p)
  <2>1. PICK bp \in Bufs : Has(bp, "BUSY") /\ buf' = Wanted(bp) /\ Sleep(p, bp)
    BY <1>1 DEF GetblkBusy, Incore
  <2> QED BY <1>1, <2>1, WantedSleep DEF GetblkBusy
<1>2. CASE GetblkMiss(p)
  <2>1. PICK pc, op : \E tp, ep, hold \in MaybeBuf : Checked(p, pc, op, tp, ep, hold)
    BY CheckedOut
  <2>2. PICK tp \in MaybeBuf, ep \in MaybeBuf, hold \in MaybeBuf :
          Checked(p, pc, op, tp, ep, hold)
    BY <2>1
  <2>3. tp = NONE /\ ep = NONE /\ pc = "getblk"
    BY <1>2, <2>2 DEF GetblkMiss, Checked, Now, Shapely, TpAt
  <2>4. Becomes(p, "getnew", op, tp, ep, hold)
    BY <1>2, <2>2, MovePc, Zenon DEF GetblkMiss, Goto, Checked
  <2>5. UNCHANGED <<buf, bfreelist, flwanted, ioq, wchan>>
    BY <1>2 DEF GetblkMiss
  <2>6. \A b \in Bufs : \A f \in LockFlags : Has(b, f)' <=> Has(b, f)
    BY <2>5 DEF Has
  <2>7. Shapely("getnew", op, tp, ep, hold)
    BY <2>2, <2>3 DEF Checked, Shapely, HoldAt
  <2>8. PlacedAs("getnew", tp, ep, hold)'
    BY <2>2, <2>3, <2>5 DEF Checked, PlacedAs, Finishing, Has, Queued
  <2> QED BY <2>2, <2>4, <2>5, <2>6, <2>7, <2>8, StepNone DEF Checked
<1> QED BY <1>1, <1>2, GetblkHitLock DEF Getblk

-----------------------------------------------------------------------------
(* The loop over overlapping blocks, and the writes it waits for.          *)

(* A step that changes nothing of the lock but where p is.                 *)
LEMMA PassNone ==
  ASSUME LockInv, TypeOK', NEW p \in Procs,
         NEW pc, NEW op, NEW tp \in MaybeBuf, NEW ep \in MaybeBuf, NEW hold \in MaybeBuf,
         Checked(p, pc, op, tp, ep, hold), NEW npc, NEW nop,
         Becomes(p, npc, nop, tp, ep, hold), Shapely(npc, nop, tp, ep, hold),
         tp # NONE => (npc \in Waits <=> pc \in Waits) \/ (npc \notin Waits /\ ~Queued(tp)),
         \A b \in Bufs : \A f \in LockFlags : Has(b, f)' <=> Has(b, f),
         UNCHANGED <<bfreelist, flwanted, ioq, wchan>>
  PROVE  LockInv'
<1>1. \A b \in Bufs : (Finishing(b)' <=> Finishing(b)) /\ (Queued(b)' <=> Queued(b))
  BY DEF Finishing, Queued, LockFlags
<1>2. PlacedAs(npc, tp, ep, hold)'
  BY <1>1 DEF Checked, PlacedAs, MaybeBuf
<1> QED BY <1>2, StepNone DEF Checked

(* A step in which p changes a buffer that was free and that it does not   *)
(* keep.                                                                   *)
LEMMA PassOne ==
  ASSUME LockInv, TypeOK', NEW p \in Procs, NEW bp \in Bufs, ~Has(bp, "BUSY"),
         NEW pc, NEW op, NEW tp \in MaybeBuf, NEW ep \in MaybeBuf, NEW hold \in MaybeBuf,
         Checked(p, pc, op, tp, ep, hold), NEW npc,
         Becomes(p, npc, op, tp, ep, hold), Shapely(npc, op, tp, ep, hold),
         tp # NONE => (npc \in Waits <=> pc \in Waits),
         Effect(bp), FitsNext(bp, FALSE)
  PROVE  LockInv'
<1>1. bp \notin {tp, ep, hold} /\ NONE \notin Bufs
  BY BufCacheAssumption DEF Checked
<1>2. \A b \in Bufs \ {bp} : (Finishing(b)' <=> Finishing(b)) /\ (Queued(b)' <=> Queued(b))
  BY EffectKeeps
<1>3. PlacedAs(npc, tp, ep, hold)'
  BY <1>1, <1>2 DEF Checked, PlacedAs, MaybeBuf
<1>4. FitsNext(bp, bp \in {tp, ep, hold})
  BY <1>1 DEF FitsNext
<1>5. {tp, ep, hold} \ {NONE, bp} = Held(p) \ {bp} /\ bp \notin Held(p)
  BY <1>1 DEF Checked
<1> QED BY <1>3, <1>4, <1>5, StepOne

(* A free dirty buffer is written, and p waits for that.                   *)
LEMMA WriteOne ==
  ASSUME LockInv, TypeOK', NEW p \in Procs, NEW bp \in Bufs, ~Has(bp, "BUSY"),
         buf' = [buf EXCEPT ![bp] = Bwritten(Taken(bp, {})[bp])],
         bfreelist' = Notavail(bp), Strategy(bp), flwanted' = flwanted, wchan' = wchan,
         NEW npc, u' = [u EXCEPT ![p] = [@ EXCEPT !.pc = npc, !.ep = bp]],
         (u[p].pc = "overlap" /\ npc = "owait") \/ (u[p].pc = "blkflush" /\ npc = "fwait")
  PROVE  LockInv'
<1>1. PICK pc, op : \E tp, ep, hold \in MaybeBuf : Checked(p, pc, op, tp, ep, hold)
  BY CheckedOut
<1>2. PICK tp \in MaybeBuf, ep \in MaybeBuf, hold \in MaybeBuf :
        Checked(p, pc, op, tp, ep, hold)
  BY <1>1
<1>3. ep = NONE /\ bp # tp /\ bp # hold /\ bp # NONE
  BY <1>2, BufCacheAssumption DEF Checked, Now, Shapely
<1>4. /\ Effect(bp) /\ Has(bp, "BUSY")' /\ ~Has(bp, "DONE")' /\ Queued(bp)'
      /\ ~OnFree(bp)' /\ ~Has(bp, "ASYNC")'
  <2> DEFINE fs == {}
  <2>1. fs \in SUBSET {"ASYNC"} /\ "ASYNC" \notin fs
    OBVIOUS
  <2>2. buf' = [buf EXCEPT ![bp] = Bwritten(Taken(bp, fs)[bp])]
    OBVIOUS
  <2> HIDE DEF fs
  <2> QED BY <2>1, <2>2, FlushEffect, Zenon
<1>5. Becomes(p, npc, op, tp, bp, hold)
  BY <1>2, MoveEp, Zenon DEF Checked
<1>6. Shapely(npc, op, tp, bp, hold)
  BY <1>2, <1>3 DEF Checked, Now, Shapely, TpAt, HoldAt
<1>7. PlacedAs(npc, tp, bp, hold)'
  <2>1. \A b \in {tp, hold} \ {NONE} : (Finishing(b)' <=> Finishing(b)) /\ (Queued(b)' <=> Queued(b))
    BY <1>3, <1>4, EffectKeeps DEF MaybeBuf
  <2>2. Finishing(bp)'
    BY <1>4 DEF Finishing
  <2>3. tp # NONE => pc = "overlap" /\ npc = "owait"
    BY <1>2 DEF Checked, Now, Shapely, TpAt
  <2> QED BY <1>2, <2>1, <2>2, <2>3 DEF Checked, PlacedAs, Waits
<1>8. FitsNext(bp, bp \in {tp, bp, hold})
  BY <1>4 DEF FitsNext
<1>9. {tp, bp, hold} \ {NONE, bp} = Held(p) \ {bp}
  BY <1>2, <1>3 DEF Checked
<1> QED BY <1>4, <1>5, <1>6, <1>7, <1>8, <1>9, StepOne

(* A free buffer is released again.                                        *)
LEMMA RecycleEffect ==
  ASSUME LockInv, NEW bp \in Bufs, ~Has(bp, "BUSY"), NEW b \in [Bufs -> Hdr],
         \A c \in Bufs \ {bp} : b[c].b_flags = buf[c].b_flags,
         Brelse(bp, b, Notavail(bp)), ioq' = ioq
  PROVE  Effect(bp) /\ FitsNext(bp, FALSE)
<1>1. ~Alert(bp) /\ ~Queued(bp)
  BY LockFacts
<1>2. NoDup(ioq)' /\ \A c \in Bufs : Queued(c)' <=> Queued(c)
  BY DEF LockInv, Queued
<1>3. Effect(bp) /\ ~Has(bp, "BUSY")' /\ ~Has(bp, "ASYNC")' /\ OnFree(bp)'
  BY <1>1, <1>2, BrelseEffect
<1> QED BY <1>1, <1>2, <1>3 DEF FitsNext

LEMMA OverlapLock ==
  ASSUME LockInv, TypeOK', NEW p \in Procs, Overlap(p)
  PROVE  LockInv'
<1>1. Others(p) \subseteq Bufs
  BY DEF Others, Overlapping
<1>2. CASE OverlapBusy(p)
  <2>1. PICK ep \in Others(p) : Has(ep, "BUSY") /\ buf' = Wanted(ep) /\ Sleep(p, ep)
    BY <1>2 DEF OverlapBusy
  <2> QED BY <1>1, <1>2, <2>1, WantedSleep DEF OverlapBusy
<1>3. CASE OverlapDirty(p)
  <2>1. PICK ep \in Others(p) :
          /\ ~Has(ep, "BUSY")
          /\ buf' = [buf EXCEPT ![ep] = Bwritten(Taken(ep, {})[ep])]
          /\ bfreelist' = Notavail(ep) /\ Strategy(ep)
          /\ u' = [u EXCEPT ![p] = [@ EXCEPT !.pc = "owait", !.ep = ep]]
    BY <1>3, Zenon DEF OverlapDirty
  <2> QED BY <1>1, <1>3, <2>1, WriteOne, Zenon DEF OverlapDirty
<1>4. PICK pc, op : \E tp, ep, hold \in MaybeBuf : Checked(p, pc, op, tp, ep, hold)
  BY CheckedOut
<1>5. PICK tp \in MaybeBuf, ep \in MaybeBuf, hold \in MaybeBuf :
        Checked(p, pc, op, tp, ep, hold)
  BY <1>4
<1>6. CASE OverlapClean(p)
  <2>1. PICK bp \in Others(p) :
          ~Has(bp, "BUSY") /\ Brelse(bp, Taken(bp, {"INVAL"}), Notavail(bp))
    BY <1>6 DEF OverlapClean
  <2>2. /\ Taken(bp, {"INVAL"}) \in [Bufs -> Hdr]
        /\ \A c \in Bufs \ {bp} : Taken(bp, {"INVAL"})[c] = buf[c]
    BY <1>1, TakenFlags, HdrBuf DEF LockInv, TypeOK, Flags
  <2>3. Effect(bp) /\ FitsNext(bp, FALSE)
    BY <1>1, <1>6, <2>1, <2>2, RecycleEffect, Zenon DEF OverlapClean
  <2>4. Becomes(p, pc, op, tp, ep, hold)
    BY <1>5, <1>6 DEF OverlapClean, Checked, Now, Becomes
  <2> QED BY <1>1, <1>5, <2>1, <2>3, <2>4, PassOne, Zenon DEF Checked
<1>7. CASE OverlapNone(p)
  <2>1. Becomes(p, "alloc", op, tp, ep, hold)
    BY <1>5, <1>7, MovePc, Zenon DEF OverlapNone, Goto, Checked
  <2>2. Shapely("alloc", op, tp, ep, hold)
    BY <1>5, <1>7 DEF OverlapNone, Checked, Now, Shapely, TpAt, HoldAt
  <2>3. "alloc" \in Waits <=> pc \in Waits
    BY <1>5, <1>7 DEF OverlapNone, Checked, Now, Waits
  <2>4. UNCHANGED <<buf, bfreelist, flwanted, ioq, wchan>>
    BY <1>7 DEF OverlapNone
  <2>5. \A b \in Bufs : \A f \in LockFlags : Has(b, f)' <=> Has(b, f)
    BY <2>4 DEF Has
  <2> QED BY <1>5, <2>1, <2>2, <2>3, <2>4, <2>5, PassNone
<1> QED BY <1>2, <1>3, <1>6, <1>7 DEF Overlap

-----------------------------------------------------------------------------
(* allocbuf.                                                               *)

LEMMA SizeFlags ==
  ASSUME NEW b \in [Bufs -> Hdr], NEW bp \in Bufs, NEW n \in Int, NEW c,
         c = [b EXCEPT ![bp].b_bufsize = n] \/ c = [b EXCEPT ![bp].b_bcount = n]
  PROVE  /\ c \in [Bufs -> Hdr]
         /\ \A e \in Bufs : c[e].b_flags = b[e].b_flags
<1>1. b[bp] \in Hdr
  OBVIOUS
<1> DEFINE B1 == [b[bp] EXCEPT !.b_bufsize = n]
           B2 == [b[bp] EXCEPT !.b_bcount = n]
<1>2. B1 \in Hdr /\ B1.b_flags = b[bp].b_flags
  BY <1>1 DEF Hdr
<1>3. B2 \in Hdr /\ B2.b_flags = b[bp].b_flags
  BY <1>1 DEF Hdr
<1>4. c = [b EXCEPT ![bp] = B1] \/ c = [b EXCEPT ![bp] = B2]
  OBVIOUS
<1> HIDE DEF B1, B2
<1> QED BY <1>2, <1>3, <1>4

LEMMA AllocbufLock ==
  ASSUME LockInv, TypeOK', NEW p \in Procs, Allocbuf(p)
  PROVE  LockInv'
<1>1. PICK pc, op : \E tp, ep, hold \in MaybeBuf : Checked(p, pc, op, tp, ep, hold)
  BY CheckedOut
<1>2. PICK tp \in MaybeBuf, ep \in MaybeBuf, hold \in MaybeBuf :
        Checked(p, pc, op, tp, ep, hold)
  BY <1>1
<1>3. pc = "alloc" /\ u[p].tp = tp /\ u[p] \in Proc
  BY <1>2, Zenon DEF Allocbuf, AllocKeep, AllocShrink, AllocTake, Checked, Now, LockInv, TypeOK
<1>4. PICK n \in Nat : n = u[p].req.size
  <2>1. u[p].req \in Request
    BY <1>2, <1>3 DEF Checked, Now, Proc
  <2> QED BY <2>1, BufCacheAssumption DEF Request
<1>5. tp \in Bufs
  BY <1>2, <1>3 DEF Checked, Now, Proc
<1>6. Roundup(n) \in Nat
  BY RoundupType
<1>7. buf \in [Bufs -> Hdr]
  BY HdrBuf DEF LockInv, TypeOK
<1>8. /\ Shapely("gotten", op, tp, ep, hold) /\ Shapely("alloc", op, tp, ep, hold)
      /\ "gotten" \in Waits <=> pc \in Waits
      /\ "alloc" \in Waits <=> pc \in Waits
  BY <1>2, <1>3 DEF Checked, Shapely, TpAt, HoldAt, Waits
<1>9. CASE AllocKeep(p)
  <2>1. Becomes(p, "gotten", op, tp, ep, hold)
    BY <1>2, <1>9, MovePc, Zenon DEF AllocKeep, Goto, Checked
  <2>2. buf' = [buf EXCEPT ![tp].b_bcount = n]
    BY <1>3, <1>4, <1>9 DEF AllocKeep, Sized
  <2>3. \A b \in Bufs : \A f \in LockFlags : Has(b, f)' <=> Has(b, f)
    <3>1. \A b \in Bufs : buf'[b].b_flags = buf[b].b_flags
      <4>1. n \in Int
        OBVIOUS
      <4> QED BY <1>5, <1>7, <2>2, <4>1, SizeFlags
    <3> QED BY <3>1 DEF Has
  <2>4. UNCHANGED <<bfreelist, flwanted, ioq, wchan>>
    BY <1>9 DEF AllocKeep
  <2> QED BY <1>2, <1>8, <2>1, <2>3, <2>4, PassNone
<1>10. CASE AllocShrink(p)
  <2>1. PICK e \in Bufs : e = Head(bfreelist["EMPTY"]) /\ ~Has(e, "BUSY")
    <3> DEFINE s == bfreelist["EMPTY"]
    <3>1. s \in Seq(Bufs) /\ s # <<>>
      BY <1>10, Zenon DEF AllocShrink, LockInv, TypeOK, BQ
    <3>2. Head(s) = s[1] /\ 1 \in 1..Len(s) /\ Head(s) \in Bufs
      BY <3>1
    <3>3. OnFree(Head(s))
      BY <3>2 DEF OnFree, BQ, Elems
    <3> QED BY <3>2, <3>3 DEF LockInv, Fits
  <2> DEFINE b0 == Taken(e, {"INVAL"})
             b1 == Sized(b0, tp, n)
             b2 == [b1 EXCEPT ![tp].b_bufsize = Roundup(n)]
             b3 == [b2 EXCEPT ![e].b_bufsize = Excess(tp, n)]
             b4 == [b3 EXCEPT ![e].b_bcount = 0]
  <2>2. Brelse(e, b4, Notavail(e))
    BY <1>3, <1>4, <1>10, <2>1, Zenon DEF AllocShrink
  <2>3. /\ b0 \in [Bufs -> Hdr]
        /\ \A c \in Bufs \ {e} : b0[c] = buf[c]
    BY <2>1, TakenFlags, HdrBuf DEF LockInv, TypeOK, Flags
  <2> HIDE DEF b0
  <2>4. Excess(tp, n) \in Int
    <3>1. buf[tp].b_bufsize \in Int
      BY <1>5, <1>7 DEF Hdr
    <3> QED BY <1>6, <3>1 DEF Excess
  <2>5. b1 \in [Bufs -> Hdr] /\ \A x \in Bufs : b1[x].b_flags = b0[x].b_flags
    <3>1. b1 = [b0 EXCEPT ![tp].b_bcount = n] /\ n \in Int
      BY DEF Sized
    <3> HIDE DEF b1
    <3> QED BY <1>5, <2>3, <3>1, SizeFlags
  <2> HIDE DEF b1
  <2>6. b2 \in [Bufs -> Hdr] /\ \A x \in Bufs : b2[x].b_flags = b1[x].b_flags
    <3>1. b2 = [b1 EXCEPT ![tp].b_bufsize = Roundup(n)] /\ Roundup(n) \in Int
      BY <1>6
    <3> HIDE DEF b2
    <3> QED BY <1>5, <2>5, <3>1, SizeFlags
  <2> HIDE DEF b2
  <2>7. b3 \in [Bufs -> Hdr] /\ \A x \in Bufs : b3[x].b_flags = b2[x].b_flags
    <3>1. b3 = [b2 EXCEPT ![e].b_bufsize = Excess(tp, n)] /\ Excess(tp, n) \in Int
      BY <2>4
    <3> HIDE DEF b3
    <3> QED BY <1>5, <2>1, <2>6, <3>1, SizeFlags
  <2> HIDE DEF b3
  <2>8. b4 \in [Bufs -> Hdr] /\ \A x \in Bufs : b4[x].b_flags = b3[x].b_flags
    <3>1. \E k \in Int : b4 = [b3 EXCEPT ![e].b_bcount = k]
      <4> WITNESS 0 \in Int
      <4> QED OBVIOUS
    <3> HIDE DEF b4
    <3>2. PICK k \in Int : b4 = [b3 EXCEPT ![e].b_bcount = k]
      BY <3>1, Zenon
    <3> QED BY <2>7, <3>2, SizeFlags
  <2> HIDE DEF b4
  <2>9. \A c \in Bufs \ {e} : b4[c].b_flags = buf[c].b_flags
    BY <2>3, <2>5, <2>6, <2>7, <2>8
  <2>10. Effect(e) /\ FitsNext(e, FALSE)
    BY <1>10, <2>1, <2>2, <2>8, <2>9, RecycleEffect, ZenonT(60) DEF AllocShrink
  <2>11. Becomes(p, "gotten", op, tp, ep, hold)
    BY <1>2, <1>10, MovePc, Zenon DEF AllocShrink, Goto, Checked
  <2> QED BY <1>2, <1>8, <2>1, <2>10, <2>11, PassOne, Zenon
<1>11. CASE AllocTake(p)
  <2>1. PICK v \in Bufs : v = Victim /\ ~Has(v, "BUSY")
    BY <1>11, VictimFree DEF AllocTake
  <2>2. v # tp
    BY <1>2, <2>1, <1>5, BufCacheAssumption DEF Checked
  <2> DEFINE take == Least(Roundup(n) - buf[tp].b_bufsize, buf[v].b_bufsize)
             m    == buf[tp].b_bufsize + take
             b1   == [buf EXCEPT ![tp].b_bufsize = m]
             b2   == [b1 EXCEPT ![v] = Robbed(b1[v], b1[v].b_bufsize - take)]
  <2>3. Brelse(v, b2, Notavail(v))
    BY <1>3, <1>4, <1>5, <1>7, <1>11, <2>1 DEF AllocTake
  <2>4. take \in Int /\ m \in Int
    <3>1. buf[tp].b_bufsize \in Int /\ buf[v].b_bufsize \in Int
      BY <1>5, <1>7, <2>1 DEF Hdr
    <3> QED BY <1>6, <3>1 DEF Least
  <2> HIDE DEF take, m
  <2>5. b1 \in [Bufs -> Hdr] /\ \A x \in Bufs : b1[x].b_flags = buf[x].b_flags
    <3>1. b1 = [buf EXCEPT ![tp].b_bufsize = m] /\ m \in Int
      BY <2>4
    <3> HIDE DEF b1
    <3> QED BY <1>5, <1>7, <3>1, SizeFlags
  <2> HIDE DEF b1
  <2>6. \A B \in Hdr, left \in Int : Robbed(B, left) \in Hdr
    BY DEF Robbed, Least, Hdr, Flags
  <2>7. b2 \in [Bufs -> Hdr] /\ \A c \in Bufs \ {v} : b2[c].b_flags = buf[c].b_flags
    <3>1. b1[v] \in Hdr /\ b1[v].b_bufsize - take \in Int
      BY <2>1, <2>4, <2>5 DEF Hdr
    <3> QED BY <2>1, <2>5, <2>6, <3>1
  <2> HIDE DEF b2
  <2>8. Effect(v) /\ FitsNext(v, FALSE)
    BY <1>11, <2>1, <2>3, <2>7, RecycleEffect, Zenon DEF AllocTake
  <2>9. Becomes(p, "alloc", op, tp, ep, hold)
    BY <1>2, <1>11, MovePc, Zenon DEF AllocTake, Goto, Checked
  <2> QED BY <1>2, <1>8, <2>1, <2>8, <2>9, PassOne, Zenon
<1> QED BY <1>9, <1>10, <1>11 DEF Allocbuf

-----------------------------------------------------------------------------
(* A process gives back what it has, to the free lists or to the driver.   *)

LEMMA GiveEffect ==
  ASSUME LockInv, NEW bp \in Bufs, Has(bp, "BUSY"), ~Queued(bp), NEW b \in [Bufs -> Hdr],
         \A c \in Bufs \ {bp} : b[c].b_flags = buf[c].b_flags,
         Has(bp, "WANTED") => "WANTED" \in b[bp].b_flags,
         Brelse(bp, b, bfreelist), ioq' = ioq
  PROVE  Effect(bp) /\ FitsNext(bp, FALSE)
<1>1. ~OnFree(bp)
  BY LockFacts
<1>2. NoDup(ioq)' /\ \A c \in Bufs : Queued(c)' <=> Queued(c)
  BY DEF LockInv, Queued
<1>3. Alert(bp) => "WANTED" \in b[bp].b_flags
  BY DEF Alert
<1>4. Effect(bp) /\ ~Has(bp, "BUSY")' /\ ~Has(bp, "ASYNC")' /\ OnFree(bp)'
  BY <1>1, <1>2, <1>3, BrelseEffect
<1> QED BY <1>2, <1>4 DEF FitsNext

LEMMA GiveOne ==
  ASSUME LockInv, TypeOK', NEW p \in Procs, NEW bp \in Bufs, bp \in Held(p), ~Queued(bp),
         NEW b \in [Bufs -> Hdr],
         \A c \in Bufs \ {bp} : b[c].b_flags = buf[c].b_flags,
         Has(bp, "WANTED") => "WANTED" \in b[bp].b_flags,
         Brelse(bp, b, bfreelist), ioq' = ioq,
         NEW pc, NEW op, NEW tp \in MaybeBuf, NEW ep \in MaybeBuf, NEW hold \in MaybeBuf,
         Becomes(p, pc, op, tp, ep, hold), Shapely(pc, op, tp, ep, hold),
         PlacedAs(pc, tp, ep, hold),
         {tp, ep, hold} \ {NONE} = Held(p) \ {bp}
  PROVE  LockInv'
<1>1. Has(bp, "BUSY")
  BY DEF LockInv, Fits, Owned
<1>2. Effect(bp) /\ FitsNext(bp, FALSE)
  BY <1>1, GiveEffect, Zenon
<1>3. bp \notin {tp, ep, hold}
  BY BufCacheAssumption
<1>4. PlacedAs(pc, tp, ep, hold)'
  <2>1. \A c \in {tp, ep, hold} \ {NONE} :
          (Finishing(c)' <=> Finishing(c)) /\ (Queued(c)' <=> Queued(c))
    BY <1>2, <1>3, EffectKeeps DEF MaybeBuf
  <2> QED BY <2>1 DEF PlacedAs
<1>5. FitsNext(bp, bp \in {tp, ep, hold})
  BY <1>2, <1>3 DEF FitsNext
<1>6. {tp, ep, hold} \ {NONE, bp} = Held(p) \ {bp}
  OBVIOUS
<1> QED BY <1>2, <1>4, <1>5, <1>6, StepOne

LEMMA DriveOne ==
  ASSUME LockInv, TypeOK', NEW p \in Procs, NEW bp \in Bufs, bp \in Held(p), ~Queued(bp),
         NEW B, buf' = [buf EXCEPT ![bp] = B], "BUSY" \in B.b_flags, "DONE" \notin B.b_flags,
         Has(bp, "WANTED") => "WANTED" \in B.b_flags,
         Strategy(bp), bfreelist' = bfreelist, flwanted' = flwanted, wchan' = wchan,
         NEW pc, NEW op, NEW tp \in MaybeBuf, NEW ep \in MaybeBuf, NEW hold \in MaybeBuf,
         Becomes(p, pc, op, tp, ep, hold), Shapely(pc, op, tp, ep, hold),
         {tp, ep, hold} \ {NONE, bp} = Held(p) \ {bp},
         "ASYNC" \in B.b_flags <=> bp \notin {tp, ep, hold},
         tp # NONE => IF pc \in Waits THEN tp = bp \/ Finishing(tp) ELSE tp # bp /\ ~Queued(tp),
         ep # NONE => ep = bp \/ Finishing(ep),
         hold # NONE => hold = bp \/ Finishing(hold)
  PROVE  LockInv'
<1>1. Has(bp, "BUSY")
  BY DEF LockInv, Fits, Owned
<1>2. /\ Effect(bp)
      /\ Has(bp, "BUSY")' /\ ~Has(bp, "DONE")' /\ Queued(bp)' /\ ~OnFree(bp)'
      /\ Has(bp, "ASYNC")' <=> "ASYNC" \in B.b_flags
  BY <1>1, DriveEffect, Zenon
<1>3. Finishing(bp)'
  BY <1>2 DEF Finishing
<1>4. PlacedAs(pc, tp, ep, hold)'
  <2>1. \A c \in {tp, ep, hold} \ {NONE, bp} :
          (Finishing(c)' <=> Finishing(c)) /\ (Queued(c)' <=> Queued(c))
    BY <1>2, EffectKeeps DEF MaybeBuf
  <2> QED BY <1>3, <2>1 DEF PlacedAs
<1>5. FitsNext(bp, bp \in {tp, ep, hold})
  BY <1>2 DEF FitsNext
<1> QED BY <1>2, <1>4, <1>5, StepOne

-----------------------------------------------------------------------------
(* biowait.                                                                *)

LEMMA QueuedOwned ==
  ASSUME LockInv, NEW p \in Procs, NEW bp \in Bufs, bp \in Held(p)
  PROVE  /\ Has(bp, "BUSY")
         /\ Queued(bp) => ~Has(bp, "ASYNC") /\ ~Has(bp, "DONE")
         /\ ~Queued(bp) => ~Has(bp, "ASYNC")
BY DEF LockInv, Fits, Owned

LEMMA BiowaitLock ==
  ASSUME LockInv, TypeOK', NEW p \in Procs, Biowait(p)
  PROVE  LockInv'
<1>1. PICK pc, op : \E tp, ep, hold \in MaybeBuf : Checked(p, pc, op, tp, ep, hold)
  BY CheckedOut
<1>2. PICK tp \in MaybeBuf, ep \in MaybeBuf, hold \in MaybeBuf :
        Checked(p, pc, op, tp, ep, hold)
  BY <1>1
<1>3. /\ u[p].pc = pc /\ u[p].tp = tp /\ u[p].ep = ep /\ u[p] \in Proc
      /\ pc \in {"rwait", "wwait", "swait", "owait", "fwait"}
  BY <1>2, Zenon DEF Biowait, BiowaitSleep, BwriteDone, ReadDone, Checked, Now, LockInv, TypeOK
<1>4. PICK a \in MaybeBuf : a = Awaited(p)
  BY <1>3 DEF Awaited
<1>5. a \in Bufs /\ a \in Held(p) /\ Finishing(a)
  <2>1. NONE \notin Bufs
    BY BufCacheAssumption
  <2>2. CASE pc \in {"owait", "fwait"}
    BY <1>2, <1>3, <1>4, <2>1, <2>2 DEF Awaited, Proc, Checked, PlacedAs
  <2>3. CASE pc \in {"rwait", "wwait", "swait"}
    BY <1>2, <1>3, <1>4, <2>1, <2>3 DEF Awaited, Proc, Checked, PlacedAs, Waits
  <2> QED BY <1>3, <2>2, <2>3
<1>6. CASE BiowaitSleep(p)
  <2>1. UNCHANGED <<buf, bfreelist, flwanted, ioq, u>> /\ Sleep(p, a) /\ ~Has(a, "DONE")
    BY <1>4, <1>6 DEF BiowaitSleep
  <2>2. Alert(a)
    BY <1>5, <2>1, QueuedOwned DEF Alert, Finishing
  <2>3. Alert(a)'
    BY <2>1, <2>2 DEF Alert, Has, Queued
  <2>4. \A b \in Bufs : \A f \in LockFlags \cup {"BUSY", "DONE", "ASYNC"} : Has(b, f)' <=> Has(b, f)
    BY <2>1 DEF Has
  <2>5. FREELIST \notin Bufs
    BY BufCacheAssumption
  <2> QED BY <1>5, <2>1, <2>3, <2>4, <2>5, StepSleep
<1>7. CASE ReadDone(p)
  <2>1. pc = "rwait" /\ Has(tp, "DONE") /\ a = tp
    BY <1>3, <1>4, <1>7 DEF ReadDone, Awaited
  <2>2. ~Queued(tp)
    BY <1>5, <2>1, QueuedOwned
  <2>3. Becomes(p, "own", op, tp, ep, hold)
    BY <1>2, <1>7, MovePc, Zenon DEF ReadDone, Checked
  <2>4. Shapely("own", op, tp, ep, hold)
    BY <1>2, <2>1 DEF Checked, Shapely, TpAt, HoldAt
  <2>5. UNCHANGED <<buf, bfreelist, flwanted, ioq, wchan>>
    BY <1>7 DEF ReadDone
  <2>6. \A b \in Bufs : \A f \in LockFlags : Has(b, f)' <=> Has(b, f)
    BY <2>5 DEF Has
  <2>7. "own" \notin Waits
    BY DEF Waits
  <2> QED BY <1>2, <2>2, <2>3, <2>4, <2>5, <2>6, <2>7, PassNone
<1>8. CASE BwriteDone(p)
  <2>1. Has(a, "DONE") /\ Brelse(a, buf, bfreelist) /\ ioq' = ioq
    BY <1>4, <1>8 DEF BwriteDone
  <2>2. ~Queued(a)
    BY <1>5, <2>1, QueuedOwned
  <2>3. buf \in [Bufs -> Hdr] /\ (Has(a, "WANTED") => "WANTED" \in buf[a].b_flags)
    BY HdrBuf DEF LockInv, TypeOK, Has
  <2>4. ASSUME NEW npc, NEW nop, NEW ntp \in MaybeBuf, NEW nep \in MaybeBuf, NEW nhold \in MaybeBuf,
               Becomes(p, npc, nop, ntp, nep, nhold), Shapely(npc, nop, ntp, nep, nhold),
               PlacedAs(npc, ntp, nep, nhold),
               {ntp, nep, nhold} \ {NONE} = Held(p) \ {a}
        PROVE  LockInv'
    BY <1>5, <2>1, <2>2, <2>3, <2>4, GiveOne
  <2>5. NONE \in MaybeBuf
    BY DEF MaybeBuf
  <2>6. CASE pc = "wwait"
    <3>1. ep = NONE /\ hold = NONE /\ a = tp
      BY <1>2, <1>3, <1>4, <2>6 DEF Checked, Shapely, HoldAt, Awaited
    <3>2. Becomes(p, "idle", "none", NONE, NONE, NONE)
      BY <1>3, <1>8, <2>6, MoveIdle DEF BwriteDone, Return
    <3>3. {NONE, NONE, NONE} \ {NONE} = Held(p) \ {a}
      BY <1>2, <3>1 DEF Checked
    <3>4. Shapely("idle", "none", NONE, NONE, NONE) /\ PlacedAs("idle", NONE, NONE, NONE)
      BY DEF Shapely, PlacedAs
    <3> QED BY <2>4, <2>5, <3>2, <3>3, <3>4
  <2>7. CASE pc = "swait"
    <3>1. ep = NONE /\ a = tp
      BY <1>2, <1>3, <1>4, <2>7 DEF Checked, Shapely, Awaited
    <3>2. Becomes(p, "getblk", op, NONE, ep, hold)
      BY <1>2, <1>3, <1>8, <2>7, MoveTp, Zenon DEF BwriteDone, Checked
    <3>3. {NONE, ep, hold} \ {NONE} = Held(p) \ {a}
      BY <1>2, <1>5, <3>1, BufCacheAssumption DEF Checked, Shapely
    <3>4. Shapely("getblk", op, NONE, ep, hold) /\ PlacedAs("getblk", NONE, ep, hold)
      BY <1>2, <2>7, <3>1 DEF Checked, Shapely, PlacedAs, HoldAt
    <3> QED BY <2>4, <2>5, <3>2, <3>3, <3>4
  <2>8. CASE pc = "owait"
    <3>1. a = ep
      BY <1>3, <1>4, <2>8 DEF Awaited
    <3>2. Becomes(p, "overlap", op, tp, NONE, hold)
      BY <1>2, <1>3, <1>8, <2>8, MoveEp, Zenon DEF BwriteDone, Checked
    <3>3. {tp, NONE, hold} \ {NONE} = Held(p) \ {a}
      BY <1>2, <1>5, <3>1, BufCacheAssumption DEF Checked, Shapely
    <3>4. Shapely("overlap", op, tp, NONE, hold) /\ PlacedAs("overlap", tp, NONE, hold)
      BY <1>2, <2>8 DEF Checked, Shapely, PlacedAs, TpAt, HoldAt, Waits
    <3> QED BY <2>4, <2>5, <3>2, <3>3, <3>4
  <2>9. CASE pc = "fwait"
    <3>1. a = ep /\ tp = NONE /\ hold = NONE
      BY <1>2, <1>3, <1>4, <2>9 DEF Awaited, Checked, Shapely, TpAt, HoldAt
    <3>2. Becomes(p, "blkflush", op, tp, NONE, hold)
      BY <1>2, <1>3, <1>8, <2>9, MoveEp, Zenon DEF BwriteDone, Checked
    <3>3. {tp, NONE, hold} \ {NONE} = Held(p) \ {a}
      BY <1>2, <3>1 DEF Checked
    <3>4. Shapely("blkflush", op, tp, NONE, hold) /\ PlacedAs("blkflush", tp, NONE, hold)
      BY <3>1 DEF Shapely, PlacedAs
    <3> QED BY <2>4, <2>5, <3>2, <3>3, <3>4
  <2> QED BY <1>3, <1>8, <2>6, <2>7, <2>8, <2>9 DEF BwriteDone
<1> QED BY <1>6, <1>7, <1>8 DEF Biowait

-----------------------------------------------------------------------------
(* The callers of getblk, and breada.                                      *)

LEMMA FlagsSet ==
  ASSUME LockInv, NEW bp \in Bufs, NEW F, buf' = [buf EXCEPT ![bp].b_flags = F]
  PROVE  \E B : buf' = [buf EXCEPT ![bp] = B] /\ B.b_flags = F
<1> DEFINE B == [buf[bp] EXCEPT !.b_flags = F]
<1>1. buf[bp] \in Buf
  BY DEF LockInv, TypeOK
<1>2. B.b_flags = F
  BY <1>1 DEF Buf
<1>3. buf' = [buf EXCEPT ![bp] = B]
  OBVIOUS
<1> QED BY <1>2, <1>3, Zenon

LEMMA BreadaMoves ==
  ASSUME LockInv, NEW p \in Procs, NEW pc, NEW op, NEW tp, NEW ep, NEW hold,
         Now(p, pc, op, tp, ep, hold), BreadaRest(p)
  PROVE  Becomes(p, IF hold = NONE THEN "getblk" ELSE "rwait", "bread", hold, NONE, NONE)
<1> DEFINE P == [Idle EXCEPT
               !.pc = IF u[p].hold = NONE THEN "getblk" ELSE "rwait",
               !.op = "bread", !.req = u[p].main, !.tp = u[p].hold]
<1>1. u \in [Procs -> Proc] /\ u' = [u EXCEPT ![p] = P]
  BY DEF LockInv, TypeOK, BreadaRest
<1>2. /\ P.pc = IF hold = NONE THEN "getblk" ELSE "rwait"
      /\ P.op = "bread" /\ P.tp = hold /\ P.ep = NONE /\ P.hold = NONE
  BY DEF Idle, Now
<1> HIDE DEF P
<1>3. u'[p] = P /\ \A q \in Procs \ {p} : u'[q] = u[q]
  BY <1>1
<1> QED BY <1>2, <1>3 DEF Becomes

LEMMA GottenBreadLock ==
  ASSUME LockInv, TypeOK', NEW p \in Procs,
         GottenBread(p) \/ GottenWrite(p) \/ GottenExtended(p)
  PROVE  LockInv'
<1>1. PICK pc, op : \E tp, ep, hold \in MaybeBuf : Checked(p, pc, op, tp, ep, hold)
  BY CheckedOut
<1>2. PICK tp \in MaybeBuf, ep \in MaybeBuf, hold \in MaybeBuf :
        Checked(p, pc, op, tp, ep, hold)
  BY <1>1
<1>3. /\ u[p].pc = "gotten" /\ pc = "gotten" /\ u[p].tp = tp /\ u[p] \in Proc
      /\ u[p].op = op /\ op # "ra"
  BY <1>2 DEF GottenBread, GottenWrite, GottenExtended, Checked, Now, LockInv, TypeOK
<1>4. tp \in Bufs /\ tp # NONE /\ tp \in Held(p) /\ ep = NONE /\ hold = NONE
  BY <1>2, <1>3, BufCacheAssumption DEF Checked, Shapely, Proc
<1>5. ~Queued(tp) /\ Has(tp, "BUSY") /\ ~Has(tp, "ASYNC")
  BY <1>2, <1>3, <1>4, QueuedOwned DEF Checked, PlacedAs, Waits
<1>6. /\ Shapely("own", op, tp, ep, hold) /\ Shapely("rwait", op, tp, ep, hold)
      /\ "own" \notin Waits /\ "rwait" \in Waits
  BY <1>4 DEF Shapely, TpAt, Waits
<1>7. flwanted' = flwanted /\ wchan' = wchan /\ bfreelist' = bfreelist
  BY DEF GottenBread, GottenWrite, GottenExtended
<1>8. CASE UNCHANGED <<buf, ioq>> /\ u' = [u EXCEPT ![p].pc = "own"]
  <2>1. Becomes(p, "own", op, tp, ep, hold)
    BY <1>2, <1>8, MovePc, Zenon DEF Checked
  <2>2. \A b \in Bufs : \A f \in LockFlags : Has(b, f)' <=> Has(b, f)
    BY <1>8 DEF Has
  <2> QED BY <1>2, <1>5, <1>6, <1>7, <1>8, <2>1, <2>2, PassNone
<1>9. CASE /\ ~Has(tp, "DONE") /\ Strategy(tp)
           /\ buf' = [buf EXCEPT ![tp].b_flags = @ \cup {"READ"}]
           /\ u' = [u EXCEPT ![p].pc = "rwait"]
  <2>1. PICK B : /\ buf' = [buf EXCEPT ![tp] = B]
                 /\ B.b_flags = buf[tp].b_flags \cup {"READ"}
    BY <1>4, <1>9, FlagsSet, Zenon
  <2>2. /\ "BUSY" \in B.b_flags /\ "DONE" \notin B.b_flags /\ "ASYNC" \notin B.b_flags
        /\ Has(tp, "WANTED") => "WANTED" \in B.b_flags
    BY <1>5, <1>9, <2>1 DEF Has
  <2>3. Becomes(p, "rwait", op, tp, ep, hold)
    BY <1>2, <1>9, MovePc, Zenon DEF Checked
  <2>4. {tp, ep, hold} \ {NONE, tp} = Held(p) \ {tp}
    BY <1>2, <1>4 DEF Checked
  <2> QED BY <1>4, <1>5, <1>6, <1>7, <1>9, <2>1, <2>2, <2>3, <2>4, DriveOne, Zenon
<1>10. CASE GottenExtended(p)
  <2>1. buf' = [buf EXCEPT ![tp].b_flags = @ \cup {"DONE"}] /\ ioq' = ioq
    BY <1>3, <1>10 DEF GottenExtended
  <2>2. PICK B : /\ buf' = [buf EXCEPT ![tp] = B]
                 /\ B.b_flags = buf[tp].b_flags \cup {"DONE"}
    BY <1>4, <2>1, FlagsSet, Zenon
  <2>3. \A f \in {"BUSY", "ASYNC", "WANTED"} : f \in B.b_flags <=> Has(tp, f)
    BY <2>2 DEF Has
  <2>4. /\ Effect(tp)
        /\ Has(tp, "BUSY")' /\ ~Has(tp, "ASYNC")' /\ ~Queued(tp)' /\ ~OnFree(tp)'
    BY <1>4, <1>5, <1>7, <2>1, <2>2, <2>3, MarkEffect, Zenon
  <2>5. Becomes(p, "own", op, tp, ep, hold)
    BY <1>2, <1>10, MovePc, Zenon DEF GottenExtended, Checked
  <2>6. PlacedAs("own", tp, ep, hold)'
    BY <1>4, <1>6, <2>4 DEF PlacedAs
  <2>7. {tp, ep, hold} \ {NONE, tp} = Held(p) \ {tp}
    BY <1>2, <1>4 DEF Checked
  <2>8. FitsNext(tp, tp \in {tp, ep, hold})
    BY <2>4 DEF FitsNext
  <2> QED BY <1>4, <1>6, <2>4, <2>5, <2>6, <2>7, <2>8, StepOne
<1>11. CASE GottenBread(p)
  BY <1>3, <1>8, <1>9, <1>11 DEF GottenBread, Goto
<1>12. CASE GottenWrite(p)
  BY <1>8, <1>12 DEF GottenWrite
<1> QED BY <1>10, <1>11, <1>12

LEMMA GottenBreadaLock ==
  ASSUME LockInv, TypeOK', NEW p \in Procs, GottenBreada(p)
  PROVE  LockInv'
<1>1. PICK pc, op : \E tp, ep, hold \in MaybeBuf : Checked(p, pc, op, tp, ep, hold)
  BY CheckedOut
<1>2. PICK tp \in MaybeBuf, ep \in MaybeBuf, hold \in MaybeBuf :
        Checked(p, pc, op, tp, ep, hold)
  BY <1>1
<1>3. /\ u[p].pc = "gotten" /\ pc = "gotten" /\ u[p].tp = tp /\ u[p] \in Proc
      /\ u[p].op = op /\ op = "breada"
  BY <1>2 DEF GottenBreada, Checked, Now, LockInv, TypeOK
<1>4. tp \in Bufs /\ tp # NONE /\ tp \in Held(p) /\ ep = NONE /\ hold = NONE
  BY <1>2, <1>3, BufCacheAssumption DEF Checked, Shapely, Proc
<1>5. ~Queued(tp) /\ Has(tp, "BUSY") /\ ~Has(tp, "ASYNC")
  BY <1>2, <1>3, <1>4, QueuedOwned DEF Checked, PlacedAs, Waits
<1>6. Becomes(p, "ra", op, NONE, NONE, tp)
  <2> DEFINE P == [u[p] EXCEPT !.pc = "ra", !.hold = u[p].tp, !.tp = NONE]
  <2>1. u \in [Procs -> Proc] /\ u' = [u EXCEPT ![p] = P]
    BY DEF LockInv, TypeOK, GottenBreada
  <2>2. P.pc = "ra" /\ P.op = op /\ P.tp = NONE /\ P.ep = NONE /\ P.hold = tp
    BY <1>2, <1>3, <1>4 DEF Proc, Checked, Now
  <2> HIDE DEF P
  <2>3. u'[p] = P /\ \A q \in Procs \ {p} : u'[q] = u[q]
    BY <2>1
  <2> QED BY <2>2, <2>3 DEF Becomes
<1>7. Shapely("ra", op, NONE, NONE, tp)
  BY <1>4 DEF Shapely, HoldAt
<1>8. flwanted' = flwanted /\ wchan' = wchan /\ bfreelist' = bfreelist
  BY DEF GottenBreada
<1>9. NONE \in MaybeBuf
  BY DEF MaybeBuf
<1>10. CASE Has(tp, "DONE")
  <2>1. UNCHANGED <<buf, ioq>>
    BY <1>3, <1>10 DEF GottenBreada
  <2>2. \A b \in Bufs : \A f \in LockFlags : Has(b, f)' <=> Has(b, f)
    BY <2>1 DEF Has
  <2>3. PlacedAs("ra", NONE, NONE, tp)'
    BY <1>10, <2>1 DEF PlacedAs, Finishing, Has
  <2>4. {NONE, NONE, tp} \ {NONE} = Held(p)
    BY <1>2, <1>4 DEF Checked
  <2> QED BY <1>6, <1>7, <1>8, <2>1, <2>2, <2>3, <2>4, StepNone
<1>11. CASE ~Has(tp, "DONE")
  <2>1. Strategy(tp) /\ buf' = [buf EXCEPT ![tp].b_flags = @ \cup {"READ"}]
    BY <1>3, <1>11 DEF GottenBreada
  <2>2. PICK B : /\ buf' = [buf EXCEPT ![tp] = B]
                 /\ B.b_flags = buf[tp].b_flags \cup {"READ"}
    BY <1>4, <2>1, FlagsSet, Zenon
  <2>3. /\ "BUSY" \in B.b_flags /\ "DONE" \notin B.b_flags /\ "ASYNC" \notin B.b_flags
        /\ Has(tp, "WANTED") => "WANTED" \in B.b_flags
    BY <1>5, <1>11, <2>2 DEF Has
  <2>4. {NONE, NONE, tp} \ {NONE, tp} = Held(p) \ {tp}
    BY <1>2, <1>4 DEF Checked
  <2> QED BY <1>4, <1>5, <1>6, <1>7, <1>8, <1>9, <2>1, <2>2, <2>3, <2>4, DriveOne, Zenon
<1> QED BY <1>10, <1>11

LEMMA GottenReadAheadLock ==
  ASSUME LockInv, TypeOK', NEW p \in Procs, GottenReadAhead(p)
  PROVE  LockInv'
<1>1. PICK pc, op : \E tp, ep, hold \in MaybeBuf : Checked(p, pc, op, tp, ep, hold)
  BY CheckedOut
<1>2. PICK tp \in MaybeBuf, ep \in MaybeBuf, hold \in MaybeBuf :
        Checked(p, pc, op, tp, ep, hold)
  BY <1>1
<1>3. u[p].pc = "gotten" /\ pc = "gotten" /\ u[p].tp = tp /\ u[p] \in Proc
  BY <1>2 DEF GottenReadAhead, Checked, Now, LockInv, TypeOK
<1>4. /\ tp \in Bufs /\ tp # NONE /\ tp # hold /\ tp \in Held(p) /\ ep = NONE
      /\ hold # NONE => Finishing(hold)
  BY <1>2, <1>3, BufCacheAssumption DEF Checked, Shapely, PlacedAs, Proc
<1>5. ~Queued(tp) /\ Has(tp, "BUSY") /\ ~Has(tp, "ASYNC")
  BY <1>2, <1>3, <1>4, QueuedOwned DEF Checked, PlacedAs, Waits
<1> DEFINE npc == IF hold = NONE THEN "getblk" ELSE "rwait"
<1>6. Becomes(p, npc, "bread", hold, NONE, NONE)
  BY <1>2, BreadaMoves DEF GottenReadAhead, Checked
<1>7. Shapely(npc, "bread", hold, NONE, NONE) /\ (hold # NONE => npc \in Waits)
  BY DEF Shapely, TpAt, Waits
<1>8. PlacedAs(npc, hold, NONE, NONE)
  BY <1>4, <1>7 DEF PlacedAs
<1> HIDE DEF npc
<1>9. NONE \in MaybeBuf
  BY DEF MaybeBuf
<1>10. {hold, NONE, NONE} \ {NONE} = Held(p) \ {tp}
  BY <1>2, <1>4 DEF Checked
<1>11. CASE Has(tp, "DONE")
  <2>1. Brelse(tp, buf, bfreelist) /\ ioq' = ioq
    BY <1>3, <1>11 DEF GottenReadAhead
  <2>2. buf \in [Bufs -> Hdr] /\ (Has(tp, "WANTED") => "WANTED" \in buf[tp].b_flags)
    BY HdrBuf DEF LockInv, TypeOK, Has
  <2> QED BY <1>4, <1>5, <1>6, <1>7, <1>8, <1>9, <1>10, <2>1, <2>2, GiveOne
<1>12. CASE ~Has(tp, "DONE")
  <2>1. /\ Strategy(tp) /\ buf' = [buf EXCEPT ![tp].b_flags = @ \cup {"READ", "ASYNC"}]
        /\ UNCHANGED <<bfreelist, flwanted, wchan>>
    BY <1>3, <1>12 DEF GottenReadAhead
  <2>2. PICK B : /\ buf' = [buf EXCEPT ![tp] = B]
                 /\ B.b_flags = buf[tp].b_flags \cup {"READ", "ASYNC"}
    BY <1>4, <2>1, FlagsSet, Zenon
  <2>3. /\ "BUSY" \in B.b_flags /\ "DONE" \notin B.b_flags /\ "ASYNC" \in B.b_flags
        /\ Has(tp, "WANTED") => "WANTED" \in B.b_flags
    BY <1>5, <1>12, <2>2 DEF Has
  <2>4. {hold, NONE, NONE} \ {NONE, tp} = Held(p) \ {tp} /\ tp \notin {hold, NONE, NONE}
    BY <1>4, <1>10
  <2> QED BY <1>4, <1>5, <1>6, <1>7, <1>9, <2>1, <2>2, <2>3, <2>4, DriveOne, Zenon
<1> QED BY <1>11, <1>12

LEMMA GottenLock ==
  ASSUME LockInv, TypeOK', NEW p \in Procs, Gotten(p)
  PROVE  LockInv'
BY GottenBreadLock, GottenBreadaLock, GottenReadAheadLock DEF Gotten

LEMMA BreadaLock ==
  ASSUME LockInv, TypeOK', NEW p \in Procs, Breada(p)
  PROVE  LockInv'
<1>1. PICK pc, op : \E tp, ep, hold \in MaybeBuf : Checked(p, pc, op, tp, ep, hold)
  BY CheckedOut
<1>2. PICK tp \in MaybeBuf, ep \in MaybeBuf, hold \in MaybeBuf :
        Checked(p, pc, op, tp, ep, hold)
  BY <1>1
<1>3. /\ pc \in {"breada", "ra"} /\ u \in [Procs -> Proc] /\ u[p] \in Proc
      /\ UNCHANGED <<buf, bfreelist, flwanted, ioq, wchan>>
  BY <1>2 DEF Breada, BreadaStart, ReadAheadStart, ReadAheadNone, Checked, Now,
              LockInv, TypeOK
<1>4. tp = NONE /\ ep = NONE /\ (hold # NONE => pc = "ra" /\ Finishing(hold))
  BY <1>2, <1>3 DEF Checked, Shapely, PlacedAs, TpAt, HoldAt
<1>5. \A b \in Bufs : \A f \in LockFlags : Has(b, f)' <=> Has(b, f)
  BY <1>3 DEF Has
<1>6. CASE BreadaStart(p)
  <2>1. PICK npc \in {"getblk", "ra"} : u' = [u EXCEPT ![p].pc = npc]
    BY <1>6, Zenon DEF BreadaStart, Goto
  <2>2. Becomes(p, npc, op, tp, ep, hold)
    BY <1>2, <2>1, MovePc, Zenon DEF Checked
  <2>3. pc = "breada"
    BY <1>2, <1>6 DEF BreadaStart, Checked, Now
  <2>4. Shapely(npc, op, tp, ep, hold)
    BY <1>4, <2>3 DEF Shapely
  <2> QED BY <1>2, <1>3, <1>4, <1>5, <2>2, <2>4, PassNone
<1>7. CASE ReadAheadStart(p)
  <2> DEFINE P == [u[p] EXCEPT !.pc = "getblk", !.op = "ra", !.req = u[p].ra]
  <2>1. u' = [u EXCEPT ![p] = P]
    BY <1>7 DEF ReadAheadStart
  <2>2. P.pc = "getblk" /\ P.op = "ra" /\ P.tp = tp /\ P.ep = ep /\ P.hold = hold
    BY <1>2, <1>3 DEF Proc, Checked, Now
  <2> HIDE DEF P
  <2>3. u'[p] = P /\ \A q \in Procs \ {p} : u'[q] = u[q]
    BY <1>3, <2>1
  <2>4. Becomes(p, "getblk", "ra", tp, ep, hold)
    BY <2>2, <2>3 DEF Becomes
  <2>5. Shapely("getblk", "ra", tp, ep, hold)
    BY <1>4 DEF Shapely, HoldAt
  <2> QED BY <1>2, <1>3, <1>4, <1>5, <2>4, <2>5, PassNone
<1>8. CASE ReadAheadNone(p)
  <2> DEFINE npc == IF hold = NONE THEN "getblk" ELSE "rwait"
  <2>1. Becomes(p, npc, "bread", hold, NONE, NONE)
    BY <1>2, <1>8, BreadaMoves DEF ReadAheadNone, Checked
  <2>2. Shapely(npc, "bread", hold, NONE, NONE) /\ (hold # NONE => npc \in Waits)
    BY DEF Shapely, TpAt, Waits
  <2> HIDE DEF npc
  <2>3. hold # NONE => Finishing(hold)'
    BY <1>3, <1>4 DEF Finishing, Has, Queued
  <2>4. PlacedAs(npc, hold, NONE, NONE)'
    BY <2>2, <2>3 DEF PlacedAs
  <2>5. {hold, NONE, NONE} \ {NONE} = Held(p)
    BY <1>2, <1>4 DEF Checked
  <2> QED BY <1>3, <1>5, <2>1, <2>2, <2>4, <2>5, StepNone
<1> QED BY <1>6, <1>7, <1>8 DEF Breada

-----------------------------------------------------------------------------
(* What an owner does.                                                     *)

LEMMA OwnerLock ==
  ASSUME LockInv, TypeOK', NEW p \in Procs, Owner(p)
  PROVE  LockInv'
<1>1. PICK pc, op : \E tp, ep, hold \in MaybeBuf : Checked(p, pc, op, tp, ep, hold)
  BY CheckedOut
<1>2. PICK tp \in MaybeBuf, ep \in MaybeBuf, hold \in MaybeBuf :
        Checked(p, pc, op, tp, ep, hold)
  BY <1>1
<1>3. /\ u[p].pc = "own" /\ pc = "own" /\ u[p].tp = tp /\ u \in [Procs -> Proc]
      /\ buf \in [Bufs -> Buf]
  BY <1>2 DEF Owner, Release, Bdwrite, Bawrite, Bwrite, Extend, Writable, Owns,
              Checked, Now, LockInv, TypeOK
<1>4. tp \in Bufs /\ tp # NONE /\ tp \in Held(p) /\ ep = NONE /\ hold = NONE
  <2>1. u[p] \in Proc
    BY <1>3
  <2> QED BY <1>2, <1>3, <2>1, BufCacheAssumption DEF Checked, Shapely, HoldAt, Proc
<1>5. ~Queued(tp) /\ Has(tp, "BUSY") /\ ~Has(tp, "ASYNC") /\ Held(p) = {tp}
  BY <1>2, <1>3, <1>4, QueuedOwned DEF Checked, PlacedAs, Waits
<1>6. NONE \in MaybeBuf
  BY DEF MaybeBuf
<1>7. Shapely("idle", "none", NONE, NONE, NONE) /\ PlacedAs("idle", NONE, NONE, NONE)
  BY DEF Shapely, PlacedAs
<1>8. ASSUME NEW fs \in SUBSET {"AGE", "DELWRI", "DONE"}, ioq' = ioq, Return(p),
             Brelse(tp, Taken(tp, fs), bfreelist)
      PROVE  LockInv'
  <2>1. fs \in SUBSET Flags
    BY DEF Flags
  <2>2. /\ Taken(tp, fs) \in [Bufs -> Buf]
        /\ Taken(tp, fs)[tp].b_flags = buf[tp].b_flags \cup {"BUSY"} \cup fs
        /\ \A c \in Bufs \ {tp} : Taken(tp, fs)[c] = buf[c]
    BY <1>3, <1>4, <2>1, TakenFlags
  <2>3. PICK b \in [Bufs -> Hdr] : b = Taken(tp, fs)
    BY <2>2, HdrBuf
  <2>4. /\ \A c \in Bufs \ {tp} : b[c].b_flags = buf[c].b_flags
        /\ Has(tp, "WANTED") => "WANTED" \in b[tp].b_flags
    BY <2>2, <2>3 DEF Has
  <2>5. Becomes(p, "idle", "none", NONE, NONE, NONE)
    BY <1>8, MoveIdle, Zenon DEF Return
  <2>6. {NONE, NONE, NONE} \ {NONE} = Held(p) \ {tp}
    BY <1>5
  <2>7. Brelse(tp, b, bfreelist) /\ ioq' = ioq
    BY <1>8, <2>3
  <2> QED BY <1>4, <1>5, <1>6, <1>7, <2>4, <2>5, <2>6, <2>7, GiveOne
<1>9. CASE Release(p)
  <2>1. PICK age \in SUBSET {"AGE"} : Brelse(tp, Taken(tp, age), bfreelist)
    BY <1>3, <1>9 DEF Release
  <2>2. age \in SUBSET {"AGE", "DELWRI", "DONE"}
    OBVIOUS
  <2>3. ioq' = ioq /\ Return(p)
    BY <1>9 DEF Release
  <2> QED BY <1>8, <2>1, <2>2, <2>3
<1>10. CASE Bdwrite(p)
  <2> DEFINE fs == {"DELWRI", "DONE"}
  <2>1. fs \in SUBSET {"AGE", "DELWRI", "DONE"}
    OBVIOUS
  <2>2. ioq' = ioq /\ Return(p) /\ Brelse(tp, Taken(tp, fs), bfreelist)
    BY <1>3, <1>10 DEF Bdwrite
  <2> HIDE DEF fs
  <2> QED BY <1>8, <2>1, <2>2
<1>11. CASE Bawrite(p)
  <2>1. PICK fs : /\ fs \in SUBSET {"ASYNC", "AGE"} /\ "ASYNC" \in fs
                  /\ buf' = [buf EXCEPT ![tp] = Bwritten(Taken(tp, fs)[tp])]
    BY <1>3, <1>11, Zenon DEF Bawrite
  <2>2. fs \in SUBSET Flags
    BY <2>1 DEF Flags
  <2>3. /\ Taken(tp, fs)[tp] \in Buf
        /\ Taken(tp, fs)[tp].b_flags = buf[tp].b_flags \cup {"BUSY"} \cup fs
    BY <1>3, <1>4, <2>2, TakenFlags
  <2>4. PICK T \in Buf : T = Taken(tp, fs)[tp]
    BY <2>3
  <2>5. PICK B : B = Bwritten(T)
    OBVIOUS
  <2>6. /\ "BUSY" \in B.b_flags /\ "DONE" \notin B.b_flags /\ "ASYNC" \in B.b_flags
        /\ Has(tp, "WANTED") => "WANTED" \in B.b_flags
    BY <2>1, <2>3, <2>4, <2>5, BwrittenFlags DEF Has
  <2>7. Becomes(p, "idle", "none", NONE, NONE, NONE)
    BY <1>11, MoveIdle, Zenon DEF Bawrite, Return
  <2>8. {NONE, NONE, NONE} \ {NONE, tp} = Held(p) \ {tp} /\ tp \notin {NONE, NONE, NONE}
    BY <1>4, <1>5
  <2>9. /\ Strategy(tp) /\ bfreelist' = bfreelist /\ flwanted' = flwanted
        /\ wchan' = wchan /\ buf' = [buf EXCEPT ![tp] = B]
    BY <1>3, <1>11, <2>1, <2>4, <2>5, Zenon DEF Bawrite
  <2> QED BY <1>4, <1>5, <1>6, <1>7, <2>6, <2>7, <2>8, <2>9, DriveOne, Zenon
<1>12. CASE Bwrite(p)
  <2>1. PICK B : B = Bwritten(buf[tp])
    OBVIOUS
  <2>2. /\ "BUSY" \in B.b_flags /\ "DONE" \notin B.b_flags /\ "ASYNC" \notin B.b_flags
        /\ Has(tp, "WANTED") => "WANTED" \in B.b_flags
    <3>1. buf[tp] \in Buf
      BY <1>3, <1>4
    <3> QED BY <1>5, <2>1, <3>1, BwrittenFlags DEF Has
  <2>3. Becomes(p, "wwait", op, tp, ep, hold)
    BY <1>2, <1>12, MovePc, Zenon DEF Bwrite, Goto, Checked
  <2>4. Shapely("wwait", op, tp, ep, hold) /\ "wwait" \in Waits
    BY <1>4 DEF Shapely, TpAt, Waits
  <2>5. {tp, ep, hold} \ {NONE, tp} = Held(p) \ {tp}
    BY <1>4, <1>5
  <2>6. /\ Strategy(tp) /\ bfreelist' = bfreelist /\ flwanted' = flwanted
        /\ wchan' = wchan /\ buf' = [buf EXCEPT ![tp] = B]
    BY <1>3, <1>12, <2>1 DEF Bwrite
  <2> QED BY <1>4, <1>5, <2>2, <2>3, <2>4, <2>5, <2>6, DriveOne, Zenon
<1>13. CASE Extend(p)
  <2>1. buf' = [buf EXCEPT ![tp].b_flags = @ \ {"DONE"}]
    BY <1>3, <1>13 DEF Extend
  <2>2. PICK B : /\ buf' = [buf EXCEPT ![tp] = B]
                 /\ B.b_flags = buf[tp].b_flags \ {"DONE"}
    BY <1>4, <2>1, FlagsSet, Zenon
  <2>3. \A f \in {"BUSY", "ASYNC", "WANTED"} : f \in B.b_flags <=> Has(tp, f)
    BY <2>2 DEF Has
  <2>4. UNCHANGED <<bfreelist, flwanted, ioq, wchan>>
    BY <1>13 DEF Extend
  <2>5. /\ Effect(tp)
        /\ Has(tp, "BUSY")' /\ ~Has(tp, "ASYNC")' /\ ~Queued(tp)' /\ ~OnFree(tp)'
    BY <1>4, <1>5, <2>2, <2>3, <2>4, MarkEffect, Zenon
  <2>6. Becomes(p, "overlap", "extended", tp, ep, hold)
    <3> DEFINE P == [u[p] EXCEPT !.pc = "overlap", !.op = "extended",
                                 !.req = u[p].main, !.main = NONE]
    <3>1. u' = [u EXCEPT ![p] = P]
      BY <1>13 DEF Extend
    <3>2. u[p] \in Proc
      BY <1>3
    <3>3. P.pc = "overlap" /\ P.op = "extended" /\ P.tp = tp /\ P.ep = ep /\ P.hold = hold
      BY <1>2, <3>2 DEF Proc, Checked, Now
    <3> HIDE DEF P
    <3>4. u'[p] = P /\ \A q \in Procs \ {p} : u'[q] = u[q]
      BY <1>3, <3>1
    <3> QED BY <3>3, <3>4 DEF Becomes
  <2>7. Shapely("overlap", "extended", tp, ep, hold)
    BY <1>4 DEF Shapely, TpAt
  <2>8. PlacedAs("overlap", tp, ep, hold)'
    BY <1>4, <2>5 DEF PlacedAs, Waits
  <2>9. FitsNext(tp, tp \in {tp, ep, hold})
    BY <2>5 DEF FitsNext
  <2>10. {tp, ep, hold} \ {NONE, tp} = Held(p) \ {tp}
    BY <1>4, <1>5
  <2> QED BY <1>4, <2>5, <2>6, <2>7, <2>8, <2>9, <2>10, StepOne
<1> QED BY <1>9, <1>10, <1>11, <1>12, <1>13 DEF Owner

-----------------------------------------------------------------------------
(* blkflush, bflush, binval, and the calls from above: p has no buffer     *)
(* before or after, or waits for one that it writes.                       *)

LEMMA EmptyHanded ==
  ASSUME LockInv, TypeOK', NEW p \in Procs,
         u[p].pc \in {"idle", "blkflush", "bflush", "binval"},
         NEW npc, NEW nop, Becomes(p, npc, nop, NONE, NONE, NONE),
         \A b \in Bufs : \A f \in LockFlags : Has(b, f)' <=> Has(b, f),
         UNCHANGED <<bfreelist, flwanted, ioq, wchan>>
  PROVE  LockInv'
<1>1. PICK pc, op : \E tp, ep, hold \in MaybeBuf : Checked(p, pc, op, tp, ep, hold)
  BY CheckedOut
<1>2. PICK tp \in MaybeBuf, ep \in MaybeBuf, hold \in MaybeBuf :
        Checked(p, pc, op, tp, ep, hold)
  BY <1>1
<1>3. Held(p) = {}
  BY <1>2 DEF Checked, Now, Shapely, TpAt, HoldAt
<1>4. {NONE, NONE, NONE} \ {NONE} = Held(p)
  BY <1>3
<1>5. Shapely(npc, nop, NONE, NONE, NONE) /\ PlacedAs(npc, NONE, NONE, NONE)'
  BY DEF Shapely, PlacedAs
<1> QED BY <1>4, <1>5, StepNone

LEMMA FlushLock ==
  ASSUME LockInv, TypeOK', NEW p \in Procs, Flush(p)
  PROVE  LockInv'
<1>1. Flushees(p) \subseteq Bufs
  BY DEF Flushees, Overlapping
<1>2. CASE BlkflushBusy(p)
  <2>1. PICK ep \in Flushees(p) : Has(ep, "BUSY") /\ buf' = Wanted(ep) /\ Sleep(p, ep)
    BY <1>2 DEF BlkflushBusy
  <2> QED BY <1>1, <1>2, <2>1, WantedSleep DEF BlkflushBusy
<1>3. CASE BlkflushDirty(p)
  <2>1. PICK ep \in Flushees(p) :
          /\ ~Has(ep, "BUSY")
          /\ buf' = [buf EXCEPT ![ep] = Bwritten(Taken(ep, {})[ep])]
          /\ bfreelist' = Notavail(ep) /\ Strategy(ep)
          /\ u' = [u EXCEPT ![p] = [@ EXCEPT !.pc = "fwait", !.ep = ep]]
    BY <1>3, Zenon DEF BlkflushDirty
  <2> QED BY <1>1, <1>3, <2>1, WriteOne, Zenon DEF BlkflushDirty
<1>4. CASE BlkflushDone(p)
  <2>1. Becomes(p, "idle", "none", NONE, NONE, NONE)
    BY <1>4, MoveIdle, Zenon DEF BlkflushDone, Return
  <2>2. /\ u[p].pc = "blkflush"
        /\ \A b \in Bufs : \A f \in LockFlags : Has(b, f)' <=> Has(b, f)
        /\ UNCHANGED <<bfreelist, flwanted, ioq, wchan>>
    BY <1>4 DEF BlkflushDone, Has
  <2> QED BY <2>1, <2>2, EmptyHanded
<1>5. PICK pc, op : \E tp, ep, hold \in MaybeBuf : Checked(p, pc, op, tp, ep, hold)
  BY CheckedOut
<1>6. PICK tp \in MaybeBuf, ep \in MaybeBuf, hold \in MaybeBuf :
        Checked(p, pc, op, tp, ep, hold)
  BY <1>5
<1>7. NONE \in MaybeBuf
  BY DEF MaybeBuf
<1>8. CASE BflushOne(p)
  <2>1. PICK q \in {"LRU", "AGE"} : \E bp \in First(p, q) :
            /\ buf' = [buf EXCEPT ![bp] = Bwritten(Taken(bp, {"ASYNC"})[bp])]
            /\ bfreelist' = Notavail(bp)
            /\ Strategy(bp)
    BY <1>8, Zenon DEF BflushOne
  <2>2. PICK bp \in First(p, q) :
            /\ buf' = [buf EXCEPT ![bp] = Bwritten(Taken(bp, {"ASYNC"})[bp])]
            /\ bfreelist' = Notavail(bp)
            /\ Strategy(bp)
    BY <2>1, Zenon
  <2>3. bp \in Bufs /\ ~Has(bp, "BUSY")
    <3>1. PICK i \in 1..Len(bfreelist[q]) : bp = bfreelist[q][i]
      BY DEF First, Dirty
    <3>2. q \in BQ /\ bfreelist[q] \in Seq(Bufs)
      BY DEF BQ, LockInv, TypeOK
    <3>3. bp \in Bufs /\ OnFree(bp)
      BY <3>1, <3>2 DEF OnFree, Elems
    <3> QED BY <3>3 DEF LockInv, Fits
  <2>4. pc = "bflush" /\ tp = NONE /\ ep = NONE /\ hold = NONE
    BY <1>6, <1>8 DEF BflushOne, Checked, Now, Shapely, TpAt, HoldAt
  <2>5. Effect(bp) /\ FitsNext(bp, FALSE)
    <3> DEFINE fs == {"ASYNC"}
    <3>1. fs \in SUBSET {"ASYNC"} /\ "ASYNC" \in fs
      OBVIOUS
    <3>2. buf' = [buf EXCEPT ![bp] = Bwritten(Taken(bp, fs)[bp])]
      BY <2>2
    <3> HIDE DEF fs
    <3>3. flwanted' = flwanted /\ wchan' = wchan
      BY <1>8 DEF BflushOne
    <3>4. /\ Effect(bp)
          /\ Has(bp, "BUSY")' /\ ~Has(bp, "DONE")' /\ Queued(bp)' /\ ~OnFree(bp)'
          /\ Has(bp, "ASYNC")'
      BY <2>2, <2>3, <3>1, <3>2, <3>3, FlushEffect, Zenon
    <3> QED BY <3>4 DEF FitsNext
  <2>6. Becomes(p, "bflush", op, tp, ep, hold)
    BY <1>6, <1>8, MovePc, Zenon DEF BflushOne, Goto, Checked
  <2>7. Shapely("bflush", op, tp, ep, hold)
    BY <2>4 DEF Shapely
  <2> QED BY <1>6, <2>3, <2>4, <2>5, <2>6, <2>7, PassOne, Zenon
<1>9. CASE BflushDone(p)
  <2>1. /\ u[p].pc = "bflush"
        /\ \A b \in Bufs : \A f \in LockFlags : Has(b, f)' <=> Has(b, f)
        /\ UNCHANGED <<bfreelist, flwanted, ioq, wchan>>
    BY <1>9 DEF BflushDone, Has
  <2>2. tp = NONE /\ ep = NONE /\ hold = NONE
    BY <1>6, <2>1 DEF Checked, Now, Shapely, TpAt, HoldAt
  <2>3. CASE Goto(p, "binval")
    <3>1. Becomes(p, "binval", op, NONE, NONE, NONE)
      BY <1>6, <2>2, <2>3, MovePc, Zenon DEF Goto, Checked
    <3> QED BY <2>1, <3>1, EmptyHanded
  <2>4. CASE Return(p)
    <3>1. Becomes(p, "idle", "none", NONE, NONE, NONE)
      BY <2>4, MoveIdle, Zenon DEF Return
    <3> QED BY <2>1, <3>1, EmptyHanded
  <2> QED BY <1>9, <2>3, <2>4 DEF BflushDone
<1>10. CASE Binval(p)
  <2>1. u[p].pc = "binval" /\ UNCHANGED <<bfreelist, flwanted, ioq, wchan>>
    BY <1>10 DEF Binval
  <2>2. ASSUME NEW b \in Bufs, NEW f \in LockFlags PROVE Has(b, f)' <=> Has(b, f)
    <3>1. f # "INVAL"
      BY DEF LockFlags
    <3>2. buf[b] \in Buf
      BY DEF LockInv, TypeOK
    <3> DEFINE B == [buf[b] EXCEPT !.b_flags = @ \cup {"INVAL"}]
    <3>3. B.b_flags = buf[b].b_flags \cup {"INVAL"}
      BY <3>2 DEF Buf
    <3>4. buf'[b] = buf[b] \/ buf'[b] = B
      BY <1>10 DEF Binval
    <3> HIDE DEF B
    <3>5. buf'[b].b_flags \in {buf[b].b_flags, buf[b].b_flags \cup {"INVAL"}}
      BY <3>3, <3>4
    <3> QED BY <3>1, <3>5 DEF Has
  <2>3. Becomes(p, "idle", "none", NONE, NONE, NONE)
    BY <1>10, MoveIdle, Zenon DEF Binval, Return
  <2> QED BY <2>1, <2>2, <2>3, EmptyHanded
<1> QED BY <1>2, <1>3, <1>4, <1>8, <1>9, <1>10 DEF Flush

LEMMA CallLock ==
  ASSUME LockInv, TypeOK', NEW p \in Procs, Call(p)
  PROVE  LockInv'
<1>1. /\ UNCHANGED <<buf, bfreelist, flwanted, ioq, wchan>>
      /\ u[p].pc = "idle"
  BY Zenon DEF Call, CallBread, CallBlkflush, CallGetblk, CallGeteblk, CallSync, CallBreada,
         CallClose, CallExtend, CallAlloc, Free, Begin
<1>2. \A b \in Bufs : \A f \in LockFlags : Has(b, f)' <=> Has(b, f)
  BY <1>1 DEF Has
<1>3. \E npc, nop : Becomes(p, npc, nop, NONE, NONE, NONE)
  <2>1. u \in [Procs -> Proc]
    BY DEF LockInv, TypeOK
  <2>2. CASE Free(p)
    <3>1. u' = u
      BY <2>2 DEF Free
    <3>2. PICK pc, op : \E tp, ep, hold \in MaybeBuf : Checked(p, pc, op, tp, ep, hold)
      BY CheckedOut
    <3>3. PICK tp \in MaybeBuf, ep \in MaybeBuf, hold \in MaybeBuf :
            Checked(p, pc, op, tp, ep, hold)
      BY <3>2
    <3>4. tp = NONE /\ ep = NONE /\ hold = NONE
      BY <1>1, <3>3 DEF Checked, Now, Shapely, TpAt, HoldAt
    <3> QED BY <3>1, <3>3, <3>4 DEF Becomes, Checked, Now
  <2>3. CASE ~Free(p)
    <3> DEFINE Fresh == /\ u'[p].tp = NONE /\ u'[p].ep = NONE /\ u'[p].hold = NONE
                        /\ \A q \in Procs \ {p} : u'[q] = u[q]
    <3>1. ASSUME NEW P, u' = [u EXCEPT ![p] = P], P.tp = NONE, P.ep = NONE, P.hold = NONE
          PROVE  Fresh
      <4>1. u'[p] = P /\ \A q \in Procs \ {p} : u'[q] = u[q]
        BY <2>1, <3>1
      <4> QED BY <3>1, <4>1
    <3> HIDE DEF Fresh
    <3>2. ASSUME NEW op, NEW pc, NEW r, Begin(p, op, pc, r) PROVE Fresh
      <4> DEFINE P == [Idle EXCEPT !.pc = pc, !.op = op, !.req = r]
      <4>1. P.tp = NONE /\ P.ep = NONE /\ P.hold = NONE
        BY DEF Idle
      <4>2. u' = [u EXCEPT ![p] = P]
        BY <3>2 DEF Begin
      <4> HIDE DEF P
      <4> QED BY <3>1, <4>1, <4>2, Zenon
    <3>3. ASSUME CallBread(p) PROVE Fresh
      <4>1. PICK d \in Devs, b \in Sectors : Begin(p, "bread", "getblk", Block(d, b))
        BY <3>3 DEF CallBread
      <4> QED BY <3>2, <4>1
    <3>4. ASSUME CallBlkflush(p) PROVE Fresh
      <4>1. PICK d \in Devs, b \in Sectors : Begin(p, "blkflush", "blkflush", Block(d, b))
        BY <3>4 DEF CallBlkflush
      <4> QED BY <3>2, <4>1
    <3>5. ASSUME CallGetblk(p) PROVE Fresh
      <4>1. PICK d \in Devs, b \in Sectors : Begin(p, "getblk", "getblk", Block(d, b))
        BY <3>5 DEF CallGetblk
      <4> QED BY <3>2, <4>1
    <3>6. ASSUME CallGeteblk(p) PROVE Fresh
      <4>1. PICK n \in 1..MaxSize : Begin(p, "geteblk", "getnew", NoBlock(NODEV, n))
        BY <3>6 DEF CallGeteblk
      <4> QED BY <3>2, <4>1
    <3>7. ASSUME CallSync(p) PROVE Fresh
      <4>1. Begin(p, "sync", "bflush", NoBlock(NODEV, 0))
        BY <3>7 DEF CallSync
      <4> QED BY <3>2, <4>1
    <3>8. ASSUME CallClose(p) PROVE Fresh
      <4>1. PICK d \in Devs : Begin(p, "close", "bflush", NoBlock(d, 0))
        BY <3>8 DEF CallClose
      <4> QED BY <3>2, <4>1
    <3>9. ASSUME CallBreada(p) PROVE Fresh
      <4>1. PICK d \in Devs, b \in Sectors :
              u' = [u EXCEPT ![p] = [Idle EXCEPT !.pc = "breada", !.op = "breada",
                     !.req = Block(d, b), !.main = Block(d, b),
                     !.ra = Block(d, ReadAhead[<<d, b>>])]]
        BY <3>9, Zenon DEF CallBreada
      <4> DEFINE P == [Idle EXCEPT !.pc = "breada", !.op = "breada",
                        !.req = Block(d, b), !.main = Block(d, b),
                        !.ra = Block(d, ReadAhead[<<d, b>>])]
      <4>2. P.tp = NONE /\ P.ep = NONE /\ P.hold = NONE
        BY DEF Idle
      <4>3. u' = [u EXCEPT ![p] = P]
        BY <4>1
      <4> HIDE DEF P
      <4> QED BY <3>1, <4>2, <4>3, Zenon
    <3>10. ASSUME CallExtend(p) PROVE Fresh
      <4>1. PICK d \in Devs, b \in Sectors, n \in 1..MaxSize :
              u' = [u EXCEPT ![p] = [Idle EXCEPT !.pc = "getblk", !.op = "extend",
                     !.req = Block(d, b), !.main = [Block(d, b) EXCEPT !.size = n]]]
        BY <3>10, Zenon DEF CallExtend
      <4> DEFINE P == [Idle EXCEPT !.pc = "getblk", !.op = "extend",
                        !.req = Block(d, b), !.main = [Block(d, b) EXCEPT !.size = n]]
      <4>2. P.tp = NONE /\ P.ep = NONE /\ P.hold = NONE
        BY DEF Idle
      <4>3. u' = [u EXCEPT ![p] = P]
        BY <4>1
      <4> HIDE DEF P
      <4> QED BY <3>1, <4>2, <4>3, Zenon
    <3>11. ASSUME CallAlloc(p) PROVE Fresh
      <4>1. PICK d \in Devs, b \in Sectors, n \in 1..MaxSize :
              u' = [u EXCEPT ![p] = [Idle EXCEPT !.pc = "getblk", !.op = "alloc",
                     !.req = [dev |-> d, blkno |-> b, size |-> n]]]
        BY <3>11, Zenon DEF CallAlloc
      <4> DEFINE P == [Idle EXCEPT !.pc = "getblk", !.op = "alloc",
                        !.req = [dev |-> d, blkno |-> b, size |-> n]]
      <4>2. P.tp = NONE /\ P.ep = NONE /\ P.hold = NONE
        BY DEF Idle
      <4>3. u' = [u EXCEPT ![p] = P]
        BY <4>1
      <4> HIDE DEF P
      <4> QED BY <3>1, <4>2, <4>3, Zenon
    <3>12. Fresh
      BY <2>3, <3>3, <3>4, <3>5, <3>6, <3>7, <3>8, <3>9, <3>10, <3>11 DEF Call
    <3> QED BY <3>12 DEF Fresh, Becomes
  <2> QED BY <2>2, <2>3
<1>4. PICK npc, nop : Becomes(p, npc, nop, NONE, NONE, NONE)
  BY <1>3
<1> QED BY <1>1, <1>2, <1>4, EmptyHanded

-----------------------------------------------------------------------------
(* The end of a transfer.  No process takes part: what biodone does to the *)
(* buffer is put against its owner, if it has one.                         *)

Finished(bp) ==
  /\ Effect(bp) /\ ~Queued(bp)'
  /\ Fits(bp, Owned(bp))'
  /\ Owned(bp) => Has(bp, "DONE")'

LEMMA DiskIntrEffect ==
  ASSUME LockInv, NEW bp \in Bufs, DiskIntr(bp)
  PROVE  Finished(bp)
<1>1. PICK ok \in {TRUE, ~IOErrors} :
        LET b == [buf EXCEPT ![bp].b_flags =
                    @ \cup {"DONE"} \cup (IF ok THEN {} ELSE {"ERROR"})]
        IN  IF Has(bp, "ASYNC")
              THEN Brelse(bp, b, bfreelist)
              ELSE /\ buf' = [b EXCEPT ![bp].b_flags = @ \ {"WANTED"}]
                   /\ wchan' = Wakeup(wchan, {bp})
                   /\ UNCHANGED <<bfreelist, flwanted>>
  BY Zenon DEF DiskIntr
<1> DEFINE F == buf[bp].b_flags \cup {"DONE"} \cup (IF ok THEN {} ELSE {"ERROR"})
           b == [buf EXCEPT ![bp].b_flags = @ \cup {"DONE"} \cup (IF ok THEN {} ELSE {"ERROR"})]
<1>2. buf \in [Bufs -> Buf] /\ buf[bp] \in Buf /\ ioq \in Seq(Bufs) /\ NoDup(ioq)
  BY DEF LockInv, TypeOK
<1>3. /\ b \in [Bufs -> Buf] /\ b[bp].b_flags = F
      /\ \A c \in Bufs \ {bp} : b[c] = buf[c]
  <2>1. F \in SUBSET Flags
    BY <1>2 DEF Buf, Flags
  <2> DEFINE B == [buf[bp] EXCEPT !.b_flags = F]
  <2> HIDE DEF F
  <2>2. B \in Buf /\ B.b_flags = F
    BY <1>2, <2>1, Zenon DEF Buf
  <2>3. b = [buf EXCEPT ![bp] = B]
    BY DEF F
  <2> HIDE DEF B, b
  <2> QED BY <1>2, <2>2, <2>3
<1> HIDE DEF b
<1>4. /\ "DONE" \in F
      /\ \A f \in {"BUSY", "ASYNC", "WANTED"} : f \in F <=> Has(bp, f)
  BY DEF Has
<1> HIDE DEF F
<1>5. NoDup(ioq)' /\ \A c \in Bufs : Queued(c)' <=> Queued(c) /\ c # bp
  <2>1. ioq' = Unlink(ioq, bp)
    BY DEF DiskIntr
  <2>2. NoDup(ioq') /\ Elems(ioq') = Elems(ioq) \ {bp}
    BY <1>2, <2>1, UnlinkElems
  <2> QED BY <2>2 DEF Queued
<1>6. Queued(bp) /\ Fits(bp, Owned(bp))
  BY DEF DiskIntr, MayFinish, Queued, LockInv
<1>7. Has(bp, "BUSY") /\ ~OnFree(bp) /\ (Has(bp, "ASYNC") <=> ~Owned(bp))
  BY <1>6 DEF Fits
<1>8. Owned(bp)' <=> Owned(bp)
  BY DEF DiskIntr, Owned, Held
<1>9. CASE Has(bp, "ASYNC")
  <2>1. Brelse(bp, b, bfreelist)
    BY <1>1, <1>9 DEF b
  <2>2. PICK h \in [Bufs -> Hdr] : h = b
    BY <1>3, HdrBuf
  <2>3. /\ \A c \in Bufs \ {bp} : h[c].b_flags = buf[c].b_flags
        /\ Alert(bp) => "WANTED" \in h[bp].b_flags
    BY <1>3, <1>4, <1>9, <2>2 DEF Alert
  <2>4. /\ Effect(bp)
        /\ ~Has(bp, "BUSY")' /\ ~Has(bp, "ASYNC")' /\ OnFree(bp)'
    BY <1>5, <1>7, <2>1, <2>2, <2>3, BrelseEffect
  <2> QED BY <1>5, <1>7, <1>8, <1>9, <2>4 DEF Finished, Fits
<1>10. CASE ~Has(bp, "ASYNC")
  <2>1. /\ buf' = [b EXCEPT ![bp].b_flags = @ \ {"WANTED"}]
        /\ wchan' = Wakeup(wchan, {bp})
        /\ UNCHANGED <<bfreelist, flwanted>>
    BY <1>1, <1>10 DEF b
  <2>2. /\ buf'[bp].b_flags = F \ {"WANTED"}
        /\ \A c \in Bufs \ {bp} : SameFlags(c)
    <3>1. b[bp] \in Buf
      BY <1>3
    <3> DEFINE B == [b[bp] EXCEPT !.b_flags = @ \ {"WANTED"}]
    <3>2. B.b_flags = F \ {"WANTED"}
      BY <1>3, <3>1 DEF Buf
    <3>3. buf' = [b EXCEPT ![bp] = B]
      BY <2>1
    <3> HIDE DEF B
    <3>4. buf'[bp] = B /\ \A c \in Bufs \ {bp} : buf'[c] = b[c]
      BY <1>3, <3>3
    <3> QED BY <1>3, <3>2, <3>4 DEF SameFlags
  <2>3. Has(bp, "BUSY")' /\ Has(bp, "DONE")' /\ ~Has(bp, "ASYNC")'
    BY <1>4, <1>7, <1>10, <2>2 DEF Has
  <2>4. FreeOnce(bfreelist)' /\ \A c \in Bufs : OnFree(c)' <=> OnFree(c)
    BY <2>1 DEF LockInv, OnFree
  <2>5. \A q \in Procs : wchan'[q] = IF wchan[q] = bp THEN NONE ELSE wchan[q]
    BY <2>1 DEF Wakeup
  <2>6. Minds({bp})
    <3>1. \A q \in Procs : wchan'[q] \in {NONE, wchan[q]} /\ wchan'[q] # bp
      BY <2>5, BufCacheAssumption
    <3>2. flwanted' = flwanted /\ (NoneFree => NoneFree')
      BY <2>1 DEF NoneFree
    <3> QED BY <3>1, <3>2 DEF Minds
  <2>7. \A c \in Bufs \ {bp} : Kept(c)
    BY <1>5, <2>2, <2>4 DEF Kept, SameFlags, Has
  <2> QED BY <1>5, <1>7, <1>8, <1>10, <2>3, <2>4, <2>6, <2>7 DEF Finished, Effect, Fits
<1> QED BY <1>9, <1>10

LEMMA DiskIntrLock ==
  ASSUME LockInv, TypeOK', NEW bp \in Bufs, DiskIntr(bp)
  PROVE  LockInv'
<1>1. Finished(bp)
  BY DiskIntrEffect
<1>2. u' = u /\ \A q \in Procs : Held(q)' = Held(q) /\ Held(q) \subseteq Bufs
  BY DEF DiskIntr, Held, LockInv, TypeOK, Proc
<1>3. \A b \in Bufs : Owned(b)' <=> Owned(b)
  BY <1>2 DEF Owned
<1>4. \A q \in Procs : Shape(u[q])' /\ Placed(u[q])'
  <2> SUFFICES ASSUME NEW q \in Procs PROVE Shape(u[q])' /\ Placed(u[q])'
    OBVIOUS
  <2>1. PICK pc, op : \E tp, ep, hold \in MaybeBuf : Checked(q, pc, op, tp, ep, hold)
    BY CheckedOut
  <2>2. PICK tp \in MaybeBuf, ep \in MaybeBuf, hold \in MaybeBuf :
          Checked(q, pc, op, tp, ep, hold)
    BY <2>1
  <2>3. \A b \in {tp, ep, hold} \ {NONE} :
          (Finishing(b) => Finishing(b)') /\ (~Queued(b) => ~Queued(b)')
    <3> SUFFICES ASSUME NEW b \in {tp, ep, hold} \ {NONE}
                 PROVE  (Finishing(b) => Finishing(b)') /\ (~Queued(b) => ~Queued(b)')
      OBVIOUS
    <3>1. b \in Bufs /\ Owned(b)
      BY <1>2, <2>2 DEF Checked, Owned
    <3>2. CASE b = bp
      BY <1>1, <3>1, <3>2 DEF Finished, Finishing
    <3>3. CASE b # bp
      BY <1>1, <3>1, <3>3, EffectKeeps DEF Finished
    <3> QED BY <3>2, <3>3
  <2>4. PlacedAs(pc, tp, ep, hold)'
    BY <2>2, <2>3 DEF Checked, PlacedAs
  <2>5. Becomes(q, pc, op, tp, ep, hold)
    BY <1>2, <2>2 DEF Becomes, Checked, Now
  <2> QED BY <2>2, <2>4, <2>5, BecomesWhat DEF Checked
<1>5. \A q, r \in Procs : \A b \in Held(q)' : b \in Held(r)' => q = r
  BY <1>2 DEF LockInv
<1>6. \A b \in Bufs : Fits(b, Owned(b))'
  <2> SUFFICES ASSUME NEW b \in Bufs, b # bp PROVE Fits(b, Owned(b))'
    BY <1>1 DEF Finished
  <2>1. Kept(b) /\ Fits(b, Owned(b))
    BY <1>1 DEF Finished, Effect, LockInv
  <2>2. Owned(b)' <=> Owned(b)
    BY <1>3
  <2> QED BY <2>1, <2>2 DEF Fits, Kept, LockFlags
<1>7. NoLostWakeup'
  <2>1. Minds({bp}) /\ \A b \in Bufs \ {bp} : Kept(b)
    BY <1>1 DEF Finished, Effect
  <2> QED BY <2>1, MindsWakes
<1>8. NoDup(ioq)' /\ FreeOnce(bfreelist)'
  BY <1>1 DEF Finished, Effect
<1> QED BY <1>4, <1>5, <1>6, <1>7, <1>8 DEF LockInv

-----------------------------------------------------------------------------
(* The invariant holds always.                                             *)

LEMMA NoDupCount ==
  ASSUME NEW s \in Seq(Bufs), Len(s) = Cardinality(Elems(s))
  PROVE  NoDup(s)
<1> DEFINE n == Len(s)
<1>1. n \in Nat /\ IsFiniteSet(1..n) /\ Cardinality(1..n) = n
  BY FS_Interval
<1>2. s \in Surjection(1..n, Elems(s))
  <2>1. Elems(s) = { s[i] : i \in 1..n }
    BY Zenon DEF Elems
  <2>2. s \in [1..n -> Bufs]
    OBVIOUS
  <2> HIDE DEF n
  <2>3. s \in [1..n -> Elems(s)]
    BY <2>1, <2>2, ZenonT(60)
  <2>4. \A t \in Elems(s) : \E i \in 1..n : s[i] = t
    BY <2>1, Zenon
  <2> QED BY <2>3, <2>4 DEF Surjection
<1> HIDE DEF n
<1>3. s \in Injection(1..n, Elems(s))
  BY <1>1, <1>2, FS_Surjection DEF n
<1> QED BY <1>3 DEF Injection, IsInjective, NoDup, n

LEMMA InitLock ==
  ASSUME Init
  PROVE  LockInv
<1>1. TypeOK
  BY InitType
<1>2. NONE \notin Bufs /\ NONE # FREELIST
  BY BufCacheAssumption
<1>3. \A p \in Procs : Held(p) = {} /\ Shape(u[p]) /\ Placed(u[p])
  BY DEF Init, Idle, Held, Shape, Shapely, Placed, PlacedAs
<1>4. /\ Elems(bfreelist["LRU"]) = {}
      /\ Elems(bfreelist["AGE"]) = { bp \in Bufs : InitBufsize[bp] > 0 }
      /\ Elems(bfreelist["EMPTY"]) = { bp \in Bufs : InitBufsize[bp] = 0 }
      /\ \A q \in BQ : Len(bfreelist[q]) = Cardinality(Elems(bfreelist[q]))
  <2>1. /\ bfreelist["LRU"] = <<>>
        /\ Elems(bfreelist["AGE"]) = { bp \in Bufs : InitBufsize[bp] > 0 }
        /\ Elems(bfreelist["EMPTY"]) = { bp \in Bufs : InitBufsize[bp] = 0 }
        /\ \A q \in BQ : Len(bfreelist[q]) = Cardinality(Elems(bfreelist[q]))
    BY DEF Init
  <2>2. Elems(<<>>) = {}
    BY DEF Elems
  <2> QED BY <2>1, <2>2
<1>5. FreeOnce(bfreelist)
  <2>1. \A q \in BQ : NoDup(bfreelist[q])
    BY <1>1, <1>4, NoDupCount DEF TypeOK
  <2>2. \A q, r \in BQ : q # r => Elems(bfreelist[q]) \cap Elems(bfreelist[r]) = {}
    BY <1>4 DEF BQ
  <2> QED BY <2>1, <2>2 DEF FreeOnce
<1>6. \A b \in Bufs : OnFree(b)
  <2> SUFFICES ASSUME NEW b \in Bufs PROVE OnFree(b)
    OBVIOUS
  <2>1. InitBufsize[b] \in Nat
    BY BufCacheAssumption
  <2>2. b \in Elems(bfreelist["AGE"]) \/ b \in Elems(bfreelist["EMPTY"])
    BY <1>4, <2>1
  <2> QED BY <2>2 DEF OnFree, BQ
<1>7. ~ \E b : Queued(b)
  BY DEF Init, Queued, Elems
<1>8. \A b \in Bufs : Fits(b, Owned(b))
  BY <1>3, <1>6, <1>7 DEF Init, Fits, Has, Owned
<1>9. NoDup(ioq) /\ NoLostWakeup
  BY <1>2 DEF Init, NoDup, NoLostWakeup
<1> QED BY <1>1, <1>3, <1>5, <1>8, <1>9 DEF LockInv

LEMMA NextLock ==
  ASSUME LockInv, [Next]_vars
  PROVE  LockInv'
<1>1. TypeOK'
  BY NextType DEF LockInv
<1>2. ASSUME NEW p \in Procs, Call(p) PROVE LockInv'
  BY <1>1, <1>2, CallLock
<1>3. ASSUME NEW p \in Procs, Inside(p) PROVE LockInv'
  BY <1>1, <1>3, GetnewbufLock, GetblkLock, OverlapLock, AllocbufLock, BiowaitLock,
     GottenLock, BreadaLock, OwnerLock, FlushLock DEF Inside
<1>4. ASSUME NEW bp \in Bufs, DiskIntr(bp) PROVE LockInv'
  BY <1>1, <1>4, DiskIntrLock
<1>5. CASE UNCHANGED vars
  BY <1>5 DEF vars, LockInv, TypeOK, Shape, Placed, PlacedAs, Held, Fits, Owned, OnFree,
     Queued, Has, Finishing, NoLostWakeup, NoneFree
<1> QED BY <1>2, <1>3, <1>4, <1>5 DEF Next

LEMMA LockInvSound ==
  ASSUME LockInv
  PROVE  LockSound
<1>1. ASSUME NEW bp \in Bufs, NEW p \in Owners(bp)
      PROVE  Cardinality({f \in {"tp", "ep", "hold"} : u[p][f] = bp}) = 1
  <2>1. PICK pc, op : \E tp, ep, hold \in MaybeBuf : Checked(p, pc, op, tp, ep, hold)
    BY CheckedOut DEF Owners
  <2>2. PICK tp \in MaybeBuf, ep \in MaybeBuf, hold \in MaybeBuf :
          Checked(p, pc, op, tp, ep, hold)
    BY <2>1
  <2> DEFINE S == {f \in {"tp", "ep", "hold"} : u[p][f] = bp}
  <2>3. u[p]["tp"] = tp /\ u[p]["ep"] = ep /\ u[p]["hold"] = hold
    BY <2>2 DEF Checked, Now
  <2>4. bp \in {tp, ep, hold} /\ bp # NONE
    BY <2>2, BufCacheAssumption DEF Owners, Checked
  <2>5. /\ bp = tp => bp # ep /\ bp # hold
        /\ bp = ep => bp # hold
    BY <2>2, <2>4 DEF Checked, Shapely
  <2>6. S = {"tp"} \/ S = {"ep"} \/ S = {"hold"}
    BY <2>3, <2>4, <2>5
  <2> HIDE DEF S
  <2>7. Cardinality(S) = 1
    BY <2>6, FS_Singleton
  <2> QED BY <2>7 DEF S
<1>2. ASSUME NEW bp \in Bufs
      PROVE  /\ \A p, q \in Owners(bp) : p = q
             /\ Has(bp, "BUSY") <=> (Owners(bp) # {} \/ bp \in Elems(ioq))
             /\ bp \in Elems(ioq) => (Has(bp, "ASYNC") <=> Owners(bp) = {})
  <2>1. Owned(bp) <=> Owners(bp) # {}
    BY DEF Owned, Owners
  <2>2. Fits(bp, Owned(bp))
    BY DEF LockInv
  <2>3. \A p, q \in Owners(bp) : p = q
    BY DEF LockInv, Owners
  <2> QED BY <2>1, <2>2, <2>3 DEF Fits, Queued
<1>3. SoleOwner
  BY <1>1, <1>2 DEF SoleOwner
<1> QED BY <1>3 DEF LockSound, LockInv

(* B_BUSY and B_WANTED are a lock, for any number of processes, headers,   *)
(* devices and blocks, and for any timing of the disk: a busy buffer has   *)
(* one owner, or is with the driver that will release it, and nobody has a *)
(* buffer that is not busy; and whoever sleeps in getblk, getnewbuf or     *)
(* biowait sleeps on something that is still busy and whose release, or    *)
(* end of transfer, will wake it.                                          *)
THEOREM AlwaysLockSound == Spec => []LockSound
<1>1. Init => LockInv
  BY InitLock
<1>2. LockInv /\ [Next]_vars => LockInv'
  BY NextLock
<1>3. LockInv => LockSound
  BY LockInvSound
<1> QED BY <1>1, <1>2, <1>3, PTL DEF Spec

-----------------------------------------------------------------------------
(* What the processes ask for.                                             *)

(* A block that is there, and one that has the size it is asked for with.  *)
Real(r)  == r.dev \in Devs /\ r.size > 0 /\ Span(r) \subseteq AllSectors
Exact(r) == r.size = fsize[<<r.dev, r.blkno>>]

(* The calls for a block with the size it has; the steps of getblk and     *)
(* what follows, each with the calls that come to it.                      *)
Reads == {"bread", "getblk", "extend", "breada", "ra"}
Gets  == Reads \cup {"alloc", "extended"}
Steps(pc) ==
  IF pc \in {"getblk", "overlap", "owait", "swait"} THEN Gets
  ELSE IF pc \in {"getnew", "alloc", "gotten", "own"} THEN Gets \cup {"geteblk"}
  ELSE CASE pc = "rwait" -> {"bread", "extend"}
         [] pc = "wwait" -> {"bread", "getblk", "alloc", "extended"}
         [] pc \in {"breada", "ra"} -> {"breada"}
         [] pc \in {"blkflush", "fwait"} -> {"blkflush"}
         [] pc = "bflush" -> {"sync", "close"}
         [] pc = "binval" -> {"close"}
         [] OTHER -> {"none"}

(* What a process asks for is there, and has the size it says, but for the *)
(* block that is just being extended.                                      *)
Asks(P) ==
  /\ P.pc = "idle" => P = Idle
  /\ P.op \in Steps(P.pc)
  /\ P.op \in Gets \cup {"blkflush"} => Real(P.req)
  /\ P.op \in Reads \cup {"alloc", "blkflush"} => Exact(P.req)
  /\ P.op = "extended" /\ P.pc \in {"own", "wwait"} => Exact(P.req)
  /\ P.main # NONE => Real(P.main) /\ P.op \in {"breada", "ra", "extend"}
  /\ P.main # NONE /\ P.op = "extend" =>
       /\ P.main.dev = P.req.dev /\ P.main.blkno = P.req.blkno
       /\ P.req.size <= P.main.size
  /\ P.op \in {"breada", "ra"} => P.main # NONE /\ Exact(P.main)
  /\ P.op = "breada" => P.main = P.req
  /\ P.ra # NONE => Real(P.ra) /\ Exact(P.ra) /\ P.op \in {"breada", "ra"}
  /\ P.op = "close" => P.req.dev \in Devs
  /\ P.op = "sync" => P.req.dev = NODEV

(* Nobody is at a block that is being made or extended, and a device that  *)
(* is closed is used by nobody; bflush and binval do not sleep.            *)
Apart == \A p, q \in Procs : p # q /\ Growing(p) =>
           \A r \in Requests(p), t \in Requests(q) : Span(r) \cap Span(t) = {}
Closing(p) ==
  u[p].pc \in {"bflush", "binval"} =>
    /\ cpu = p
    /\ u[p].op = "close" =>
         \A q \in Procs \ {p} : \A r \in Requests(q) : r.dev # u[p].req.dev

(* The blocks lie on their devices.                                        *)
OnDevice(fs) == \A d \in Devs, b \in Sectors : b..(b + fs[<<d, b>>] - 1) \subseteq Sectors

FsInv ==
  /\ OnDevice(fsize)
  /\ \A p \in Procs : Asks(u[p]) /\ Closing(p)
  /\ Apart

(* A step of p inside the block I/O system leads from pc, op to npc, nop   *)
(* with the requests it had.                                               *)
Follows(p) ==
  /\ u' \in [Procs -> Proc] /\ \A q \in Procs \ {p} : u'[q] = u[q]
  /\ Requests(p)' \subseteq Requests(p)
  /\ Growing(p)' => Growing(p)
  /\ cpu \in {p, NONE}
  /\ u'[p].pc \in {"bflush", "binval"} => u[p].pc = "bflush" /\ u'[p].op = u[p].op
                                          /\ u'[p].req = u[p].req /\ cpu' = p

LEMMA RequestNumbers ==
  ASSUME NEW r \in Request
  PROVE  /\ r.dev \in Devs \cup {NODEV} /\ r.blkno \in Sectors
         /\ r.blkno \in Nat /\ r.size \in Nat /\ r.size \in 0..MaxSize
<1>1. Sectors \subseteq Nat
  BY BufCacheAssumption
<1>2. MaxSize \in Nat
  BY BufCacheAssumption
<1>3. r.blkno \in Sectors /\ r.size \in 0..MaxSize /\ r.dev \in Devs \cup {NODEV}
  BY DEF Request
<1>4. r.blkno \in Nat
  BY <1>1, <1>3, Zenon
<1>5. r.size \in Nat
  BY <1>2, <1>3
<1> QED BY <1>3, <1>4, <1>5

LEMMA FirstSector ==
  ASSUME NEW d, NEW b \in Nat, NEW n \in Nat, n > 0
  PROVE  <<d, b>> \in SectorsOf(d, b, n)
<1>1. b \in b..(b + n - 1)
  OBVIOUS
<1> QED BY <1>1 DEF SectorsOf

LEMMA SpanHas ==
  ASSUME NEW r \in Request, r.size > 0
  PROVE  <<r.dev, r.blkno>> \in Span(r)
BY RequestNumbers, FirstSector DEF Span

LEMMA RequestsType ==
  ASSUME TypeOK, NEW p \in Procs, NEW r \in Requests(p)
  PROVE  r \in Request
BY ProcType DEF Requests, Proc

(* While p alone moves, with no more than it asked for, the others are as  *)
(* they were.                                                              *)
LEMMA StillApart ==
  ASSUME TypeOK, FsInv, NEW p \in Procs, Follows(p)
  PROVE  Apart' /\ \A q \in Procs : Closing(q)'
<1>1. ASSUME NEW q \in Procs PROVE Requests(q)' \subseteq Requests(q)
  BY DEF Follows, Requests
<1>2. Apart'
  <2>1. ASSUME NEW q \in Procs, Growing(q)' PROVE Growing(q)
    BY <2>1 DEF Follows, Growing
  <2> QED BY <1>1, <2>1 DEF FsInv, Apart
<1>3. ASSUME NEW q \in Procs PROVE Closing(q)'
  <2> SUFFICES ASSUME u'[q].pc \in {"bflush", "binval"}
               PROVE  /\ cpu' = q
                      /\ u'[q].op = "close" =>
                           \A x \in Procs \ {q} : \A r \in Requests(x)' : r.dev # u'[q].req.dev
    BY DEF Closing
  <2>1. /\ q = p /\ cpu' = q /\ u'[q].op = u[q].op /\ u'[q].req = u[q].req
        /\ u[q].pc \in {"bflush", "binval"}
    <3>1. CASE q = p
      BY <3>1 DEF Follows
    <3>2. CASE q # p
      <4>1. u[q].pc \in {"bflush", "binval"}
        BY <3>2 DEF Follows
      <4>2. cpu = q
        BY <4>1 DEF FsInv, Closing
      <4>3. q # NONE
        BY BufCacheAssumption
      <4> QED BY <4>2, <4>3, <3>2 DEF Follows
    <3> QED BY <3>1, <3>2
  <2>2. Closing(q)
    BY DEF FsInv
  <2> QED BY <1>1, <2>1, <2>2 DEF Closing
<1> QED BY <1>2, <1>3

LEMMA OthersAsk ==
  ASSUME TypeOK, FsInv, NEW p \in Procs, Follows(p), fsize' = fsize, Asks(u[p])'
  PROVE  FsInv'
<1>1. OnDevice(fsize)'
  BY DEF FsInv, OnDevice
<1>2. ASSUME NEW q \in Procs PROVE Asks(u[q])'
  <2>1. CASE q = p
    BY <2>1
  <2>2. CASE q # p
    <3>1. u'[q] = u[q] /\ Asks(u[q])
      BY <2>2 DEF Follows, FsInv
    <3> QED BY <3>1 DEF Asks, Real, Exact
  <2> QED BY <2>1, <2>2
<1> QED BY <1>1, <1>2, StillApart DEF FsInv

-----------------------------------------------------------------------------
(* How a process goes on: with the task it has, or with another one.       *)

SameTask(p) == /\ u'[p].op = u[p].op /\ u'[p].req = u[p].req
               /\ u'[p].main = u[p].main /\ u'[p].ra = u[p].ra
               /\ \A q \in Procs \ {p} : u'[q] = u[q]
Turns(p, npc, tp, ep, hold) ==
  /\ u'[p].pc = npc /\ u'[p].tp = tp /\ u'[p].ep = ep /\ u'[p].hold = hold
  /\ SameTask(p)

LEMMA TurnPc ==
  ASSUME TypeOK, NEW p \in Procs, NEW npc,
         u' = [u EXCEPT ![p].pc = npc]
  PROVE  Turns(p, npc, u[p].tp, u[p].ep, u[p].hold)
<1>1. u[p] \in Proc /\ u \in [Procs -> Proc]
  BY DEF TypeOK
<1> QED BY <1>1 DEF Turns, SameTask, Proc

LEMMA TurnTp ==
  ASSUME TypeOK, NEW p \in Procs, NEW npc, NEW v,
         u' = [u EXCEPT ![p] = [@ EXCEPT !.pc = npc, !.tp = v]]
  PROVE  Turns(p, npc, v, u[p].ep, u[p].hold)
<1>1. u[p] \in Proc /\ u \in [Procs -> Proc]
  BY DEF TypeOK
<1> QED BY <1>1 DEF Turns, SameTask, Proc

LEMMA TurnEp ==
  ASSUME TypeOK, NEW p \in Procs, NEW npc, NEW v,
         u' = [u EXCEPT ![p] = [@ EXCEPT !.pc = npc, !.ep = v]]
  PROVE  Turns(p, npc, u[p].tp, v, u[p].hold)
<1>1. u[p] \in Proc /\ u \in [Procs -> Proc]
  BY DEF TypeOK
<1> QED BY <1>1 DEF Turns, SameTask, Proc

(* The same task goes on: what it asks for stays true.                     *)
LEMMA TaskGoesOn ==
  ASSUME TypeOK, TypeOK', FsInv, NEW p \in Procs, NEW npc, SameTask(p), u'[p].pc = npc,
         cpu \in {p, NONE}, fsize' = fsize, npc # "idle", u[p].op \in Steps(npc),
         u[p].op = "extended" /\ npc \in {"own", "wwait"} => u[p].pc = "own" \/ npc = u[p].pc,
         npc \in {"bflush", "binval"} => u[p].pc = "bflush" /\ cpu' = p
  PROVE  FsInv'
<1>1. Follows(p)
  BY DEF Follows, SameTask, Requests, Growing, TypeOK
<1>2. Asks(u[p])
  BY DEF FsInv
<1>3. Asks(u[p])'
  BY <1>2 DEF Asks, SameTask, Real, Exact
<1> QED BY <1>1, <1>3, OthersAsk

LEMMA TaskStays ==
  ASSUME TypeOK, TypeOK', FsInv, NEW p \in Procs, u' = u, cpu \in {p, NONE},
         u[p].pc \notin {"bflush", "binval"}, fsize' = fsize
  PROVE  FsInv'
<1>1. Follows(p)
  BY DEF Follows, Requests, Growing, TypeOK
<1>2. Asks(u[p])'
  BY DEF FsInv, Asks, Real, Exact
<1> QED BY <1>1, <1>2, OthersAsk

LEMMA IdleAsks ==
  ASSUME NEW P, P = Idle
  PROVE  /\ Asks(P) /\ Asks(P)'
         /\ P.pc = "idle" /\ P.op = "none" /\ P.req = NONE /\ P.main = NONE /\ P.ra = NONE
         /\ P.tp = NONE /\ P.ep = NONE /\ P.hold = NONE
<1>1. /\ P.pc = "idle" /\ P.op = "none" /\ P.req = NONE /\ P.main = NONE /\ P.ra = NONE
      /\ P.tp = NONE /\ P.ep = NONE /\ P.hold = NONE
  BY DEF Idle
<1>2. P.op \in Steps(P.pc)
  BY <1>1 DEF Steps
<1> QED BY <1>1, <1>2 DEF Asks, Reads, Gets

(* The task is done.                                                       *)
LEMMA TaskEnds ==
  ASSUME TypeOK, TypeOK', FsInv, NEW p \in Procs, u' = [u EXCEPT ![p] = Idle],
         cpu \in {p, NONE}, fsize' = fsize
  PROVE  FsInv'
<1>1. u'[p] = Idle /\ \A q \in Procs \ {p} : u'[q] = u[q]
  BY DEF TypeOK
<1>2. Asks(u[p])' /\ Requests(p)' = {} /\ ~Growing(p)' /\ u'[p].pc = "idle"
  BY <1>1, IdleAsks DEF Requests, Growing
<1>3. Follows(p)
  BY <1>1, <1>2 DEF Follows, TypeOK
<1> QED BY <1>2, <1>3, OthersAsk

LEMMA StepsAre ==
  /\ Steps("getblk") = Gets /\ Steps("overlap") = Gets
  /\ Steps("owait") = Gets /\ Steps("swait") = Gets
  /\ Steps("getnew") = Gets \cup {"geteblk"} /\ Steps("alloc") = Gets \cup {"geteblk"}
  /\ Steps("gotten") = Gets \cup {"geteblk"} /\ Steps("own") = Gets \cup {"geteblk"}
  /\ Steps("rwait") = {"bread", "extend"}
  /\ Steps("wwait") = {"bread", "getblk", "alloc", "extended"}
  /\ Steps("breada") = {"breada"} /\ Steps("ra") = {"breada"}
  /\ Steps("blkflush") = {"blkflush"} /\ Steps("fwait") = {"blkflush"}
  /\ Steps("bflush") = {"sync", "close"} /\ Steps("binval") = {"close"}
  /\ Steps("idle") = {"none"}
BY DEF Steps

(* What p asks for, read off its step.                                     *)
LEMMA AskedFor ==
  ASSUME FsInv, NEW p \in Procs
  PROVE  Asks(u[p]) /\ u[p].op \in Steps(u[p].pc) /\ Closing(p)
BY DEF FsInv, Asks

LEMMA GetnewbufAsks ==
  ASSUME TypeOK, TypeOK', FsInv, NEW p \in Procs, Getnewbuf(p)
  PROVE  FsInv'
<1> USE AskedFor, StepsAre
<1>1. CASE GetnewSleep(p)
  BY <1>1, TaskStays DEF GetnewSleep, NeedsNew, Running
<1>2. CASE GetnewFlush(p)
  <2>1. Turns(p, u[p].pc, u[p].tp, u[p].ep, u[p].hold)
    BY <1>2, TurnPc, Zenon DEF GetnewFlush, Goto
  <2> QED BY <1>2, <2>1, TaskGoesOn DEF GetnewFlush, NeedsNew, Running, Turns
<1>3. CASE GetblkBind(p)
  <2>1. Turns(p, "overlap", Victim, u[p].ep, u[p].hold)
    BY <1>3, TurnTp, Zenon DEF GetblkBind
  <2> QED BY <1>3, <2>1, TaskGoesOn DEF GetblkBind, NeedsNew, Running, Turns
<1>4. CASE GeteblkBind(p)
  <2>1. Turns(p, "alloc", Victim, u[p].ep, u[p].hold)
    BY <1>4, TurnTp, Zenon DEF GeteblkBind
  <2> QED BY <1>4, <2>1, TaskGoesOn DEF GeteblkBind, NeedsNew, Running, Turns
<1> QED BY <1>1, <1>2, <1>3, <1>4 DEF Getnewbuf

LEMMA GetblkAsks ==
  ASSUME TypeOK, TypeOK', FsInv, NEW p \in Procs, Getblk(p)
  PROVE  FsInv'
<1> USE AskedFor, StepsAre
<1>1. CASE GetblkBusy(p)
  BY <1>1, TaskStays DEF GetblkBusy, Running
<1>2. CASE GetblkHit(p)
  <2>1. PICK bp \in Bufs : Brealloc(p, bp, Taken(bp, {})[bp], u[p].req.size)
    BY <1>2 DEF GetblkHit, Incore
  <2>2. PICK npc \in {"gotten", "swait", "alloc", "overlap"} :
          u' = [u EXCEPT ![p] = [u[p] EXCEPT !.pc = npc, !.tp = bp]]
    BY <2>1 DEF Brealloc
  <2>3. Turns(p, npc, bp, u[p].ep, u[p].hold)
    BY <2>2, TurnTp, Zenon
  <2> QED BY <1>2, <2>2, <2>3, TaskGoesOn DEF GetblkHit, Running, Turns
<1>3. CASE GetblkMiss(p)
  <2>1. Turns(p, "getnew", u[p].tp, u[p].ep, u[p].hold)
    BY <1>3, TurnPc, Zenon DEF GetblkMiss, Goto
  <2> QED BY <1>3, <2>1, TaskGoesOn DEF GetblkMiss, Running, Turns
<1> QED BY <1>1, <1>2, <1>3 DEF Getblk

LEMMA OverlapAsks ==
  ASSUME TypeOK, TypeOK', FsInv, NEW p \in Procs, Overlap(p)
  PROVE  FsInv'
<1> USE AskedFor, StepsAre
<1>1. CASE OverlapBusy(p) \/ OverlapClean(p)
  BY <1>1, TaskStays DEF OverlapBusy, OverlapClean, Running
<1>2. CASE OverlapDirty(p)
  <2>1. PICK ep \in Bufs : u' = [u EXCEPT ![p] = [u[p] EXCEPT !.pc = "owait", !.ep = ep]]
    BY <1>2, Zenon DEF OverlapDirty, Others, Overlapping
  <2>2. Turns(p, "owait", u[p].tp, ep, u[p].hold)
    BY <2>1, TurnEp, Zenon
  <2> QED BY <1>2, <2>2, TaskGoesOn DEF OverlapDirty, Running, Turns
<1>3. CASE OverlapNone(p)
  <2>1. Turns(p, "alloc", u[p].tp, u[p].ep, u[p].hold)
    BY <1>3, TurnPc, Zenon DEF OverlapNone, Goto
  <2> QED BY <1>3, <2>1, TaskGoesOn DEF OverlapNone, Running, Turns
<1> QED BY <1>1, <1>2, <1>3 DEF Overlap

LEMMA AllocbufAsks ==
  ASSUME TypeOK, TypeOK', FsInv, NEW p \in Procs, Allocbuf(p)
  PROVE  FsInv'
<1> USE AskedFor, StepsAre
<1>1. PICK npc \in {"alloc", "gotten"} : u' = [u EXCEPT ![p].pc = npc]
  BY Zenon DEF Allocbuf, AllocKeep, AllocShrink, AllocTake, Goto
<1>2. Turns(p, npc, u[p].tp, u[p].ep, u[p].hold)
  BY <1>1, TurnPc, Zenon
<1>3. u[p].pc = "alloc" /\ cpu \in {p, NONE} /\ fsize' = fsize
  BY Zenon DEF Allocbuf, AllocKeep, AllocShrink, AllocTake, NeedsNew, Running
<1> QED BY <1>1, <1>2, <1>3, TaskGoesOn DEF Turns

LEMMA BiowaitAsks ==
  ASSUME TypeOK, TypeOK', FsInv, NEW p \in Procs, Biowait(p)
  PROVE  FsInv'
<1> USE AskedFor, StepsAre
<1>1. CASE BiowaitSleep(p)
  BY <1>1, TaskStays DEF BiowaitSleep, Running
<1>2. CASE BwriteDone(p)
  <2> USE <1>2 DEF BwriteDone, Running
  <2>1. CASE u[p].pc = "wwait"
    BY <2>1, TaskEnds DEF Return
  <2>2. CASE u[p].pc = "swait"
    <3>1. Turns(p, "getblk", NONE, u[p].ep, u[p].hold)
      BY <2>2, TurnTp, Zenon
    <3> QED BY <2>2, <3>1, TaskGoesOn DEF Turns
  <2>3. CASE u[p].pc = "owait"
    <3>1. Turns(p, "overlap", u[p].tp, NONE, u[p].hold)
      BY <2>3, TurnEp, Zenon
    <3> QED BY <2>3, <3>1, TaskGoesOn DEF Turns
  <2>4. CASE u[p].pc = "fwait"
    <3>1. Turns(p, "blkflush", u[p].tp, NONE, u[p].hold)
      BY <2>4, TurnEp, Zenon
    <3> QED BY <2>4, <3>1, TaskGoesOn DEF Turns
  <2> QED BY <2>1, <2>2, <2>3, <2>4
<1>3. CASE ReadDone(p)
  <2>1. Turns(p, "own", u[p].tp, u[p].ep, u[p].hold)
    BY <1>3, TurnPc, Zenon DEF ReadDone
  <2> QED BY <1>3, <2>1, TaskGoesOn DEF ReadDone, Running, Turns, Gets, Reads
<1> QED BY <1>1, <1>2, <1>3 DEF Biowait

(* breada turns to the block itself.                                       *)
LEMMA RestTurns ==
  ASSUME TypeOK, NEW p \in Procs, BreadaRest(p)
  PROVE  /\ u'[p].pc = IF u[p].hold = NONE THEN "getblk" ELSE "rwait"
         /\ u'[p].op = "bread" /\ u'[p].req = u[p].main /\ u'[p].main = NONE
         /\ u'[p].ra = NONE /\ u'[p].tp = u[p].hold /\ u'[p].ep = NONE /\ u'[p].hold = NONE
         /\ \A q \in Procs \ {p} : u'[q] = u[q]
         /\ cpu' = p
BY DEF BreadaRest, Idle, TypeOK

LEMMA RestAsks ==
  ASSUME TypeOK, TypeOK', FsInv, NEW p \in Procs, BreadaRest(p), u[p].op \in {"breada", "ra"},
         cpu \in {p, NONE}, fsize' = fsize
  PROVE  FsInv'
<1>1. Asks(u[p]) /\ u[p].main # NONE /\ Real(u[p].main) /\ Exact(u[p].main)
  BY AskedFor DEF Asks
<1>2. Requests(p)' = {u[p].main} /\ ~Growing(p)'
  BY <1>1, RestTurns DEF Requests, Growing
<1>3. Follows(p)
  <2>1. Requests(p)' \subseteq Requests(p)
    BY <1>1, <1>2 DEF Requests
  <2>2. u'[p].pc \notin {"bflush", "binval"}
    BY RestTurns
  <2> QED BY <1>2, <2>1, <2>2, RestTurns DEF Follows, TypeOK
<1>4. u'[p].op \in Steps(u'[p].pc) /\ u'[p].pc # "idle"
  BY RestTurns, StepsAre DEF Gets, Reads
<1>5. Asks(u[p])'
  <2>1. Real(u'[p].req) /\ (fsize'[<<u'[p].req.dev, u'[p].req.blkno>>] = u'[p].req.size)
    BY <1>1, RestTurns DEF Exact
  <2> QED BY <1>4, <2>1, RestTurns DEF Asks, Exact, Real
<1> QED BY <1>3, <1>5, OthersAsk

(* A block gets another size: others ask for other blocks.                 *)
LEMMA OthersSized ==
  ASSUME TypeOK, FsInv, NEW q \in Procs, u'[q] = u[q],
         NEW d \in Devs, NEW b \in Sectors, NEW n, fsize' = [fsize EXCEPT ![<<d, b>>] = n],
         \A r \in Requests(q) : <<d, b>> \notin Span(r)
  PROVE  Asks(u[q])'
<1>1. CASE u[q].pc = "idle"
  <2>1. u[q] = Idle
    BY <1>1, AskedFor DEF Asks
  <2> QED BY <2>1, IdleAsks DEF Asks
<1>2. CASE u[q].pc # "idle"
  <2>1. u[q].req \in Requests(q) /\ u[q].req # NONE
    <3>1. u[q].req \in Request
      BY <1>2, ProcType DEF Proc
    <3> QED BY <3>1, BufCacheAssumption DEF Requests, Request
  <2>2. ASSUME NEW r \in Requests(q), Real(r), Exact(r)
        PROVE  r.size = fsize'[<<r.dev, r.blkno>>]
    <3>1. r \in Request
      BY RequestsType
    <3>2. <<r.dev, r.blkno>> \in Span(r)
      BY <2>2, <3>1, SpanHas DEF Real
    <3>3. <<r.dev, r.blkno>> # <<d, b>>
      BY <3>2
    <3>4. r.dev \in Devs /\ r.blkno \in Sectors
      BY <2>2, <3>1, RequestNumbers DEF Real
    <3> QED BY <2>2, <3>3, <3>4 DEF Exact, TypeOK, AllSectors
  <2>3. Asks(u[q])
    BY AskedFor
  <2>4. u[q].main # NONE => u[q].main \in Requests(q)
    BY DEF Requests
  <2>5. u[q].ra # NONE => u[q].ra \in Requests(q)
    BY DEF Requests
  <2>6. Real(u[q].req) /\ Exact(u[q].req) => Exact(u[q].req)'
    BY <2>1, <2>2 DEF Exact
  <2>7. u[q].main # NONE /\ Real(u[q].main) /\ Exact(u[q].main) => Exact(u[q].main)'
    BY <2>4, <2>2 DEF Exact
  <2>8. u[q].ra # NONE /\ Real(u[q].ra) /\ Exact(u[q].ra) => Exact(u[q].ra)'
    BY <2>5, <2>2 DEF Exact
  <2> QED BY <2>3, <2>6, <2>7, <2>8, <1>2 DEF Asks, Real, Gets
<1> QED BY <1>1, <1>2

LEMMA SpanWithin ==
  ASSUME NEW r, Span(r) \subseteq AllSectors
  PROVE  r.blkno..(r.blkno + r.size - 1) \subseteq Sectors
<1>1. ASSUME NEW i \in r.blkno..(r.blkno + r.size - 1) PROVE i \in Sectors
  <2>1. <<r.dev, i>> \in Span(r)
    BY DEF Span, SectorsOf
  <2>2. <<r.dev, i>> \in Devs \X Sectors
    BY <2>1 DEF AllSectors
  <2> QED BY <2>2
<1> QED BY <1>1

LEMMA GottenExtendedAsks ==
  ASSUME TypeOK, TypeOK', FsInv, NEW p \in Procs, GottenExtended(p)
  PROVE  FsInv'
<1> DEFINE r == u[p].req
<1>1. Turns(p, "own", u[p].tp, u[p].ep, u[p].hold)
  BY TurnPc, Zenon DEF GottenExtended
<1>2. Asks(u[p]) /\ Real(r) /\ r \in Request
  BY AskedFor, ProcType DEF GottenExtended, Asks, Gets, Proc
<1>3. /\ u[p].op = "extended" /\ cpu \in {p, NONE}
      /\ fsize' = [fsize EXCEPT ![<<r.dev, r.blkno>>] = r.size]
  BY DEF GottenExtended, Running
<1> HIDE DEF r
<1>4. r.dev \in Devs /\ r.blkno \in Sectors /\ r.size \in Nat
  BY <1>2, RequestNumbers DEF Real
<1>5. r \in Requests(p) /\ Growing(p)
  BY <1>2, <1>3, BufCacheAssumption DEF Requests, r, Request, Growing
<1>6. ASSUME NEW q \in Procs \ {p} PROVE Asks(u[q])'
  <2>1. ASSUME NEW t \in Requests(q) PROVE <<r.dev, r.blkno>> \notin Span(t)
    BY <1>2, <1>5, SpanHas DEF FsInv, Apart, Real
  <2> QED BY <1>1, <1>3, <1>4, <2>1, OthersSized, Zenon DEF Turns, SameTask
<1>7. fsize'[<<r.dev, r.blkno>>] = r.size
  BY <1>3, <1>4 DEF TypeOK, AllSectors
<1>8. Asks(u[p])'
  <2>1. u'[p].req = r /\ u'[p].op = "extended" /\ u'[p].pc = "own"
        /\ u'[p].main = u[p].main /\ u'[p].ra = u[p].ra
    BY <1>1, <1>3 DEF Turns, SameTask, r
  <2>2. Exact(u[p].req)'
    BY <2>1, <1>7 DEF Exact
  <2>3. u[p].main = NONE
    BY <1>2, <1>3 DEF Asks
  <2>4. u[p].ra # NONE => Real(u[p].ra) /\ Exact(u[p].ra)
    BY <1>2 DEF Asks
  <2> QED BY <1>2, <2>1, <2>2, <2>3, <2>4, StepsAre DEF Asks, Real, Gets, Reads
<1>9. OnDevice(fsize)'
  <2> SUFFICES ASSUME NEW d \in Devs, NEW b \in Sectors
               PROVE  b..(b + fsize'[<<d, b>>] - 1) \subseteq Sectors
    BY DEF OnDevice
  <2>1. CASE <<d, b>> = <<r.dev, r.blkno>>
    <3>1. Span(r) \subseteq AllSectors /\ fsize'[<<d, b>>] = r.size /\ b = r.blkno
      BY <1>2, <1>7, <2>1 DEF Real
    <3> QED BY <3>1, SpanWithin
  <2>2. CASE <<d, b>> # <<r.dev, r.blkno>>
    <3>1. fsize'[<<d, b>>] = fsize[<<d, b>>]
      BY <1>3, <2>2 DEF TypeOK, AllSectors
    <3> QED BY <3>1 DEF FsInv, OnDevice
  <2> QED BY <2>1, <2>2
<1>10. Follows(p)
  BY <1>1, <1>3 DEF Follows, Turns, SameTask, Requests, Growing, TypeOK
<1> QED BY <1>1, <1>6, <1>8, <1>9, <1>10, StillApart DEF FsInv

LEMMA GottenAsks ==
  ASSUME TypeOK, TypeOK', FsInv, NEW p \in Procs, Gotten(p)
  PROVE  FsInv'
<1> USE AskedFor, StepsAre
<1>1. CASE GottenBread(p)
  <2>1. PICK npc \in {"own", "rwait"} : u' = [u EXCEPT ![p].pc = npc]
    BY <1>1 DEF GottenBread, Goto
  <2>2. Turns(p, npc, u[p].tp, u[p].ep, u[p].hold)
    BY <2>1, TurnPc, Zenon
  <2> QED BY <1>1, <2>1, <2>2, TaskGoesOn DEF GottenBread, Running, Turns, Gets, Reads
<1>2. CASE GottenWrite(p)
  <2>1. Turns(p, "own", u[p].tp, u[p].ep, u[p].hold)
    BY <1>2, TurnPc, Zenon DEF GottenWrite
  <2> QED BY <1>2, <2>1, TaskGoesOn DEF GottenWrite, Running, Turns, Gets, Reads
<1>3. CASE GottenExtended(p)
  BY <1>3, GottenExtendedAsks
<1>4. CASE GottenBreada(p)
  <2>1. SameTask(p) /\ u'[p].pc = "ra"
    BY <1>4, ProcType DEF GottenBreada, SameTask, TypeOK, Proc
  <2> QED BY <1>4, <2>1, TaskGoesOn DEF GottenBreada, Running
<1>5. CASE GottenReadAhead(p)
  BY <1>5, RestAsks DEF GottenReadAhead, Running
<1> QED BY <1>1, <1>2, <1>3, <1>4, <1>5 DEF Gotten

LEMMA BreadaAsks ==
  ASSUME TypeOK, TypeOK', FsInv, NEW p \in Procs, Breada(p)
  PROVE  FsInv'
<1> USE AskedFor, StepsAre
<1>1. CASE BreadaStart(p)
  <2>1. PICK npc \in {"getblk", "ra"} : u' = [u EXCEPT ![p].pc = npc]
    BY <1>1, Zenon DEF BreadaStart, Goto
  <2>2. Turns(p, npc, u[p].tp, u[p].ep, u[p].hold)
    BY <2>1, TurnPc, Zenon
  <2> QED BY <1>1, <2>1, <2>2, TaskGoesOn DEF BreadaStart, Running, Turns, Gets, Reads
<1>2. CASE ReadAheadStart(p)
  <2>1. /\ u'[p].pc = "getblk" /\ u'[p].op = "ra" /\ u'[p].req = u[p].ra
        /\ u'[p].main = u[p].main /\ u'[p].ra = u[p].ra
        /\ \A q \in Procs \ {p} : u'[q] = u[q]
    BY <1>2, ProcType DEF ReadAheadStart, TypeOK, Proc
  <2>2. /\ cpu \in {p, NONE} /\ u[p].ra # NONE /\ fsize' = fsize /\ u[p].op = "breada"
    BY <1>2 DEF ReadAheadStart, Running
  <2>3. Follows(p)
    BY <2>1, <2>2 DEF Follows, Requests, Growing, TypeOK
  <2>4. Real(u[p].ra) /\ Exact(u[p].ra) /\ Real(u[p].main) /\ Exact(u[p].main)
    BY <2>2 DEF Asks
  <2>5. Asks(u[p])'
    BY <2>1, <2>2, <2>4, Zenon DEF Asks, Real, Exact, Gets, Reads
  <2> QED BY <2>2, <2>3, <2>5, OthersAsk
<1>3. CASE ReadAheadNone(p)
  BY <1>3, RestAsks DEF ReadAheadNone, Running
<1> QED BY <1>1, <1>2, <1>3 DEF Breada

LEMMA OwnerAsks ==
  ASSUME TypeOK, TypeOK', FsInv, NEW p \in Procs, Owner(p)
  PROVE  FsInv'
<1> USE AskedFor, StepsAre
<1>1. CASE Release(p)
  BY <1>1, TaskEnds, Zenon DEF Release, Owns, Running, Return
<1>2. CASE Bdwrite(p)
  BY <1>2, TaskEnds, Zenon DEF Bdwrite, Writable, Owns, Running, Return
<1>3. CASE Bawrite(p)
  BY <1>3, TaskEnds, Zenon DEF Bawrite, Writable, Owns, Running, Return
<1>4. CASE Bwrite(p)
  <2>1. Turns(p, "wwait", u[p].tp, u[p].ep, u[p].hold)
    BY <1>4, TurnPc, Zenon DEF Bwrite, Goto
  <2> QED BY <1>4, <2>1, TaskGoesOn DEF Bwrite, Writable, Owns, Running, Turns
<1>5. CASE Extend(p)
  <2>1. /\ u'[p].pc = "overlap" /\ u'[p].op = "extended" /\ u'[p].req = u[p].main
        /\ u'[p].main = NONE /\ u'[p].ra = u[p].ra
        /\ \A q \in Procs \ {p} : u'[q] = u[q]
    BY <1>5, ProcType DEF Extend, TypeOK, Proc
  <2>2. cpu \in {p, NONE} /\ u[p].op = "extend" /\ fsize' = fsize
    BY <1>5 DEF Extend, Owns, Running
  <2>3. u[p].main # NONE /\ Real(u[p].main) /\ u[p].ra = NONE
    <3>1. u[p].main # NONE
      BY <2>2, ProcType, BufCacheAssumption DEF Proc, Request
    <3> QED BY <2>2, <3>1 DEF Asks
  <2>4. Follows(p)
    BY <2>1, <2>2, <2>3 DEF Follows, Requests, Growing, TypeOK
  <2>5. Asks(u[p])'
    BY <2>1, <2>2, <2>3 DEF Asks, Real, Exact, Gets, Reads
  <2> QED BY <2>2, <2>4, <2>5, OthersAsk
<1> QED BY <1>1, <1>2, <1>3, <1>4, <1>5 DEF Owner

LEMMA FlushAsks ==
  ASSUME TypeOK, TypeOK', FsInv, NEW p \in Procs, Flush(p)
  PROVE  FsInv'
<1> USE AskedFor, StepsAre
<1>1. CASE BlkflushBusy(p)
  BY <1>1, TaskStays DEF BlkflushBusy, Running
<1>2. CASE BlkflushDirty(p)
  <2>1. PICK ep \in Bufs : u' = [u EXCEPT ![p] = [u[p] EXCEPT !.pc = "fwait", !.ep = ep]]
    BY <1>2, Zenon DEF BlkflushDirty, Flushees, Overlapping
  <2>2. Turns(p, "fwait", u[p].tp, ep, u[p].hold)
    BY <2>1, TurnEp, Zenon
  <2> QED BY <1>2, <2>2, TaskGoesOn DEF BlkflushDirty, Running, Turns
<1>3. CASE BlkflushDone(p) \/ Binval(p)
  BY <1>3, TaskEnds DEF BlkflushDone, Binval, Running, Return
<1>4. CASE BflushOne(p)
  <2>1. Turns(p, "bflush", u[p].tp, u[p].ep, u[p].hold)
    BY <1>4, TurnPc, Zenon DEF BflushOne, Goto
  <2> QED BY <1>4, <2>1, TaskGoesOn DEF BflushOne, Goto, Running, Turns
<1>5. CASE BflushDone(p)
  <2> USE <1>5 DEF BflushDone, Running
  <2>1. CASE u[p].op = "close"
    <3>1. Turns(p, "binval", u[p].tp, u[p].ep, u[p].hold)
      BY <2>1, TurnPc DEF Goto
    <3> QED BY <2>1, <3>1, TaskGoesOn DEF Goto, Turns
  <2>2. CASE u[p].op # "close"
    BY <2>2, TaskEnds DEF Return
  <2> QED BY <2>1, <2>2
<1> QED BY <1>1, <1>2, <1>3, <1>4, <1>5 DEF Flush

LEMMA InsideAsks ==
  ASSUME TypeOK, TypeOK', FsInv, NEW p \in Procs, Inside(p)
  PROVE  FsInv'
BY GetnewbufAsks, GetblkAsks, OverlapAsks, AllocbufAsks, BiowaitAsks, GottenAsks,
   BreadaAsks, OwnerAsks, FlushAsks DEF Inside

(* A process that is idle calls: what it asks for is there, and apart from *)
(* what others ask for.                                                    *)
LEMMA Called ==
  ASSUME TypeOK, FsInv, NEW p \in Procs, cpu \in {p, NONE},
         u[p].pc = "idle", \A q \in Procs \ {p} : u'[q] = u[q] /\ Asks(u[q])',
         Asks(u[p])', OnDevice(fsize)',
         \A q \in Procs \ {p} : \A r \in Requests(p)', t \in Requests(q) :
           Growing(p)' \/ Growing(q) => Span(r) \cap Span(t) = {},
         u'[p].pc \in {"bflush", "binval"} =>
           cpu' = p /\ (u'[p].op = "close" =>
             \A q \in Procs \ {p} : \A t \in Requests(q) : t.dev # u'[p].req.dev)
  PROVE  FsInv'
<1>1. ASSUME NEW q \in Procs \ {p}
      PROVE  Requests(q)' = Requests(q) /\ (Growing(q)' <=> Growing(q))
  BY DEF Requests, Growing
<1>2. ASSUME NEW q \in Procs PROVE Asks(u[q])'
  OBVIOUS
<1>3. Apart'
  BY <1>1 DEF FsInv, Apart
<1>4. ASSUME NEW q \in Procs PROVE Closing(q)'
  <2>1. CASE q = p
    BY <2>1, <1>1 DEF Closing
  <2>2. CASE q # p
    <3>1. u'[q].pc \notin {"bflush", "binval"}
      <4>1. Closing(q) /\ q # NONE
        BY BufCacheAssumption DEF FsInv
      <4> QED BY <4>1, <2>2 DEF Closing
    <3> QED BY <3>1 DEF Closing
  <2> QED BY <2>1, <2>2
<1> QED BY <1>2, <1>3, <1>4 DEF FsInv

LEMMA BegunWith ==
  ASSUME TypeOK, NEW p \in Procs, NEW pc, NEW op, NEW r, Begin(p, op, pc, r)
  PROVE  /\ u'[p].pc = pc /\ u'[p].op = op /\ u'[p].req = r /\ u'[p].main = NONE
         /\ u'[p].ra = NONE /\ u'[p].tp = NONE /\ u'[p].ep = NONE /\ u'[p].hold = NONE
         /\ \A q \in Procs \ {p} : u'[q] = u[q]
         /\ u[p].pc = "idle" /\ cpu \in {p, NONE} /\ cpu' = p /\ fsize' = fsize
         /\ r # NONE => Requests(p)' = {r}
BY DEF Begin, Idle, TypeOK, Running, Requests

LEMMA OthersSame ==
  ASSUME FsInv, NEW q \in Procs, u'[q] = u[q], fsize' = fsize
  PROVE  Asks(u[q])'
BY DEF FsInv, Asks, Real, Exact

LEMMA RealBlock ==
  ASSUME TypeOK, NEW d \in Devs, NEW b \in Sectors, NEW n \in 0..MaxSize, n > 0,
         b..(b + n - 1) \subseteq Sectors, NEW r, r = [dev |-> d, blkno |-> b, size |-> n]
  PROVE  Real(r) /\ r \in Request /\ r # NONE /\ r.dev = d /\ r.blkno = b /\ r.size = n
         /\ Span(r) = SectorsOf(d, b, n) /\ r.size > 0
<1>1. r.dev = d /\ r.blkno = b /\ r.size = n
  OBVIOUS
<1>2. Span(r) = SectorsOf(d, b, n)
  BY <1>1 DEF Span
<1>3. SectorsOf(d, b, n) \subseteq AllSectors
  BY DEF SectorsOf, AllSectors
<1>4. r # NONE
  <2>1. r \in Request
    BY DEF Request
  <2> QED BY <2>1, BufCacheAssumption DEF Request
<1>5. r \in Request
  BY DEF Request
<1> QED BY <1>1, <1>2, <1>3, <1>4, <1>5 DEF Real

LEMMA ReadableBlock ==
  ASSUME TypeOK, FsInv, NEW p \in Procs, NEW d \in Devs, NEW b \in Sectors,
         Readable(p, d, b), NEW r, r = Block(d, b)
  PROVE  /\ Real(r) /\ Exact(r) /\ r \in Request /\ r # NONE
         /\ r.dev = d /\ r.blkno = b
         /\ \A q \in Procs : \A t \in Requests(q) : Growing(q) => Span(r) \cap Span(t) = {}
<1>1. fsize[<<d, b>>] \in 0..MaxSize /\ MaxSize \in Nat
  BY BufCacheAssumption DEF TypeOK, AllSectors
<1> DEFINE n == fsize[<<d, b>>]
<1>2. n \in 0..MaxSize /\ n > 0 /\ b..(b + n - 1) \subseteq Sectors
  BY <1>1 DEF Readable, FsInv, OnDevice
<1>3. r = [dev |-> d, blkno |-> b, size |-> n]
  BY DEF Block
<1>4. \A q \in Procs : \A t \in Requests(q) : Growing(q) => Span(t) \cap SectorsOf(d, b, n) = {}
  BY DEF Readable
<1>5. r \in Request
  BY <1>1, <1>3 DEF Request
<1> HIDE DEF n
<1>6. /\ Real(r) /\ r # NONE /\ r.dev = d /\ r.blkno = b /\ r.size = n
      /\ Span(r) = SectorsOf(d, b, n)
  BY <1>2, <1>3, RealBlock
<1> QED BY <1>4, <1>5, <1>6 DEF Exact, n

(* A call that reads, or writes over, a block with the size it has.        *)
LEMMA ReadCalled ==
  ASSUME TypeOK, TypeOK', FsInv, NEW p \in Procs, NEW d \in Devs, NEW b \in Sectors,
         Readable(p, d, b),
         NEW op \in {"bread", "getblk", "blkflush"}, NEW pc \in {"getblk", "blkflush"},
         op \in Steps(pc), Begin(p, op, pc, Block(d, b))
  PROVE  FsInv'
<1>1. PICK r : r = Block(d, b)
  OBVIOUS
<1>2. Begin(p, op, pc, r)
  BY <1>1
<1>3. /\ Real(r) /\ Exact(r) /\ r # NONE
      /\ \A q \in Procs : \A t \in Requests(q) : Growing(q) => Span(r) \cap Span(t) = {}
  BY <1>1, ReadableBlock
<1>4. /\ u'[p].pc = pc /\ u'[p].op = op /\ u'[p].req = r /\ u'[p].main = NONE
      /\ u'[p].ra = NONE
      /\ \A q \in Procs \ {p} : u'[q] = u[q]
      /\ u[p].pc = "idle" /\ cpu \in {p, NONE} /\ cpu' = p /\ fsize' = fsize
      /\ Requests(p)' = {r}
  BY <1>2, <1>3, BegunWith
<1>5. Asks(u[p])'
  BY <1>3, <1>4 DEF Asks, Real, Exact, Gets, Reads
<1>6. ~Growing(p)'
  BY <1>4 DEF Growing
<1>7. OnDevice(fsize)'
  BY <1>4 DEF FsInv
<1> QED BY <1>3, <1>4, <1>5, <1>6, <1>7, Called, OthersSame

LEMMA BreadaCalled ==
  ASSUME TypeOK, TypeOK', FsInv, NEW p \in Procs, CallBreada(p)
  PROVE  FsInv'
<1>1. PICK d \in Devs, b \in Sectors :
        LET rab == ReadAhead[<<d, b>>] IN
        /\ Readable(p, d, b) /\ rab # NONE /\ Readable(p, d, rab)
        /\ u' = [u EXCEPT ![p] = [Idle EXCEPT !.pc = "breada", !.op = "breada",
               !.req = Block(d, b), !.main = Block(d, b), !.ra = Block(d, rab)]]
  BY Zenon DEF CallBreada
<1>2. PICK a : a = ReadAhead[<<d, b>>]
  OBVIOUS
<1>3. a \in Sectors
  <2>1. ReadAhead[<<d, b>>] \in Sectors \cup {NONE}
    BY BufCacheAssumption
  <2> QED BY <1>1, <1>2, <2>1
<1>4. PICK r, t : r = Block(d, b) /\ t = Block(d, a)
  OBVIOUS
<1>5. /\ Real(r) /\ Exact(r) /\ r # NONE
      /\ \A q \in Procs : \A x \in Requests(q) : Growing(q) => Span(r) \cap Span(x) = {}
  BY <1>1, <1>4, ReadableBlock
<1>6. /\ Real(t) /\ Exact(t) /\ t # NONE
      /\ \A q \in Procs : \A x \in Requests(q) : Growing(q) => Span(t) \cap Span(x) = {}
  BY <1>1, <1>2, <1>3, <1>4, ReadableBlock
<1>7. u' = [u EXCEPT ![p] = [Idle EXCEPT !.pc = "breada", !.op = "breada",
               !.req = r, !.main = r, !.ra = t]]
  BY <1>1, <1>2, <1>4
<1>8. /\ u'[p].pc = "breada" /\ u'[p].op = "breada" /\ u'[p].req = r /\ u'[p].main = r
      /\ u'[p].ra = t /\ \A q \in Procs \ {p} : u'[q] = u[q]
  BY <1>7 DEF Idle, TypeOK
<1>9. u[p].pc = "idle" /\ cpu \in {p, NONE} /\ fsize' = fsize
  BY DEF CallBreada, Running
<1>10. Requests(p)' \subseteq {r, t} /\ ~Growing(p)'
  BY <1>8 DEF Requests, Growing
<1>11. Asks(u[p])'
  BY <1>5, <1>6, <1>8, <1>9, StepsAre DEF Asks, Real, Exact, Gets, Reads
<1>12. OnDevice(fsize)'
  BY <1>9 DEF FsInv
<1> QED BY <1>5, <1>6, <1>8, <1>9, <1>10, <1>11, <1>12, Called, OthersSame

LEMMA NoSpan ==
  ASSUME FsInv, TypeOK, NEW r, r.dev = NODEV \/ r.size = 0, r.blkno \in Nat,
         NEW p \in Procs, Growing(p), NEW t \in Requests(p)
  PROVE  Span(r) \cap Span(t) = {}
<1>1. Real(t)
  <2>1. Asks(u[p]) /\ u[p].op \in {"alloc", "extend", "extended"}
    BY AskedFor DEF Growing
  <2>2. Real(u[p].req)
    BY <2>1 DEF Asks, Gets, Reads
  <2>3. u[p].ra = NONE
    BY <2>1 DEF Asks
  <2> QED BY <2>1, <2>2, <2>3 DEF Asks, Requests
<1>2. CASE r.size = 0
  <2>1. r.blkno..(r.blkno + r.size - 1) = {}
    BY <1>2
  <2> QED BY <2>1 DEF Span, SectorsOf
<1>3. CASE r.dev = NODEV
  <2>1. r.dev # t.dev
    BY <1>1, <1>3, BufCacheAssumption DEF Real
  <2> QED BY <2>1 DEF Span, SectorsOf
<1> QED BY <1>2, <1>3

(* A call for no block: geteblk, sync, close.                              *)
LEMMA BlocklessCalled ==
  ASSUME TypeOK, TypeOK', FsInv, NEW p \in Procs, NEW d \in Devs \cup {NODEV}, NEW n \in 0..MaxSize,
         NEW op, NEW pc,
         \/ op = "geteblk" /\ pc = "getnew" /\ d = NODEV
         \/ op = "sync" /\ pc = "bflush" /\ d = NODEV /\ n = 0
         \/ op = "close" /\ pc = "bflush" /\ d \in Devs /\ n = 0
            /\ \A q \in Procs \ {p} : \A r \in Requests(q) : r.dev # d,
         Begin(p, op, pc, NoBlock(d, n))
  PROVE  FsInv'
<1>1. PICK r : r = NoBlock(d, n)
  OBVIOUS
<1>2. Begin(p, op, pc, r)
  BY <1>1
<1>3. r.dev = d /\ r.size = n /\ r.blkno \in Sectors /\ r \in Request
  <2>1. (CHOOSE b \in Sectors : TRUE) \in Sectors
    BY BufCacheAssumption
  <2> QED BY <1>1, <2>1 DEF NoBlock, Request
<1>4. r # NONE
  BY <1>3, BufCacheAssumption DEF Request
<1>5. r.blkno \in Nat
  BY <1>3, RequestNumbers
<1>6. /\ u'[p].pc = pc /\ u'[p].op = op /\ u'[p].req = r /\ u'[p].main = NONE
      /\ u'[p].ra = NONE
      /\ \A q \in Procs \ {p} : u'[q] = u[q]
      /\ u[p].pc = "idle" /\ cpu \in {p, NONE} /\ cpu' = p /\ fsize' = fsize
      /\ Requests(p)' = {r}
  BY <1>2, <1>4, BegunWith
<1>7. Asks(u[p])'
  BY <1>3, <1>6, StepsAre DEF Asks, Gets, Reads
<1>8. ~Growing(p)'
  BY <1>6 DEF Growing
<1>9. \A q \in Procs \ {p} : \A t \in Requests(q) : Growing(q) => Span(r) \cap Span(t) = {}
  BY <1>3, <1>5, NoSpan
<1>10. OnDevice(fsize)'
  BY <1>6 DEF FsInv
<1> QED BY <1>3, <1>6, <1>7, <1>8, <1>9, <1>10, Called, OthersSame

LEMMA ExtendCalled ==
  ASSUME TypeOK, TypeOK', FsInv, NEW p \in Procs, CallExtend(p)
  PROVE  FsInv'
<1>1. PICK d \in Devs, b \in Sectors, n \in 1..MaxSize :
        /\ 0 < fsize[<<d, b>>] /\ fsize[<<d, b>>] < n
        /\ Unallocated(d, b, n) /\ Untouched(p, SectorsOf(d, b, n))
        /\ u' = [u EXCEPT ![p] = [Idle EXCEPT !.pc = "getblk", !.op = "extend",
               !.req = Block(d, b), !.main = [Block(d, b) EXCEPT !.size = n]]]
  BY Zenon DEF CallExtend
<1>2. PICK r : r = Block(d, b)
  OBVIOUS
<1>3. PICK t : t = [dev |-> d, blkno |-> b, size |-> n]
  BY Zenon
<1>4. PICK m : m = fsize[<<d, b>>]
  OBVIOUS
<1>5. m \in 0..MaxSize /\ MaxSize \in Nat
  BY <1>4, BufCacheAssumption DEF TypeOK, AllSectors
<1>6. b \in Nat
  BY BufCacheAssumption
<1>7. b..(b + n - 1) \subseteq Sectors
  BY <1>1 DEF Unallocated
<1>8. b..(b + m - 1) \subseteq b..(b + n - 1)
  BY <1>1, <1>4, <1>5, <1>6
<1>9. r = [dev |-> d, blkno |-> b, size |-> m]
  BY <1>2, <1>4 DEF Block
<1>10. Real(r) /\ r # NONE /\ r.dev = d /\ r.blkno = b /\ r.size = m /\ Span(r) = SectorsOf(d, b, m)
  BY <1>1, <1>4, <1>5, <1>7, <1>8, <1>9, RealBlock
<1>11. Real(t) /\ t # NONE /\ t.dev = d /\ t.blkno = b /\ t.size = n /\ Span(t) = SectorsOf(d, b, n)
  <2>1. n \in 0..MaxSize /\ n > 0
    BY <1>5
  <2> QED BY <1>3, <1>7, <2>1, RealBlock
<1>12. t = [Block(d, b) EXCEPT !.size = n]
  BY <1>2, <1>3, <1>9
<1>13. /\ u'[p].pc = "getblk" /\ u'[p].op = "extend" /\ u'[p].req = r /\ u'[p].main = t
       /\ u'[p].ra = NONE /\ \A q \in Procs \ {p} : u'[q] = u[q]
  BY <1>1, <1>2, <1>12 DEF Idle, TypeOK
<1>14. u[p].pc = "idle" /\ cpu \in {p, NONE} /\ fsize' = fsize
  BY DEF CallExtend, Running
<1>15. Requests(p)' \subseteq {r, t}
  BY <1>13 DEF Requests
<1>16. Exact(r)
  BY <1>4, <1>10 DEF Exact
<1>17. Asks(u[p])'
  <2>1. r.size <= t.size
    BY <1>1, <1>4, <1>5, <1>10, <1>11
  <2> QED BY <1>10, <1>11, <1>13, <1>14, <1>16, <2>1, StepsAre DEF Asks, Real, Exact, Gets, Reads
<1>18. Span(r) \subseteq Span(t)
  BY <1>8, <1>10, <1>11 DEF SectorsOf
<1>19. \A q \in Procs \ {p} : \A x \in Requests(q) : Span(t) \cap Span(x) = {}
  BY <1>1, <1>11 DEF Untouched
<1>20. OnDevice(fsize)'
  BY <1>14 DEF FsInv
<1> QED BY <1>13, <1>14, <1>15, <1>17, <1>18, <1>19, <1>20, Called, OthersSame

(* A block of d has n sectors from b on, or none: the others lie on their  *)
(* devices as before.                                                      *)
LEMMA OnDeviceSized ==
  ASSUME TypeOK, FsInv, NEW d \in Devs, NEW b \in Sectors, NEW n \in Nat,
         fsize' = [fsize EXCEPT ![<<d, b>>] = n], b..(b + n - 1) \subseteq Sectors
  PROVE  OnDevice(fsize)'
<1> SUFFICES ASSUME NEW e \in Devs, NEW c \in Sectors
             PROVE  c..(c + fsize'[<<e, c>>] - 1) \subseteq Sectors
  BY DEF OnDevice
<1>1. CASE <<e, c>> = <<d, b>>
  BY <1>1 DEF TypeOK, AllSectors
<1>2. CASE <<e, c>> # <<d, b>>
  <2>1. fsize'[<<e, c>>] = fsize[<<e, c>>]
    BY <1>2 DEF TypeOK, AllSectors
  <2> QED BY <2>1 DEF FsInv, OnDevice
<1> QED BY <1>1, <1>2

LEMMA AllocCalled ==
  ASSUME TypeOK, TypeOK', FsInv, NEW p \in Procs, CallAlloc(p)
  PROVE  FsInv'
<1>1. PICK d \in Devs, b \in Sectors, n \in 1..MaxSize :
        /\ Unallocated(d, b, n) /\ Untouched(p, SectorsOf(d, b, n))
        /\ fsize' = [fsize EXCEPT ![<<d, b>>] = n]
        /\ u' = [u EXCEPT ![p] = [Idle EXCEPT !.pc = "getblk", !.op = "alloc",
                          !.req = [dev |-> d, blkno |-> b, size |-> n]]]
  BY Zenon DEF CallAlloc
<1>2. PICK t : t = [dev |-> d, blkno |-> b, size |-> n]
  BY Zenon
<1>3. MaxSize \in Nat
  BY BufCacheAssumption
<1>4. n \in 0..MaxSize /\ n > 0 /\ n \in Nat
  BY <1>3
<1>5. b..(b + n - 1) \subseteq Sectors
  BY <1>1 DEF Unallocated
<1>6. Real(t) /\ t # NONE /\ t.dev = d /\ t.blkno = b /\ t.size = n /\ Span(t) = SectorsOf(d, b, n)
  BY <1>2, <1>4, <1>5, RealBlock
<1>7. /\ u'[p].pc = "getblk" /\ u'[p].op = "alloc" /\ u'[p].req = t /\ u'[p].main = NONE
      /\ u'[p].ra = NONE /\ \A q \in Procs \ {p} : u'[q] = u[q]
  BY <1>1, <1>2 DEF Idle, TypeOK
<1>8. u[p].pc = "idle" /\ cpu \in {p, NONE}
  BY DEF CallAlloc, Running
<1>9. Requests(p)' \subseteq {t}
  BY <1>7 DEF Requests
<1>10. fsize'[<<d, b>>] = n
  BY <1>1 DEF TypeOK, AllSectors
<1>11. Asks(u[p])'
  BY <1>6, <1>7, <1>10, StepsAre DEF Asks, Real, Exact, Gets, Reads
<1>12. \A q \in Procs \ {p} : \A x \in Requests(q) : Span(t) \cap Span(x) = {}
  BY <1>1, <1>6 DEF Untouched
<1>13. <<d, b>> \in Span(t)
  <2>1. b \in Nat
    BY BufCacheAssumption
  <2> QED BY <1>4, <1>6, <2>1, FirstSector
<1>14. \A q \in Procs \ {p} : Asks(u[q])'
  BY <1>1, <1>7, <1>12, <1>13, OthersSized, Zenon
<1>15. OnDevice(fsize)'
  BY <1>1, <1>4, <1>5, OnDeviceSized, Zenon
<1> QED BY <1>7, <1>8, <1>9, <1>11, <1>12, <1>14, <1>15, Called

LEMMA Freed ==
  ASSUME TypeOK, TypeOK', FsInv, NEW p \in Procs, Free(p)
  PROVE  FsInv'
<1>1. PICK d \in Devs, b \in Sectors :
        /\ fsize[<<d, b>>] > 0 /\ Untouched(p, SectorsOf(d, b, fsize[<<d, b>>]))
        /\ fsize' = [fsize EXCEPT ![<<d, b>>] = 0]
  BY Zenon DEF Free
<1>2. u' = u /\ u[p].pc = "idle" /\ cpu = NONE
  BY DEF Free
<1>3. fsize[<<d, b>>] \in Nat /\ b \in Nat
  <2>1. fsize[<<d, b>>] \in 0..MaxSize /\ MaxSize \in Nat /\ Sectors \subseteq Nat
    BY BufCacheAssumption DEF TypeOK, AllSectors
  <2> QED BY <2>1
<1>4. <<d, b>> \in SectorsOf(d, b, fsize[<<d, b>>])
  BY <1>1, <1>3, FirstSector
<1>5. u[p] = Idle
  BY <1>2, AskedFor DEF Asks
<1>6. Requests(p) = {}
  BY <1>5, IdleAsks DEF Requests
<1>7. \A q \in Procs : Asks(u[q])'
  BY <1>1, <1>2, <1>4, <1>6, OthersSized, Zenon DEF Untouched
<1>8. OnDevice(fsize)'
  <2>1. b..(b + 0 - 1) \subseteq Sectors
    BY <1>3
  <2> QED BY <1>1, <2>1, OnDeviceSized, Zenon
<1>9. Apart' /\ \A q \in Procs : Closing(q)'
  <2>1. cpu' = cpu
    BY DEF Free
  <2> QED BY <1>2, <2>1 DEF FsInv, Apart, Closing, Requests, Growing
<1> QED BY <1>7, <1>8, <1>9 DEF FsInv

LEMMA CallAsks ==
  ASSUME TypeOK, TypeOK', FsInv, NEW p \in Procs, Call(p)
  PROVE  FsInv'
<1>1. CASE CallBread(p) \/ CallBlkflush(p) \/ CallGetblk(p)
  BY <1>1, StepsAre, ReadCalled DEF CallBread, CallBlkflush, CallGetblk, Gets, Reads
<1>2. CASE CallGeteblk(p)
  <2>1. PICK n \in 1..MaxSize : Begin(p, "geteblk", "getnew", NoBlock(NODEV, n))
    BY <1>2 DEF CallGeteblk
  <2>2. n \in 0..MaxSize
    BY BufCacheAssumption
  <2>3. PICK op, pc : op = "geteblk" /\ pc = "getnew"
    OBVIOUS
  <2> QED BY <2>1, <2>2, <2>3, BlocklessCalled
<1>3. CASE CallSync(p) \/ CallClose(p)
  <2>1. 0 \in 0..MaxSize
    BY BufCacheAssumption
  <2>2. PICK op1, op2, pc, n : op1 = "sync" /\ op2 = "close" /\ pc = "bflush" /\ n = 0
    OBVIOUS
  <2>3. CASE CallSync(p)
    <3>1. Begin(p, op1, pc, NoBlock(NODEV, n))
      BY <2>2, <2>3 DEF CallSync
    <3> QED BY <2>1, <2>2, <3>1, BlocklessCalled
  <2>4. CASE CallClose(p)
    <3>1. PICK d \in Devs :
            /\ \A q \in Procs \ {p} : \A r \in Requests(q) : r.dev # d
            /\ Begin(p, op2, pc, NoBlock(d, n))
      BY <2>2, <2>4 DEF CallClose
    <3> QED BY <2>1, <2>2, <3>1, BlocklessCalled
  <2> QED BY <1>3, <2>3, <2>4
<1> QED BY <1>1, <1>2, <1>3, BreadaCalled, ExtendCalled, AllocCalled, Freed DEF Call

LEMMA NextAsks ==
  ASSUME TypeOK, TypeOK', FsInv, [Next]_vars
  PROVE  FsInv'
<1>1. ASSUME UNCHANGED <<u, cpu, fsize>> PROVE FsInv'
  BY <1>1 DEF FsInv, OnDevice, Asks, Real, Exact, Apart, Closing, Requests, Growing
<1> QED BY <1>1, CallAsks, InsideAsks, Zenon DEF Next, DiskIntr, vars

LEMMA InitAsks ==
  ASSUME Init
  PROVE  FsInv
<1>1. \A p \in Procs : u[p] = Idle /\ u[p].pc = "idle" /\ ~Growing(p)
  BY IdleAsks DEF Init, Growing
<1>2. OnDevice(fsize)
  BY OnDeviceAssumption DEF Init, OnDevice
<1> QED BY <1>1, <1>2, IdleAsks DEF FsInv, Apart, Closing

-----------------------------------------------------------------------------
(* What the buffers hold, sector by sector.                                *)

Live(c)    == buf[c].b_dev # NODEV /\ ~Has(c, "INVAL")
Writing(c) == Queued(c) /\ ~Has(c, "READ")
In(c, s)   == s \in Extent(buf[c])
Ahead(a, b) == \E i, j \in 1..Len(ioq) : i < j /\ ioq[i] = a /\ ioq[j] = b

(* The owner of c is to fill it: a new block, or one that has grown, which *)
(* realloccg marks done before that.                                       *)
Fills(c) == \E p \in Procs : /\ u[p].tp = c /\ u[p].op \in {"alloc", "extended"}
                             /\ u[p].pc \in {"overlap", "owait", "alloc", "gotten", "own"}
Grown(c) == \E p \in Procs : u[p].tp = c /\ u[p].op = "extended" /\ u[p].pc = "own"

(* A header is right about sector s: what is done, to be written or being  *)
(* written is what was last written.  (A write that was queued when the    *)
(* device was closed may since have been overtaken.)                       *)
Right(c, s) ==
  /\ Live(c) /\ In(c, s) => s \in AllSectors
  /\ Live(c) /\ s \in cur[c] => In(c, s)
  /\ Live(c) /\ In(c, s) /\ Has(c, "DONE") /\ ~Has(c, "ERROR") =>
       s \in cur[c] \/ s \in lost \/ Grown(c)
  /\ Writing(c) /\ In(c, s) /\ (Live(c) \/ s \in diskcur) => s \in cur[c]
  /\ Has(c, "DELWRI") /\ In(c, s) => s \in cur[c] \/ Fills(c)

(* Two headers do not contend for sector s: one maps it, one will write    *)
(* it, and a transfer that is overtaken does no harm.                      *)
Sole(a, b, s) == ~(Live(a) /\ In(a, s) /\ Live(b) /\ In(b, s))
Holds(c, s)   == In(c, s) /\ s \in cur[c]
Agree(a, b, s) ==
  /\ Sole(a, b, s)
  /\ Writing(a) /\ Has(b, "DELWRI") => ~(Holds(a, s) /\ Holds(b, s))
  /\ Ahead(a, b) /\ In(b, s) => /\ ~(Live(a) /\ In(a, s))
                                /\ ~(Writing(a) /\ Writing(b) /\ Holds(a, s))

(* What was last written is on the disk or on its way there.               *)
Carries(c, s) == Holds(c, s) /\ (Has(c, "DELWRI") \/ Writing(c))
Carried(s)    == s \in diskcur \/ s \in lost \/ \E c \in Bufs : Carries(c, s)

DataAt(s) ==
  /\ \A c \in Bufs : Right(c, s)
  /\ \A a, b \in Bufs : a # b => Agree(a, b, s)
  /\ s \in AllSectors => Carried(s)

(* A block whose write is delayed is valid, whole and cut as it is, or it  *)
(* is just being made or extended.                                         *)
Making(c) == \E p \in Procs : /\ u[p].op \in {"alloc", "extended"}
                              /\ u[p].req.dev = buf[c].b_dev
                              /\ u[p].req.blkno = buf[c].b_blkno
Delayed(c) ==
  Has(c, "DELWRI") =>
    /\ Live(c) /\ ~Has(c, "ERROR") /\ ~Queued(c) /\ buf[c].b_bcount > 0
    /\ Has(c, "DONE") \/ Fills(c)
    /\ fsize[<<buf[c].b_dev, buf[c].b_blkno>>] \in {0, buf[c].b_bcount} \/ Making(c)

-----------------------------------------------------------------------------
(* The kinds of steps: what a step may do to one header.                   *)

SameAt(c, s) ==
  /\ Live(c)' <=> Live(c)
  /\ In(c, s)' <=> In(c, s)
  /\ \A f \in {"READ", "DONE", "ERROR", "DELWRI"} : Has(c, f)' <=> Has(c, f)
  /\ s \in cur'[c] <=> s \in cur[c]
  /\ Queued(c)' <=> Queued(c)
Stays(c) == (Fills(c) => Fills(c)') /\ (Grown(c) => Grown(c)')

(* Nothing is done but to invalidate headers that need not be written.     *)
LEMMA StepQuiet ==
  ASSUME NEW s, DataAt(s), UNCHANGED <<ioq, diskcur, lost>>,
         \A c \in Bufs :
           /\ Live(c)' => Live(c)
           /\ In(c, s)' <=> In(c, s)
           /\ \A f \in {"READ", "DONE", "ERROR", "DELWRI"} : Has(c, f)' <=> Has(c, f)
           /\ s \in cur'[c] <=> s \in cur[c]
           /\ Stays(c)
  PROVE  DataAt(s)'
<1>1. ASSUME NEW c \in Bufs
      PROVE  (Queued(c)' <=> Queued(c)) /\ (Writing(c)' <=> Writing(c))
             /\ (Holds(c, s)' <=> Holds(c, s)) /\ (Carries(c, s)' <=> Carries(c, s))
  BY DEF Queued, Writing, Holds, Carries
<1>2. ASSUME NEW c \in Bufs PROVE Right(c, s)'
  BY <1>1 DEF DataAt, Right, Stays
<1>3. ASSUME NEW a \in Bufs, NEW b \in Bufs, a # b PROVE Agree(a, b, s)'
  <2>1. Ahead(a, b)' <=> Ahead(a, b)
    BY DEF Ahead
  <2> QED BY <1>1, <1>3, <2>1 DEF DataAt, Agree, Sole
<1>4. s \in AllSectors => Carried(s)'
  BY <1>1 DEF DataAt, Carried
<1> QED BY <1>2, <1>3, <1>4 DEF DataAt

(* A header that is not with the driver changes.                           *)
LEMMA StepTouch ==
  ASSUME NEW s, DataAt(s), UNCHANGED <<ioq, diskcur, lost>>, NEW x \in Bufs, ~Queued(x),
         \A c \in Bufs \ {x} : SameAt(c, s) /\ Stays(c),
         Right(x, s)',
         Live(x)' /\ In(x, s)' =>
           (Live(x) /\ In(x, s)) \/ \A c \in Bufs \ {x} : ~(Live(c) /\ In(c, s)),
         Has(x, "DELWRI")' /\ Holds(x, s)' <=> Has(x, "DELWRI") /\ Holds(x, s)
  PROVE  DataAt(s)'
<1>1. \A c \in Bufs : Queued(c)' <=> Queued(c)
  BY DEF Queued
<1>2. ASSUME NEW c \in Bufs \ {x}
      PROVE  (Writing(c)' <=> Writing(c)) /\ (Holds(c, s)' <=> Holds(c, s))
             /\ (Carries(c, s)' <=> Carries(c, s))
  BY DEF SameAt, Writing, Holds, Carries
<1>3. ~Writing(x) /\ ~Writing(x)' /\ (Carries(x, s)' <=> Carries(x, s))
  BY <1>1 DEF Writing, Carries
<1>4. ASSUME NEW c \in Bufs \ {x} PROVE Right(c, s)'
  BY <1>2 DEF DataAt, Right, Stays, SameAt
<1>5. ASSUME NEW a \in Bufs, NEW b \in Bufs, a # b PROVE Agree(a, b, s)'
  <2>1. (Ahead(a, b)' <=> Ahead(a, b)) /\ (Ahead(a, b) => a # x /\ b # x)
    BY DEF Ahead, Queued, Elems
  <2>2. Agree(a, b, s)
    BY <1>5 DEF DataAt
  <2>3. Sole(a, b, s)'
    BY <1>5, <2>2 DEF Agree, Sole, SameAt
  <2>4. Writing(a)' /\ Has(b, "DELWRI")' => ~(Holds(a, s)' /\ Holds(b, s)')
    BY <1>2, <1>3, <1>5, <2>2 DEF Agree, SameAt
  <2>5. Ahead(a, b)' /\ In(b, s)' => /\ ~(Live(a)' /\ In(a, s)')
                                     /\ ~(Writing(a)' /\ Writing(b)' /\ Holds(a, s)')
    BY <1>2, <2>1, <2>2 DEF Agree, SameAt
  <2> QED BY <2>3, <2>4, <2>5 DEF Agree
<1>6. s \in AllSectors => Carried(s)'
  <2>1. \A c \in Bufs : Carries(c, s)' <=> Carries(c, s)
    BY <1>2, <1>3
  <2> QED BY <2>1 DEF DataAt, Carried
<1> QED BY <1>4, <1>5, <1>6 DEF DataAt

LEMMA AheadAppend ==
  ASSUME ioq \in Seq(Bufs), NEW x \in Bufs, Strategy(x), ~Queued(x),
         NEW a \in Bufs, NEW b \in Bufs, Ahead(a, b)'
  PROVE  Ahead(a, b) \/ (b = x /\ Queued(a))
<1>1. Len(ioq) \in Nat /\ ioq' = Append(ioq, x) /\ Len(ioq') = Len(ioq) + 1
  BY DEF Strategy
<1>2. PICK i \in 1..Len(ioq'), j \in 1..Len(ioq') : i < j /\ ioq'[i] = a /\ ioq'[j] = b
  BY DEF Ahead
<1>3. i \in 1..Len(ioq) /\ ioq[i] = a
  BY <1>1, <1>2
<1>4. Queued(a)
  BY <1>3 DEF Queued, Elems
<1>5. CASE j \in 1..Len(ioq)
  <2>1. ioq[j] = b
    BY <1>1, <1>2, <1>5
  <2> QED BY <1>2, <1>3, <1>5, <2>1 DEF Ahead
<1>6. CASE j = Len(ioq) + 1
  BY <1>1, <1>2, <1>4, <1>6
<1> QED BY <1>1, <1>2, <1>5, <1>6

(* A header is given to the driver, to be read or because it was delayed.  *)
LEMMA StepSend ==
  ASSUME NEW s, DataAt(s), LockInv, UNCHANGED <<diskcur, lost>>,
         NEW x \in Bufs, ~Queued(x), Strategy(x), Live(x),
         \A c \in Bufs : Delayed(c),
         \A c \in Bufs \ {x} : Stays(c),
         \A c \in Bufs \ {x} : \A f \in {"READ", "DONE", "ERROR", "DELWRI"} : Has(c, f)' <=> Has(c, f),
         \A c \in Bufs : (Live(c)' <=> Live(c)) /\ (In(c, s)' <=> In(c, s))
                         /\ (s \in cur'[c] <=> s \in cur[c]),
         ~Has(x, "DONE")', ~Has(x, "DELWRI")',
         \/ Has(x, "READ")' /\ ~Has(x, "DELWRI")
         \/ ~Has(x, "READ")' /\ Has(x, "DELWRI") /\ ~Fills(x)
  PROVE  DataAt(s)'
<1>1. \A c \in Bufs : Queued(c)' <=> Queued(c) \/ c = x
  BY Enqueue
<1>2. ASSUME NEW c \in Bufs \ {x}
      PROVE  (Writing(c)' <=> Writing(c)) /\ (Holds(c, s)' <=> Holds(c, s))
             /\ (Carries(c, s)' <=> Carries(c, s))
  BY <1>1 DEF Writing, Holds, Carries
<1>3. (Holds(x, s)' <=> Holds(x, s)) /\ (Carries(x, s) => Carries(x, s)')
      /\ (Writing(x)' => Has(x, "DELWRI") /\ (In(x, s) => s \in cur[x]))
  BY <1>1 DEF Writing, Holds, Carries, DataAt, Right
<1>4. ASSUME NEW c \in Bufs PROVE Right(c, s)'
  BY <1>2, <1>3 DEF DataAt, Right, Stays
<1>5. ASSUME NEW a \in Bufs, NEW b \in Bufs, a # b PROVE Agree(a, b, s)'
  <2>1. Agree(a, b, s) /\ Delayed(b)
    BY <1>5 DEF DataAt
  <2>2. Sole(a, b, s)'
    BY <2>1 DEF Agree, Sole
  <2>3. Writing(a)' /\ Has(b, "DELWRI")' => ~(Holds(a, s)' /\ Holds(b, s)')
    BY <1>2, <1>3, <1>5, <2>1 DEF Agree, Delayed, Sole, Holds
  <2>4. CASE b # x
    <3>1. Ahead(a, b)' => Ahead(a, b) /\ a # x
      BY <2>4, AheadAppend, Zenon DEF LockInv, TypeOK, Ahead, Queued, Elems
    <3> QED BY <1>2, <2>1, <2>2, <2>3, <2>4, <3>1 DEF Agree
  <2>5. CASE b = x
    <3>1. ~(Live(a)' /\ In(a, s)' /\ In(b, s)')
      BY <2>1, <2>5 DEF Agree, Sole
    <3>2. ~(Writing(a)' /\ Writing(b)' /\ Holds(a, s)' /\ In(b, s)')
      BY <1>2, <1>3, <1>5, <2>1, <2>5 DEF Agree, Holds
    <3> QED BY <2>2, <2>3, <3>1, <3>2 DEF Agree
  <2> QED BY <2>4, <2>5
<1>6. s \in AllSectors => Carried(s)'
  <2>1. \A c \in Bufs : Carries(c, s) => Carries(c, s)'
    BY <1>2, <1>3
  <2> QED BY <2>1 DEF DataAt, Carried
<1> QED BY <1>4, <1>5, <1>6 DEF DataAt

(* The owner fills a buffer: what it has written is to be found there and  *)
(* nowhere else, and it is delayed or given to the driver.                 *)
LEMMA StepFill ==
  ASSUME NEW s, DataAt(s), LockInv, NEW x \in Bufs, Modify(x), ~Queued(x), Live(x),
         \A c \in Bufs : Delayed(c),
         \A c \in Bufs \ {x} : Stays(c),
         \A c \in Bufs \ {x} : \A f \in {"READ", "DONE", "ERROR", "DELWRI"} : Has(c, f)' <=> Has(c, f),
         \A c \in Bufs : (Live(c)' <=> Live(c)) /\ (In(c, s)' <=> In(c, s)),
         \/ ioq' = ioq /\ Has(x, "DELWRI")'
         \/ Strategy(x) /\ ~Has(x, "READ")' /\ ~Has(x, "DELWRI")' /\ ~Has(x, "DONE")'
  PROVE  DataAt(s)'
<1>1. \/ Has(x, "DELWRI")' /\ (\A c \in Bufs : Queued(c)' <=> Queued(c))
         /\ \A a, b \in Bufs : Ahead(a, b)' => Ahead(a, b) /\ a # x /\ b # x
      \/ Writing(x)' /\ (\A c \in Bufs : Queued(c)' <=> Queued(c) \/ c = x)
         /\ ~Has(x, "DELWRI")' /\ ~Has(x, "DONE")'
         /\ \A a, b \in Bufs : Ahead(a, b)' => (Ahead(a, b) /\ a # x /\ b # x) \/ b = x
  <2>1. \A a, b \in Bufs : Ahead(a, b) => a # x /\ b # x
    BY DEF Ahead, Queued, Elems
  <2>2. CASE ioq' = ioq /\ Has(x, "DELWRI")'
    BY <2>1, <2>2 DEF Ahead, Queued
  <2>3. CASE Strategy(x) /\ ~Has(x, "READ")' /\ ~Has(x, "DELWRI")' /\ ~Has(x, "DONE")'
    <3>1. \A c \in Bufs : Queued(c)' <=> Queued(c) \/ c = x
      BY <2>3, Enqueue
    <3>2. ASSUME NEW a \in Bufs, NEW b \in Bufs, Ahead(a, b)' PROVE Ahead(a, b) \/ b = x
      BY <2>3, <3>2, AheadAppend DEF LockInv, TypeOK
    <3> QED BY <2>1, <2>3, <3>1, <3>2 DEF Writing
  <2> QED BY <2>2, <2>3
<1>2. /\ s \in cur'[x] <=> In(x, s)
      /\ \A c \in Bufs \ {x} : s \in cur'[c] <=> s \in cur[c] /\ ~In(x, s)
      /\ s \in diskcur' <=> s \in diskcur /\ ~In(x, s)
      /\ s \in lost' <=> s \in lost /\ ~In(x, s)
  BY DEF Modify, In
<1>3. ASSUME NEW c \in Bufs \ {x}
      PROVE  (Writing(c)' <=> Writing(c)) /\ (Holds(c, s)' <=> Holds(c, s) /\ ~In(x, s))
             /\ (Carries(c, s)' <=> Carries(c, s) /\ ~In(x, s))
  BY <1>1, <1>2 DEF Writing, Holds, Carries
<1>4. (Holds(x, s)' <=> In(x, s)) /\ (Carries(x, s)' <=> In(x, s))
  BY <1>1, <1>2 DEF Writing, Holds, Carries
<1>5. ASSUME NEW c \in Bufs PROVE Right(c, s)'
  <2>1. CASE c = x
    BY <1>2, <2>1 DEF DataAt, Right
  <2>2. CASE c # x
    <3>1. Right(c, s) /\ Delayed(c) /\ Sole(x, c, s)
      BY <2>2 DEF DataAt, Agree
    <3> QED BY <1>2, <1>3, <2>2, <3>1 DEF Right, Stays, Delayed, Sole
  <2> QED BY <2>1, <2>2
<1>6. ASSUME NEW a \in Bufs, NEW b \in Bufs, a # b PROVE Agree(a, b, s)'
  <2>1. Agree(a, b, s) /\ Delayed(b)
    BY <1>6 DEF DataAt
  <2>2. Sole(a, b, s)'
    BY <2>1 DEF Agree, Sole
  <2>3. Writing(a)' /\ Has(b, "DELWRI")' => ~(Holds(a, s)' /\ Holds(b, s)')
    <3>1. CASE b = x
      BY <1>3, <1>4, <1>6, <3>1
    <3>2. CASE b # x /\ a = x
      BY <1>3, <1>4, <2>1, <3>2 DEF Agree, Sole, Delayed, Holds
    <3>3. CASE b # x /\ a # x
      BY <1>3, <2>1, <3>3 DEF Agree
    <3> QED BY <3>1, <3>2, <3>3
  <2>4. Ahead(a, b)' /\ In(b, s)' => /\ ~(Live(a)' /\ In(a, s)')
                                     /\ ~(Writing(a)' /\ Writing(b)' /\ Holds(a, s)')
    <3>1. CASE b = x
      BY <1>3, <1>6, <2>1, <3>1 DEF Agree, Sole
    <3>2. CASE b # x
      <4>1. Ahead(a, b)' => Ahead(a, b) /\ a # x
        BY <1>1, <3>2
      <4> QED BY <1>3, <2>1, <3>2, <4>1 DEF Agree
    <3> QED BY <3>1, <3>2
  <2> QED BY <2>2, <2>3, <2>4 DEF Agree
<1>7. s \in AllSectors => Carried(s)'
  <2>1. CASE In(x, s)
    BY <1>4, <2>1 DEF Carried
  <2>2. CASE ~In(x, s)
    <3>1. \A c \in Bufs : Carries(c, s) => Carries(c, s)'
      BY <1>3, <2>2 DEF Carries, Holds
    <3> QED BY <1>2, <2>2, <3>1 DEF DataAt, Carried
  <2> QED BY <2>1, <2>2
<1> QED BY <1>5, <1>6, <1>7 DEF DataAt

(* A transfer ends.                                                        *)
LEMMA AheadUnlink ==
  ASSUME LockInv, NEW x, ioq' = Unlink(ioq, x), NEW a, NEW b, Ahead(a, b)'
  PROVE  Ahead(a, b)
<1>1. CASE x \notin Elems(ioq)
  BY <1>1 DEF Unlink, Ahead
<1>2. CASE x \in Elems(ioq)
  <2> DEFINE k == CHOOSE i \in 1..Len(ioq) : ioq[i] = x
             t == [i \in 1..(Len(ioq) - 1) |-> IF i < k THEN ioq[i] ELSE ioq[i + 1]]
  <2>1. ioq' = t
    BY <1>2 DEF Unlink
  <2>2. Len(ioq) \in Nat /\ k \in 1..Len(ioq)
    BY <1>2 DEF Elems, LockInv, TypeOK
  <2>3. Len(ioq') = Len(ioq) - 1
    <3>1. Len(ioq) - 1 \in Nat
      BY <2>2
    <3> QED BY <2>1, <3>1
  <2>4. PICK i \in 1..(Len(ioq) - 1), j \in 1..(Len(ioq) - 1) :
          i < j /\ ioq'[i] = a /\ ioq'[j] = b
    BY <2>3 DEF Ahead
  <2>5. /\ a = IF i < k THEN ioq[i] ELSE ioq[i + 1]
        /\ b = IF j < k THEN ioq[j] ELSE ioq[j + 1]
    BY <2>1, <2>4
  <2> HIDE DEF k, t
  <2>6. PICK m \in 1..Len(ioq), n \in 1..Len(ioq) : m < n /\ a = ioq[m] /\ b = ioq[n]
    BY <2>2, <2>4, <2>5
  <2> QED BY <2>6, Zenon DEF Ahead
<1> QED BY <1>1, <1>2

(* Nothing that is ahead of a transfer that may end is in its place.       *)
LEMMA AheadApart ==
  ASSUME LockInv, NEW x \in Bufs, MayFinish(x), NEW a \in Bufs, a # x, Queued(a), NEW s,
         In(a, s), In(x, s)
  PROVE  Ahead(x, a)
<1>1. PICK k : k = Position(x)
  OBVIOUS
<1>2. k \in 1..Len(ioq) /\ ioq[k] = x
  BY <1>1 DEF Position, MayFinish, Elems
<1>3. PICK i \in 1..Len(ioq) : ioq[i] = a
  BY DEF Queued, Elems
<1>4. ~(i \in 1..(k - 1))
  BY <1>1, <1>3 DEF MayFinish, In
<1>5. Len(ioq) \in Nat
  BY DEF LockInv, TypeOK
<1>6. k < i
  BY <1>2, <1>3, <1>4, <1>5
<1> QED BY <1>2, <1>3, <1>6 DEF Ahead

LEMMA StepFinish ==
  ASSUME NEW s, DataAt(s), LockInv, NEW x \in Bufs, MayFinish(x), ioq' = Unlink(ioq, x),
         NEW ok \in BOOLEAN, Transfer(x, ok),
         \A c \in Bufs : Delayed(c),
         \A c \in Bufs : Stays(c),
         \A c \in Bufs \ {x} : \A f \in {"READ", "DONE", "ERROR", "DELWRI"} : Has(c, f)' <=> Has(c, f),
         \A c \in Bufs \ {x} : (Live(c)' <=> Live(c)) /\ (In(c, s)' <=> In(c, s)),
         Has(x, "DELWRI")' <=> Has(x, "DELWRI"), ~ok => Has(x, "ERROR")',
         Live(x)' => Live(x), Live(x)' => (In(x, s)' <=> In(x, s))
  PROVE  DataAt(s)'
<1>1. Queued(x) /\ Delayed(x) /\ ~Has(x, "DELWRI") /\ ~Has(x, "DELWRI")'
  BY DEF MayFinish, Queued, Delayed
<1>2. \A c \in Bufs : Queued(c)' <=> Queued(c) /\ c # x
  BY UnlinkElems DEF LockInv, TypeOK, Queued
<1>3. \A c \in Bufs \ {x} : s \in cur'[c] <=> s \in cur[c]
  BY DEF Transfer, LockInv, TypeOK
<1>4. ASSUME NEW c \in Bufs \ {x}
      PROVE  (Writing(c)' <=> Writing(c)) /\ (Holds(c, s)' <=> Holds(c, s))
             /\ (Carries(c, s)' <=> Carries(c, s))
  BY <1>2, <1>3 DEF Writing, Holds, Carries
<1>5. ASSUME Has(x, "READ")
      PROVE  (s \in AllSectors => Carried(s)') /\ \A c \in Bufs : Right(c, s)'
  <2>1. (s \in diskcur' <=> s \in diskcur) /\ (s \in lost' <=> s \in lost)
        /\ (s \in cur'[x] => ok /\ In(x, s) /\ s \in diskcur)
        /\ (ok /\ In(x, s) /\ s \in diskcur => s \in cur'[x])
    BY <1>5 DEF Transfer, In, LockInv, TypeOK
  <2>2. ~Carries(x, s) /\ ~Writing(x) /\ ~Writing(x)'
    BY <1>1, <1>2, <1>5 DEF Carries, Writing
  <2>3. s \in AllSectors => Carried(s)'
    BY <1>4, <2>1, <2>2 DEF DataAt, Carried
  <2>4. ASSUME Live(x), In(x, s), s \in AllSectors PROVE s \in diskcur \/ s \in lost
    <3> SUFFICES ASSUME NEW c \in Bufs, Carries(c, s) PROVE FALSE
      BY <2>4 DEF DataAt, Carried
    <3>1. c # x /\ Agree(x, c, s) /\ Delayed(c)
      BY <2>2 DEF DataAt
    <3>2. Writing(c) /\ In(c, s)
      BY <2>4, <3>1 DEF Carries, Holds, Delayed, Agree, Sole
    <3>3. Ahead(x, c)
      BY <2>4, <3>1, <3>2, AheadApart DEF Writing
    <3> QED BY <2>4, <3>1, <3>2, <3>3 DEF Agree
  <2>5. Right(x, s)'
    BY <1>1, <2>1, <2>2, <2>4 DEF DataAt, Right
  <2>6. ASSUME NEW c \in Bufs PROVE Right(c, s)'
    <3>1. CASE c # x
      BY <1>3, <1>4, <2>1, <3>1 DEF DataAt, Right, Stays
    <3> QED BY <2>5, <3>1
  <2> QED BY <2>3, <2>6
<1>6. ASSUME ~Has(x, "READ")
      PROVE  (s \in AllSectors => Carried(s)') /\ \A c \in Bufs : Right(c, s)'
  <2>1. /\ s \in diskcur' <=> (s \in diskcur /\ ~In(x, s)) \/ (ok /\ Holds(x, s))
        /\ s \in lost' <=> s \in lost \/ (~ok /\ In(x, s))
        /\ s \in cur'[x] <=> s \in cur[x]
    BY <1>6 DEF Transfer, In, Holds
  <2>2. Writing(x) /\ ~Writing(x)' /\ Right(x, s)
    BY <1>1, <1>2, <1>6 DEF Writing, DataAt
  <2>3. s \in AllSectors => Carried(s)'
    <3>1. CASE In(x, s)
      BY <1>4, <2>1, <2>2, <3>1 DEF DataAt, Carried, Right, Holds, Carries
    <3>2. CASE ~In(x, s)
      <4>1. ~Carries(x, s)
        BY <3>2 DEF Carries, Holds
      <4> QED BY <1>4, <2>1, <3>2, <4>1 DEF DataAt, Carried
    <3> QED BY <3>1, <3>2
  <2>4. Right(x, s)'
    BY <1>1, <2>1, <2>2 DEF Right
  <2>5. ASSUME NEW c \in Bufs PROVE Right(c, s)'
    <3>1. CASE c # x
      <4>1. Right(c, s) /\ Agree(x, c, s)
        BY <3>1 DEF DataAt
      <4>2. ~(Writing(c) /\ In(c, s) /\ Holds(x, s))
        <5> SUFFICES ASSUME Writing(c), In(c, s), Holds(x, s) PROVE FALSE
          OBVIOUS
        <5>1. Ahead(x, c)
          BY <3>1, AheadApart DEF Writing, Holds
        <5> QED BY <2>2, <4>1, <5>1 DEF Agree
      <4> QED BY <1>3, <1>4, <2>1, <3>1, <4>1, <4>2 DEF Right, Stays
    <3> QED BY <2>4, <3>1
  <2> QED BY <2>3, <2>5
<1>7. ASSUME NEW a \in Bufs, NEW b \in Bufs, a # b PROVE Agree(a, b, s)'
  <2>1. Agree(a, b, s)
    BY <1>7 DEF DataAt
  <2>2. (Ahead(a, b)' => Ahead(a, b)) /\ (Ahead(a, b)' => a # x /\ b # x)
    <3>1. Ahead(a, b)' => Queued(a)' /\ Queued(b)'
      BY DEF Ahead, Queued, Elems
    <3> QED BY <1>2, <3>1, AheadUnlink
  <2>3. ~Writing(x)'
    BY <1>2 DEF Writing
  <2>4. Sole(a, b, s)'
    BY <1>7, <2>1 DEF Agree, Sole
  <2>5. Writing(a)' /\ Has(b, "DELWRI")' => ~(Holds(a, s)' /\ Holds(b, s)')
    BY <1>1, <1>4, <1>7, <2>1, <2>3 DEF Agree
  <2>6. Ahead(a, b)' /\ In(b, s)' => /\ ~(Live(a)' /\ In(a, s)')
                                     /\ ~(Writing(a)' /\ Writing(b)' /\ Holds(a, s)')
    BY <1>4, <2>1, <2>2 DEF Agree
  <2> QED BY <2>4, <2>5, <2>6 DEF Agree
<1> QED BY <1>5, <1>6, <1>7 DEF DataAt

=============================================================================
