--------------------------- MODULE BufCacheProps ----------------------------
(***************************************************************************)
(* What the buffer cache of BufCache promises.                             *)
(***************************************************************************)
EXTENDS BufCache, Functions

(* Every variable has its type; that of a process says at which of its     *)
(* steps it has a request, a second one, a buffer and another buffer.      *)
Copies == (Devs \cup {NODEV}) \X Nat
Proc ==
  { P \in [pc : PCs, op : Ops \cup {"none", "bread", "ra", "extended"},
           req : Request \cup {NONE}, main : Request \cup {NONE},
           ra : Request \cup {NONE}, tp : Bufs \cup {NONE},
           ep : Bufs \cup {NONE}, hold : Bufs \cup {NONE}] :
      /\ P.pc # "idle" => P.req \in Request
      /\ P.op \in {"breada", "ra", "extend"} => P.main \in Request
      /\ P.pc \in {"breada", "ra"} => P.op = "breada"
      /\ P.pc \in {"overlap", "owait", "alloc", "swait", "gotten", "rwait",
                   "own", "wwait"} => P.tp \in Bufs
      /\ P.pc \in {"owait", "fwait"} => P.ep \in Bufs }

TypeOK ==
  /\ buf \in [Bufs -> Buf]
  /\ bfreelist \in [BQ -> Seq(Bufs)]
  /\ flwanted \in BOOLEAN
  /\ ioq \in Seq(Bufs)
  /\ u \in [Procs -> Proc]
  /\ wchan \in [Procs -> Bufs \cup {FREELIST, NONE}]
  /\ cpu \in Procs \cup {NONE}
  /\ fsize \in [AllSectors -> 0..MaxSize]
  /\ cur \in [Bufs -> SUBSET Copies]
  /\ diskcur \in SUBSET Copies
  /\ lost \in SUBSET Copies

(* The buffers a process has checked out.                                  *)
Held(p) == {u[p].tp, u[p].ep, u[p].hold} \ {NONE}

(* B_BUSY is a lock: a busy buffer belongs to one process, which alone may *)
(* look at it, or to the driver that will release it (B_ASYNC, biodone).   *)
(* Nobody has a buffer that is not busy.                                   *)
Owners(bp) == { p \in Procs : bp \in Held(p) }
SoleOwner ==
  \A bp \in Bufs :
    /\ \A p, q \in Owners(bp) : p = q
    /\ Has(bp, "BUSY") <=> (Owners(bp) # {} \/ bp \in Elems(ioq))
    /\ bp \in Elems(ioq) => (Has(bp, "ASYNC") <=> Owners(bp) = {})
    /\ \A p \in Owners(bp) : Cardinality({f \in {"tp", "ep", "hold"} : u[p][f] = bp}) = 1

(* A buffer is on one free list, once, when it is not busy, and on none    *)
(* when it is; a buffer without memory is never offered by getnewbuf.      *)
Places(bp) == { pl \in BQ \X (1..Cardinality(Bufs)) :
                  /\ pl[2] <= Len(bfreelist[pl[1]])
                  /\ bfreelist[pl[1]][pl[2]] = bp }
FreeListsSound ==
  \A bp \in Bufs :
    /\ Cardinality(Places(bp)) = IF Has(bp, "BUSY") THEN 0 ELSE 1
    /\ \A pl \in Places(bp) : (buf[bp].b_bufsize = 0) <=> (pl[1] = "EMPTY")

(* No wakeup is lost.  Whoever sleeps on a buffer sleeps on a busy one,    *)
(* whose release or end of transfer will wake it; whoever sleeps on the    *)
(* free list does so while it is empty and marked wanted.                  *)
NoLostWakeup ==
  \A p \in Procs :
    /\ wchan[p] \in Bufs =>
         /\ Has(wchan[p], "BUSY")
         /\ \/ Has(wchan[p], "WANTED")
            \/ wchan[p] \in Elems(ioq) /\ ~Has(wchan[p], "ASYNC")
    /\ wchan[p] = FREELIST => flwanted /\ NoneFree

(* B_BUSY and B_WANTED, together, are a lock that wakes those who wait     *)
(* for it: one owner, and no sleeper left behind.                          *)
LockSound == SoleOwner /\ NoLostWakeup

(* The pages of the pool are neither lost nor made when allocbuf moves     *)
(* them between headers.                                                   *)
MemoryConserved ==
  SumFunction([bp \in Bufs |-> buf[bp].b_bufsize]) = SumFunction(InitBufsize)

(* allocbuf and brelse keep headers and memory together: each header is    *)
(* where the memory it has says, and no memory appears or disappears.      *)
MemorySound == FreeListsSound /\ MemoryConserved

(* No panic of the code is reached: "dup biodone", and "bread", "breada",  *)
(* "breadrabp" or "bwrite" (a transfer longer than the memory behind it).  *)
NoPanic ==
  \A bp \in Elems(ioq) : /\ ~Has(bp, "DONE")
                         /\ buf[bp].b_bcount <= buf[bp].b_bufsize

(* A disk block is mapped by at most one buffer (comment in brealloc).     *)
Mapped(bp) == /\ buf[bp].b_dev # NODEV /\ ~Has(bp, "INVAL")
              /\ buf[bp].b_bcount > 0
SoleMapping ==
  \A a, b \in Bufs : (Mapped(a) /\ Mapped(b) /\ a # b) =>
                       Extent(buf[a]) \cap Extent(buf[b]) = {}

(* What the cache would hand out without reading is what was last written, *)
(* except for sectors whose last write the device failed.  (A block that   *)
(* is being extended has B_DONE before its owner has filled it.)           *)
Coherent ==
  \A bp \in Bufs :
    (/\ Mapped(bp) /\ Has(bp, "DONE") /\ ~Has(bp, "ERROR")
     /\ \A p \in Procs : u[p].tp = bp => u[p].op # "extended") =>
      \A s \in Extent(buf[bp]) : s \in cur[bp] \cup lost

(* A write that was accepted is on the disk or on its way there: in a      *)
(* valid delayed-write buffer, or with the driver.  Reuse, reallocation,   *)
(* theft of memory, flushing and invalidation never drop it.               *)
NothingDropped ==
  \A s \in AllSectors \ (diskcur \cup lost) :
    \E bp \in Bufs :
      /\ s \in cur[bp] /\ s \in Extent(buf[bp])
      /\ \/ Has(bp, "DELWRI") /\ ~Has(bp, "INVAL")
         \/ bp \in Elems(ioq) /\ ~Has(bp, "READ")

(* While a process owns a buffer, nobody else changes what it maps or what *)
(* is in it.                                                               *)
OwnedStable ==
  [][\A p \in Procs :
       (u[p].pc = "own" /\ u'[p] = u[p]) =>
          LET tp == u[p].tp IN
          /\ cur'[tp] = cur[tp]
          /\ [buf'[tp] EXCEPT !.b_flags = {}] = [buf[tp] EXCEPT !.b_flags = {}]
          /\ buf[tp].b_flags \ {"WANTED"} = buf'[tp].b_flags \ {"WANTED"}]_vars

(* When blkflush returns, the disk itself has the last written contents    *)
(* (vm_page.c reads it behind the cache's back), save for writes that were *)
(* still queued when the device was closed: binval hides them (B_INVAL).   *)
FlushReachesDisk ==
  [][\A p \in Procs :
       (u[p].pc = "blkflush" /\ u'[p].pc = "idle") =>
          \A s \in Span(u[p].req) :
            \/ s \in diskcur \cup lost
            \/ \E bp \in Elems(ioq) : /\ s \in Extent(buf[bp]) \cap cur[bp]
                                     /\ Has(bp, "INVAL")]_vars

(* Every sleeper is woken, if processes that can run get the processor in  *)
(* the end (schedcpu ages priorities; a process may lose a race for it any *)
(* number of times) and the device finishes what it was given.             *)
Fairness ==
  /\ \A p \in Procs : SF_vars(Inside(p))
  /\ \A bp \in Bufs : WF_vars(DiskIntr(bp))
FairSpec == Spec /\ Fairness
SleepersWake ==
  \A p \in Procs : (wchan[p] # NONE) ~> (wchan[p] = NONE)

=============================================================================
