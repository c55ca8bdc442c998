# TLA+ specifications of the 41c kernel

The repository holds the sources of a 4.1cBSD system for the VAX: some 5400
files, of which the kernel, `src/sys`, is the part with a logic of its own that
tests hardly reach.  Many processes, interrupts and devices share its tables.
The specifications kept here model kernel components one at a time, check them
with TLC on small instances, and prove theorems about them with TLAPS.

A process inside this kernel keeps the processor until it calls `sleep` (or
returns to user mode), so between two sleeps only interrupts come in.  All
modules follow that rule: an action is a piece of code that runs without
sleeping, or one interrupt.  What may go wrong is what happens *across* a sleep
or under an interrupt.

## Inventory

| component | state | operations | interacts through | hard behaviour | what makes it correct | modelled in |
|---|---|---|---|---|---|---|
| buffer cache (`sys/ufs_bio.c`, `h/buf.h`) | `buf[nbuf]`, hash chains, free lists, `B_WANTED` of the list | `getblk geteblk brealloc allocbuf getnewbuf bread breada bwrite bdwrite bawrite brelse biowait biodone blkflush bflush binval` | `sleep`/`wakeup`, `(*d_strategy)`, driver interrupts, file system calls | sleeping in the middle of a search, memory moved between headers, delayed writes, failing transfers | a block has one buffer, a busy buffer one owner, nothing written is lost, every sleeper wakes | `BufCache` |
| resource maps (`sys/subr_rmap.c`) | `struct map`: sorted segments, zero-terminated | `rminit rmalloc rmfree rmget` | swap allocation, kernel page tables, UNIBUS maps | full map, coalescing on both sides | a unit is free or handed out, never both, never lost | `ResourceMap`, `UnitPool` |
| callouts (`sys/kern_clock.c`) | `calltodo`, `callfree`: differences of times | `timeout untimeout hardclock softclock` | protocol timers, drivers | removal in the middle, several entries in one tick | each fires once, not early, in order | `Callout`, `Timers` |
| disk queue (`sys/ufs_dsort.c`) | a drive's queue of buffers | `disksort` | drivers | two ascending runs and the inversion | nobody is lost, the head in transfer is not passed | `DiskSort` |
| disk driver (`vaxuba/up.c`, `vaxuba/uba.c`) | `uputab`, `um_tab`, `up_softc`, `uh_actf` | `upstrategy upustart upstart updgo upintr upecc upreset upwatch`, `ubago ubarelse ubareset` | buffer cache (`biodone`), other UNIBUS devices, the disks | overlapping seeks, attention during service, retries, recalibration, lost interrupts | what ends is what ran, each request once, no drive waits for ever | `UpDriver`, `DiskOrder` |
| sleep and run queues (`sys/kern_synch.c`, `vax/locore.s`) | `slpque`, `qs`, `p_stat`, `p_wchan` | `sleep unsleep wakeup setrun setrq remrq swtch schedcpu` | everything | signals against wakeups, stopped and swapped processes | a process is on the one queue its state says; no wakeup is lost | `ProcSwitch` |
| signals (`sys/kern_sig.c`) | `p_sig p_cursig p_sigmask` | `psignal issig psig stop spgrp` | sleep queues, `ptrace`, parents | signals to stopped and sleeping processes | no lost signal, no sleep over one, nobody started who is stopped | `ProcSwitch` |
| process life cycle (`sys/kern_process.c`, `vm_proc.c`) | `proc` | `fork exit wait` | signals, swapping | children that end or stop while `wait` looks, orphans | every ended child is seen | `ProcSwitch` (`exit`, `wait`) |
| swapping (`sys/vm_sched.c`, `vm_swap.c`) | `SLOAD`, `runout runin wantin` | `sched swapin swapout swkill ptexpand vmmeter` | run queue, swap space, disk | requests while the table is scanned; swap space used up | nobody who can run is forgotten | `ProcSwitch` |
| inode cache (`sys/ufs_inode.c`) | inode table, hash, free list, `ILOCKED IWANT ICHG` | `iget iput irele iupdat itrunc ilock iunlock iflush` | buffer cache, quotas, mount table | sleep while locked, last reference against lookup | one in-core inode per disk inode, no change lost | `InodeCache` |
| TCP (`netinet/tcp_*.c`) with stream sockets (`sys/uipc_socket*.c`) | `tcpcb`, reassembly queue, `socket` buffers and state | `tcp_input tcp_output tcp_reass tcp_timers tcp_usrreq`, `connect sosend soreceive soshutdown soclose` | network, timers, users | loss, duplication, reordering, closed windows, either side closing in any manner | bytes are delivered once and in order, both ends close | `Tcp`, `ByteStreams` |
| block allocation (`sys/ufs_alloc.c`) | bitmaps and counters in buffers | `alloc realloccg free ialloc ifree` | buffer cache, inodes | growth of fragments | a fragment belongs to one file | as far as its callers use buffers (`BufCache`) and inodes (`InodeCache`) |
| quotas (`sys/quota_*.c`) | `quota`, `dquot` tables | `chkdq chkiq getquota ...` | inodes, processes | sleeps with a locked quota | usage equals the sum of what is charged | no |
| local sockets, datagrams, `select` (`sys/uipc_*.c`, `sys_generic.c`) | `socket`: accept queues, `SO_*` | `sonewconn soaccept select selwakeup` ... | protocols, `sleep` | close against connect, select collisions | queue links and counts agree, no event is missed | no |
| mbufs (`sys/uipc_mbuf.c`) | pool, page reference counts | `m_get m_free m_copy m_clget m_expand` | sockets, network | shared clusters | no use after free | no |
| file table and descriptors (`sys/kern_descrip.c`) | `file`, `u_ofile` | `falloc dup closef` | inodes, sockets | `close` that sleeps | a count per reference | `closef` in `InodeCache` |
| terminals (`sys/tty*.c`) | clists, `t_state` | `ttyinput ttread ttwrite ttstart` | drivers | flow control | no output stuck | no |
| virtual memory (`sys/vm_*.c`) | page tables, `cmap`, `text` | `pagein pageout memall mlock xalloc` | buffer cache, disk | page locked during a transfer | a frame has one user | no |
| everything else | | other drivers, VAX support code, IMP and PUP, commands, libraries, games | | | | no |

`PROJECT.json` lists the components with their status, and the hazards with the
line where each bites and the properties that catch it.

## How the modules are built

Each component has a module of its state and actions (`X`), one that says what it
promises (`XProps`), one with instances for TLC (`MCX`) and a `.cfg` for each run.
Where a component can be put in terms of something simpler there is an abstract
specification, and the component is shown to implement it through a refinement
mapping in `XProps`: `ResourceMap` implements `UnitPool`, `Callout` `Timers`,
`UpDriver` `DiskOrder`, `Tcp` `ByteStreams`.  Theorems and their proofs are in
`XProofs`, each of which begins with the facts about lists, numbers and sums that it
needs.

Components meet in one module where their interaction is the point: `UpDriver`
composes `up.c`, `disksort` and the UNIBUS queue with the hardware; `ProcSwitch`
composes the queues, signals, `exit`/`wait` and `sched`; `InodeCache` composes the
table with `namei`, `ialloc`, `closef` and `update`; `Tcp` composes two complete ends
with the network and the users.  Elsewhere a component appears through what it
promises: `BufCache` assumes of a driver what `DiskOrder` says, `InodeCache` assumes
of the buffers that a block read or written is the block.

## The buffer cache

`BufCache.tla` is the specification, `BufCacheProps.tla` states what it
promises, `MCBufCache.tla` and the `BufCache_*.cfg` files check it on small
instances; `BufCacheProofs.tla` and `BufCacheDataProofs.tla` hold the theorems.

### State

| specification | code |
|---|---|
| `buf[bp]` | a header: `b_flags` (the flags as a set), `b_dev`, `b_blkno`, `b_bcount`, `b_bufsize`; sizes and addresses in sectors |
| `bfreelist` | `bfreelist[BQ_LRU]`, `[BQ_AGE]`, `[BQ_EMPTY]`, oldest first |
| `flwanted` | `B_WANTED` in `bfreelist[0].b_flags` |
| `ioq` | what has been given to `d_strategy` and not come back through `biodone` |
| `u[p]` | where a process is: `pc`, the call it makes (`op`, `req`, and for `breada` and `realloccg` a second request), and its local `bp` variables `tp`, `ep`, `hold` |
| `wchan[p]` | `p_wchan` |
| `cpu` | the process in the middle of a run |
| `fsize` | how the file system has cut the disk into blocks |
| `cur`, `diskcur`, `lost` | ghosts: which sectors' last written contents are in a buffer, on the disk, or lost to a device error |

Contents are not modelled as values: each sector has one *current* contents,
and the ghosts say who has a copy of it.  All blocks of a device are on one hash
chain (the code hashes groups of `RND` sectors, so that overlapping blocks
always meet on one chain; a chain search with `b_dev`, `b_blkno` and `B_INVAL`
is then a search of the device's buffers).  `B_LOCKED` and its queue are left
out: nothing in the kernel sets it.

### Actions

Each loop of the code is unrolled into one action per branch: `getblk` is
`GetblkBusy`, `GetblkHit`, `GetblkMiss`, and then the actions of `getnewbuf`
(`GetnewSleep`, `GetnewFlush`, `GetblkBind`), of `brealloc` (`Overlap...`) and
of `allocbuf` (`AllocKeep`, `AllocShrink`, `AllocTake`).  `biowait` is
`BiowaitSleep`, and what the caller does after it (`BwriteDone`, `ReadDone`).
`u[p].pc` names the piece of code that comes next and `cpu` keeps other
processes out until the piece ends in a sleep or a return.  `DiskIntr` is the
end of one transfer and may come at any moment, except under `bflush`, which
runs at `spl6`.

What calls the cache is part of the model: a process reads a block with the size
it has (`CallBread`, `CallBreada`), overwrites it whole (`CallGetblk`), creates
it (`CallAlloc`, `ufs_alloc.c: alloc`), grows it in place (`CallExtend`,
`realloccg`), frees it, flushes a range (`CallBlkflush`), syncs, or closes the
device (`CallClose`).  The inode lock, which the cache relies on and does not
enforce, appears as `Untouched` and `Readable`: a block is created, grown or
freed only when no other process is at it.

### Runs

| run | instance | question |
|---|---|---|
| `reuse` | 2 processes, 2 equal buffers, 2 one-sector blocks; read, overwrite, all the ways to write, `sync`, `close`, `blkflush`; transfers may fail | busy buffers have one owner and no sleeper is left behind (`LockSound`), one buffer per block (`SoleMapping`), current contents and no bad buffer handed out (`Coherent`), no write lost (`NothingDropped`), owners undisturbed (`OwnedStable`), flushed means on the disk (`FlushReachesDisk`) |
| `sizes` | 1 process, 3 buffers of one cluster (2 sectors) each, blocks of 1 to 3 sectors that are created, grown, overwritten and read with `breada`; asynchronous writes are still going on | memory is conserved while it moves and no header is on the wrong list (`MemorySound`), no panic (`NoPanic`) |
| `wakes` | 2 processes, 2 buffers, 2 blocks and buffers of `geteblk`, fair | every sleeper wakes (`SleepersWake`) |
| `race` | 2 processes, 3 buffers with unequal memory, blocks of 1 and 2 sectors; expected violation of `SoleMapping` | see "Findings" |

`LockSound` is the conjunction of `SoleOwner` and `NoLostWakeup`, `MemorySound`
of `MemoryConserved` and `FreeListsSound`.

Bounds.  Two processes are enough to be in each pair of sleep points at once,
and every protocol of the cache is between two parties: the owner and one who
wants.  With two buffers for two blocks reuse happens on nearly every call.
`sizes` is about memory, not about who is first: one process is enough, because the
writes it has started go on without it and their buffers are busy for it as another
process's would be.  A first block of two sectors and one of one, clusters of two and
a block of up to three sectors make rounding, partial theft of memory, shrinking with
and without an empty header, and growing in place happen.  Read-ahead holds one buffer
while it gets another; with as many processes as buffers that code can block for ever,
each holding one.  `Procs` and `Bufs` are symmetric wherever no temporal property is
checked.  `CHECK_DEADLOCK` is left on everywhere: with all processes idle a call is
always possible, so a deadlock would be a real one.

Fairness (`FairSpec`).  Strong fairness of what a process does inside the cache,
once it is in it: `schedcpu` recomputes priorities so that a runnable process
gets the processor in the end, but a woken process can lose the race for a
buffer, so it may be enabled again and again rather than continuously.  Weak
fairness of `DiskIntr`: a device finishes what it has.  No fairness of calls.
Without strong fairness `getnewbuf` and `getblk` can starve in the code, too:
`wakeup` wakes everybody and promises nothing.

### Findings

Both are in conflict with the comment of `brealloc` (`ufs_bio.c:370`), "A disk
block must be mapped by at most one buffer at any point in time".

* `race`: `getblk` searches, misses, and may sleep in `getnewbuf`; it does not
  search again.  `brealloc` would notice a second buffer for the block, but not
  one whose `b_bcount` is still 0, which is what a process asleep in `allocbuf`
  owns.  Two readers of one block then have a buffer each.
* Without a run of its own (it breaks the same property): when a block is created
  or grown over sectors that an old buffer still maps, `brealloc` marks the old
  buffer `B_INVAL` and `brelse` puts it first on `BQ_AGE`.  If `allocbuf` then needs
  memory, its `getnewbuf` gets just that buffer and resets its flags to `B_BUSY`.  If
  only part of its memory is taken, `B_INVAL` is not set again (`ufs_bio.c:467` sets
  it only when no memory is left), and the buffer is released as a valid one, mapping
  a part of the new block.  One process suffices.

That is why `SoleMapping` and `Coherent` are checked where all blocks and all memory
are of one size, and proved where each header's memory covers the largest block, and
`MemorySound` and `NoPanic` where neither is so.

### Proofs

Two modules, the second on top of the first, prove for every value of the
constants that satisfies `BufCacheAssumption` and `OnDeviceAssumption`,

* `TypeCorrect`: `Spec => []TypeOK` (`BufCacheProofs.tla`).  `TypeOK` is inductive
  because the type of a process (`Proc`) is dependent: at which `pc` it has which
  buffer or request.  Without that, `AllocTake` or `BwriteDone` could not be shown to
  use a header.  One lemma per group of actions (`GetnewbufType`, `GetblkType`, ...),
  one step per action, over lemmas about the helpers (`UnlinkType`, `PutType`,
  `BrelseType`, `BreallocType`, ...).
* `AlwaysLockSound`: `Spec => []LockSound` (the same module), that `B_BUSY`
  and `B_WANTED` are a lock.
* `AlwaysFreeListsSound` and `AlwaysNoPanic` (`BufCacheDataProofs.tla`): headers are
  on the free list their memory says, and no transfer is longer than its memory or
  ends twice.
* `AlwaysMemorySound` (the same module): besides, `allocbuf` and `brealloc` move
  memory between headers but neither lose nor make any.
* `AlwaysSoleMapping`, `AlwaysCoherent`, `AlwaysNothingDropped`, `AlwaysOwnedStable` and
  `AlwaysFlushReachesDisk` (the same module): under the hypothesis `Ample`, a block has
  one buffer, what is handed out is what was last written, no write is dropped, an owner
  is undisturbed, and flushed means on the disk.

`LockSound` is not inductive.  `LockInv` adds what the code relies on without saying so:

* `Shape`: in which of its steps a process has a buffer in `tp`, `ep` or `hold`, and
  that they are never the same one (`breada` keeps the first block in `hold` while it
  gets the second: were that the same, it would wait for itself).
* `Placed`: a buffer of a process is with the driver only while the process waits for
  it, or will (`hold`); then it is done or still queued, so that `biowait` sleeps only
  on a buffer whose interrupt is to come.
* no two processes have one buffer.
* `Fits`: a header is busy if and only if it is owned or queued; queued, it is not
  done, and asynchronous if and only if nobody owns it; asynchronous, it is queued; and
  it is on a free list if and only if it is not busy.  This is where a `brelse` too
  many, or one by both the owner and `biodone`, would show.
* `NoDup(ioq)` and `FreeOnce`: nothing is on a list twice or on two free lists.

A step changes what one process has, and at most a few headers, and may wake sleepers.
`StepOne`, `StepNone` and `StepSleep` say once what then suffices for `LockInv'`: the
effect on each header (`TakeEffect`, `FlushEffect`, `DriveEffect`, `GiveEffect`,
`MarkEffect`) and on the record of the process.  Each routine is shown to be one of
these, in a lemma of its own (`GetnewbufLock`, `OverlapLock`, `AllocbufLock`, ...).
`SoleOwner` and `NoLostWakeup` need each other: a sleeper is woken because whoever has
the buffer is one process, or the driver, and will release it.

`MemInv` adds to `LockInv` that no block is longer than the memory behind it (`Room`),
that the `EMPTY` list has the headers without memory (`Sorted`), and that all headers
together have the memory they began with.  `LockInv` is
needed for both: the headers `allocbuf` takes memory from are free, so nobody is in the
middle of a transfer with them, and a buffer is put on a list once, with the memory it
has then.  `MemKeep`, `MemWrite` and `MemBack` say what suffices of a step; `allocbuf`
has a lemma for each way out (`AllocKeepMem`, `AllocShrinkMem`, `AllocTakeMem`), all of
which rest on `RoundupCovers`: a size rounded up to clusters is no smaller.  The total is
a sum over all headers, and only `allocbuf` changes its terms, two at a time; that
moving part of one term to another leaves the sum alone is `SumMoved`.
Sums are defined there by the library's fold; what the proofs need of them is shown by
choosing a least set on which it fails, since no induction over finite sets can be cited.

What the buffers hold.  The five theorems rest on one inductive invariant, `DataInv`, on
top of `MemInv`.  It has four layers.

* `FsInv`, what the callers ask for (end of `BufCacheProofs.tla`): each request has the
  size the file system has given the block, but for one just being extended (`Asks`); a
  block being made or extended, and a device being closed, is at nobody else's hand
  (`Apart`, `Closing`).  It needs only types.
* What a process knows of its buffers after each sleep: the buffer in `tp` maps the
  block of its request, and from `getblk` on with its size (`Named`); `allocbuf` is
  called in the same run as the search of `brealloc` that found no overlap, or to shrink
  a block that is clean (`AllocOk`); `bflush` leaves nothing for `binval` (`Clean`).
* `Delayed`: a delayed write is of a valid buffer that is not queued, cut as the file
  system has cut the block, or being filled by its owner.
* `DataAt(s)`, of each sector `s`: each header is right about it (`Right`); no two valid
  headers map it, nothing older is queued behind what is newer, and a delayed copy and a
  queued one are not both current (`Agree`); its last written contents are on the disk or
  in a header that will get them there (`Carried`).

`SoleMapping` alone is not inductive: that `bread` may bind a buffer after it has slept
in `getnewbuf` rests on the sizes in `FsInv`, and that `bflush` and `blkflush` may write a
buffer rests on `Delayed`.  `Coherent` and `NothingDropped` need each other and the order
of the queue: an invalidated buffer may still be queued with old contents when the new
buffer of the sector is queued behind it.

The proof goes by kinds of steps.  Five lemmas (`StepQuiet`, `StepTouch`, `StepSend`,
`StepFill`, `StepFinish`) say, for one sector, what suffices of a step that
leaves the headers alone, takes or marks one, gives one to the driver, fills one, or ends
a transfer; each routine is then shown to be of one kind, in a lemma of its own
(`OverlapDirtyData`, `BflushOneData`, `DiskIntrData`, ...).

`Ample` says that the memory `binit` gives to each header covers the largest block.  Then
every header keeps its memory (`Full`) and `allocbuf` takes none from another.  The code
has it when `bufpages` is configured at its limit of `nbuf * (MAXBSIZE / CLBYTES)`
(`machdep.c:119`), or when no mounted file system has blocks longer than `bufpages /
nbuf` clusters (two, by default: `machdep.c:113`); the instances of `reuse` and `wakes`
have it.  It cannot be dropped: without it `SoleMapping` is false (`race`, see Findings).

Assumed of the constants: sizes are natural numbers with a positive cluster, there
are finitely many headers, the markers `NODEV`, `FREELIST`, `NONE` are none of
the things they are compared with (`BufCacheAssumption`), and the blocks that are there
at the start lie on their devices (`OnDeviceAssumption`).

Only model-checked: liveness (`SleepersWake`).

What is left out of this part: the `sun` branches, `B_LOCKED`, `swap` and
`physio` (they use headers of their own, `swbuf`, and share only `biodone`), and
the contents of the data.  `Bwritten` sets `B_AGE` of a delayed buffer with the other
flags; `bwrite` does so when the driver has returned (`ufs_bio.c:132`), so that a transfer
that ends within the driver would put the buffer on `BQ_LRU` instead of `BQ_AGE`.

Seen while modelling, without a run of its own: `getnewbuf` and `bflush` jump
back to `loop` at `spl6` after a `bawrite` and so raise the level a little
earlier than needed; `brealloc` clears `B_DONE` of a dirty buffer that grows,
which is safe only because `realloccg` reads the block first; two processes in
`breada` with two buffers can each hold one and wait for the other's.

## Resource maps

`ResourceMap.tla` is `subr_rmap.c`; `UnitPool.tla` is what its users count on;
`ResourceMapProps.tla`, `MCResourceMap.tla`, `ResourceMap_*.cfg` and
`ResourceMapProofs.tla` as before.

The array of `struct mapent` is a sequence, `segs`: used slots in order.  The
terminating slot of size 0 is not part of it, nor is the header, so a map of
`MapSize` slots has room for `MapSize - 2` segments.  (That all slots after the
terminator are zero, which the shifting loops of `rmfree` rely on, is the same as
saying that the sequence ends where it ends.)  `held` and `discarded` are ghosts:
what callers have, and what `rmap ovflo` threw away.  `asleep` is the sleep of
`procdup` for `kernelmap`, the only caller that waits.

| action | code |
|---|---|
| `Rmalloc` | first fit; `Front` shortens the segment or closes the gap; in `swapmap`, `Cut` takes the part after a `DMMAX` boundary and gives the rest back with `Rmfree` |
| `Rmfree` (in `Release` and `Cut`) | `Place` is the search; `Bad` is the panic; `JoinLeft`, `JoinBoth`, `JoinRight`, `Inserted` are the four ways in; `Overflows`/`Trimmed` the message; `Done` the wakeup of `kernelmap` |
| `Rmget` | the four shapes of a segment around the one asked for |
| `RmallocSleep` | `procdup` sets `kmapwnt` and sleeps on it |

Segments in `InitHeld` have been taken off the address space before the run or
have not been given to the map yet: `swfree` calls `rmfree` for one piece of the
swap space after another, so a first `rmfree` of a piece nobody was given is
normal.

| run | instance | question |
|---|---|---|
| `segments` | 7 registers in a map with room for all, sizes 1 to 3, `rmget` of pairs anywhere, 2 processes that sleep | order and joining (`Coalesced`), nobody waits in vain (`NobodyWaitsInVain`), and that it implements `UnitPool` (`PoolSpec`) |
| `swapmap` | 11 blocks in pieces of 4, room for three segments | nothing in two hands (`Disjoint`) or lost (`Conserved`), blocks on one disk each (`SwapUncut`), no panic, no slot beyond the map (`WithinMap`): cutting at boundaries, and overflow, also inside `rmalloc` |

Seven units with sizes up to three give free runs between blocks on both sides,
so all joins happen, and three free runs in a row of eleven blocks, with a fourth
cut off, overflow the swap map.  In `segments` deadlock is checked: nothing is
discarded there, so somebody who can give back a segment is always left.

Seen while modelling.  `rmget` (`subr_rmap.c:323`) refuses to split a segment when
`bp2 == mp->m_limit`, where `rmfree` overflows as soon as the delimiter gets to
`m_limit - 1`: with one slot left the delimiter is moved to the slot after the array,
and `WithinMap` does not hold.  The callers in the tree ask for space in maps with many
free slots, so it does not show; `StaysWithinMap` below has the hypothesis it needs.
And a swap segment whose first part, before the boundary, would fit is passed
over when the part after it does not (`continue`, line 108).  That is waste and not
an error, and `FirstFit` says so.

Proofs (`ResourceMapProofs.tla`).  Every property the two runs check is proved for
every map size, set of sizes and requests that satisfy `ResourceMapAssumption`.

* `TypeCorrect`, `AlwaysCoalesced`, `AlwaysDisjoint`, `NeverPanics`.  One
  invariant serves for all: `MapSafe`, that is `TypeOK`, `Coalesced`,
  `Disjoint`, `NoPanic` together.  None of the last three is inductive alone:
  that a freed segment does not make `rmfree` panic follows from its being apart
  from the map (`Disjoint`), and that the result is apart from everything else
  needs the order of the map (`Coalesced`), because the neighbours in the array
  are then the only ones that can touch.  Lemmas come in three layers: sequences
  (`WithoutSeq`, `InsertedSeq`, `ExceptSeq`), sorted lists of segments
  (`InsertedSorted`, `WithoutSorted`, `ShortenedSorted`, the joins), and the
  operations.
* `NobodyEverWaitsInVain`.  `rmalloc` looks at segments, the property speaks of runs of
  free units: `RunInside` shows that a run lies within one segment, since neighbours
  have been joined.  Taking only shrinks what is free (`TookShrinks`), freeing wakes
  everybody.
* `StaysWithinMap`: without `rmget` (`Gets = {}`), the map never outgrows its array;
  the invariant counts segments through each way `rmfree` and `Cut` go.
* `NeverCut`: `SwapUncut`, from a lemma on division (`DivUnique`): what `rmalloc` hands
  out begins at a boundary or ends before the next.  That `dmmax` is at least the
  largest block asked for, and that blocks in use at the start are uncut, are
  assumptions, as in `conf` and `vm_drum.c`.
* `AlwaysConserved`: `Covers(s, a)` says that list `s` covers unit `a`; for each
  operation on the array a lemma says which units it adds to what is covered
  (`RmfreeCovers`), or takes from it (`Gave`), and `Lose` names what an overflow throws
  away.
* `MapIsPool`: a map other than `swapmap` implements `UnitPool`, step by step, from
  `MapSafe` and the same lemmas.  (In `swapmap` the tail that `Cut` frees may overflow
  the map, so units may get lost when a block is given *out*, which a pool does not do.)

## Callouts

`Callout.tla` is the queue part of `kern_clock.c`; `Timers.tla` says what
`timeout` promises: a set of requests, each with the ticks it has left.

`calltodo` is the list, `callfree` the free entries (a set: it is a stack in
the code, but entries are alike), `c_time` and `c_func` the fields.  A
`c_time` counts from the entry before; entries that are overdue, at the head of
the list, have `c_time <= 0` each by itself.  `soft` is the pending software
interrupt, `running` the function `softclock` is calling.

| action | code |
|---|---|
| `Timeout`, `Untimeout` | the whole routines, at `spl7` |
| `Hardclock` | the loop over `calltodo` and `setsoftclock()` |
| `SoftclockEnter`, `SoftclockCall`, `SoftclockReturn`, `SoftclockLeave` | the interrupt; one turn of its loop, until the function is called; its return; the end.  Between any two of them other actions come in, so a called function may use the queue (`Timeout` while `running` is a function) |

Times are natural numbers.  `timeout` itself does not check: a negative time
would be put before the overdue entries and delay what is behind it.  A function
that a device interrupt cancels after `softclock` has taken it off the queue is
called all the same, and so it is in `Timers`, where `Call` is one step.

`MaxLate` bounds how long `softclock` can be held off, and with it `c_time`; one
tick is enough for an entry to be overdue while another has just become due and a
third is not.

The run `queue` has three entries, one function that may be queued twice and one
that may be queued once (`Most`), times of 0 and 2, `softclock` held off for a tick at
most, and checks everything: types and order of the list (`WellFormed`), that no entry
is lost or linked twice (`Accounted`), that the table does not overflow (`NoPanic`), the
refinement of `Timers` (`TimersSpec`), and, with fairness, that every request is met or
withdrawn (`Met`).  Fairness: weak, of
`Hardclock` (the clock ticks) and of `Softclock` (its interrupt is taken, what it
calls returns).  A function that asks for itself with time 0 for ever does not
keep the others from being called, because it goes behind those that are overdue;
requests of the same tick are otherwise met last in, first out.

Proofs (`CalloutProofs.tla`):

* `AlwaysAccounted`: `Accounted` is inductive together with the types of three
  variables (`Typed`).  The lemmas are about lists without repetitions: what
  `InsertAt`, `RemoveAt` and `Tail` do to their elements.
* `NeverOverflows`: if no function may be queued twice, those on the queue differ (`Unique`), so
  if no entry were free, `c_func` would map the entries one to one into the
  functions other than the one asked for, of which there are too few
  (`FS_PigeonHole`).

* `AlwaysWellFormed`: that the list is in order, and the types of everything.
* `QueueIsClock`: the queue implements `Timers`.  A list of differences means a list of
  times, and `timeout` and `untimeout` have to mend the difference behind the place they
  change: forgetting that moves every later request.

Neither `Ordered` nor `Waited`, the ticks left of an entry, says enough to be kept by a
step.  `TimesInv` says where the differences come from: there are times left, in order,
of which each difference is the one to the entry before, or, as long as they are
overdue, the time itself; none is longer overdue than `softclock` was held off.  What a
step does to these times is what `Timers` says it does: put one in behind those before
it (`InsertTimes`), take one out (`RemoveTimes`), count all down (`TickTimes`), take the
first (`TailTimes`).  `TimesWaited` identifies them with `Waited`, which is a sum and so
again an argument by the first place where it would fail.

Assumed of the constants: finitely many entries and functions, natural times, and the markers `NONE` and
`SCAN`, which are neither functions nor records.  Only model-checked: `Met`, and
`NoPanic` where a function may be queued twice.

## The disk driver

`UpDriver.tla` is the driver of the disks on an SC21 (`vaxuba/up.c`), with
`disksort` (`DiskSort.tla`, an operator on sequences) and the queue for UNIBUS
resources of `uba.c`.  `DiskOrder.tla` says what it promises whoever calls
`upstrategy`: requests for one place are done in the order of their coming, each
once.

### State

| variable | code |
|---|---|
| `queue[d]`, `active[d]` | `b_actf` and its `av_forw` chain, and `b_active`, of `uputab[d]` |
| `ready`, `um_active`, `errcnt` | `b_actf` with its `b_forw` chain, `b_active`, `b_errcnt` of `um_tab` |
| `softas`, `recal` | `sc_softas`, `sc_recal` |
| `fresh` | drives whose `upinit` is 0 |
| `uba` | the controller is on `uh_actf`; the resources it needs are in use by others |
| `hw` | attention bits, drives on the move, the controller transferring, its interrupt, `UP_IE` |
| `pc`, `caller`, `again`, `todo` | which routine runs, for whom, and for which drives `upustart` is still to be called: first the one whose request has ended, then the others in the order of their numbers |
| `moving`, `parts`, `losses` | the request the hardware works for; two bounds |

### Actions

The driver runs at `spl5`, so `upstrategy`, an interrupt and the watchdog run one
after the other; but drives and controller go on, so the loops of `upintr`,
`upreset` and `upstart` are one step for each turn (`UpustartNext`, the `Upstart...`
actions) and attention bits can come in between.

`upintr` up to its loop over drives is one action for each way out: only attention
(`UpintrAttention`), the transfer goes on behind a corrected or a revectored sector
(`UpintrContinue`, the three uses of `upecc`), a recalibration begins or proceeds
(`UpintrRecal`, `UpintrSeek`), the request ends, well or not (`UpintrDone`), or it is
tried again (`UpintrRetry`).  Which error it is, is chosen; `errcnt` counts them as
the code does, up to one more than `Retries`.  `Upwatch` is the reset after 20
seconds without an interrupt, `ubareset` and `upreset` included.

The hardware is what the code expects of it: a command to a drive ends with an
attention bit, and clears an earlier one; a transfer ends with an interrupt; either
interrupt may be lost, and the 20 seconds may pass with something still going on,
`MaxLosses` times in all.

Left out: requests that are refused at once, a drive that loses `VV` while it is up,
statistics, and the contents of registers.  A request is a buffer with a cylinder;
it is queued again only after it has ended.

### Runs

`updriver`: two drives; two buffers for one cylinder of the first, whose bad-sector
table is still to be read, and one for the second; transfers fail for good at the
third error (27 in the code), one recalibration, offsets from the first error on, one
interrupt lost or late.  These are the smallest numbers with which every branch of
`upintr` is taken and two drives compete for the controller.

* `ReadySound`: a drive is on the ready queue once, is there if it says so, and the
  drive and request that `upintr` takes without a check are there while the
  controller is active.
* `EndsWhatRuns`: the request that ends is the one that was transferred; neither
  `disksort` nor the reading of the bad-sector table gets in front of it.
* `NeverIdle`: the driver does not return with a drive ready and the controller
  idle, nor with interrupts disabled while one is to come.
* `OrderSpec`: the refinement of `DiskOrder`.
* `Drains`: once requests stop coming, every drive works off its queue, or is
  forgotten (below).  Fairness: weak, of the driver's steps, of interrupts, of the
  hardware (what has begun ends), of the others on the UNIBUS (they give back what
  they have), and of the watchdog.  That requests stop is needed: `upwatch` counts
  seconds without *any* interrupt, so a drive whose attention was lost waits as long
  as the other one is busy.

Seen while modelling, and excepted by `Drains`.  `upintr` takes `sc_softas` and clears
it (`up.c:528`), and then may return early to continue a transfer or to recalibrate;
the drives that were in it are forgotten, although the comment in `upustart`
(`up.c:305`) says they are remembered.  If such a drive was idle, its requests stay in
the queue, unseen by `upwatch`, until another request for the drive comes or the UNIBUS
is reset.

Proofs (`UpDriverProofs.tla`), for all drives, requests, cylinders and bounds:

* `TypeCorrect`, `AlwaysEndsWhatRuns`, `AlwaysReadySound`, `AlwaysNeverIdle`: all that
  the run checks of safety but the refinement.  None of them is inductive alone.
  - `Held`: who waits for the UNIBUS is about to transfer and not recalibrating, a
    recalibration keeps the controller active, `upstart` is entered only when it is not.
  - `Lined`: the ready queue has no drive twice; a drive that says it is ready has a
    request and is there (or is one that the reset has still to come to); whoever is
    there says so, but for the drive of the transfer.  With `Held`, that is `ReadySound`.
  - `Turns`: the loops over the drives get to a drive on the ready queue only while the
    controller is active, or when that drive says so; the driver returns with the
    controller idle only if the queue is empty.  That is half of `NeverIdle`.
  - `HInv`: but within the attention loop, interrupts are enabled or the UNIBUS is
    waited for as long as anything is pending.  That is the other half; it needs that
    `NONE` is not the name of a caller, which `UpDriverAssumption` says.

  The lemma they rest on is `DisksortSeq`: a request is never put in front
  of the head of a queue, because there is a least place among those it could go to
  (`NatMin`, from the well-foundedness of the natural numbers) and it goes behind it.

* `RequestsInOrder`: the driver implements `DiskOrder` if `OneCylinder`: a drive that is
  to be set up late (`Fresh`) has requests for one cylinder only.  Without that it does
  not: with three requests for such a drive, `bupbuf` is pushed in front of a queue of two
  sweeps, which makes three, although `disksort` counts on two (`ufs_dsort.c:6`), and
  `disksort` can put a request in front of an earlier one for the same cylinder.  The run
  has two requests for that drive.
  - `Sweeps` is the invariant of a queue, the one the comment of `disksort` describes: an
    ascending run from the request at work, then an ascending run of requests below
    it.  From it follows that nothing behind the place of insertion is for the same
    cylinder (`DisksortPlace`), and it survives an insertion (`DisksortSweeps`) and the
    end of the first request (`TailSweeps`), when the second sweep may become the first.
  - `Queued`: a queue holds requests for its drive, and at its head perhaps `bupbuf`.
  - `Among`, by which the queue is mapped to the lines of `DiskOrder`, is recursive.  What
    it gives for a longer or shorter list (`AmongLast`, `AmongOther`, `AmongTail`) is shown
    by giving the function that solves the recursion, which is unique.

Only model-checked: `Drains`.

## Sleeping, running, stopping and swapping

`ProcSwitch.tla` composes `sleep`, `wakeup`, `setrun` and the run queue
(`kern_synch.c`, `locore.s`), signals (`kern_sig.c`), `exit` and `wait`
(`kern_process.c`), and `sched` with `swapout` and `swapin` (`vm_sched.c`,
`vm_swap.c`).  They are in one module because each of them moves processes that the
others are in the middle of moving.

| specification | code |
|---|---|
| `kern.stat`, `wchan`, `sig`, `cursig`, `pptr` | `p_stat`, `p_wchan`, `p_sig`, `p_cursig`, `p_pptr` |
| `kern.runq`, `load`, `wted`, `intr` | who is on a run queue, has `SLOAD`, has `SWTED`, sleeps above `PZERO` |
| `kern.runout`, `wantin`, `runin`, `panic` | the flags of the same names; whether one of the panics has happened |
| `cur`, `pc`, `back` | `u.u_procp`; where each process is in the kernel, and where its sleep returns to |
| `ready` | events that have happened and have not been used |
| `inp`, `todo`, `skipped` | `sched`: whom it has chosen, whom it has still to look at, whom it passed over because of page-outs |

The helpers (`Setrq`, `Wakeup`, `Setrun`, `Psignal`, `Stop`, `Issig...`) are functions
from one state of `kern` to the next, as the routines call each other within one step.
Steps end where interrupts come in and matter:

| action | code |
|---|---|
| `SleepEvent`, `SleepIssig`, `SleepReturn` | `while (!event) sleep(...)`: up to the first `swtch`; after a stop in `issig`; after the `swtch` |
| `Wait`, `WaitReap`, `WaitStopped`, `WaitNone`, `WaitSleep` | `wait1`: the look at the children, and, as interrupts come between, its sleep |
| `ReturnIssig`, `Psig` | the end of `syscall` and `trap` |
| `Rexit`, `ExitChild`, `ExitDone` | `exit`: from `SZOMB`, one child after the other, the news to the parent |
| `SchedLoop`, `SchedLook`, `SchedIdle`, `Swapin`, `SwapinDone`, `Hardswap`, `Swapout` | `sched`, one step for each entry of the process table it looks at |
| `Ptexpand` | a growing process swaps itself out |
| `Signal`, `Event`, `Swapio`, `Schedcpu` | interrupts: `psignal` from the keyboard or another process, a driver's `wakeup`, the end of a swap transfer, the clock |
| `Dispatch` | `swtch` takes a process off its queue |
| `InitReaps` | process 1 waits for those it has inherited |

The run `switch` has a shell and its job, which gets `TSTP` and `CONT` at any time;
one event both may sleep for, interruptibly or not; memory that may be short at any
time and swap space that may be used up.  All channels are on one chain of `slpque`,
so that the firewall of `wakeup` sees every sleeper.  `CHECK_DEADLOCK` is off because
both may have exited and nothing need happen then.

* `NoPanic`: none of the panics in `sleep`, `wakeup`, `setrun`, `setrq`, `remrq`,
  `swtch`.
* `QueuesSound`: `Queued`, on the run queue are exactly those in core that can run, but
  for the current one; `OnTheirChain`, who sleeps is on a chain, and who is on one
  sleeps or is stopped.
* `NothingMissed`: nobody sleeps for an event that has happened (`EventSeen`), in `wait`
  beside a child that has ended (`ZombieSeen`), or over a signal to be acted on
  (`SignalSeen`).
* `NoneForgotten`: `sched` does not sleep on `runout` while somebody wants in.
* `StaysStopped`: what is stopped is started only by `CONT` or `KILL`.

### Proofs

`ProcSwitchProofs.tla` proves all five, and `TypeCorrect`, for any number of processes,
any family of theirs, any events and signals, and any choice of what each process
catches, holds and ignores.  None is inductive.  `Inv`, which TLC has checked on the
instance of `switch` as well, has

* `TypeOK`, where a process of the kernel (`SCHED`) and one of a user are at different
  places (`pc`), and `sched` has chosen a process where the code uses it;
* `Core`: no panic; `QueuedOK` and `ChainOK`, which processes are on the run queue and on
  the chains; `sched` is in core and never stops or ends; the current process runs, or is
  a zombie that has not left yet;
* `Alert`: while `sched` sleeps on `runout` the flag `runout` is set, so that the next
  `setrun` of a swapped out process wakes it;
* `Lull`: what may be pending for a process that sleeps interruptibly, or was stopped
  while it did: to a sleeper nothing but `CHLD` of what is to be acted on, to a stopped
  one also signals to stop and to continue;
* `Place`: whose entry is `SZOMB` or `NULL` is in `exit` or gone; between the look of
  `wait` at the children and its sleep, and in `exit`, nobody else runs; who sleeps in
  `wait` beside an ended child is a parent whose child is still in `exit`, and will be woken;
* `OffReady`: nobody is on the chain of an event that has happened;
* `Turn`: the process that runs is in core;
* `Chosen`: whom `sched` has looked at and not found wanting does not want in, as long as
  `wantin` is not set; so nobody does when it sleeps on `runout`.

A step is one call of a helper after another on the whole table `kern`, and the helpers
call each other (`psignal` calls `stop`, `setrun` and, for a stop that must not be,
`psignal`; `stop` calls `psignal` and `wakeup` on the parent).  What any number of them,
one after the other, leave alone is put into relations between two tables that compose:
`Calm` (nobody is loaded, ended or put to sleep; whoever becomes runnable while swapped out
has `wantin` set; who is quiet stays quiet), `Gentle` (`Calm`, and no `CONT` or `KILL` is
taken away: needed because a signal to stop takes `CONT` away), and `Heeds` (if `sched`
would be woken, it is).  `PsignalIs`, `StopIs`, `WakeupIs`, `SetrunIs` prove them of each
helper, `CalmTrans`, `GentleTrans` and `HeedsTrans` compose them, and each action is then
shown to keep `Inv` from the relation between `kern` and `kern'` and from what it does to
`cur`, `pc` and what `sched` remembers.  `StoppedStaysStopped` falls out of the same
relations: where one starts what is stopped, `CONT` or `KILL` is pending at the end.

`SignalSeen` is *not* true of every system of processes, and the proof showed it:

* A process with a handler for `CHLD`, asleep where signals may disturb it, is stopped with
  a `CHLD` pending that came with the signal to stop (`issig` takes the lower number first,
  and stops on the chain of the sleep).  `CONT` then puts it back to `SSLEEP`
  (`kern_sig.c:365`) without looking at what is pending, and it sleeps over the `CHLD`
  until its event happens or another signal comes.  The comment at `kern_sig.c:389` wants
  a process unstuck "so that when it is continued it can look at the signal"; `psignal`
  does so for signals that come while it is stopped, but not for one pending before.
  TLC finds it in twelve steps with `STOP` and `CONT` sent to the shell and `CHLD` caught.

So `NothingIsMissed` assumes that nobody catches `CHLD` (as in the run), and
`OnlyChldMissed` says without hypotheses that nothing but a `CHLD` is ever slept over.

Assumed of the constants, beyond their types: `KILL` and `STOP` are not caught, held or
ignored (`sigvec` and `sigblock` see to it); who gets `TSTP` may get `KILL`, which
`psignal` makes of a `TSTP` to a child of `init`; `SCHED` is no user process and not
process 1; and events, processes and the addresses `sched` and the swap code sleep on
(`Apart`) are different addresses.

Seen while modelling:

* `wait` may sleep beside a child that has *stopped*: the stop may come between the look
  at the children and the sleep (`kern_process.c:780`), as may a child's end; but an
  ending child is a zombie before it wakes its parent and again wakes it later in
  `exit`, while `stop` wakes it once.  `NothingMissed` says nothing of stopped children
  for that reason.
* `p_cursig` keeps `TSTP` after a stop; if by the time it is continued another signal to
  stop has been cancelled or is held, `issig` is not called (`ISSIG` is false) and
  `psig` (`trap.c:143`, `264`) acts on the old one: a process without a handler ends.
* A process that `sched` passes over because of page-outs (`p_poip`) waits until
  `vmmeter` wakes `sched` for another reason.  Hence `skipped` in `NoneForgotten`.

Left out: tracing, `fork` and `vfork`, priorities (only whether a sleep is
interruptible), handlers and masks that change, and `sendsig`.

## The inode cache

`InodeCache.tla` is `ufs_inode.c` and what its callers do between `iget` and `iput`.

| specification | code |
|---|---|
| `inode[s]` | `i_number`, `i_flag`, `i_count`, and of `i_ic` the mode, the number of links and one bit for everything else |
| `hashed`, `ifree` | the slots on a hash chain; the free list from `ifreeh` to `ifreet` |
| `dinode`, `used` | inodes in the buffers or on the disk; `cg_iused` |
| `dir`, `dirlock`, `updlock` | one directory, who has locked it, `updlock` |
| `proc[p]` | where a process is, its call, its slot, its open file |

`Iget` is a call of `iget` up to its first sleep: `IgetBusy` (sleep on a locked inode),
`IgetHit`, `IgetMiss` (a free slot takes the number, goes on the chain, and is read),
`IgetFull`; `IgetLoop` is `goto loop` after the sleep, `IgetRead` and `IgetError` the
end of the read.  `Irele` is `irele` up to a sleep: another reference remains; the file
has no links (`Itrunc`, `Ifree`, `IreleUpdated`); it has changed (`IreleUpdated`); or
nothing is to be done.  `Open`, `Creat`, `Unlink`, `Close`, `Sync` and what follows
them (`OpenDone`, `Maknode`, `Direnter`, `Dirremove`, `Ilock`, `SyncInode`,
`SyncUpdated`) are the callers: `namei` reads the directory with it locked, and unlocks
it before `iget` when the name is only looked up.

The run `inodes`: two processes, two slots and three inodes, one of which, or its
cylinder group, may be unreadable, one name; all the calls.  Two slots for three inodes have every slot change
hands, with fewer free slots than wanted, and two processes meet at every pair of
sleeps.  `CHECK_DEADLOCK` is off because the kernel stops at a panic (below).

* `SlotsSound`: an inode is in core once (`SoleInode`), `i_count` is the number of
  processes that have it (`RefsCounted`), the free list has the slots without references
  and no other (`OnFreeList`).
* `LocksSound`: one owner of a locked inode, and who deals with one in several steps has
  it locked (`SoleOwner`); who waits for it will be woken (`NoLostWakeup`).
* `Kept`: what was done to an inode is on the disk or still marked.
* `StaysThatFile`: an open file's slot does not become another's.

`InodeCacheProofs.tla` proves all four, and `TypeCorrect`, for any number of processes,
slots, inodes and names, from `InodeCacheAssumption` (finitely many processes, at least
one slot, no file with the number 0).  The invariant `Inv` puts every property in terms
of the claims of a process on a slot, which its record shows: it refers to it, owns its
lock, waits for it, has it alone, is reading it.  `Counting` and `Locking` are
`RefsCounted` and `SoleOwner` in these words.  What has to be added to make it inductive:

* `Fitting`, that records make sense (an open file only between system calls, a slot
  where one is dealt with);
* `Alone`, that who reads an inode into its slot, or is in `irele` with the last
  reference, has the only reference, and that a slot being read is hashed.  This is the
  heart of it: nobody can add a reference to a locked inode, so the count that `irele`
  saw before it slept is still right when it puts the slot on the free list;
* `Naming`, that the slots with a number are the hashed ones.  `iget` takes any slot
  from the free list, and this says that the one it takes is on no other chain.

A step deals with one slot, and others' records change only when they are woken.  So
`StepInv` says once what suffices for a step (how it changes the slot's record and the
claims of its process), lemmas specialise it to steps that keep, take and let go the
lock, and to `irele` (`OwnInv`, `LockInv`, `UnlockInv`, `IreleInv`), and each action
is shown to be one of these.  `Kept` needs that only the owner of a slot has its inode
written; `StaysThatFile` that a slot changes its number only without references
(`IgetMiss`) or by who has the only one (`IgetError`).

Seen while modelling (each of the first three ends in a panic; the model stops there):

* `namei` unlocks the directory (`ufs_nami.c:439`) before `iget`.  If `unlink` removes
  the last link meanwhile and frees the inode, `open` gets one without links, and the
  `iput` that follows frees it a second time: `ifree: freeing free inode`
  (`ufs_alloc.c:839`).  The comment at `ufs_syscalls.c:319` knows of such races: "Hard
  to avoid races here, especially in unlinking directories."
* When `iget` cannot read an inode it calls `iput` (`ufs_inode.c:194`), which finds the
  number of links of the slot's last inode; if that was 0 it frees inode 0.
* `ialloc` calls `ifree` with what `iget` returned, `NULL` included (`ufs_alloc.c:212`).
* `irele` loses a change when `iupdat` cannot read the block of the inode, and an inode
  without links stays allocated when `ifree` cannot read its cylinder group.
* With `QUOTA`, `iget` sleeps in `dqrele` (`ufs_inode.c:166`) before the slot's number
  is set; `umount` against a sleeping `iget` leads to `iget: bad fs`; `sumount`
  (`sys_xxx.c:217`) flushes the device before the inodes are written back.  These are
  outside the model.

Left out: `iflush`, mount points, quotas, contents of files and directories, `link` and
`rename` (an inode has one name, or none), and the locks of `flocki`.

## TCP

`Tcp.tla` is a connection: two machines that run `tcp_input`, `tcp_output`, the timers
and `tcp_usrreq`, their stream sockets, and two users.  `ByteStreams.tla` says what is
promised: each way a stream, in order, each byte once, no end before its time, and
nothing dropped from the send buffer that has not arrived.

`conn[e]` is the `tcpcb` (`snd_una`, `snd_nxt`, `snd_max`, `snd_wnd`, `rcv_nxt`,
`rcv_adv`, the reassembly queue, `t_flags`, the timers, `t_rxtshift`) with the socket
(`sb_cc` of both buffers, `so_state`).  Sequence numbers wrap at `M` and are compared as
the macros of `tcp_seq.h` do.  A byte is its place in the stream.  All TCP code runs at
`splnet`, so an action is one segment, timer or call with all the output it causes.

| action | code |
|---|---|
| `Input...` | `tcp_input`, one action for each of its ends: no connection, `LISTEN`, `SYN_SENT`, not acceptable (`dropafterack`), data for a closed socket, `RST`, a SYN in the window, a bad acknowledgement, `LAST_ACK`, and the rest (`Acked`, `Window`, `Text`, and `tcp_output`) |
| `Output` | `tcp_output` and its `goto again` |
| `Insert`, `Present` | `tcp_reass` |
| `Fasttimo`, `Rexmt`, `Persist`, `Msl2` | `tcp_fasttimo`, `tcp_timers` |
| `Connect`, `Send`, `Receive`, `Shutdown`, `Close`, `CloseWoken` | the socket calls with their `tcp_usrreq`; `soclose` sleeps while `SS_CONNECTED` |

A *plan* says what the users do, and how much goes wrong: bytes to write each way, how
each closes (`linger`, `drop` is `SO_DONTLINGER`, `half` shuts down and reads on,
`serve` reads to the end first), and the number of faults.  A fault is a segment lost,
one that comes twice, one that overtakes, or a timer that expires with segments on
their way; one budget serves for all, so all combinations of that number are tried.
Without a fault timers expire when the network is quiet, in the order of their lengths.

The run `streams` has eight plans (in one of them four faults, so that a listener gives
up a connection the other end has, and begins another at a copy of the first SYN), with buffers of two bytes and segments of one: the
window closes, opens, and is probed; retransmission gives up after two.  Initial
numbers are 61 and 62 in a space of 64, so that numbers wrap among the bytes that are
sent, or between them and the FIN.  `ISSINCR` is 2: as in the code (64, with windows of
2048 and more) the SYN of a listener's next connection lies in the window of an end that
is still in the last one, and resets it, while an old acknowledgement is none of the new
SYN.  `CHECK_DEADLOCK` is off because a connection ends.

* `BlocksSound`: what one end knows of the other is not ahead of it, once both are past
  the handshake (`Agreed`); the
  retransmission timer runs whenever something is outstanding, never with the persist
  timer, and 2MSL runs alone (`Watched`).
* `StreamSpec`: the refinement of `ByteStreams`.
* `Arrives`: once both ends are connected, all that one writes reaches the other, and so
  does its end, unless somebody breaks off.
* `Settles`: timers come to rest, and nobody waits in `close` for ever.

Fairness is weak and written out (`FairSpec`): the network delivers, clocks run, a
retransmission timer that stays on expires, users go on.  `WF_vars` of these large
actions says the same at many times the cost.

Finding `lastack`: an end that closes with more to send than the window admits can be
left in `LAST_ACK` for ever, with its data, no timer and nothing on its way, although
no segment is lost.  One end has shut down and reads on; the other writes more than the
window and closes.  `tcp_input` takes it that "The only thing that can arrive in LAST_ACK
state is an acknowledgment of our FIN" (`tcp_input.c:548`), and drops the segment (556)
before it looks at the window or calls `tcp_output`.  The acknowledgement of the data
that was outstanding clears the retransmission timer; nothing sets another one, against
`tcp_timer.h:26`: "If all previous transmissions have been acknowledged ... and the
window is shut, then we start the TCPT_PERSIST timer".  The closing process sleeps in
`soclose` and the reader in `soreceive`.  The run `lastack` has this plan (`Trailing`: four
bytes, buffers of two, no faults); the last state of its trace has no successor.

Seen while modelling, without a run:

* A sender with data, a closed window and nothing outstanding can be left with no timer
  in other states than `LAST_ACK` too: `tcp_output` clears the persist timer whenever it
  sends anything that is not forced, an acknowledgement included (`tcp_output.c:278`),
  and having sent it, it does not come to the lines that would set the timer (127 to 131).
  The data waits until the next call or segment.
* When both ends send while the window is closed (`serve` with three bytes against
  `half`) the connection may fail to settle with no fault at all: a forced byte that was
  accepted leaves `snd_nxt` behind what the peer acknowledges, later acknowledgements
  count as old, and retransmission gives up.
* A forced segment counts one byte only, whatever it carries.  In `FIN_WAIT_1` and
  `LAST_ACK` that may be the FIN as well, and its acknowledgement is then refused as one
  beyond `snd_max`, until 2MSL or a reset ends the connection.  In `LAST_ACK` it may also
  be a full segment: an acknowledgement that is dropped there leaves the persist timer on,
  and `snd_wnd`, a `u_short`, at 65535 when it was 0.  `snd_max` is then not the "highest
  sequence number sent" (`tcp_var.h:50`).  `Agreed` allows for both; that the second one
  happens is seen with buffers of three bytes and segments of two, when the end that
  writes six bytes closes last and one window update is lost.
* With a copy of the first SYN on its way, a listener that has given up after its
  retransmissions goes to `SYN_RECEIVED` again, with a new initial number, while the
  other end is still `ESTABLISHED` with the old one.  `Agreed` therefore leaves
  `SYN_RECEIVED` out; the half-open connection ends with a reset.
* Hence the plans of `streams`: `Arrives` and `Settles` do not hold of an end that goes on
  writing into a closed window after the other has shut down.
* If the last acknowledgement of the handshake is lost and the client is silent, the
  retransmitted SYN gets no answer (`tcp_input.c:337`, against the comment at 331): the
  server gives up.  That is why `Arrives` starts when both are connected.
* While its own FIN is outstanding an end may send no acknowledgements (`len < 0` returns
  from `tcp_output`).
* A FIN is held back by an unsigned comparison (`tcp_output.c:67`).  When two bytes that
  lie before and behind the end of the sequence space are sent again after the user has
  closed, the sum on the right has wrapped, that on the left has not, and the first byte
  takes the FIN with it: the reader is told of the end one byte too soon.  With the
  numbers of `streams`, a plan of two bytes (`linger` against `serve`), one timer that
  expires early and one segment that overtakes show it.  In the plans of the run the
  first of such bytes is acknowledged before the user closes.
* `soshutdown` in `SYN_RECEIVED` leads to `FIN_WAIT_2` without a FIN; `FIN_WAIT_2` waits
  for ever if the peer's RST is lost; a simultaneous open leaves `snd_una` at 0.

What is proved.  `AlwaysWatched`: `Watched` holds for every sequence space `M`, buffers,
segment size, `MAXRXTSHIFT`, initial numbers and plans, with no bound on the faults, under
`Roomy`: `2 * (hiwat + 4) < M`.  Without room the signed comparison of `tcp_seq.h` cannot
tell what is outstanding from what is old; in the code `M` is 2^32 and `sb_hiwat` a
`u_short`, and the run has 64 and 2.  The inductive invariant is `TcpInv` (theorem
`BlocksInv`), of which TLC checked all but the types first.

* `Counted`: `snd_una <= snd_nxt <= snd_max`, as distances, with `snd_max` at most the
  buffer and one (a SYN or FIN) ahead.  `Watched` alone is not inductive: an acknowledgement
  resets the timers by comparing `snd_max` with what is acknowledged, and that says
  something only when neither can have passed the other.  One byte may be outstanding
  without the retransmission timer, the one that a forced segment counts; more may not.
* `Clocked`: timers exclude each other, which is why `Persist` may force a byte only when
  no retransmission is pending; in `FIN_WAIT_2` and `TIME_WAIT` nothing is left to send;
  before the connection stands the buffer is empty and the window not negative.
* `Called`: which states of a socket go with which states of the block.  It is what keeps
  a connection that is being closed from sending more, so that the FIN stays the last.
* `Travels`: a SYN on its way is the active end's first, or the answer to it, carries no
  data, and an answer acknowledges the first number and no other.

The proof follows the code: what one pass of `tcp_output` leaves behind
(`OutputOneReady`), then any number of passes; `tcp_reass` keeps the queue well typed and
touches no clock (`InsertType`, `PresentIn`); an acknowledgement (`AckedLive`); each end
of `tcp_input`; each timer; each call.  `Output` and `Present` are recursive functions:
`Iterates` shows, by choosing a least number for which it would fail, that a function
with such a definition exists and stays in any set that a step stays in.

Left out: the keep-alive timer, urgent data, options, simultaneous open, no mbufs, a
listener with several connections (the socket that `sonewconn` makes is the listener's
own here), non-blocking sockets, processes killed in a call.  Users shut down and close
what has been connected: `tcp_usrclosed` in `LISTEN`, `SYN_SENT` or `SYN_RECEIVED`, and
`tcp_disconnect` before `ESTABLISHED`, are left out with them.

## Limits of the proofs

Liveness under fairness is out of the prover's reach and stays with TLC:
`SleepersWake`, `Met`, `Drains`, `Arrives`, `Settles`.  The provers do no induction over
data: that a definition by recursion or fold has some property for every input.  What
the theorems need of sums and of filtered lists is proved all the same, because the
library's facts on well-founded orders give a least input for which it would fail.

Checked by TLC and not proved, for another reason: `Agreed` (the other half of
`BlocksSound`) and `StreamSpec` of `Tcp`.  They are about both ends and every segment
on its way, and do not hold for every value of the constants: when a user writes more
than the sequence space, a segment that is overtaken often enough comes back when its
numbers mean something else.  The code relies on the lifetime of segments there; a plan
bounds what is written and how often something is overtaken, and the runs stay within it.
`StreamSpec` besides depends on where the numbers wrap (`tcp_output.c:67`, above).

Proved under a hypothesis:
`SoleMapping`, `Coherent`, `NothingDropped`, `OwnedStable` and `FlushReachesDisk` of the
buffer cache, where no header needs the memory of another (`Ample`); where one does, the
code does not keep `SoleMapping`; and `Watched` of `Tcp`, where the sequence space has
room (`Roomy`).  All
modules with theorems, and those they extend, are free of `RECURSIVE`.

tlapm misreads an `@` inside the index or the value of another `EXCEPT`; modules that
are proved about write out the inner value instead.

Type invariants that are proved are not checked by a run of their own as well.

## Not modelled

The repository is a whole system of some 600 000 lines, nearly all of them sequential
programs (compilers, editors, shells, games, libraries) that share no state.  What these
specifications cover is in the kernel, and there the parts whose steps interleave.  Of
the kernel, the following is left out.

* Quotas (`quota_*.c`): compiled only with `QUOTA`.
* Local sockets, datagrams and `select`: the next candidates; `select` against
  `selwakeup` is the protocol of interest.
* mbufs: reference counts changed at `splimp` without a sleep.
* Terminals: sequential under one `spl`; flow control is the hardware's.
* Paging (`vm_page.c`, `vm_mem.c`, `vm_text.c`): large, and its locks (`mlock`, `munlock`)
  are the pattern already modelled for buffers and inodes.
* Other drivers: `hp.c` and `mba.c` have the shape of `up.c` and `uba.c`.
* Interfaces, routing, IMP, PUP: table look-ups; VAX support code: hardware behaviour for
  which there is no model here.
* Commands, libraries, games: nothing concurrent; `init` and `fsck` would come first.

## What is left

In this order.

1. `Select`: `select` against `selwakeup`, with the collision flag, timeouts and signals.
2. `fork` and `vfork` in `ProcSwitch`, `iflush` and mount points in `InodeCache`, a
   listener's queues in `Tcp`.
3. Text and page locking.
