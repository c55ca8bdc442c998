----------------------------- MODULE InodeCache -----------------------------
(***************************************************************************)
(* The table of inodes in core (sys/sys/ufs_inode.c): iget, iput, irele,   *)
(* iupdat and the locks, as open, close, creat and unlink (ufs_nami.c,     *)
(* ufs_syscalls.c, kern_descrip.c), ialloc and ifree (ufs_alloc.c) and     *)
(* update (ufs_subr.c) use them, on one file system with one directory.    *)
(*                                                                         *)
(* The kernel is not preempted: from one sleep to the next is one step.    *)
(* Every read or write of a block may sleep, and what it does to the block *)
(* is done when it returns.  Of the contents of a file only whether it     *)
(* has been changed is kept; of its inode the mode (FREE when it is zero), *)
(* and the number of links.  The directory is always in core; its lock is  *)
(* dirlock.  There are no quotas (the option QUOTA) and no mount points.   *)
(***************************************************************************)
EXTENDS Naturals, FiniteSets, SequencesExt

CONSTANTS
  Procs,
  Inodes,     (* the number of slots of the table                          *)
  Inos,       (* the numbers of the inodes of the file system              *)
  Names,      (* the names in the directory                                *)
  Ops,        (* what processes do: open, creat, unlink, sync              *)
  BadInos,    (* those that, or whose cylinder group, may fail to be read  *)
  NONE

ASSUME InodeCacheAssumption ==
  /\ Inodes \in Nat \ {0}
  /\ Inos \subseteq Nat \ {0}
  /\ Ops \subseteq {"open", "creat", "unlink", "sync"}
  /\ BadInos \subseteq Inos /\ IsFiniteSet(Procs)
  /\ NONE \notin Procs /\ NONE \notin 1 .. Inodes /\ NONE # "sync"

Table == 1 .. Inodes
Noino == 0              (* inode 0, which no file has                      *)
Dinode == [mode : {"FREE", "FILE"}, nlink : 0 .. 1, data : 0 .. 1]
Empty  == [mode |-> "FREE", nlink |-> 0, data |-> 0]

VARIABLES
  inode,    (* the table                                                   *)
  hashed,   (* the slots that are on the hash chain of their number        *)
  ifree,    (* the free list, from ifreeh to ifreet                        *)
  dinode,   (* the inodes on the disk, that is, in its buffers             *)
  used,     (* cg_iused: those allocated                                   *)
  dir,      (* the number each name has, or Noino                          *)
  dirlock,  (* who has the directory locked                                *)
  updlock,  (* someone is in update                                        *)
  proc,     (* where each process is                                       *)
  panic     (* what the kernel has stopped for                             *)

vars == <<inode, hashed, ifree, dinode, used, dir, dirlock, updlock, proc, panic>>

Inode == [ino : Inos \cup {Noino}, flag : SUBSET {"LOCKED", "WANT", "CHG"},
          count : 0 .. 2 * Cardinality(Procs), ic : Dinode]

(* pc is where it is; ip the slot it deals with; fd the file it has open;  *)
(* todo the slots that update has still to look at.                        *)
Proc == [pc : {"user", "iget", "isleep", "iread", "use", "remove", "make",
               "enter", "ilock", "lsleep", "trunc", "ifree", "iupd",
               "sync", "supd"},
         op : Ops \cup {"close", NONE}, ino : Inos \cup {Noino},
         name : Names \cup {NONE}, ip : Table \cup {NONE},
         fd : Table \cup {NONE}, todo : SUBSET Table]

-----------------------------------------------------------------------------
(* Locks.                                                                  *)

Up(p, at) == panic = NONE /\ proc[p].pc = at
Is(s, f)  == f \in inode[s].flag
Locked(t, s)     == [t EXCEPT ![s].flag = @ \cup {"LOCKED"}]
Counted(t, s, n) == [t EXCEPT ![s].count = n]
Want(t, s)       == [t EXCEPT ![s].flag = @ \cup {"WANT"}]
Unlocked(t, s)   == [t EXCEPT ![s].flag = @ \ {"LOCKED", "WANT"}]

(* One more reference to s, which is now locked.                           *)
Held(s) == Counted(Locked(inode, s), s, inode[s].count + 1)

(* iunlock of s by p, which goes on as r: whoever sleeps on s is woken.    *)
(* (Variant: IWANT is cleared, but nobody is woken.)                       *)
WakesNobody(s, p, r) == [proc EXCEPT ![p] = r]

Wakes(s, p, r) ==
  [q \in Procs |->
     IF q = p THEN r
     ELSE IF Is(s, "WANT") /\ proc[q].ip = s /\ proc[q].pc \in {"isleep", "lsleep"}
       THEN [proc[q] EXCEPT !.pc = IF proc[q].pc = "isleep" THEN "iget" ELSE "ilock"]
     ELSE proc[q]]

At(p, pc, s) == [proc[p] EXCEPT !.pc = pc, !.ip = s, !.fd = NONE]
User(p, fd) == [pc |-> "user", op |-> NONE, ino |-> Noino, name |-> NONE,
                ip |-> NONE, fd |-> fd, todo |-> {}]

(* What follows the last irele of a system call: the directory is let go.  *)
Return(p) ==
  IF proc[p].op = "sync" THEN [proc[p] EXCEPT !.pc = "sync", !.ip = NONE]
  ELSE User(p, NONE)
DirRelease(p, d) == dirlock' = IF d = p THEN NONE ELSE d

-----------------------------------------------------------------------------
(* iupdat of s, when its block is there: ok unless that cannot be read.    *)

Readable(s, ok) == ok \/ inode[s].ino \in BadInos
Iupdat(s, ok) ==
  dinode' = IF ok THEN [dinode EXCEPT ![inode[s].ino] = inode[s].ic] ELSE dinode
Clean(t, s, ok) ==
  IF ok THEN [t EXCEPT ![s].flag = @ \ {"CHG"}] ELSE t

-----------------------------------------------------------------------------
(* irele and iput.                                                         *)

(* The end of irele: to the tail of the free list.                         *)
Released(t, s) == [t EXCEPT ![s].flag = {}, ![s].count = 0]

(* What is left to do before the last reference may go.                    *)
(* (Variant: an inode that has been changed is not written.)               *)
NextPcUnwritten(t, s) == IF t[s].ic.nlink = 0 THEN "trunc" ELSE "done"

NextPc(t, s) == IF t[s].ic.nlink = 0 THEN "trunc"
                ELSE IF "CHG" \in t[s].flag THEN "iupd" ELSE "done"

(* irele of s in the table t by p, while d has the directory locked.       *)
Irele(p, t, s, d) ==
  \/ /\ t[s].count # 1
     /\ inode' = Counted(t, s, t[s].count - 1)
     /\ proc' = Wakes(s, p, Return(p)) /\ DirRelease(p, d) /\ UNCHANGED ifree
  \/ /\ t[s].count = 1 /\ NextPc(t, s) # "done"
     /\ inode' = Locked(t, s) /\ dirlock' = d
     /\ proc' = Wakes(s, p, At(p, NextPc(t, s), s)) /\ UNCHANGED ifree
  \/ /\ t[s].count = 1 /\ NextPc(t, s) = "done"
     /\ inode' = Released(t, s) /\ ifree' = Append(ifree, s)
     /\ proc' = Wakes(s, p, Return(p)) /\ DirRelease(p, d)

Iput(p, t, s) == Irele(p, Unlocked(t, s), s, dirlock)

(* The last reference to a file without links: itrunc writes the inode     *)
(* (unless it is empty), ifree reads the cylinder group, iupdat the        *)
(* inode's block.                                                          *)
Itrunc(p) == \E ok \in BOOLEAN :
  LET s == proc[p].ip IN
  /\ Up(p, "trunc") /\ Iupdat(s, ok)
  /\ inode' = [inode EXCEPT ![s].ic = Empty, ![s].flag = @ \cup {"CHG"}]
  /\ proc' = [proc EXCEPT ![p] = At(p, "ifree", s)]
  /\ UNCHANGED <<hashed, ifree, used, dir, dirlock, updlock, panic>>
Ifree(p) ==
  LET s == proc[p].ip IN
  /\ Up(p, "ifree")
  /\ \/ /\ \/ used' = used \ {inode[s].ino} /\ inode[s].ino \in used
           \/ used' = used /\ inode[s].ino \in BadInos  (* left allocated  *)
        /\ proc' = [proc EXCEPT ![p] = At(p, "iupd", s)] /\ UNCHANGED panic
     \/ /\ inode[s].ino \notin used
        /\ panic' = "ifree: freeing free inode" /\ UNCHANGED <<used, proc>>
  /\ UNCHANGED <<inode, hashed, ifree, dinode, dir, dirlock, updlock>>
IreleUpdated(p) == \E ok \in BOOLEAN :
  LET s == proc[p].ip IN
  /\ Up(p, "iupd") /\ Readable(s, ok) /\ Iupdat(s, ok)
  /\ inode' = Released(inode, s) /\ ifree' = Append(ifree, s)
  /\ proc' = Wakes(s, p, Return(p)) /\ DirRelease(p, dirlock)
  /\ UNCHANGED <<hashed, used, dir, updlock, panic>>

-----------------------------------------------------------------------------
(* iget by p, whose record is r (its system call, and the number of the    *)
(* inode), while d has the directory locked.                               *)

Cached(i) == {s \in hashed : inode[s].ino = i}
Without(q, s) == RemoveAt(q, CHOOSE i \in DOMAIN q : q[i] = s)
Then(r, pc, s) == [r EXCEPT !.pc = pc, !.ip = s]

(* What the callers do with the inode, which they have locked.  ialloc     *)
(* expects one that is free.                                               *)
Following(r) == CASE r.op = "open" -> "use" [] r.op = "unlink" -> "remove"
              [] r.op = "creat" -> "make"
New(t, s) == [t EXCEPT ![s].ic = [mode |-> "FILE", nlink |-> 1, data |-> 0],
                       ![s].flag = @ \cup {"CHG"}]
Got(p, r, t, s) ==
  /\ inode' = IF r.op = "creat" THEN New(t, s) ELSE t
  /\ proc' = [proc EXCEPT ![p] = Then(r, Following(r), s)]
  /\ panic' = IF r.op = "creat" /\ t[s].ic.mode # "FREE" THEN "ialloc: dup alloc"
              ELSE panic

(* It is in core and locked.                                               *)
IgetBusy(p, r) ==
  \E s \in Cached(r.ino) :
    /\ Is(s, "LOCKED") /\ inode' = Want(inode, s)
    /\ proc' = [proc EXCEPT ![p] = Then(r, "isleep", s)]
    /\ UNCHANGED <<hashed, ifree, panic>>

(* It is in core, in use or free.                                          *)
(* (Variant: a free one is not taken off the free list.)                   *)
OffListNever(s) == ifree

OffList(s) == IF inode[s].count = 0 THEN Without(ifree, s) ELSE ifree
IgetHit(p, r) ==
  \E s \in Cached(r.ino) :
    /\ ~Is(s, "LOCKED") /\ ifree' = OffList(s)
    /\ Got(p, r, Held(s), s)
    /\ UNCHANGED hashed

(* It is not: the slot at the head of the free list takes it.              *)
(* (Variant: it goes on the hash chain once it has been read.)             *)
HashedLate(s) == hashed \ {s}

Hashed(s) == hashed \cup {s}
IgetMiss(p, r) ==
  /\ Cached(r.ino) = {} /\ ifree # <<>>
  /\ LET s == Head(ifree) IN
     /\ inode' = [inode EXCEPT ![s].ino = r.ino,
                                  ![s].flag = {"LOCKED"}, ![s].count = @ + 1]
     /\ hashed' = Hashed(s) /\ ifree' = Tail(ifree)
     /\ proc' = [proc EXCEPT ![p] = Then(r, "iread", s)]
  /\ UNCHANGED panic

(* iget returns NULL, which ialloc hands to ifree as the inode that tells  *)
(* the file system.                                                        *)
Null(r) == IF r.op = "creat" THEN "ialloc: ifree(NULL)" ELSE panic
IgetFull(p, r) ==
  /\ Cached(r.ino) = {} /\ ifree = <<>>
  /\ proc' = [proc EXCEPT ![p] = User(p, NONE)] /\ panic' = Null(r)
  /\ UNCHANGED <<inode, hashed, ifree>>

Iget(p, r, d) ==
  /\ \/ (IgetBusy(p, r) \/ IgetHit(p, r) \/ IgetMiss(p, r)) /\ dirlock' = d
     \/ IgetFull(p, r) /\ dirlock' = IF d = p THEN NONE ELSE d
  /\ UNCHANGED <<dinode, dir, updlock>>

(* Once more, after the sleep on a locked inode.                           *)
IgetLoop(p) == Up(p, "iget") /\ Iget(p, proc[p], dirlock) /\ UNCHANGED used

IgetRead(p) ==
  LET s == proc[p].ip IN
  /\ Up(p, "iread")
  /\ hashed' = hashed \cup {s}
  /\ Got(p, proc[p], [inode EXCEPT ![s].ic = dinode[inode[s].ino]], s)
  /\ UNCHANGED <<ifree, dinode, used, dir, dirlock, updlock>>

(* The read fails; iput finds what the slot's last inode left there.       *)
IgetError(p) ==
  LET s == proc[p].ip IN
  /\ Up(p, "iread") /\ proc[p].ino \in BadInos
  /\ hashed' = hashed \ {s} /\ panic' = Null(proc[p])
  /\ Iput(p, [inode EXCEPT ![s].ino = Noino], s)
  /\ UNCHANGED <<dinode, used, dir, updlock>>

-----------------------------------------------------------------------------
(* The system calls.                                                       *)

Call(p, op, i, n) == [proc[p] EXCEPT !.op = op, !.ino = i, !.name = n]
Free(p) == Up(p, "user") /\ proc[p].fd = NONE

(* namei reads the name's number with the directory locked; for open it    *)
(* then unlocks it before iget.                                            *)
Open(p) == \E n \in Names :
  /\ Free(p) /\ "open" \in Ops /\ dirlock = NONE /\ dir[n] # Noino
  /\ Iget(p, Call(p, "open", dir[n], n), NONE) /\ UNCHANGED used
Unlink(p) == \E n \in Names :
  /\ Free(p) /\ "unlink" \in Ops /\ dirlock = NONE /\ dir[n] # Noino
  /\ Iget(p, Call(p, "unlink", dir[n], n), p) /\ UNCHANGED used
Creat(p) == \E n \in Names : \E i \in Inos \ used :
  /\ Free(p) /\ "creat" \in Ops /\ dirlock = NONE /\ dir[n] = Noino
  /\ used' = used \cup {i} /\ Iget(p, Call(p, "creat", i, n), p)

(* open looks at the inode, may change it, and keeps it unlocked; or it    *)
(* does not get access or a slot in the file table, or openi fails.        *)
Changed(s, d) ==
  [inode EXCEPT ![s].ic.data = d,
                ![s].flag = IF d = inode[s].ic.data THEN @ ELSE @ \cup {"CHG"}]
OpenDone(p) == \E d \in 0 .. 1 :
  LET s == proc[p].ip IN
  /\ Up(p, "use") /\ proc[p].op = "open"
  /\ \/ /\ inode' = Unlocked(Changed(s, d), s)
        /\ proc' = Wakes(s, p, User(p, s)) /\ UNCHANGED <<ifree, dirlock>>
     \/ Iput(p, Changed(s, d), s)
  /\ UNCHANGED <<hashed, dinode, used, dir, updlock, panic>>

(* dirremove, and the link less.                                           *)
Unlinked(s) == [inode EXCEPT ![s].ic.nlink = 0, ![s].flag = @ \cup {"CHG"}]
Dirremove(p) ==
  LET s == proc[p].ip IN
  /\ Up(p, "remove")
  /\ dir' = [dir EXCEPT ![proc[p].name] = Noino]
  /\ Iput(p, Unlinked(s), s)
  /\ UNCHANGED <<hashed, dinode, used, updlock, panic>>

(* maknode: the inode goes to the disk before the entry, which may fail;   *)
(* direnter then has let the directory go already.                         *)
Maknode(p) == \E ok \in BOOLEAN :
  LET s == proc[p].ip IN
  /\ Up(p, "make") /\ Readable(s, ok) /\ Iupdat(s, ok)
  /\ inode' = Clean(inode, s, ok)
  /\ proc' = [proc EXCEPT ![p] = At(p, "enter", s)]
  /\ UNCHANGED <<hashed, ifree, used, dir, dirlock, updlock, panic>>
Direnter(p) ==
  LET s == proc[p].ip IN
  /\ Up(p, "enter")
  /\ \/ /\ dir' = [dir EXCEPT ![proc[p].name] = inode[s].ino]
        /\ inode' = Unlocked(inode, s)
        /\ dirlock' = NONE /\ proc' = Wakes(s, p, User(p, s)) /\ UNCHANGED ifree
     \/ /\ Irele(p, Unlocked(Unlinked(s), s), s, NONE)
        /\ UNCHANGED dir
  /\ UNCHANGED <<hashed, dinode, used, updlock, panic>>

(* close: ilock, then iput.                                                *)
Ilock(p, s, r) ==
  /\ \/ /\ Is(s, "LOCKED") /\ inode' = Want(inode, s)
        /\ proc' = [proc EXCEPT ![p] = Then(r, "lsleep", s)]
        /\ UNCHANGED <<ifree, dirlock>>
     \/ ~Is(s, "LOCKED") /\ Iput(p, Locked(inode, s), s)
  /\ UNCHANGED <<hashed, dinode, used, dir, updlock, panic>>
Close(p) ==
  /\ Up(p, "user") /\ proc[p].fd # NONE
  /\ Ilock(p, proc[p].fd, [User(p, NONE) EXCEPT !.op = "close"])
IlockLoop(p) == Up(p, "ilock") /\ Ilock(p, proc[p].ip, proc[p])

(* update, for the inodes.                                                 *)
Sync(p) ==
  /\ Free(p) /\ "sync" \in Ops /\ ~updlock /\ updlock' = TRUE
  /\ proc' = [proc EXCEPT ![p].pc = "sync", ![p].op = "sync", ![p].todo = Table]
  /\ UNCHANGED <<inode, hashed, ifree, dinode, used, dir, dirlock, panic>>
Syncable(p) == {s \in proc[p].todo : ~Is(s, "LOCKED") /\ inode[s].count # 0}
SyncInode(p) ==
  \E s \in Syncable(p) :
    /\ Up(p, "sync") /\ \A t \in Syncable(p) : s <= t
    /\ inode' = Held(s)
    /\ proc' = [proc EXCEPT ![p] = [At(p, "supd", s) EXCEPT
                                      !.todo = {t \in @ : t > s}]]
    /\ UNCHANGED <<hashed, ifree, dinode, used, dir, dirlock, updlock, panic>>
SyncUpdated(p) == \E ok \in BOOLEAN :
  LET s == proc[p].ip IN
  /\ Up(p, "supd") /\ Readable(s, ok)
  /\ IF Is(s, "CHG") THEN Iupdat(s, ok) ELSE UNCHANGED dinode
  /\ Iput(p, Clean(inode, s, ok), s)
  /\ UNCHANGED <<hashed, used, dir, updlock, panic>>
SyncDone(p) ==
  /\ Up(p, "sync") /\ Syncable(p) = {} /\ updlock' = FALSE
  /\ proc' = [proc EXCEPT ![p] = User(p, NONE)]
  /\ UNCHANGED <<inode, hashed, ifree, dinode, used, dir, dirlock, panic>>

-----------------------------------------------------------------------------
Init ==
  /\ inode = [s \in Table |-> [ino |-> Noino, flag |-> {}, count |-> 0, ic |-> Empty]]
  /\ hashed = {} /\ ifree = [s \in Table |-> s]
  /\ dinode = [i \in Inos \cup {Noino} |-> Empty] /\ used = {Noino}
  /\ dir = [n \in Names |-> Noino] /\ dirlock = NONE /\ updlock = FALSE
  /\ proc = [p \in Procs |-> User(p, NONE)] /\ panic = NONE

Step(p) ==
  \/ Open(p) \/ Unlink(p) \/ Creat(p) \/ Close(p) \/ Sync(p)
  \/ IgetLoop(p) \/ IgetRead(p) \/ IgetError(p) \/ OpenDone(p) \/ Dirremove(p) \/ Maknode(p) \/ Direnter(p)
  \/ IlockLoop(p) \/ Itrunc(p) \/ Ifree(p) \/ IreleUpdated(p)
  \/ SyncInode(p) \/ SyncUpdated(p) \/ SyncDone(p)
Next == \E p \in Procs : Step(p)
Spec == Init /\ [][Next]_vars
FairSpec == Spec /\ \A p \in Procs : WF_vars(Step(p))

=============================================================================
