--------------------------- MODULE InodeCacheProps --------------------------
(***************************************************************************)
(* What the table of inodes in core promises.                              *)
(***************************************************************************)
EXTENDS InodeCache

(* Every variable has its type; no reference count goes below zero.        *)
TypeOK ==
  /\ inode \in [Table -> Inode] /\ hashed \subseteq Table
  /\ ifree \in Seq(Table)
  /\ dinode \in [Inos \cup {Noino} -> Dinode]
  /\ used \subseteq Inos \cup {Noino}
  /\ dir \in [Names -> Inos \cup {Noino}]
  /\ dirlock \in Procs \cup {NONE} /\ updlock \in BOOLEAN
  /\ proc \in [Procs -> Proc]

(* An inode is in core once: iget puts its slot on the hash chain before   *)
(* it sleeps to read it.                                                   *)
SoleInode ==
  \A s, t \in hashed : inode[s].ino = inode[t].ino => s = t

(* i_count is the number of processes that refer to the inode: those that  *)
(* have it open and those within a system call, update included, that have *)
(* it from iget.  Who sleeps in iget has no reference.                     *)
OpenBy(s) == {p \in Procs : proc[p].fd = s}
Within(s) == {p \in Procs : proc[p].ip = s /\ proc[p].pc \notin {"isleep", "iget"}}
RefsCounted ==
  \A s \in Table : inode[s].count = Cardinality(OpenBy(s)) + Cardinality(Within(s))

(* The free list has every slot without references, once, and no other,    *)
(* so that a slot is not given another inode while somebody uses it, or    *)
(* sleeps in irele with it.                                                *)
OnFreeList ==
  /\ \A s \in Table : inode[s].count = 0 <=> \E i \in DOMAIN ifree : ifree[i] = s
  /\ \A i, j \in DOMAIN ifree : ifree[i] = ifree[j] => i = j

(* A slot is one inode's, counted and listed as the processes that have it *)
(* require.                                                                *)
SlotsSound == SoleInode /\ RefsCounted /\ OnFreeList

(* A locked inode is locked by one process, and who deals with an inode    *)
(* has it locked, while it sleeps in the middle of that.                   *)
Owners(s) ==
  {p \in Procs : proc[p].ip = s /\ proc[p].pc \in
     {"iread", "use", "remove", "make", "enter", "trunc", "ifree", "iupd", "supd"}}
SoleOwner == \A s \in Table : Cardinality(Owners(s)) = IF Is(s, "LOCKED") THEN 1 ELSE 0

(* Who sleeps on an inode sleeps while it is locked and marked wanted, so  *)
(* that iunlock will wake him.                                             *)
NoLostWakeup ==
  \A p \in Procs : proc[p].pc \in {"isleep", "lsleep"}
    => {"LOCKED", "WANT"} \subseteq inode[proc[p].ip].flag

(* ILOCKED and IWANT are a lock that wakes those who wait for it.          *)
LocksSound == SoleOwner /\ NoLostWakeup

(* What was done to an inode is on the disk or still marked as changed, so *)
(* that a slot can be taken from the free list without writing it.  (When  *)
(* iupdat cannot read the inode's block, irele loses the change.)          *)
Kept ==
  \A s \in hashed : inode[s].ino \notin BadInos /\ "CHG" \notin inode[s].flag
                    /\ (\A p \in Procs : ~(proc[p].ip = s /\ proc[p].pc = "iread"))
    => dinode[inode[s].ino] = inode[s].ic

(* While somebody has a file open its slot does not turn into another, on  *)
(* whatever list the slot was before.                                      *)
StaysThatFile ==
  [][\A p \in Procs : \A s \in Table :
       proc[p].fd = s /\ proc'[p].fd = s
         => inode'[s].ino = inode[s].ino /\ (s \in hashed => s \in hashed')]_vars

=============================================================================
