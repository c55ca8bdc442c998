-------------------------- MODULE InodeCacheProofs --------------------------
(***************************************************************************)
(* Theorems about the table of inodes, for any number of processes, slots, *)
(* inodes and names.                                                       *)
(*                                                                         *)
(* The argument.  A step is one process's, and deals with one slot (Moves  *)
(* below); the others' records change only when they are woken.  So each   *)
(* part of the invariant is shown to hold after a step from what the step  *)
(* does to that slot and to that process's claims on it (MovesCounting,    *)
(* MovesLocking, ...), and each action is shown to do so.                  *)
(***************************************************************************)
EXTENDS InodeCacheProps, SequenceTheorems, FiniteSetTheorems, TLAPS

-----------------------------------------------------------------------------
(* Lists, numbers and sums.                                                *)

Elements(s)  == { s[i] : i \in 1..Len(s) }

NoRepeats(s) == \A i, j \in 1..Len(s) : s[i] = s[j] => i = j

(* What the operators of Sequences do, a fact each.                        *)
LEMMA Cat ==
  ASSUME NEW S, NEW c \in Seq(S), NEW d \in Seq(S)
  PROVE  c \o d \in Seq(S)
OBVIOUS

LEMMA CatLen ==
  ASSUME NEW S, NEW c \in Seq(S), NEW d \in Seq(S)
  PROVE  Len(c \o d) = Len(c) + Len(d)
OBVIOUS

LEMMA CatElement ==
  ASSUME NEW S, NEW c \in Seq(S), NEW d \in Seq(S), NEW i \in 1..(Len(c) + Len(d))
  PROVE  (c \o d)[i] = IF i <= Len(c) THEN c[i] ELSE d[i - Len(c)]
OBVIOUS

LEMMA Sub ==
  ASSUME NEW S, NEW s \in Seq(S), NEW a \in 1..(Len(s) + 1), NEW b \in 0..Len(s)
  PROVE  SubSeq(s, a, b) \in Seq(S)
OBVIOUS

LEMMA SubLen ==
  ASSUME NEW S, NEW s \in Seq(S), NEW a \in 1..(Len(s) + 1), NEW b \in 0..Len(s), a <= b + 1
  PROVE  Len(SubSeq(s, a, b)) = b + 1 - a
OBVIOUS

LEMMA SubElement ==
  ASSUME NEW S, NEW s \in Seq(S), NEW a \in 1..(Len(s) + 1), NEW b \in 0..Len(s), a <= b + 1,
         NEW i \in 1..(b + 1 - a)
  PROVE  SubSeq(s, a, b)[i] = s[a + i - 1]
OBVIOUS

(* A list without its i-th element.                                        *)
LEMMA RemoveAtSeq ==
  ASSUME NEW S, NEW s \in Seq(S), NEW k \in 1..Len(s)
  PROVE  /\ RemoveAt(s, k) \in Seq(S)
         /\ Len(RemoveAt(s, k)) = Len(s) - 1
         /\ \A i \in 1..(Len(s) - 1) :
              RemoveAt(s, k)[i] = IF i < k THEN s[i] ELSE s[i + 1]
<1> DEFINE c == SubSeq(s, 1, k - 1)
           d == SubSeq(s, k + 1, Len(s))
<1>1. Len(s) \in Nat /\ k \in Nat \ {0} /\ k <= Len(s) /\ k - 1 \in 0..Len(s)
  OBVIOUS
<1>2. c \in Seq(S) /\ d \in Seq(S)
  BY <1>1, Sub
<1>3. Len(c) = k - 1 /\ Len(d) = Len(s) - k
  <2>1. Len(c) = k - 1 + 1 - 1
    BY <1>1, SubLen
  <2>2. Len(d) = Len(s) + 1 - (k + 1)
    BY <1>1, SubLen
  <2> QED BY <1>1, <2>1, <2>2
<1>4. ASSUME NEW i \in 1..(k - 1) PROVE c[i] = s[i]
  <2>1. i \in 1..(k - 1 + 1 - 1)
    BY <1>1
  <2>2. c[i] = s[1 + i - 1]
    BY <1>1, <2>1, SubElement
  <2> QED BY <1>1, <2>2
<1>5. ASSUME NEW i \in 1..(Len(s) - k) PROVE d[i] = s[k + i]
  <2>1. i \in 1..(Len(s) + 1 - (k + 1)) /\ k + 1 + i - 1 = k + i
    BY <1>1
  <2>2. d[i] = s[k + 1 + i - 1]
    BY <1>1, <2>1, SubElement
  <2> QED BY <2>1, <2>2
<1>6. RemoveAt(s, k) = c \o d
  BY Zenon DEF RemoveAt
<1> HIDE DEF c, d
<1>7. c \o d \in Seq(S)
  BY <1>2, Cat
<1>8. Len(c \o d) = Len(s) - 1
  <2>1. Len(c \o d) = Len(c) + Len(d)
    BY <1>2, CatLen
  <2> QED BY <1>1, <1>3, <2>1
<1>9. ASSUME NEW i \in 1..(Len(s) - 1)
      PROVE  (c \o d)[i] = IF i < k THEN s[i] ELSE s[i + 1]
  <2>1. i \in 1..(Len(c) + Len(d))
    BY <1>1, <1>3
  <2>2. (c \o d)[i] = IF i <= k - 1 THEN c[i] ELSE d[i - (k - 1)]
    BY <1>2, <1>3, <2>1, CatElement
  <2>3. i <= k - 1 => c[i] = s[i]
    BY <1>1, <1>4
  <2>4. i > k - 1 => d[i - (k - 1)] = s[k + (i - (k - 1))]
    BY <1>1, <1>5
  <2>5. k + (i - (k - 1)) = i + 1
    BY <1>1
  <2> QED BY <1>1, <2>2, <2>3, <2>4, <2>5
<1> QED BY <1>6, <1>7, <1>8, <1>9

LEMMA RemoveAtElements ==
  ASSUME NEW S, NEW s \in Seq(S), NEW k \in 1..Len(s), NoRepeats(s)
  PROVE  /\ NoRepeats(RemoveAt(s, k))
         /\ Elements(RemoveAt(s, k)) = Elements(s) \ {s[k]}
<1> DEFINE r == RemoveAt(s, k)
<1>0. Len(s) \in Nat /\ k \in Nat \ {0} /\ k <= Len(s)
  OBVIOUS
<1>1. /\ Len(s) \in Nat /\ k \in Nat \ {0} /\ k <= Len(s) /\ Len(r) = Len(s) - 1
      /\ \A i \in 1..(Len(s) - 1) : r[i] = IF i < k THEN s[i] ELSE s[i + 1]
  BY <1>0, RemoveAtSeq
<1> HIDE DEF r
<1>2. NoRepeats(r)
  BY <1>1 DEF NoRepeats
<1>3. ASSUME NEW i \in 1..Len(r) PROVE r[i] \in Elements(s) \ {s[k]}
  <2>1. CASE i < k
    <3>1. i \in 1..Len(s) /\ r[i] = s[i] /\ i # k
      BY <1>1, <2>1
    <3> QED BY <3>1 DEF Elements, NoRepeats
  <2>2. CASE i >= k
    <3>1. i + 1 \in 1..Len(s) /\ r[i] = s[i + 1] /\ i + 1 # k
      BY <1>1, <2>2
    <3> QED BY <3>1 DEF Elements, NoRepeats
  <2> QED BY <1>1, <2>1, <2>2
<1>4. ASSUME NEW i \in 1..Len(s), s[i] # s[k] PROVE s[i] \in Elements(r)
  <2>1. CASE i < k
    <3>1. i \in 1..Len(r) /\ r[i] = s[i]
      BY <1>1, <2>1
    <3> QED BY <3>1 DEF Elements
  <2>2. CASE i > k
    <3>1. i - 1 \in 1..Len(r) /\ r[i - 1] = s[i]
      BY <1>1, <2>2
    <3> QED BY <3>1 DEF Elements
  <2>3. i # k
    BY <1>4
  <2> QED BY <1>1, <2>1, <2>2, <2>3
<1> QED BY <1>2, <1>3, <1>4 DEF Elements, r

LEMMA TailElements ==
  ASSUME NEW S, NEW s \in Seq(S), s # <<>>, NoRepeats(s)
  PROVE  /\ Tail(s) \in Seq(S) /\ Head(s) \in S
         /\ NoRepeats(Tail(s))
         /\ Elements(Tail(s)) = Elements(s) \ {Head(s)}
<1>1. /\ Len(s) \in Nat \ {0} /\ Tail(s) \in Seq(S) /\ Len(Tail(s)) = Len(s) - 1
      /\ \A i \in 1..(Len(s) - 1) : Tail(s)[i] = s[i + 1]
      /\ Head(s) = s[1] /\ Head(s) \in S
  OBVIOUS
<1>2. NoRepeats(Tail(s))
  BY <1>1 DEF NoRepeats
<1>3. ASSUME NEW i \in 1..Len(Tail(s)) PROVE Tail(s)[i] \in Elements(s) \ {Head(s)}
  <2>1. i + 1 \in 1..Len(s) /\ 1 \in 1..Len(s) /\ i + 1 # 1 /\ Tail(s)[i] = s[i + 1]
    BY <1>1
  <2> QED BY <1>1, <2>1 DEF Elements, NoRepeats
<1>4. ASSUME NEW i \in 1..Len(s), s[i] # Head(s) PROVE s[i] \in Elements(Tail(s))
  <2>1. i - 1 \in 1..Len(Tail(s)) /\ Tail(s)[i - 1] = s[i]
    BY <1>1, <1>4
  <2> QED BY <2>1 DEF Elements
<1>5. ASSUME NEW x \in Elements(Tail(s)) PROVE x \in Elements(s) \ {Head(s)}
  BY <1>3, <1>5, Zenon DEF Elements
<1>6. ASSUME NEW x \in Elements(s) \ {Head(s)} PROVE x \in Elements(Tail(s))
  BY <1>4, <1>6, Zenon DEF Elements
<1>7. Elements(Tail(s)) = Elements(s) \ {Head(s)}
  BY <1>5, <1>6, Zenon
<1> QED BY <1>1, <1>2, <1>7

-----------------------------------------------------------------------------
(* The invariant.                                                          *)

(* The claims of a process, whose record is x, on slot s: a reference, the *)
(* lock, the wish to be woken; and being the only one with a reference.    *)
Refers(x, s) == x.fd = s \/ (x.ip = s /\ x.pc \notin {"isleep", "iget"})
Owning == {"iread", "use", "remove", "make", "enter", "trunc", "ifree", "iupd",
           "supd"}
Owns(x, s)  == x.ip = s /\ x.pc \in Owning
Waits(x, s) == x.ip = s /\ x.pc \in {"isleep", "lsleep"}
Solely(x, s) == x.ip = s /\ x.pc \in {"iread", "trunc", "ifree", "iupd"}
Reads(x, s) == x.ip = s /\ x.pc = "iread"

(* A record that makes sense: a slot where one is needed, an open file     *)
(* only between system calls, a file to look for in iget.                  *)
Fits(x) ==
  /\ x \in Proc
  /\ x.ip = NONE <=> x.pc \in {"user", "sync"}
  /\ x.fd # NONE => x.pc = "user"
  /\ x.pc = "user" => x.op # "sync"
  /\ x.pc \in {"isleep", "iget", "iread"}
       => x.op \in {"open", "creat", "unlink"} /\ x.ino \in Inos

SlotType == [ino : Inos \cup {Noino}, flag : SUBSET {"LOCKED", "WANT", "CHG"},
             count : Nat, ic : Dinode]

Typing ==
  /\ inode \in [Table -> SlotType] /\ hashed \subseteq Table
  /\ ifree \in Seq(Table)
  /\ dinode \in [Inos \cup {Noino} -> Dinode]
  /\ used \subseteq Inos \cup {Noino}
  /\ dir \in [Names -> Inos \cup {Noino}]
  /\ dirlock \in Procs \cup {NONE} /\ updlock \in BOOLEAN
  /\ proc \in [Procs -> Proc]
Fitting == \A q \in Procs : Fits(proc[q])

Refs(s) == {q \in Procs : Refers(proc[q], s)}
Counting == \A s \in Table : inode[s].count = Cardinality(Refs(s))

Locking ==
  \A s \in Table :
    /\ "LOCKED" \in inode[s].flag <=> \E q \in Procs : Owns(proc[q], s)
    /\ \A q, r \in Procs : Owns(proc[q], s) /\ Owns(proc[r], s) => q = r
Waking ==
  \A s \in Table : \A q \in Procs :
    Waits(proc[q], s) => {"LOCKED", "WANT"} \subseteq inode[s].flag
Alone ==
  \A s \in Table : \A q \in Procs : /\ Solely(proc[q], s) => inode[s].count = 1
                                    /\ Reads(proc[q], s) => s \in hashed
Listing ==
  /\ NoRepeats(ifree)
  /\ \A s \in Table : inode[s].count = 0 <=> s \in Elements(ifree)
Naming ==
  /\ \A s \in Table : s \in hashed <=> inode[s].ino # Noino
  /\ SoleInode

Inv == Typing /\ Fitting /\ Counting /\ Locking /\ Waking /\ Alone /\ Listing /\ Naming
       /\ Kept

(* What no step does: to turn the slot of an open file into another's.     *)
Stays ==
  \A p \in Procs : \A s \in Table :
    proc[p].fd = s /\ proc'[p].fd = s
      => inode'[s].ino = inode[s].ino /\ (s \in hashed => s \in hashed')

-----------------------------------------------------------------------------
(* The constants.                                                          *)

LEMMA Constants ==
  /\ IsFiniteSet(Procs) /\ NONE \notin Table /\ NONE \notin Procs /\ NONE # "sync"
  /\ Noino \notin Inos /\ Inodes \in Nat \ {0} /\ Table \subseteq Nat
BY InodeCacheAssumption DEF Table, Noino

(* The references to a slot are finitely many.                             *)
LEMMA RefsFinite ==
  ASSUME NEW s \in Table
  PROVE  /\ IsFiniteSet(Refs(s)) /\ Cardinality(Refs(s)) \in Nat
         /\ Cardinality(Refs(s)) <= Cardinality(Procs) /\ Cardinality(Procs) \in Nat
<1>1. Refs(s) \in SUBSET Procs /\ IsFiniteSet(Procs)
  BY Constants DEF Refs
<1>2. /\ IsFiniteSet(Refs(s)) /\ Cardinality(Refs(s)) <= Cardinality(Procs)
  BY <1>1, FS_Subset
<1> QED BY <1>1, <1>2, FS_CardinalityType

-----------------------------------------------------------------------------
(* A step of p that deals with slot s.                                     *)

Woke(x) == [x EXCEPT !.pc = IF x.pc = "isleep" THEN "iget" ELSE "ilock"]

Moves(p, s) ==
  /\ inode' \in [Table -> SlotType]
  /\ \A t \in Table \ {s} : inode'[t] = inode[t]
  /\ proc' \in [Procs -> Proc] /\ Fits(proc'[p])
  /\ \A q \in Procs \ {p} :
       \/ proc'[q] = proc[q]
       \/ Waits(proc[q], s) /\ proc'[q] = Woke(proc[q])
  /\ \A t \in Table \ {s} :
       /\ Refers(proc'[p], t) <=> Refers(proc[p], t)
       /\ Owns(proc'[p], t) <=> Owns(proc[p], t)
       /\ ~Waits(proc'[p], t)
       /\ Solely(proc'[p], t) => Solely(proc[p], t)
       /\ Reads(proc'[p], t) <=> Reads(proc[p], t)

(* What is woken has the claims it had, but does not wait any more.        *)
LEMMA WokeKeeps ==
  ASSUME NEW x, Fits(x), NEW s \in Table, Waits(x, s)
  PROVE  /\ Fits(Woke(x)) /\ Woke(x) \in Proc
         /\ \A t \in Table : /\ Refers(Woke(x), t) <=> Refers(x, t)
                             /\ Owns(Woke(x), t) <=> Owns(x, t)
                             /\ Solely(Woke(x), t) <=> Solely(x, t)
                             /\ Reads(Woke(x), t) <=> Reads(x, t)
                             /\ ~Waits(Woke(x), t)
<1> DEFINE w == Woke(x)
<1>1. x \in Proc /\ x.pc \in {"isleep", "lsleep"}
  BY DEF Fits, Waits
<1>2. /\ w.op = x.op /\ w.ino = x.ino /\ w.name = x.name /\ w.ip = x.ip
      /\ w.fd = x.fd /\ w.todo = x.todo
      /\ w.pc = IF x.pc = "isleep" THEN "iget" ELSE "ilock"
      /\ w \in Proc
  BY <1>1 DEF Woke, Proc
<1> HIDE DEF w
<1>3. Fits(w)
  BY <1>1, <1>2 DEF Fits
<1>4. ASSUME NEW t \in Table
      PROVE  /\ Refers(w, t) <=> Refers(x, t)
             /\ Owns(w, t) <=> Owns(x, t)
             /\ Solely(w, t) <=> Solely(x, t)
             /\ Reads(w, t) <=> Reads(x, t)
             /\ ~Waits(w, t)
  BY <1>1, <1>2 DEF Refers, Owns, Owning, Solely, Waits, Reads
<1> QED BY <1>2, <1>3, <1>4 DEF w

LEMMA MovesOthers ==
  ASSUME Inv, NEW p \in Procs, NEW s \in Table, Moves(p, s), NEW q \in Procs \ {p},
         NEW t \in Table
  PROVE  /\ Fits(proc'[q])
         /\ Refers(proc'[q], t) <=> Refers(proc[q], t)
         /\ Owns(proc'[q], t) <=> Owns(proc[q], t)
         /\ Solely(proc'[q], t) <=> Solely(proc[q], t)
         /\ Reads(proc'[q], t) <=> Reads(proc[q], t)
         /\ Waits(proc'[q], t) => Waits(proc[q], t)
<1>1. Fits(proc[q])
  BY DEF Inv, Fitting
<1>2. CASE proc'[q] = proc[q]
  BY <1>1, <1>2
<1>3. CASE Waits(proc[q], s) /\ proc'[q] = Woke(proc[q])
  <2> DEFINE x == proc[q]
  <2>1. Fits(x) /\ Waits(x, s)
    BY <1>1, <1>3
  <2> HIDE DEF x
  <2>2. /\ Fits(Woke(x))
        /\ Refers(Woke(x), t) <=> Refers(x, t)
        /\ Owns(Woke(x), t) <=> Owns(x, t)
        /\ Solely(Woke(x), t) <=> Solely(x, t)
        /\ Reads(Woke(x), t) <=> Reads(x, t)
        /\ ~Waits(Woke(x), t)
    BY <2>1, WokeKeeps
  <2>3. proc'[q] = Woke(x) /\ proc[q] = x
    BY <1>3 DEF x
  <2> QED BY <2>2, <2>3
<1>4. proc'[q] = proc[q] \/ (Waits(proc[q], s) /\ proc'[q] = Woke(proc[q]))
  BY DEF Moves
<1> QED BY <1>2, <1>3, <1>4, Zenon

LEMMA MovesFitting ==
  ASSUME Inv, NEW p \in Procs, NEW s \in Table, Moves(p, s)
  PROVE  Fitting'
<1> SUFFICES ASSUME NEW q \in Procs PROVE Fits(proc'[q])
  BY DEF Fitting
<1>1. CASE q = p
  BY <1>1 DEF Moves
<1>2. CASE q # p
  BY <1>2, MovesOthers, Zenon
<1> QED BY <1>1, <1>2

(* A reference more, one less, or as many as before.                       *)
Counted1(p, s) ==
  \/ /\ Refers(proc'[p], s) <=> Refers(proc[p], s)
     /\ inode'[s].count = inode[s].count
  \/ /\ Refers(proc'[p], s) /\ ~Refers(proc[p], s)
     /\ inode'[s].count = inode[s].count + 1
  \/ /\ ~Refers(proc'[p], s) /\ Refers(proc[p], s)
     /\ inode'[s].count = inode[s].count - 1

LEMMA MovesCounting ==
  ASSUME Inv, NEW p \in Procs, NEW s \in Table, Moves(p, s), Counted1(p, s)
  PROVE  Counting'
<1> SUFFICES ASSUME NEW t \in Table PROVE inode'[t].count = Cardinality(Refs(t)')
  BY DEF Counting
<1>0. /\ \A q \in Procs \ {p} : Refers(proc'[q], t) <=> Refers(proc[q], t)
      /\ inode[t].count = Cardinality(Refs(t))
  <2>1. ASSUME NEW q \in Procs \ {p} PROVE Refers(proc'[q], t) <=> Refers(proc[q], t)
    BY MovesOthers, Zenon
  <2> QED BY <2>1 DEF Inv, Counting
<1>1. IsFiniteSet(Refs(t)) /\ Cardinality(Refs(t)) \in Nat
  BY RefsFinite
<1>2. CASE t # s
  <2>1. inode'[t] = inode[t] /\ (Refers(proc'[p], t) <=> Refers(proc[p], t))
    BY <1>2 DEF Moves
  <2>2. Refs(t)' = Refs(t)
    BY <1>0, <2>1 DEF Refs
  <2> QED BY <1>0, <2>1, <2>2
<1>3. CASE t = s
  <2>1. CASE /\ Refers(proc'[p], s) <=> Refers(proc[p], s)
             /\ inode'[s].count = inode[s].count
    <3>1. Refs(t)' = Refs(t)
      BY <1>0, <1>3, <2>1 DEF Refs
    <3> QED BY <1>0, <1>3, <2>1, <3>1
  <2>2. CASE /\ Refers(proc'[p], s) /\ ~Refers(proc[p], s)
             /\ inode'[s].count = inode[s].count + 1
    <3>1. Refs(t)' = Refs(t) \cup {p} /\ p \notin Refs(t)
      BY <1>0, <1>3, <2>2 DEF Refs
    <3>2. Cardinality(Refs(t) \cup {p}) = Cardinality(Refs(t)) + 1
      BY <1>1, <3>1, FS_AddElement
    <3> QED BY <1>0, <1>3, <2>2, <3>1, <3>2
  <2>3. CASE /\ ~Refers(proc'[p], s) /\ Refers(proc[p], s)
             /\ inode'[s].count = inode[s].count - 1
    <3>1. Refs(t)' = Refs(t) \ {p} /\ p \in Refs(t)
      BY <1>0, <1>3, <2>3 DEF Refs
    <3>2. Cardinality(Refs(t) \ {p}) = Cardinality(Refs(t)) - 1
      BY <1>1, <3>1, FS_RemoveElement
    <3> QED BY <1>0, <1>3, <2>3, <3>1, <3>2
  <2> QED BY <2>1, <2>2, <2>3 DEF Counted1
<1> QED BY <1>2, <1>3

(* p takes the lock, lets it go or keeps it, where no one else has it; or  *)
(* leaves it alone.                                                        *)
Locked1(p, s) ==
  \/ /\ Owns(proc[p], s) \/ "LOCKED" \notin inode[s].flag
     /\ "LOCKED" \in inode'[s].flag <=> Owns(proc'[p], s)
  \/ /\ ~Owns(proc[p], s) /\ ~Owns(proc'[p], s)
     /\ "LOCKED" \in inode'[s].flag <=> "LOCKED" \in inode[s].flag

LEMMA MovesLocking ==
  ASSUME Inv, NEW p \in Procs, NEW s \in Table, Moves(p, s), Locked1(p, s)
  PROVE  Locking'
<1> SUFFICES ASSUME NEW t \in Table
             PROVE  /\ "LOCKED" \in inode'[t].flag <=> \E q \in Procs : Owns(proc'[q], t)
                    /\ \A q, r \in Procs : Owns(proc'[q], t) /\ Owns(proc'[r], t) => q = r
  BY DEF Locking
<1>0. \A q \in Procs \ {p} : Owns(proc'[q], t) <=> Owns(proc[q], t)
  <2>1. ASSUME NEW q \in Procs \ {p} PROVE Owns(proc'[q], t) <=> Owns(proc[q], t)
    BY MovesOthers, Zenon
  <2> QED BY <2>1
<1>1. /\ "LOCKED" \in inode[t].flag <=> \E q \in Procs : Owns(proc[q], t)
      /\ \A q, r \in Procs : Owns(proc[q], t) /\ Owns(proc[r], t) => q = r
  BY DEF Inv, Locking
<1> HIDE DEF Owns
<1>2. CASE t # s
  <2>1. inode'[t] = inode[t] /\ (Owns(proc'[p], t) <=> Owns(proc[p], t))
    BY <1>2 DEF Moves
  <2> QED BY <1>0, <1>1, <2>1
<1>3. CASE t = s
  BY <1>0, <1>1, <1>3 DEF Locked1
<1> QED BY <1>2, <1>3

(* Who waits for s afterwards will be woken.                               *)
Waking1(s) == \A q \in Procs : Waits(proc'[q], s) => {"LOCKED", "WANT"} \subseteq inode'[s].flag

LEMMA MovesWaking ==
  ASSUME Inv, NEW p \in Procs, NEW s \in Table, Moves(p, s), Waking1(s)
  PROVE  Waking'
<1> SUFFICES ASSUME NEW t \in Table, NEW q \in Procs, Waits(proc'[q], t)
             PROVE  {"LOCKED", "WANT"} \subseteq inode'[t].flag
  BY DEF Waking
<1>1. CASE t = s
  BY <1>1 DEF Waking1
<1>2. CASE t # s
  <2>1. q # p /\ inode'[t] = inode[t]
    BY <1>2 DEF Moves
  <2>2. Waits(proc[q], t)
    BY <2>1, MovesOthers, Zenon
  <2> QED BY <2>1, <2>2 DEF Inv, Waking
<1> QED BY <1>1, <1>2

(* Who has s alone has it alone afterwards, and hashed while it is read.   *)
Alone1(s) ==
  \A q \in Procs : /\ Solely(proc'[q], s) => inode'[s].count = 1
                   /\ Reads(proc'[q], s) => s \in hashed'

LEMMA MovesAlone ==
  ASSUME Inv, NEW p \in Procs, NEW s \in Table, Moves(p, s), Alone1(s),
         \A t \in Table \ {s} : t \in hashed' <=> t \in hashed
  PROVE  Alone'
<1> SUFFICES ASSUME NEW t \in Table, NEW q \in Procs
             PROVE  /\ Solely(proc'[q], t) => inode'[t].count = 1
                    /\ Reads(proc'[q], t) => t \in hashed'
  BY DEF Alone
<1>1. CASE t = s
  BY <1>1 DEF Alone1
<1>2. CASE t # s
  <2>1. inode'[t] = inode[t] /\ (t \in hashed' <=> t \in hashed)
    BY <1>2 DEF Moves
  <2>2. /\ Solely(proc'[q], t) => Solely(proc[q], t)
        /\ Reads(proc'[q], t) => Reads(proc[q], t)
    <3>1. CASE q = p
      BY <1>2, <3>1 DEF Moves
    <3>2. CASE q # p
      BY <3>2, MovesOthers, Zenon
    <3> QED BY <3>1, <3>2
  <2> QED BY <2>1, <2>2 DEF Inv, Alone
<1> QED BY <1>1, <1>2

(* The free list gains or loses s as the references do.                    *)
Listed1(s) ==
  /\ ifree' \in Seq(Table) /\ NoRepeats(ifree')
  /\ \A t \in Table \ {s} : t \in Elements(ifree') <=> t \in Elements(ifree)
  /\ inode'[s].count = 0 <=> s \in Elements(ifree')

LEMMA MovesListing ==
  ASSUME Inv, NEW p \in Procs, NEW s \in Table, Moves(p, s), Listed1(s)
  PROVE  Listing'
<1> SUFFICES ASSUME NEW t \in Table
             PROVE  inode'[t].count = 0 <=> t \in Elements(ifree')
  BY DEF Listing, Listed1
<1>1. CASE t = s
  BY <1>1 DEF Listed1
<1>2. CASE t # s
  <2>1. inode'[t] = inode[t] /\ (t \in Elements(ifree') <=> t \in Elements(ifree))
    BY <1>2 DEF Moves, Listed1
  <2> QED BY <2>1 DEF Inv, Listing
<1> QED BY <1>1, <1>2

(* s is hashed when it has a number, which no other has.                   *)
Named1(s) ==
  /\ hashed' \subseteq Table
  /\ \A t \in Table \ {s} : t \in hashed' <=> t \in hashed
  /\ s \in hashed' <=> inode'[s].ino # Noino
  /\ s \in hashed' => \A t \in hashed \ {s} : inode[t].ino # inode'[s].ino

LEMMA MovesNaming ==
  ASSUME Inv, NEW p \in Procs, NEW s \in Table, Moves(p, s), Named1(s)
  PROVE  Naming'
<1>0. \A t \in Table \ {s} : inode'[t] = inode[t]
  BY DEF Moves
<1>1. ASSUME NEW t \in Table PROVE t \in hashed' <=> inode'[t].ino # Noino
  BY <1>0, <1>1 DEF Inv, Naming, Named1
<1>2. ASSUME NEW t \in hashed', NEW r \in hashed', inode'[t].ino = inode'[r].ino
      PROVE  t = r
  <2>1. t \in Table /\ r \in Table /\ SoleInode
    BY DEF Named1, Inv, Naming
  <2>2. CASE t # s /\ r # s
    BY <1>0, <1>2, <2>1, <2>2 DEF Named1, SoleInode
  <2>3. CASE t = s /\ r # s
    BY <1>0, <1>2, <2>1, <2>3 DEF Named1
  <2>4. CASE t # s /\ r = s
    BY <1>0, <1>2, <2>1, <2>4 DEF Named1
  <2> QED BY <2>2, <2>3, <2>4
<1> QED BY <1>1, <1>2 DEF Naming, SoleInode

(* The disk has s as it is in core, unless it is marked as changed; of the *)
(* others the disk has what it had.                                        *)
Written(s) == \A i \in Inos : i # inode[s].ino => dinode'[i] = dinode[i]
Kept1(s) ==
  /\ s \in hashed' /\ inode'[s].ino \notin BadInos /\ "CHG" \notin inode'[s].flag
  /\ \A q \in Procs : ~Reads(proc'[q], s)
  => dinode'[inode'[s].ino] = inode'[s].ic

LEMMA KeptReads ==
  Kept <=> \A s \in hashed : inode[s].ino \notin BadInos /\ "CHG" \notin inode[s].flag
                               /\ (\A q \in Procs : ~Reads(proc[q], s))
             => dinode[inode[s].ino] = inode[s].ic
BY DEF Kept, Reads

LEMMA MovesKept ==
  ASSUME Inv, NEW p \in Procs, NEW s \in Table, Moves(p, s), Named1(s), Written(s), Kept1(s)
  PROVE  Kept'
<1> SUFFICES ASSUME NEW t \in hashed', inode'[t].ino \notin BadInos,
                    "CHG" \notin inode'[t].flag, \A q \in Procs : ~Reads(proc'[q], t)
             PROVE  dinode'[inode'[t].ino] = inode'[t].ic
  BY DEF Kept, Reads
<1>1. CASE t = s
  BY <1>1 DEF Kept1
<1>2. CASE t # s
  <2>1. t \in Table /\ t \in hashed /\ inode'[t] = inode[t]
    BY <1>2 DEF Named1, Moves
  <2>2. \A q \in Procs : ~Reads(proc[q], t)
    <3> SUFFICES ASSUME NEW q \in Procs PROVE Reads(proc'[q], t) <=> Reads(proc[q], t)
      OBVIOUS
    <3>1. CASE q = p
      BY <1>2, <2>1, <3>1 DEF Moves
    <3>2. CASE q # p
      BY <2>1, <3>2, MovesOthers, Zenon
    <3> QED BY <3>1, <3>2
  <2>3. dinode[inode[t].ino] = inode[t].ic
    <3>1. Kept
      BY DEF Inv
    <3> QED BY <2>1, <2>2, <3>1, KeptReads
  <2>4. inode[t].ino \in Inos /\ inode[t].ino # inode[s].ino
    <3>1. inode[t].ino \in Inos
      <4>1. inode[t] \in SlotType /\ inode[t].ino # Noino
        BY <2>1 DEF Inv, Typing, Naming
      <4> QED BY <4>1 DEF SlotType
    <3>2. CASE s \in hashed
      <4>1. SoleInode
        BY DEF Inv, Naming
      <4> QED BY <1>2, <2>1, <3>1, <3>2, <4>1 DEF SoleInode
    <3>3. CASE s \notin hashed
      BY <3>1, <3>3, Constants DEF Inv, Naming
    <3> QED BY <3>1, <3>2, <3>3
  <2> QED BY <2>1, <2>3, <2>4 DEF Written
<1> QED BY <1>1, <1>2

(* s turns into another only when nobody else refers to it.                *)
Turned(p, s) ==
  \/ inode'[s].ino = inode[s].ino /\ (s \in hashed => s \in hashed')
  \/ inode[s].count = 0
  \/ Solely(proc[p], s)

(* With one reference, it is p's.                                          *)
LEMMA Positive ==
  ASSUME Inv, NEW p \in Procs, NEW s \in Table, Refers(proc[p], s)
  PROVE  inode[s].count \in Nat \ {0}
<1>1. p \in Refs(s)
  BY DEF Refs
<1>2. IsFiniteSet(Refs(s)) /\ Refs(s) # {} /\ Cardinality(Refs(s)) \in Nat
  BY <1>1, RefsFinite
<1>3. Cardinality(Refs(s)) # 0
  BY <1>2, FS_EmptySet
<1> QED BY <1>2, <1>3 DEF Inv, Counting

LEMMA SoleRef ==
  ASSUME Inv, NEW p \in Procs, NEW q \in Procs, NEW s \in Table, inode[s].count = 1,
         Refers(proc[p], s), Refers(proc[q], s)
  PROVE  p = q
<1> SUFFICES ASSUME p # q PROVE FALSE
  OBVIOUS
<1>1. IsFiniteSet(Refs(s)) /\ Cardinality(Refs(s)) = 1 /\ {p} \cup {q} \in SUBSET Refs(s)
  <2>1. IsFiniteSet(Refs(s))
    BY RefsFinite
  <2>2. Cardinality(Refs(s)) = 1
    BY DEF Inv, Counting
  <2>3. p \in Refs(s) /\ q \in Refs(s)
    BY DEF Refs
  <2> QED BY <2>1, <2>2, <2>3
<1>2. IsFiniteSet({p}) /\ Cardinality({p}) = 1
  BY FS_Singleton
<1>3. Cardinality({p} \cup {q}) = 2
  <2>1. Cardinality({p} \cup {q}) = IF q \in {p} THEN Cardinality({p}) ELSE Cardinality({p}) + 1
    BY <1>2, FS_AddElement
  <2> QED BY <1>2, <2>1
<1>4. Cardinality({p} \cup {q}) <= 1
  BY <1>1, FS_Subset
<1> QED BY <1>3, <1>4

LEMMA MovesStays ==
  ASSUME Inv, NEW p \in Procs, NEW s \in Table, Moves(p, s), Named1(s), Turned(p, s)
  PROVE  Stays
<1> SUFFICES ASSUME NEW q \in Procs, NEW t \in Table, proc[q].fd = t
             PROVE  inode'[t].ino = inode[t].ino /\ (t \in hashed => t \in hashed')
  BY DEF Stays
<1>1. CASE t # s
  BY <1>1 DEF Moves, Named1
<1>2. CASE t = s
  <2>1. Refers(proc[q], s) /\ inode[s].count # 0
    BY <1>2, Positive DEF Refers
  <2>2. ~Solely(proc[p], s)
    <3> SUFFICES ASSUME Solely(proc[p], s) PROVE FALSE
      OBVIOUS
    <3>1. Refers(proc[p], s) /\ inode[s].count = 1
      BY DEF Solely, Refers, Inv, Alone
    <3>2. p = q
      BY <2>1, <3>1, SoleRef
    <3>3. Fits(proc[p]) /\ s # NONE
      BY Constants DEF Inv, Fitting
    <3> QED BY <1>2, <3>2, <3>3 DEF Solely, Fits
  <2> QED BY <1>2, <2>1, <2>2 DEF Turned
<1> QED BY <1>1, <1>2

(* All of it, and the variables that are not about slots.                  *)
Disk1 ==
  /\ dinode' \in [Inos \cup {Noino} -> Dinode]
  /\ used' \subseteq Inos \cup {Noino}
  /\ dir' \in [Names -> Inos \cup {Noino}]
  /\ updlock' \in BOOLEAN
Rest1 == Disk1 /\ dirlock' \in Procs \cup {NONE}

LEMMA MovesInv ==
  ASSUME Inv, NEW p \in Procs, NEW s \in Table, Moves(p, s), Counted1(p, s),
         Locked1(p, s), Waking1(s), Alone1(s), Listed1(s), Named1(s), Rest1,
         Written(s), Kept1(s), Turned(p, s)
  PROVE  Inv' /\ Stays
<1>1. Typing'
  BY DEF Typing, Moves, Listed1, Named1, Rest1, Disk1
<1>2. Fitting'
  BY MovesFitting
<1>3. Counting'
  BY MovesCounting
<1>4. Locking'
  BY MovesLocking
<1>5. Waking' /\ Alone'
  BY MovesWaking, MovesAlone DEF Named1
<1>6. Listing' /\ Naming'
  BY MovesListing, MovesNaming
<1>7. Kept' /\ Stays
  BY MovesKept, MovesStays
<1> QED BY <1>1, <1>2, <1>3, <1>4, <1>5, <1>6, <1>7 DEF Inv

-----------------------------------------------------------------------------
(* What a step does to the record of slot s (now e) and of p (now r).      *)

ClaimsOnly(x, s) ==
  \A t \in Table \ {s} : ~Refers(x, t) /\ ~Owns(x, t) /\ ~Waits(x, t) /\ ~Solely(x, t)
                              /\ ~Reads(x, t)

LEMMA WakesOthers ==
  ASSUME Inv, NEW p \in Procs, NEW s \in Table, NEW r \in Proc, proc' = Wakes(s, p, r)
  PROVE  /\ proc' \in [Procs -> Proc] /\ proc'[p] = r
         /\ \A q \in Procs \ {p} :
              /\ \/ proc'[q] = proc[q]
                 \/ Waits(proc[q], s) /\ proc'[q] = Woke(proc[q])
              /\ ~Waits(proc'[q], s)
<1>1. /\ proc'[p] = r /\ DOMAIN proc' = Procs
      /\ proc' = [q \in Procs |-> proc'[q]]
  BY DEF Wakes
<1>2. ASSUME NEW q \in Procs \ {p}
      PROVE  /\ \/ proc'[q] = proc[q]
                \/ Waits(proc[q], s) /\ proc'[q] = Woke(proc[q])
             /\ ~Waits(proc'[q], s) /\ proc'[q] \in Proc
  <2>1. Fits(proc[q]) /\ proc[q] \in Proc
    BY DEF Inv, Fitting, Typing
  <2>2. CASE Waits(proc[q], s)
    <3>1. Is(s, "WANT")
      BY <2>2 DEF Inv, Waking, Is
    <3>2. proc'[q] = Woke(proc[q])
      BY <2>2, <3>1 DEF Wakes, Waits, Woke
    <3>3. ~Waits(Woke(proc[q]), s) /\ Woke(proc[q]) \in Proc
      BY <2>1, <2>2, WokeKeeps
    <3> QED BY <2>2, <3>2, <3>3
  <2>3. CASE ~Waits(proc[q], s)
    <3>1. proc'[q] = proc[q]
      BY <2>3 DEF Wakes, Waits
    <3> QED BY <2>1, <2>3, <3>1
  <2> QED BY <2>2, <2>3
<1> QED BY <1>1, <1>2

LEMMA MovesBy ==
  ASSUME Inv, NEW p \in Procs, NEW s \in Table, NEW e \in SlotType, NEW r, Fits(r),
         inode' = [inode EXCEPT ![s] = e],
         ClaimsOnly(proc[p], s), ClaimsOnly(r, s),
         proc' = Wakes(s, p, r) \/ proc' = [proc EXCEPT ![p] = r]
  PROVE  Moves(p, s) /\ proc'[p] = r /\ inode'[s] = e
<1>1. inode \in [Table -> SlotType] /\ proc \in [Procs -> Proc] /\ r \in Proc
  BY DEF Inv, Typing, Fits
<1>2. /\ inode' \in [Table -> SlotType] /\ inode'[s] = e
      /\ \A t \in Table \ {s} : inode'[t] = inode[t]
  BY <1>1
<1>3. /\ proc' \in [Procs -> Proc] /\ proc'[p] = r
      /\ \A q \in Procs \ {p} :
           \/ proc'[q] = proc[q]
           \/ Waits(proc[q], s) /\ proc'[q] = Woke(proc[q])
  <2>1. CASE proc' = Wakes(s, p, r)
    BY <1>1, <2>1, WakesOthers
  <2>2. CASE proc' = [proc EXCEPT ![p] = r]
    BY <1>1, <2>2
  <2> QED BY <2>1, <2>2
<1> QED BY <1>2, <1>3 DEF Moves, ClaimsOnly

(* What suffices for a step.                                               *)
Signals(p, s, e, r) ==
  /\ \/ proc' = Wakes(s, p, r)
     \/ /\ proc' = [proc EXCEPT ![p] = r]
        /\ {"LOCKED", "WANT"} \subseteq inode[s].flag => {"LOCKED", "WANT"} \subseteq e.flag
  /\ Waits(r, s) => {"LOCKED", "WANT"} \subseteq e.flag

Locks(p, s, e, r) ==
  \/ /\ Owns(proc[p], s) \/ "LOCKED" \notin inode[s].flag
     /\ "LOCKED" \in e.flag <=> Owns(r, s)
  \/ /\ ~Owns(proc[p], s) /\ ~Owns(r, s) /\ e.count = inode[s].count
     /\ hashed' = hashed
     /\ "LOCKED" \in e.flag <=> "LOCKED" \in inode[s].flag

Counts(p, s, e, r) ==
  /\ \/ (Refers(r, s) <=> Refers(proc[p], s)) /\ e.count = inode[s].count
     \/ Refers(r, s) /\ ~Refers(proc[p], s) /\ e.count = inode[s].count + 1
     \/ ~Refers(r, s) /\ Refers(proc[p], s) /\ e.count = inode[s].count - 1
  /\ Solely(r, s) => e.count = 1
  /\ Reads(r, s) => s \in hashed'

Names1(p, s, e) ==
  /\ hashed' \subseteq Table
  /\ \A t \in Table \ {s} : t \in hashed' <=> t \in hashed
  /\ s \in hashed' <=> e.ino # Noino
  /\ s \in hashed' => \A t \in hashed \ {s} : inode[t].ino # e.ino
  /\ \/ e.ino = inode[s].ino /\ (s \in hashed => s \in hashed')
     \/ inode[s].count = 0
     \/ Solely(proc[p], s)

Keeps1(p, s, e) ==
  /\ s \in hashed' /\ e.ino \notin BadInos /\ "CHG" \notin e.flag
  /\ \A q \in Procs \ {p} : ~Reads(proc[q], s)
  => dinode'[e.ino] = e.ic

LEMMA StepInv ==
  ASSUME Inv, NEW p \in Procs, NEW s \in Table, NEW e \in SlotType, NEW r, Fits(r),
         inode' = [inode EXCEPT ![s] = e],
         ClaimsOnly(proc[p], s), ClaimsOnly(r, s),
         Signals(p, s, e, r), Locks(p, s, e, r), Counts(p, s, e, r),
         Listed1(s), Names1(p, s, e), Rest1,
         Written(s), Reads(r, s) \/ Keeps1(p, s, e)
  PROVE  Inv' /\ Stays
<1>1. Moves(p, s) /\ proc'[p] = r /\ inode'[s] = e
  BY MovesBy DEF Signals
<1>2. Counted1(p, s)
  BY <1>1 DEF Counted1, Counts
<1>3. Locked1(p, s)
  BY <1>1 DEF Locked1, Locks
<1>4. Waking1(s)
  <2> SUFFICES ASSUME NEW q \in Procs, Waits(proc'[q], s)
               PROVE  {"LOCKED", "WANT"} \subseteq e.flag
    BY <1>1 DEF Waking1
  <2>1. CASE q = p
    BY <1>1, <2>1 DEF Signals
  <2>2. CASE q # p /\ proc' = Wakes(s, p, r)
    <3>1. r \in Proc
      BY DEF Fits
    <3> QED BY <2>2, <3>1, WakesOthers
  <2>3. CASE q # p /\ proc' = [proc EXCEPT ![p] = r] /\ proc' # Wakes(s, p, r)
    <3>1. Waits(proc[q], s)
      BY <1>1, <2>3, MovesOthers
    <3>2. {"LOCKED", "WANT"} \subseteq inode[s].flag
      BY <3>1 DEF Inv, Waking
    <3> QED BY <2>3, <3>2 DEF Signals
  <2> QED BY <2>1, <2>2, <2>3 DEF Signals
<1>5. Alone1(s)
  <2> SUFFICES ASSUME NEW q \in Procs
               PROVE  /\ Solely(proc'[q], s) => e.count = 1
                      /\ Reads(proc'[q], s) => s \in hashed'
    BY <1>1 DEF Alone1
  <2>1. CASE q = p
    BY <1>1, <2>1 DEF Counts
  <2>2. CASE q # p /\ Solely(proc'[q], s)
    <3>1. Solely(proc[q], s) /\ (Reads(proc'[q], s) => Reads(proc[q], s))
      BY <1>1, <2>2, MovesOthers
    <3>2. inode[s].count = 1 /\ Owns(proc[q], s) /\ (Reads(proc[q], s) => s \in hashed)
      BY <3>1 DEF Inv, Alone, Solely, Owns, Owning
    <3>3. ~Owns(proc[p], s) /\ "LOCKED" \in inode[s].flag
      BY <2>2, <3>2 DEF Inv, Locking
    <3> QED BY <3>1, <3>2, <3>3 DEF Locks
  <2>3. Reads(proc'[q], s) => Solely(proc'[q], s)
    BY DEF Reads, Solely
  <2> QED BY <2>1, <2>2, <2>3
<1>6. Named1(s) /\ Turned(p, s)
  BY <1>1 DEF Named1, Names1, Turned
<1>7. Kept1(s)
  <2> SUFFICES ASSUME s \in hashed', e.ino \notin BadInos, "CHG" \notin e.flag,
                      \A q \in Procs : ~Reads(proc'[q], s)
               PROVE  dinode'[e.ino] = e.ic
    BY <1>1 DEF Kept1
  <2>1. \A q \in Procs \ {p} : ~Reads(proc[q], s)
    BY <1>1, MovesOthers
  <2> QED BY <1>1, <2>1 DEF Keeps1
<1> QED BY <1>1, <1>2, <1>3, <1>4, <1>5, <1>6, <1>7, MovesInv

(* What the disk has of a slot, when a step leaves it as it is, and when   *)
(* it writes it.                                                           *)
LEMMA KeepsSame ==
  ASSUME Inv, NEW p \in Procs, NEW s \in Table, ~Reads(proc[p], s), NEW e,
         e.ino = inode[s].ino, "CHG" \in e.flag \/ e.ic = inode[s].ic,
         "CHG" \in inode[s].flag => "CHG" \in e.flag,
         dinode' = dinode, hashed' = hashed
  PROVE  Keeps1(p, s, e) /\ Written(s)
<1>1. Kept
  BY DEF Inv
<1> QED BY <1>1, KeptReads DEF Keeps1, Written

LEMMA KeepsWritten ==
  ASSUME Inv, NEW p \in Procs, NEW s \in Table, NEW ok \in BOOLEAN, Readable(s, ok),
         Iupdat(s, ok), NEW e, e.ino = inode[s].ino, e.ic = inode[s].ic
  PROVE  Keeps1(p, s, e) /\ Written(s)
<1>1. inode[s].ino \in DOMAIN dinode /\ Inos \subseteq DOMAIN dinode
  BY DEF Inv, Typing, SlotType
<1> QED BY <1>1 DEF Keeps1, Written, Readable, Iupdat

-----------------------------------------------------------------------------
(* The records of processes, and their claims.                             *)

NoClaims(x, s) ==
  ~Refers(x, s) /\ ~Owns(x, s) /\ ~Waits(x, s) /\ ~Solely(x, s) /\ ~Reads(x, s)

LEMMA OneSlot ==
  ASSUME NEW x, Fits(x), NEW s \in Table, Refers(x, s)
  PROVE  ClaimsOnly(x, s)
BY Constants DEF Fits, ClaimsOnly, Refers, Owns, Owning, Waits, Solely, Reads

LEMMA NoSlot ==
  ASSUME NEW x, x.fd = NONE, x.ip = NONE \/ x.pc = "iget"
  PROVE  \A s \in Table : NoClaims(x, s) /\ ClaimsOnly(x, s)
BY Constants DEF ClaimsOnly, NoClaims, Refers, Owns, Owning, Waits, Solely, Reads

LEMMA UserRole ==
  ASSUME NEW p, NEW fd \in Table \cup {NONE}
  PROVE  /\ Fits(User(p, fd))
         /\ \A s \in Table : /\ Refers(User(p, fd), s) <=> fd = s
                             /\ ~Owns(User(p, fd), s) /\ ~Waits(User(p, fd), s)
                             /\ ~Solely(User(p, fd), s) /\ ~Reads(User(p, fd), s)
<1>1. Noino \in Inos \cup {Noino} /\ {} \in SUBSET Table
  OBVIOUS
<1>2. User(p, fd) \in Proc
  BY <1>1 DEF User, Proc
<1>3. Fits(User(p, fd))
  BY <1>2, Constants DEF Fits, User
<1> QED BY <1>3, Constants DEF User, Refers, Owns, Owning, Waits, Solely, Reads

LEMMA ThenRole ==
  ASSUME NEW x \in Proc, x.fd = NONE, NEW s \in Table,
         NEW pc \in (Owning \cup {"isleep", "lsleep"}),
         pc \in {"isleep", "iread"} => x.op \in {"open", "creat", "unlink"} /\ x.ino \in Inos,
         NEW r, r = Then(x, pc, s)
  PROVE  /\ Fits(r) /\ r.ip = s /\ r.pc = pc
         /\ \A t \in Table : /\ Refers(r, t) <=> t = s /\ pc # "isleep"
                             /\ Owns(r, t) <=> t = s /\ pc \in Owning
                             /\ Waits(r, t) <=> t = s /\ pc \notin Owning
                             /\ Solely(r, t) <=> t = s /\ pc \in {"iread", "trunc", "ifree", "iupd"}
                             /\ Reads(r, t) <=> t = s /\ pc = "iread"
<1>1. /\ r.op = x.op /\ r.ino = x.ino /\ r.fd = NONE /\ r.ip = s /\ r.pc = pc
      /\ r \in Proc
  <2>1. pc \in {"iread", "use", "remove", "make", "enter", "trunc", "ifree", "iupd",
                "supd", "isleep", "lsleep"}
    BY DEF Owning
  <2>2. r = [pc |-> pc, op |-> x.op, ino |-> x.ino, name |-> x.name, ip |-> s,
             fd |-> NONE, todo |-> x.todo]
    BY DEF Then, Proc
  <2>3. /\ x.op \in Ops \cup {"close", NONE} /\ x.ino \in Inos \cup {Noino}
        /\ x.name \in Names \cup {NONE} /\ x.todo \in SUBSET Table
    BY DEF Proc
  <2> QED BY <2>1, <2>2, <2>3 DEF Proc
<1>2. Fits(r)
  BY <1>1, Constants DEF Fits, Owning
<1>3. ASSUME NEW t \in Table
      PROVE  /\ Refers(r, t) <=> t = s /\ pc # "isleep"
             /\ Owns(r, t) <=> t = s /\ pc \in Owning
             /\ Waits(r, t) <=> t = s /\ pc \notin Owning
             /\ Solely(r, t) <=> t = s /\ pc \in {"iread", "trunc", "ifree", "iupd"}
             /\ Reads(r, t) <=> t = s /\ pc = "iread"
  BY <1>1, Constants DEF Refers, Owns, Owning, Waits, Solely, Reads
<1> QED BY <1>1, <1>2, <1>3

LEMMA OwnRole ==
  ASSUME NEW s \in Table, NEW pc \in Owning \ {"iread"}, NEW r \in Proc,
         r.ip = s, r.pc = pc, r.fd = NONE
  PROVE  /\ Fits(r)
         /\ \A t \in Table : /\ Refers(r, t) <=> t = s
                             /\ Owns(r, t) <=> t = s
                             /\ ~Waits(r, t) /\ ~Reads(r, t)
                             /\ Solely(r, t) <=> t = s /\ pc \in {"trunc", "ifree", "iupd"}
<1>1. Fits(r)
  BY Constants DEF Fits, Owning
<1>2. ASSUME NEW t \in Table
      PROVE  /\ Refers(r, t) <=> t = s
             /\ Owns(r, t) <=> t = s
             /\ ~Waits(r, t) /\ ~Reads(r, t)
             /\ Solely(r, t) <=> t = s /\ pc \in {"trunc", "ifree", "iupd"}
  BY Constants DEF Refers, Owns, Owning, Waits, Solely, Reads
<1> QED BY <1>1, <1>2

LEMMA AtRole ==
  ASSUME NEW p \in Procs, proc[p] \in Proc, NEW s \in Table, NEW pc \in Owning \ {"iread"},
         NEW r, r = At(p, pc, s)
  PROVE  /\ Fits(r)
         /\ \A t \in Table : /\ Refers(r, t) <=> t = s
                             /\ Owns(r, t) <=> t = s
                             /\ ~Waits(r, t) /\ ~Reads(r, t)
                             /\ Solely(r, t) <=> t = s /\ pc \in {"trunc", "ifree", "iupd"}
<1>1. r.fd = NONE /\ r.ip = s /\ r.pc = pc /\ r \in Proc
  BY DEF At, Proc, Owning
<1> QED BY <1>1, OwnRole

LEMMA ReturnRole ==
  ASSUME NEW p \in Procs, Fits(proc[p])
  PROVE  Fits(Return(p)) /\ \A s \in Table : NoClaims(Return(p), s) /\ ClaimsOnly(Return(p), s)
<1>1. CASE proc[p].op = "sync"
  <2> DEFINE r == Return(p)
  <2>1. proc[p] \in Proc /\ proc[p].fd = NONE
    BY <1>1 DEF Fits
  <2>2. r.fd = NONE /\ r.ip = NONE /\ r.pc = "sync" /\ r \in Proc /\ r.op = "sync"
    BY <1>1, <2>1 DEF Return, Proc
  <2> HIDE DEF r
  <2>3. Fits(r)
    BY <2>2 DEF Fits
  <2> QED BY <2>2, <2>3, NoSlot DEF r
<1>2. CASE proc[p].op # "sync"
  <2>1. Return(p) = User(p, NONE)
    BY <1>2 DEF Return
  <2>2. Fits(User(p, NONE)) /\ User(p, NONE).fd = NONE /\ User(p, NONE).ip = NONE
    BY UserRole DEF User
  <2> QED BY <2>1, <2>2, NoSlot
<1> QED BY <1>1, <1>2

-----------------------------------------------------------------------------
(* The free list.                                                          *)

LEMMA AppendElements ==
  ASSUME NEW S, NEW l \in Seq(S), NEW e \in S, NoRepeats(l), e \notin Elements(l)
  PROVE  /\ Append(l, e) \in Seq(S) /\ NoRepeats(Append(l, e))
         /\ Elements(Append(l, e)) = Elements(l) \cup {e}
<1> DEFINE m == Append(l, e)
<1>1. /\ Len(l) \in Nat /\ m \in Seq(S) /\ Len(m) = Len(l) + 1
      /\ \A i \in 1..Len(l) : m[i] = l[i]
      /\ m[Len(l) + 1] = e
  OBVIOUS
<1> HIDE DEF m
<1>2. \A i \in 1..(Len(l) + 1) : i \in 1..Len(l) \/ i = Len(l) + 1
  BY <1>1
<1>3. \A i \in 1..Len(l) : l[i] # e
  BY DEF Elements
<1>4. NoRepeats(m)
  BY <1>1, <1>2, <1>3 DEF NoRepeats
<1>5. Elements(m) = Elements(l) \cup {e}
  BY <1>1, <1>2 DEF Elements
<1> QED BY <1>1, <1>4, <1>5 DEF m

LEMMA ListedSame ==
  ASSUME Inv, NEW s \in Table, ifree' = ifree,
         inode'[s].count = 0 <=> inode[s].count = 0
  PROVE  Listed1(s)
BY DEF Inv, Typing, Listing, Listed1

LEMMA ListedAppend ==
  ASSUME Inv, NEW s \in Table, ifree' = Append(ifree, s),
         inode'[s].count = 0, inode[s].count # 0
  PROVE  Listed1(s)
<1>1. ifree \in Seq(Table) /\ NoRepeats(ifree) /\ s \notin Elements(ifree)
  BY DEF Inv, Typing, Listing
<1>2. /\ ifree' \in Seq(Table) /\ NoRepeats(ifree')
      /\ Elements(ifree') = Elements(ifree) \cup {s}
  BY <1>1, AppendElements
<1> QED BY <1>2 DEF Listed1

LEMMA ListedTail ==
  ASSUME Inv, NEW s \in Table, ifree # <<>>, s = Head(ifree), ifree' = Tail(ifree),
         inode'[s].count # 0
  PROVE  Listed1(s)
<1>1. ifree \in Seq(Table) /\ NoRepeats(ifree)
  BY DEF Inv, Typing, Listing
<1>2. /\ ifree' \in Seq(Table) /\ NoRepeats(ifree')
      /\ Elements(ifree') = Elements(ifree) \ {s}
  BY <1>1, TailElements
<1> QED BY <1>2 DEF Listed1

LEMMA ListedOff ==
  ASSUME Inv, NEW s \in Table, ifree' = OffList(s), inode'[s].count # 0
  PROVE  Listed1(s)
<1>1. ifree \in Seq(Table) /\ NoRepeats(ifree)
  BY DEF Inv, Typing, Listing
<1>2. CASE inode[s].count # 0
  BY <1>2, ListedSame DEF OffList
<1>3. CASE inode[s].count = 0
  <2> DEFINE k == CHOOSE i \in DOMAIN ifree : ifree[i] = s
  <2>1. s \in Elements(ifree)
    BY <1>3 DEF Inv, Listing
  <2>2. k \in 1..Len(ifree) /\ ifree[k] = s
    BY <1>1, <2>1 DEF Elements
  <2>3. ifree' = RemoveAt(ifree, k)
    BY <1>3 DEF OffList, Without
  <2> HIDE DEF k
  <2>4. ifree' \in Seq(Table)
    BY <1>1, <2>2, <2>3, RemoveAtSeq
  <2>5. NoRepeats(ifree') /\ Elements(ifree') = Elements(ifree) \ {s}
    BY <1>1, <2>2, <2>3, RemoveAtElements
  <2> QED BY <2>4, <2>5 DEF Listed1
<1> QED BY <1>2, <1>3

-----------------------------------------------------------------------------
(* irele, called by p with s, which it has or which nobody has locked, and *)
(* whose record is u after iunlock.                                        *)

LEMMA IreleInv ==
  ASSUME Inv, NEW p \in Procs, NEW s \in Table, NEW u \in SlotType, NEW t,
         t = [inode EXCEPT ![s] = u], u.flag \cap {"LOCKED", "WANT"} = {},
         u.count = inode[s].count,
         Refers(proc[p], s), Owns(proc[p], s) \/ "LOCKED" \notin inode[s].flag,
         NEW d \in Procs \cup {NONE}, Irele(p, t, s, d),
         Names1(p, s, u), Keeps1(p, s, u), Written(s), Disk1
  PROVE  Inv' /\ Stays
<1>0. /\ inode \in [Table -> SlotType] /\ proc[p] \in Proc /\ Fits(proc[p])
      /\ inode[s].count \in Nat \ {0} /\ ClaimsOnly(proc[p], s)
  BY Positive, OneSlot DEF Inv, Typing, Fitting
<1>1. t[s] = u
  BY <1>0
<1>2. Rest1
  BY DEF Irele, DirRelease, Rest1
<1>3. CASE /\ t[s].count # 1
           /\ inode' = Counted(t, s, t[s].count - 1)
           /\ proc' = Wakes(s, p, Return(p)) /\ UNCHANGED ifree
  <2> DEFINE e == [u EXCEPT !.count = @ - 1]
             r == Return(p)
  <2>1. /\ e \in SlotType /\ e.ino = u.ino /\ e.flag = u.flag /\ e.count = u.count - 1
        /\ e.ic = u.ic
        /\ e.count # 0
    BY <1>0, <1>1, <1>3 DEF SlotType
  <2>2. inode' = [inode EXCEPT ![s] = e]
    BY <1>0, <1>1, <1>3 DEF Counted
  <2>3. Fits(r) /\ NoClaims(r, s) /\ ClaimsOnly(r, s)
    BY <1>0, ReturnRole
  <2>4. proc' = Wakes(s, p, r)
    BY <1>3
  <2> HIDE DEF e, r
  <2>5. Signals(p, s, e, r) /\ Locks(p, s, e, r) /\ Counts(p, s, e, r)
    BY <2>1, <2>3, <2>4 DEF Signals, Locks, Counts, NoClaims
  <2>6. Listed1(s)
    <3>1. inode'[s] = e
      BY <1>0, <2>2
    <3> QED BY <1>0, <1>3, <2>1, <3>1, ListedSame
  <2>7. Names1(p, s, e) /\ Keeps1(p, s, e)
    BY <2>1 DEF Names1, Keeps1
  <2> QED BY <1>0, <1>2, <2>1, <2>2, <2>3, <2>5, <2>6, <2>7, StepInv
<1>4. CASE /\ t[s].count = 1 /\ NextPc(t, s) # "done"
           /\ inode' = Locked(t, s)
           /\ proc' = Wakes(s, p, At(p, NextPc(t, s), s)) /\ UNCHANGED ifree
  <2> DEFINE e == [u EXCEPT !.flag = @ \cup {"LOCKED"}]
             r == At(p, NextPc(t, s), s)
  <2>1. /\ e \in SlotType /\ e.ino = u.ino /\ e.count = u.count /\ e.ic = u.ic
        /\ e.flag = u.flag \cup {"LOCKED"}
    BY DEF SlotType
  <2>2. inode' = [inode EXCEPT ![s] = e]
    BY <1>0, <1>1, <1>4 DEF Locked
  <2>3. NextPc(t, s) \in Owning \ {"iread"}
    <3>1. NextPc(t, s) \in {"trunc", "iupd"}
      BY <1>4 DEF NextPc
    <3> QED BY <3>1 DEF Owning
  <2>4. Fits(r) /\ Refers(r, s) /\ Owns(r, s) /\ ~Waits(r, s) /\ ~Reads(r, s)
    BY <1>0, <2>3, AtRole
  <2>5. ClaimsOnly(r, s)
    BY <2>4, OneSlot
  <2>6. proc' = Wakes(s, p, r)
    BY <1>4
  <2> HIDE DEF e, r
  <2>7. Signals(p, s, e, r) /\ Locks(p, s, e, r) /\ Counts(p, s, e, r)
    BY <1>1, <1>4, <2>1, <2>4, <2>6 DEF Signals, Locks, Counts
  <2>8. Listed1(s)
    <3>1. inode'[s] = e
      BY <1>0, <2>2
    <3> QED BY <1>0, <1>4, <2>1, <3>1, ListedSame
  <2>9. Names1(p, s, e) /\ Keeps1(p, s, e)
    BY <2>1 DEF Names1, Keeps1
  <2> QED BY <1>0, <1>2, <2>1, <2>2, <2>4, <2>5, <2>7, <2>8, <2>9, StepInv
<1>5. CASE /\ t[s].count = 1
           /\ NextPc(t, s) = "done"
           /\ inode' = Released(t, s) /\ ifree' = Append(ifree, s)
           /\ proc' = Wakes(s, p, Return(p))
  <2> DEFINE e == [u EXCEPT !.flag = {}, !.count = 0]
             r == Return(p)
  <2>1. e \in SlotType /\ e.ino = u.ino /\ e.count = 0 /\ e.flag = {}
        /\ e.ic = u.ic
    BY DEF SlotType
  <2>2. inode' = [inode EXCEPT ![s] = e]
    BY <1>0, <1>1, <1>5 DEF Released
  <2>3. Fits(r) /\ NoClaims(r, s) /\ ClaimsOnly(r, s)
    BY <1>0, ReturnRole
  <2>4. proc' = Wakes(s, p, r)
    BY <1>5
  <2> HIDE DEF e, r
  <2>5. Signals(p, s, e, r) /\ Locks(p, s, e, r) /\ Counts(p, s, e, r)
    BY <1>1, <1>5, <2>1, <2>3, <2>4 DEF Signals, Locks, Counts, NoClaims
  <2>6. Listed1(s)
    <3>1. inode'[s] = e
      BY <1>0, <2>2
    <3> QED BY <1>0, <1>5, <2>1, <3>1, ListedAppend
  <2>7. Names1(p, s, e)
    BY <2>1 DEF Names1
  <2>8. "CHG" \notin u.flag
    BY <1>1, <1>5 DEF NextPc
  <2>9. Keeps1(p, s, e)
    BY <2>1, <2>8 DEF Keeps1
  <2> QED BY <1>0, <1>2, <2>1, <2>2, <2>3, <2>5, <2>6, <2>7, <2>9, StepInv
<1> QED BY <1>3, <1>4, <1>5 DEF Irele

-----------------------------------------------------------------------------
(* Three kinds of step.  One that deals with no slot.                      *)
LEMMA ApartInv ==
  ASSUME Inv, NEW p \in Procs, NEW r, Fits(r),
         \A s \in Table : NoClaims(proc[p], s) /\ NoClaims(r, s),
         UNCHANGED <<inode, hashed, ifree, dinode>>, proc' = [proc EXCEPT ![p] = r], Rest1
  PROVE  Inv' /\ Stays
<1> DEFINE s == 1
           e == inode[s]
<1>1. s \in Table /\ inode \in [Table -> SlotType]
  BY Constants DEF Table, Inv, Typing
<1> HIDE DEF s
<1>2. e \in SlotType /\ inode' = [inode EXCEPT ![s] = e]
  BY <1>1
<1>3. ClaimsOnly(proc[p], s) /\ ClaimsOnly(r, s)
  BY DEF ClaimsOnly, NoClaims
<1>4. NoClaims(proc[p], s) /\ NoClaims(r, s)
  BY <1>1
<1>5. Signals(p, s, e, r) /\ Locks(p, s, e, r) /\ Counts(p, s, e, r)
  BY <1>4 DEF Signals, Locks, Counts, NoClaims
<1>6. Listed1(s)
  BY <1>1, ListedSame
<1>7. Names1(p, s, e)
  BY <1>1 DEF Names1, Inv, Typing, Naming, SoleInode
<1>8. Keeps1(p, s, e) /\ Written(s)
  <2>1. ~Reads(proc[p], s) /\ (e.ino = inode[s].ino /\ e.ic = inode[s].ic)
        /\ ("CHG" \in inode[s].flag => "CHG" \in e.flag)
    BY <1>4 DEF NoClaims
  <2> HIDE DEF e
  <2> QED BY <1>1, <2>1, KeepsSame
<1> HIDE DEF e
<1> QED BY <1>1, <1>2, <1>3, <1>5, <1>6, <1>7, <1>8, StepInv

(* One of who has the slot locked, and keeps it so.                        *)
LEMMA OwnInv ==
  ASSUME Inv, NEW p \in Procs, NEW s \in Table, Owns(proc[p], s),
         NEW e \in SlotType, e.ino = inode[s].ino, e.count = inode[s].count,
         inode[s].flag \subseteq e.flag \cup {"CHG"}, inode' = [inode EXCEPT ![s] = e],
         NEW r, Fits(r), Owns(r, s), ~Waits(r, s), ~Reads(r, s),
         Solely(r, s) => inode[s].count = 1,
         proc' = [proc EXCEPT ![p] = r],
         hashed' = hashed, ifree' = ifree, Keeps1(p, s, e), Written(s), Rest1
  PROVE  Inv' /\ Stays
<1>1. inode \in [Table -> SlotType] /\ Fits(proc[p])
  BY DEF Inv, Typing, Fitting
<1>2. Refers(proc[p], s) /\ Refers(r, s)
  BY DEF Owns, Owning, Refers
<1>3. ClaimsOnly(proc[p], s) /\ ClaimsOnly(r, s)
  BY <1>1, <1>2, OneSlot
<1>4. "LOCKED" \in inode[s].flag
  BY DEF Inv, Locking
<1>5. Signals(p, s, e, r) /\ Locks(p, s, e, r) /\ Counts(p, s, e, r)
  BY <1>2, <1>4 DEF Signals, Locks, Counts
<1>6. Listed1(s)
  BY <1>1, ListedSame
<1>7. Names1(p, s, e)
  BY <1>1 DEF Names1, Inv, Typing, Naming, SoleInode
<1> QED BY <1>1, <1>3, <1>5, <1>6, <1>7, StepInv

(* One of who has the slot locked, and unlocks it.                         *)
LEMMA UnlockInv ==
  ASSUME Inv, NEW p \in Procs, NEW s \in Table, Owns(proc[p], s),
         NEW e \in SlotType, e.ino = inode[s].ino, e.count = inode[s].count,
         "LOCKED" \notin e.flag, inode' = [inode EXCEPT ![s] = e],
         NEW r, Fits(r), ClaimsOnly(r, s), Refers(r, s), ~Owns(r, s), ~Waits(r, s),
         ~Solely(r, s), ~Reads(r, s),
         proc' = Wakes(s, p, r),
         hashed' = hashed, ifree' = ifree, Keeps1(p, s, e), Written(s), Rest1
  PROVE  Inv' /\ Stays
<1>1. inode \in [Table -> SlotType] /\ Fits(proc[p])
  BY DEF Inv, Typing, Fitting
<1>2. Refers(proc[p], s)
  BY DEF Owns, Owning, Refers
<1>3. ClaimsOnly(proc[p], s)
  BY <1>1, <1>2, OneSlot
<1>5. Signals(p, s, e, r) /\ Locks(p, s, e, r) /\ Counts(p, s, e, r)
  BY <1>2 DEF Signals, Locks, Counts
<1>6. Listed1(s)
  BY <1>1, ListedSame
<1>7. Names1(p, s, e)
  BY <1>1 DEF Names1, Inv, Typing, Naming, SoleInode
<1> QED BY <1>1, <1>3, <1>5, <1>6, <1>7, StepInv

(* One of who has no slot, and locks one that nobody has locked.           *)
LEMMA LockInv ==
  ASSUME Inv, NEW p \in Procs, NEW s \in Table,
         \A t \in Table : NoClaims(proc[p], t), "LOCKED" \notin inode[s].flag,
         NEW e \in SlotType, e.count = inode[s].count + 1, "LOCKED" \in e.flag,
         inode' = [inode EXCEPT ![s] = e],
         NEW r, Fits(r), ClaimsOnly(r, s), Refers(r, s), Owns(r, s), ~Waits(r, s),
         Solely(r, s) => e.count = 1, Reads(r, s) => s \in hashed',
         proc' = [proc EXCEPT ![p] = r],
         Listed1(s), Names1(p, s, e), Written(s), Reads(r, s) \/ Keeps1(p, s, e), Rest1
  PROVE  Inv' /\ Stays
<1>1. inode \in [Table -> SlotType] /\ NoClaims(proc[p], s) /\ ClaimsOnly(proc[p], s)
  BY DEF Inv, Typing, ClaimsOnly, NoClaims
<1>2. Signals(p, s, e, r) /\ Locks(p, s, e, r) /\ Counts(p, s, e, r)
  BY <1>1 DEF Signals, Locks, Counts, NoClaims
<1> QED BY <1>1, <1>2, StepInv

-----------------------------------------------------------------------------
(* iget, for a process whose record is r and that has no slot.             *)

(* A slot on the free list is not locked.                                  *)
LEMMA FreeUnlocked ==
  ASSUME Inv, NEW s \in Table, inode[s].count = 0
  PROVE  "LOCKED" \notin inode[s].flag
<1> SUFFICES ASSUME NEW q \in Procs, Owns(proc[q], s) PROVE FALSE
  BY DEF Inv, Locking
<1>1. Refers(proc[q], s)
  BY DEF Owns, Owning, Refers
<1> QED BY <1>1, Positive

Seeks(p, r) ==
  /\ r \in Proc /\ r.fd = NONE /\ r.op \in {"open", "creat", "unlink"} /\ r.ino \in Inos
  /\ \A t \in Table : NoClaims(proc[p], t)

LEMMA IgetBusyInv ==
  ASSUME Inv, NEW p \in Procs, NEW r, Seeks(p, r), IgetBusy(p, r), Rest1, dinode' = dinode
  PROVE  Inv' /\ Stays
<1> PICK s \in Cached(r.ino) :
      /\ Is(s, "LOCKED") /\ inode' = Want(inode, s)
      /\ proc' = [proc EXCEPT ![p] = Then(r, "isleep", s)]
      /\ UNCHANGED <<hashed, ifree, panic>>
  BY DEF IgetBusy
<1> DEFINE e == [inode[s] EXCEPT !.flag = @ \cup {"WANT"}]
           x == Then(r, "isleep", s)
<1>1. s \in Table /\ inode \in [Table -> SlotType] /\ "LOCKED" \in inode[s].flag
  BY DEF Cached, Inv, Typing, Is
<1>2. /\ e \in SlotType /\ inode' = [inode EXCEPT ![s] = e]
      /\ e.ino = inode[s].ino /\ e.count = inode[s].count
      /\ e.flag = inode[s].flag \cup {"WANT"} /\ e.ic = inode[s].ic
  BY <1>1 DEF Want, SlotType
<1>3. /\ Fits(x) /\ \A t \in Table : /\ ~Refers(x, t) /\ ~Owns(x, t) /\ ~Solely(x, t)
                                   /\ ~Reads(x, t) /\ (Waits(x, t) <=> t = s)
  BY <1>1, ThenRole DEF Seeks, Owning
<1> HIDE DEF e, x
<1>4. ClaimsOnly(proc[p], s) /\ ClaimsOnly(x, s) /\ NoClaims(proc[p], s)
  BY <1>1, <1>3 DEF ClaimsOnly, NoClaims, Seeks
<1>5. proc' = [proc EXCEPT ![p] = x]
  BY DEF x
<1>6. Signals(p, s, e, x) /\ Locks(p, s, e, x) /\ Counts(p, s, e, x)
  BY <1>1, <1>2, <1>3, <1>4, <1>5 DEF Signals, Locks, Counts, NoClaims
<1>7. Listed1(s)
  BY <1>1, <1>2, ListedSame
<1>8. Names1(p, s, e)
  BY <1>1, <1>2 DEF Names1, Inv, Typing, Naming, SoleInode
<1>9. Keeps1(p, s, e) /\ Written(s)
  BY <1>1, <1>2, <1>4, KeepsSame DEF NoClaims
<1> QED BY <1>1, <1>2, <1>3, <1>4, <1>6, <1>7, <1>8, <1>9, StepInv

(* The records of slots that change.                                       *)
LEMMA HeldType ==
  ASSUME NEW b \in SlotType, NEW h, h = [b EXCEPT !.flag = @ \cup {"LOCKED"}, !.count = @ + 1]
  PROVE  /\ h \in SlotType /\ h.ino = b.ino /\ h.ic = b.ic
         /\ h.flag = b.flag \cup {"LOCKED"} /\ h.count = b.count + 1
<1>1. /\ b.ino \in Inos \cup {Noino} /\ b.ic \in Dinode /\ b.count + 1 \in Nat
      /\ b.flag \cup {"LOCKED"} \in SUBSET {"LOCKED", "WANT", "CHG"}
  BY DEF SlotType
<1>2. h = [ino |-> b.ino, flag |-> b.flag \cup {"LOCKED"}, count |-> b.count + 1, ic |-> b.ic]
  BY DEF SlotType
<1> QED BY <1>1, <1>2 DEF SlotType

LEMMA NewType ==
  ASSUME NEW b \in SlotType,
         NEW n, n = [b EXCEPT !.ic = [mode |-> "FILE", nlink |-> 1, data |-> 0],
                              !.flag = @ \cup {"CHG"}]
  PROVE  /\ n \in SlotType /\ n.ino = b.ino /\ n.count = b.count
         /\ n.flag = b.flag \cup {"CHG"}
<1> DEFINE c == [mode |-> "FILE", nlink |-> 1, data |-> 0]
<1>1. c \in Dinode
  BY DEF Dinode
<1>2. n = [b EXCEPT !.ic = c, !.flag = @ \cup {"CHG"}]
  OBVIOUS
<1> HIDE DEF c
<1> QED BY <1>1, <1>2 DEF SlotType

LEMMA UnlockedType ==
  ASSUME NEW b \in SlotType, NEW u, u = [b EXCEPT !.flag = @ \ {"LOCKED", "WANT"}]
  PROVE  /\ u \in SlotType /\ u.ino = b.ino /\ u.ic = b.ic /\ u.count = b.count
         /\ "CHG" \in u.flag <=> "CHG" \in b.flag
         /\ u.flag \cap {"LOCKED", "WANT"} = {}
BY DEF SlotType

LEMMA ReadType ==
  ASSUME NEW b \in SlotType, NEW c \in Dinode, NEW n, n = [b EXCEPT !.ic = c]
  PROVE  /\ n \in SlotType /\ n.ino = b.ino /\ n.ic = c /\ n.count = b.count
         /\ n.flag = b.flag
BY DEF SlotType

(* What iget's callers then are.                                           *)
LEMMA FollowingRole ==
  ASSUME NEW r \in Proc, r.fd = NONE, r.op \in {"open", "creat", "unlink"},
         NEW s \in Table, NEW x, x = Then(r, Following(r), s)
  PROVE  /\ Fits(x) /\ Refers(x, s) /\ Owns(x, s) /\ ~Waits(x, s) /\ ~Solely(x, s)
         /\ ~Reads(x, s) /\ ClaimsOnly(x, s)
<1>1. Following(r) \in {"use", "remove", "make"}
  BY DEF Following
<1>2. Following(r) \in Owning \cup {"isleep", "lsleep"} /\ Following(r) \in Owning
  BY <1>1 DEF Owning
<1>3. /\ Fits(x)
      /\ Refers(x, s) /\ Owns(x, s) /\ ~Waits(x, s) /\ ~Solely(x, s) /\ ~Reads(x, s)
  BY <1>1, <1>2, ThenRole
<1> QED BY <1>3, OneSlot

LEMMA IgetHitInv ==
  ASSUME Inv, NEW p \in Procs, NEW r, Seeks(p, r), IgetHit(p, r), Rest1, dinode' = dinode
  PROVE  Inv' /\ Stays
<1> PICK s \in Cached(r.ino) :
      /\ ~Is(s, "LOCKED") /\ ifree' = OffList(s)
      /\ Got(p, r, Held(s), s)
      /\ UNCHANGED hashed
  BY DEF IgetHit
<1> DEFINE h == [inode[s] EXCEPT !.flag = @ \cup {"LOCKED"}, !.count = @ + 1]
           n == [h EXCEPT !.ic = [mode |-> "FILE", nlink |-> 1, data |-> 0],
                          !.flag = @ \cup {"CHG"}]
           e == IF r.op = "creat" THEN n ELSE h
           x == Then(r, Following(r), s)
<1>1. s \in Table /\ inode \in [Table -> SlotType] /\ "LOCKED" \notin inode[s].flag
  BY DEF Cached, Inv, Typing, Is
<1>2. /\ h \in SlotType /\ Held(s) = [inode EXCEPT ![s] = h]
      /\ h.ino = inode[s].ino /\ h.count = inode[s].count + 1
      /\ h.ic = inode[s].ic /\ h.flag = inode[s].flag \cup {"LOCKED"}
  <2>1. inode[s] \in SlotType
    BY <1>1
  <2>2. /\ h \in SlotType
        /\ h.ino = inode[s].ino /\ h.count = inode[s].count + 1
        /\ h.ic = inode[s].ic /\ h.flag = inode[s].flag \cup {"LOCKED"}
    BY <2>1, HeldType
  <2>3. Held(s) = [inode EXCEPT ![s] = h]
    BY <1>1, <2>1 DEF Held, Counted, Locked, SlotType
  <2> QED BY <2>2, <2>3
<1>3. /\ n \in SlotType /\ New(Held(s), s) = [inode EXCEPT ![s] = n]
      /\ n.ino = inode[s].ino /\ n.count = inode[s].count + 1
      /\ "LOCKED" \in n.flag /\ "CHG" \in n.flag
  <2> HIDE DEF h
  <2>1. n \in SlotType /\ n.ino = h.ino /\ n.count = h.count /\ n.flag = h.flag \cup {"CHG"}
    BY <1>2, NewType
  <2>2. New(Held(s), s) = [inode EXCEPT ![s] = n]
    BY <1>1, <1>2 DEF New
  <2> QED BY <1>2, <2>1, <2>2
<1>4. /\ e \in SlotType /\ inode' = [inode EXCEPT ![s] = e]
      /\ e.ino = inode[s].ino /\ e.count = inode[s].count + 1 /\ "LOCKED" \in e.flag
      /\ "CHG" \in e.flag \/ e.ic = inode[s].ic
      /\ "CHG" \in inode[s].flag => "CHG" \in e.flag
  <2> HIDE DEF n, h
  <2> QED BY <1>2, <1>3 DEF Got
<1>5. proc' = [proc EXCEPT ![p] = x]
  BY DEF Got
<1>6. /\ Fits(x) /\ Refers(x, s) /\ Owns(x, s) /\ ~Waits(x, s) /\ ~Solely(x, s)
      /\ ~Reads(x, s) /\ ClaimsOnly(x, s)
  BY <1>1, FollowingRole DEF Seeks
<1> HIDE DEF e, x
<1>7. inode'[s].count # 0 /\ inode[s].count \in Nat
  BY <1>1, <1>4 DEF SlotType
<1>8. Listed1(s)
  BY <1>1, <1>7, ListedOff
<1>9. Names1(p, s, e)
  BY <1>1, <1>4 DEF Names1, Inv, Typing, Naming, SoleInode
<1>10. Keeps1(p, s, e) /\ Written(s)
  BY <1>1, <1>4, KeepsSame DEF Seeks, NoClaims
<1> QED BY <1>1, <1>4, <1>5, <1>6, <1>8, <1>9, <1>10, LockInv DEF Seeks

LEMMA IgetMissInv ==
  ASSUME Inv, NEW p \in Procs, NEW r, Seeks(p, r), IgetMiss(p, r), Rest1, dinode' = dinode
  PROVE  Inv' /\ Stays
<1> DEFINE s == Head(ifree)
           e == [inode[s] EXCEPT !.ino = r.ino, !.flag = {"LOCKED"}, !.count = @ + 1]
           x == Then(r, "iread", s)
<1>1. /\ Cached(r.ino) = {} /\ ifree # <<>> /\ ifree' = Tail(ifree)
      /\ inode' = [inode EXCEPT ![s].ino = r.ino,
                                ![s].flag = {"LOCKED"}, ![s].count = @ + 1]
      /\ hashed' = hashed \cup {s}
      /\ proc' = [proc EXCEPT ![p] = x]
  BY DEF IgetMiss, Hashed
<1>2. inode \in [Table -> SlotType] /\ ifree \in Seq(Table) /\ hashed \subseteq Table
  BY DEF Inv, Typing
<1>3. s \in Table /\ s \in Elements(ifree)
  <2>1. Len(ifree) \in Nat /\ Len(ifree) # 0 /\ s = ifree[1]
    BY <1>1, <1>2
  <2>2. 1 \in 1..Len(ifree)
    BY <2>1
  <2>3. ifree[1] \in Table
    BY <1>2, <2>2
  <2> QED BY <2>1, <2>2, <2>3 DEF Elements
<1>4. inode[s].count = 0 /\ "LOCKED" \notin inode[s].flag
  BY <1>3, FreeUnlocked DEF Inv, Listing
<1>5. r.ino \in Inos /\ r.ino # Noino /\ r \in Proc /\ r.fd = NONE
      /\ r.op \in {"open", "creat", "unlink"}
  BY Constants DEF Seeks
<1> HIDE DEF s
<1>6. /\ e \in SlotType /\ inode' = [inode EXCEPT ![s] = e]
      /\ e.ino = r.ino /\ e.count = 1 /\ "LOCKED" \in e.flag
  <2>1. inode[s] \in SlotType
    BY <1>2, <1>3
  <2>2. /\ e \in SlotType
        /\ e.ino = r.ino /\ e.count = 1 /\ "LOCKED" \in e.flag
    <3> DEFINE b == inode[s]
               i == r.ino
    <3>1. e = [b EXCEPT !.ino = i, !.flag = {"LOCKED"}, !.count = @ + 1]
      OBVIOUS
    <3>2. b \in SlotType /\ b.count = 0 /\ i \in Inos
      BY <1>4, <1>5, <2>1
    <3> HIDE DEF e, b, i
    <3>3. /\ e \in SlotType /\ e.ino = i /\ e.count = 1 /\ "LOCKED" \in e.flag
      <4>1. b.ic \in Dinode /\ b.count + 1 = 1
        BY <3>2 DEF SlotType
      <4>2. e = [ino |-> i, flag |-> {"LOCKED"}, count |-> b.count + 1, ic |-> b.ic]
        BY <3>1, <3>2 DEF SlotType
      <4> QED BY <3>2, <4>1, <4>2 DEF SlotType
    <3> QED BY <3>3 DEF i
  <2>3. inode' = [inode EXCEPT ![s] = e]
    <3>1. \A t \in Table : inode'[t] = [inode EXCEPT ![s] = e][t]
      BY <1>1, <1>2, <1>3
    <3> QED BY <1>1, <1>2, <3>1
  <2> QED BY <2>2, <2>3
<1>7. /\ Fits(x) /\ Refers(x, s) /\ Owns(x, s) /\ ~Waits(x, s) /\ Reads(x, s)
  BY <1>3, <1>5, ThenRole DEF Owning
<1>8. ClaimsOnly(x, s)
  BY <1>3, <1>7, OneSlot
<1> HIDE DEF e, x
<1>9. Listed1(s)
  <2>1. inode'[s].count # 0
    BY <1>2, <1>3, <1>6
  <2> QED BY <1>1, <1>3, <2>1, ListedTail DEF s
<1>10. Names1(p, s, e) /\ Written(s) /\ Reads(x, s)
  BY <1>1, <1>2, <1>3, <1>4, <1>5, <1>6, <1>7 DEF Names1, Cached, Written
<1>11. \A t \in Table : NoClaims(proc[p], t)
  BY DEF Seeks
<1>12. s \in hashed' /\ e.count = inode[s].count + 1 /\ proc' = [proc EXCEPT ![p] = x]
  BY <1>1, <1>4, <1>6
<1> QED BY <1>3, <1>4, <1>6, <1>7, <1>8, <1>9, <1>10, <1>11, <1>12, LockInv

LEMMA IgetFullInv ==
  ASSUME Inv, NEW p \in Procs, NEW r, Seeks(p, r), IgetFull(p, r), Rest1, dinode' = dinode
  PROVE  Inv' /\ Stays
<1> DEFINE x == User(p, NONE)
<1>1. Fits(x) /\ \A s \in Table : NoClaims(x, s)
  <2>1. x.fd = NONE /\ x.ip = NONE
    BY DEF User
  <2> QED BY <2>1, UserRole, NoSlot
<1>2. proc' = [proc EXCEPT ![p] = x] /\ UNCHANGED <<inode, hashed, ifree>>
  BY DEF IgetFull
<1> HIDE DEF x
<1> QED BY <1>1, <1>2, ApartInv DEF Seeks

LEMMA IgetInv ==
  ASSUME Inv, NEW p \in Procs, NEW r, Seeks(p, r), NEW d \in Procs \cup {NONE},
         Iget(p, r, d), used' \subseteq Inos \cup {Noino}
  PROVE  Inv' /\ Stays
<1>1. Rest1 /\ dinode' = dinode
  BY DEF Iget, Rest1, Disk1, Inv, Typing
<1> QED BY <1>1, IgetBusyInv, IgetHitInv, IgetMissInv, IgetFullInv DEF Iget

(* iput, of a slot whose record has become b.                              *)
LEMMA IputInv ==
  ASSUME Inv, NEW p \in Procs, NEW s \in Table, NEW b \in SlotType, NEW t,
         t = [inode EXCEPT ![s] = b], b.count = inode[s].count,
         Refers(proc[p], s), Owns(proc[p], s) \/ "LOCKED" \notin inode[s].flag,
         Iput(p, t, s), Names1(p, s, b), Keeps1(p, s, b), Written(s), Disk1
  PROVE  Inv' /\ Stays
<1> DEFINE u == [b EXCEPT !.flag = @ \ {"LOCKED", "WANT"}]
<1>1. inode \in [Table -> SlotType] /\ dirlock \in Procs \cup {NONE}
  BY DEF Inv, Typing
<1>2. /\ u \in SlotType /\ u.ino = b.ino /\ u.count = b.count /\ u.ic = b.ic
      /\ "CHG" \in u.flag <=> "CHG" \in b.flag
      /\ u.flag \cap {"LOCKED", "WANT"} = {}
  BY UnlockedType
<1>3. Unlocked(t, s) = [inode EXCEPT ![s] = u]
  BY <1>1 DEF Unlocked
<1> HIDE DEF u
<1>4. Names1(p, s, u) /\ Keeps1(p, s, u)
  BY <1>2 DEF Names1, Keeps1
<1>5. Irele(p, Unlocked(t, s), s, dirlock)
  BY DEF Iput
<1> QED BY <1>1, <1>2, <1>3, <1>4, <1>5, IreleInv

-----------------------------------------------------------------------------
(* The actions.  First those that call iget.                               *)

(* What changes none of the variables.                                     *)
LEMMA SameInv ==
  ASSUME Inv, UNCHANGED <<inode, hashed, ifree, dinode, used, dir, dirlock, updlock, proc>>
  PROVE  Inv' /\ Stays
BY DEF Inv, Typing, Fitting, Counting, Refs, Locking, Waking, Alone, Listing, Naming,
       SoleInode, Kept, Stays

LEMMA CallSeeks ==
  ASSUME Inv, NEW p \in Procs, Free(p), NEW op \in Ops \cap {"open", "creat", "unlink"},
         NEW i \in Inos, NEW n \in Names, NEW r, r = Call(p, op, i, n)
  PROVE  Seeks(p, r)
<1>1. Fits(proc[p]) /\ proc[p].pc = "user" /\ proc[p].fd = NONE
  BY DEF Inv, Fitting, Free, Up
<1>2. proc[p].ip = NONE /\ proc[p] \in Proc
  BY <1>1 DEF Fits
<1>3. r \in Proc /\ r.fd = NONE /\ r.op = op /\ r.ino = i
  BY <1>1, <1>2 DEF Call, Proc
<1>4. \A t \in Table : NoClaims(proc[p], t)
  BY <1>1, <1>2, NoSlot
<1> QED BY <1>3, <1>4 DEF Seeks

LEMMA OpenInv == ASSUME Inv, NEW p \in Procs, Open(p) PROVE Inv' /\ Stays
<1> PICK n \in Names :
      /\ Free(p) /\ "open" \in Ops /\ dirlock = NONE /\ dir[n] # Noino
      /\ Iget(p, Call(p, "open", dir[n], n), NONE) /\ UNCHANGED used
  BY DEF Open
<1>1. dir[n] \in Inos /\ used \subseteq Inos \cup {Noino}
  BY DEF Inv, Typing
<1>2. Seeks(p, Call(p, "open", dir[n], n))
  BY <1>1, CallSeeks
<1> QED BY <1>1, <1>2, IgetInv

LEMMA UnlinkInv == ASSUME Inv, NEW p \in Procs, Unlink(p) PROVE Inv' /\ Stays
<1> PICK n \in Names :
      /\ Free(p) /\ "unlink" \in Ops /\ dirlock = NONE /\ dir[n] # Noino
      /\ Iget(p, Call(p, "unlink", dir[n], n), p) /\ UNCHANGED used
  BY DEF Unlink
<1>1. dir[n] \in Inos /\ used \subseteq Inos \cup {Noino}
  BY DEF Inv, Typing
<1>2. Seeks(p, Call(p, "unlink", dir[n], n))
  BY <1>1, CallSeeks
<1> QED BY <1>1, <1>2, IgetInv

LEMMA CreatInv == ASSUME Inv, NEW p \in Procs, Creat(p) PROVE Inv' /\ Stays
<1> PICK n \in Names, i \in Inos \ used :
      /\ Free(p) /\ "creat" \in Ops /\ dirlock = NONE /\ dir[n] = Noino
      /\ used' = used \cup {i} /\ Iget(p, Call(p, "creat", i, n), p)
  BY DEF Creat
<1>1. used' \subseteq Inos \cup {Noino}
  BY DEF Inv, Typing
<1>2. Seeks(p, Call(p, "creat", i, n))
  BY CallSeeks
<1> QED BY <1>1, <1>2, IgetInv

LEMMA IgetLoopInv == ASSUME Inv, NEW p \in Procs, IgetLoop(p) PROVE Inv' /\ Stays
<1>1. /\ Fits(proc[p]) /\ proc[p].pc = "iget" /\ dirlock \in Procs \cup {NONE}
      /\ used \subseteq Inos \cup {Noino}
  BY DEF Inv, Fitting, Typing, IgetLoop, Up
<1>2. /\ proc[p] \in Proc /\ proc[p].fd = NONE
      /\ proc[p].op \in {"open", "creat", "unlink"} /\ proc[p].ino \in Inos
  BY <1>1 DEF Fits
<1>3. Seeks(p, proc[p])
  BY <1>1, <1>2, NoSlot DEF Seeks
<1> QED BY <1>1, <1>3, IgetInv DEF IgetLoop

(* A process that is at a place where it has an inode locked.              *)
LEMMA AtOwns ==
  ASSUME Inv, NEW p \in Procs, NEW pc \in Owning, Up(p, pc), NEW s, s = proc[p].ip
  PROVE  /\ s \in Table /\ Owns(proc[p], s) /\ Refers(proc[p], s) /\ Fits(proc[p])
         /\ proc[p] \in Proc /\ proc[p].pc = pc /\ proc[p].fd = NONE
         /\ inode[s] \in SlotType /\ inode \in [Table -> SlotType]
         /\ "LOCKED" \in inode[s].flag
         /\ pc \in {"iread", "trunc", "ifree", "iupd"}
              => inode[s].count = 1 /\ Solely(proc[p], s)
         /\ Reads(proc[p], s) <=> pc = "iread"
<1>1. Fits(proc[p]) /\ proc[p].pc = pc /\ pc \notin {"user", "sync", "iget", "isleep"}
  BY DEF Inv, Fitting, Up, Owning
<1>2. s \in Table /\ proc[p].fd = NONE /\ proc[p] \in Proc
  BY <1>1 DEF Fits, Proc
<1>3. Owns(proc[p], s) /\ Refers(proc[p], s)
  BY <1>1 DEF Owns, Refers
<1>4. inode[s] \in SlotType /\ inode \in [Table -> SlotType]
  BY <1>2 DEF Inv, Typing
<1>5. "LOCKED" \in inode[s].flag
  BY <1>2, <1>3 DEF Inv, Locking
<1>6. pc \in {"iread", "trunc", "ifree", "iupd"} => inode[s].count = 1 /\ Solely(proc[p], s)
  BY <1>1, <1>2 DEF Inv, Alone, Solely
<1>7. Reads(proc[p], s) <=> pc = "iread"
  BY <1>1 DEF Reads
<1> QED BY <1>1, <1>2, <1>3, <1>4, <1>5, <1>6, <1>7

LEMMA IgetReadInv == ASSUME Inv, NEW p \in Procs, IgetRead(p) PROVE Inv' /\ Stays
<1> DEFINE s == proc[p].ip
           r == proc[p]
           c == dinode[inode[s].ino]
           h == [inode[s] EXCEPT !.ic = c]
           n == [h EXCEPT !.ic = [mode |-> "FILE", nlink |-> 1, data |-> 0],
                          !.flag = @ \cup {"CHG"}]
           e == IF r.op = "creat" THEN n ELSE h
           x == Then(r, Following(r), s)
<1>1. /\ s \in Table /\ Owns(r, s) /\ Fits(r) /\ r \in Proc /\ r.pc = "iread"
      /\ r.fd = NONE /\ inode[s] \in SlotType /\ inode \in [Table -> SlotType]
  BY AtOwns DEF IgetRead, Owning
<1>2. r.op \in {"open", "creat", "unlink"}
  BY <1>1 DEF Fits
<1>3. hashed' = hashed
  BY <1>1 DEF IgetRead, Inv, Alone, Reads
<1>4. c \in Dinode
  BY <1>1 DEF SlotType, Inv, Typing
<1>5. /\ inode' = IF r.op = "creat" THEN New([inode EXCEPT ![s].ic = c], s)
                  ELSE [inode EXCEPT ![s].ic = c]
      /\ proc' = [proc EXCEPT ![p] = x]
      /\ UNCHANGED <<ifree, dinode, used, dir, dirlock, updlock>>
  BY DEF IgetRead, Got
<1> HIDE DEF c
<1>6. /\ h \in SlotType /\ h.ino = inode[s].ino /\ h.count = inode[s].count
      /\ h.flag = inode[s].flag /\ h.ic = c
      /\ [inode EXCEPT ![s].ic = c] = [inode EXCEPT ![s] = h]
  BY <1>1, <1>4, ReadType
<1>7. /\ n \in SlotType /\ n.ino = inode[s].ino /\ n.count = inode[s].count
      /\ n.flag = inode[s].flag \cup {"CHG"}
      /\ New([inode EXCEPT ![s].ic = c], s) = [inode EXCEPT ![s] = n]
  <2> HIDE DEF h
  <2>1. /\ n \in SlotType /\ n.ino = h.ino /\ n.count = h.count
        /\ n.flag = h.flag \cup {"CHG"}
    BY <1>6, NewType
  <2>2. New([inode EXCEPT ![s].ic = c], s) = [inode EXCEPT ![s] = n]
    <3> DEFINE t == [inode EXCEPT ![s] = h]
    <3>1. /\ t \in [Table -> SlotType] /\ t[s] = h
          /\ [t EXCEPT ![s] = n] = [inode EXCEPT ![s] = n]
      BY <1>1, <1>6
    <3> HIDE DEF t
    <3>2. New(t, s) = [t EXCEPT ![s] = n]
      BY <1>1, <3>1 DEF New
    <3> QED BY <1>6, <3>1, <3>2 DEF t
  <2> QED BY <1>6, <2>1, <2>2
<1>8. /\ e \in SlotType /\ e.ino = inode[s].ino /\ e.count = inode[s].count
      /\ inode[s].flag \subseteq e.flag \cup {"CHG"} /\ inode' = [inode EXCEPT ![s] = e]
      /\ "CHG" \in e.flag \/ e.ic = c
  <2> HIDE DEF n, h
  <2> QED BY <1>5, <1>6, <1>7
<1>9. /\ Fits(x) /\ Owns(x, s) /\ ~Waits(x, s) /\ ~Solely(x, s) /\ ~Reads(x, s)
  BY <1>1, <1>2, FollowingRole
<1>10. Rest1
  BY <1>5 DEF Rest1, Disk1, Inv, Typing
<1> HIDE DEF e, x
<1>11. Keeps1(p, s, e) /\ Written(s)
  BY <1>5, <1>8 DEF Keeps1, Written, c
<1> QED BY <1>1, <1>3, <1>5, <1>8, <1>9, <1>10, <1>11, OwnInv

LEMMA IgetErrorInv == ASSUME Inv, NEW p \in Procs, IgetError(p) PROVE Inv' /\ Stays
<1> DEFINE s == proc[p].ip
           b == [inode[s] EXCEPT !.ino = Noino]
<1>1. /\ s \in Table /\ Owns(proc[p], s) /\ Refers(proc[p], s) /\ Solely(proc[p], s)
      /\ inode[s] \in SlotType /\ inode \in [Table -> SlotType]
  BY AtOwns DEF IgetError, Owning
<1>2. /\ b \in SlotType /\ b.ino = Noino /\ b.count = inode[s].count
      /\ [inode EXCEPT ![s].ino = Noino] = [inode EXCEPT ![s] = b]
  BY <1>1 DEF SlotType
<1> HIDE DEF b
<1>3. Iput(p, [inode EXCEPT ![s] = b], s)
  BY <1>2 DEF IgetError
<1>4. Names1(p, s, b)
  BY <1>1, <1>2 DEF Names1, IgetError, Inv, Typing
<1>5. Disk1 /\ Keeps1(p, s, b) /\ Written(s)
  BY DEF Disk1, IgetError, Inv, Typing, Keeps1, Written
<1> QED BY <1>1, <1>2, <1>3, <1>4, <1>5, IputInv

(* Those that have an inode locked.                                        *)
LEMMA NamesSame ==
  ASSUME Inv, NEW p, NEW s \in Table, NEW e, e.ino = inode[s].ino, hashed' = hashed
  PROVE  Names1(p, s, e)
BY DEF Names1, Inv, Typing, Naming, SoleInode

LEMMA OpenDoneInv == ASSUME Inv, NEW p \in Procs, OpenDone(p) PROVE Inv' /\ Stays
<1> DEFINE s == proc[p].ip
<1>1. /\ s \in Table /\ Owns(proc[p], s) /\ Refers(proc[p], s) /\ Fits(proc[p])
      /\ inode[s] \in SlotType /\ inode \in [Table -> SlotType] /\ ~Reads(proc[p], s)
  BY AtOwns DEF OpenDone, Owning
<1>2. hashed' = hashed /\ dinode' = dinode /\ Disk1
  BY DEF OpenDone, Disk1, Inv, Typing
<1>3. ASSUME NEW d \in 0 .. 1,
             \/ /\ inode' = Unlocked(Changed(s, d), s)
                /\ proc' = Wakes(s, p, User(p, s)) /\ UNCHANGED <<ifree, dirlock>>
             \/ Iput(p, Changed(s, d), s)
      PROVE  Inv' /\ Stays
  <2> DEFINE b == inode[s]
             c == [b.ic EXCEPT !.data = d]
             f == IF d = b.ic.data THEN b.flag ELSE b.flag \cup {"CHG"}
             g == f \ {"LOCKED", "WANT"}
             h == [b EXCEPT !.ic = c, !.flag = f]
             e == [b EXCEPT !.ic = c, !.flag = g]
             r == User(p, s)
  <2>1. /\ c \in Dinode /\ f \in SUBSET {"LOCKED", "WANT", "CHG"}
        /\ g \in SUBSET {"LOCKED", "WANT", "CHG"} /\ "LOCKED" \notin g
    BY <1>1 DEF SlotType, Dinode
  <2>2. Changed(s, d) = [inode EXCEPT ![s] = h]
    BY <1>1 DEF Changed, SlotType
  <2>3. b \in SlotType
    BY <1>1
  <2>4. /\ e \in SlotType /\ e.ino = b.ino /\ e.count = b.count /\ e.flag = g /\ e.ic = c
        /\ h \in SlotType /\ h.ino = b.ino /\ h.count = b.count /\ h.flag = f /\ h.ic = c
    <3> HIDE DEF b, c, f, g
    <3> QED BY <2>1, <2>3 DEF SlotType
  <2>5. Unlocked(Changed(s, d), s) = [inode EXCEPT ![s] = e]
    <3>1. [h EXCEPT !.flag = g] = e
      <4> HIDE DEF b, c, f, g
      <4> QED BY <2>3 DEF SlotType
    <3> HIDE DEF h, e, b, c
    <3>2. [inode EXCEPT ![s] = h][s] = h
      BY <1>1
    <3> QED BY <1>1, <2>2, <2>4, <3>1, <3>2 DEF Unlocked
  <2>6. /\ "CHG" \in g \/ c = b.ic
        /\ "CHG" \in f \/ c = b.ic
        /\ "CHG" \in b.flag => "CHG" \in g
        /\ "CHG" \in b.flag => "CHG" \in f
    <3>1. b.ic \in Dinode
      BY <2>3 DEF SlotType
    <3>2. d = b.ic.data => c = b.ic
      BY <3>1 DEF Dinode
    <3> HIDE DEF b, c
    <3> QED BY <3>2
  <2>7. Keeps1(p, s, e) /\ Keeps1(p, s, h) /\ Written(s)
    <3> HIDE DEF e, f, g, h, c
    <3> QED BY <1>1, <1>2, <2>4, <2>6, KeepsSame
  <2> HIDE DEF e, f, g, h, c
  <2>8. CASE /\ inode' = Unlocked(Changed(s, d), s)
             /\ proc' = Wakes(s, p, User(p, s)) /\ UNCHANGED <<ifree, dirlock>>
    <3>1. /\ Fits(r) /\ Refers(r, s) /\ ~Owns(r, s) /\ ~Waits(r, s) /\ ~Solely(r, s)
          /\ ~Reads(r, s)
      BY <1>1, UserRole
    <3>2. ClaimsOnly(r, s) /\ Rest1
      BY <1>1, <1>2, <2>8, <3>1, OneSlot DEF Rest1, Inv, Typing
    <3>3. proc' = Wakes(s, p, r) /\ inode' = [inode EXCEPT ![s] = e]
      BY <2>5, <2>8
    <3>4. UNCHANGED <<ifree, dirlock>>
      BY <2>8
    <3> HIDE DEF r, s
    <3> QED BY <1>1, <1>2, <2>1, <2>4, <2>7, <3>1, <3>2, <3>3, <3>4, UnlockInv
  <2>9. CASE Iput(p, Changed(s, d), s)
    <3>1. Names1(p, s, h)
      BY <1>1, <1>2, <2>4, NamesSame
    <3> DEFINE t == Changed(s, d)
    <3>2. Iput(p, t, s) /\ t = [inode EXCEPT ![s] = h]
      BY <2>2, <2>9
    <3> HIDE DEF s, t
    <3> QED BY <1>1, <1>2, <2>4, <2>7, <3>1, <3>2, IputInv
  <2> QED BY <1>3, <2>8, <2>9
<1> QED BY <1>3 DEF OpenDone

LEMMA UnlinkedRecord ==
  ASSUME NEW s \in Table, inode \in [Table -> SlotType],
         NEW b, b = [inode[s] EXCEPT !.ic = [@ EXCEPT !.nlink = 0], !.flag = @ \cup {"CHG"}]
  PROVE  /\ b \in SlotType /\ b.ino = inode[s].ino /\ b.count = inode[s].count
         /\ "CHG" \in b.flag /\ Unlinked(s) = [inode EXCEPT ![s] = b]
<1> DEFINE a == inode[s]
           c == [a.ic EXCEPT !.nlink = 0]
<1>1. a \in SlotType /\ c \in Dinode
  BY DEF SlotType, Dinode
<1>2. b = [a EXCEPT !.ic = c, !.flag = @ \cup {"CHG"}]
  OBVIOUS
<1>3. Unlinked(s) = [inode EXCEPT ![s] = b]
  BY <1>1 DEF Unlinked, SlotType
<1>4. b \in SlotType /\ b.ino = a.ino /\ b.count = a.count /\ "CHG" \in b.flag
  <2> HIDE DEF a, c
  <2> QED BY <1>1, <1>2 DEF SlotType
<1> QED BY <1>3, <1>4

LEMMA DirremoveInv == ASSUME Inv, NEW p \in Procs, Dirremove(p) PROVE Inv' /\ Stays
<1> DEFINE s == proc[p].ip
           b == [inode[s] EXCEPT !.ic = [@ EXCEPT !.nlink = 0], !.flag = @ \cup {"CHG"}]
<1>1. /\ s \in Table /\ Owns(proc[p], s) /\ Refers(proc[p], s)
      /\ inode[s] \in SlotType /\ inode \in [Table -> SlotType]
  BY AtOwns DEF Dirremove, Owning
<1>2. /\ b \in SlotType /\ b.ino = inode[s].ino /\ b.count = inode[s].count
      /\ "CHG" \in b.flag
      /\ Unlinked(s) = [inode EXCEPT ![s] = b]
  BY <1>1, UnlinkedRecord
<1>3. hashed' = hashed /\ Disk1 /\ Written(s)
  BY DEF Dirremove, Disk1, Inv, Typing, Written
<1>4. Iput(p, Unlinked(s), s)
  BY DEF Dirremove
<1> HIDE DEF b, s
<1>5. Names1(p, s, b) /\ Keeps1(p, s, b)
  BY <1>1, <1>2, <1>3, NamesSame DEF Keeps1
<1> QED BY <1>1, <1>2, <1>3, <1>4, <1>5, IputInv

LEMMA IupdatType ==
  ASSUME Inv, NEW s \in Table, NEW ok \in BOOLEAN, Iupdat(s, ok)
  PROVE  dinode' \in [Inos \cup {Noino} -> Dinode]
<1>1. inode[s].ic \in Dinode /\ dinode \in [Inos \cup {Noino} -> Dinode]
  BY DEF Inv, Typing, SlotType
<1> QED BY <1>1 DEF Iupdat

LEMMA CleanRecord ==
  ASSUME NEW s \in Table, inode \in [Table -> SlotType], NEW ok \in BOOLEAN
  PROVE  \E b \in SlotType :
           /\ b.ino = inode[s].ino /\ b.count = inode[s].count
           /\ inode[s].flag \subseteq b.flag \cup {"CHG"} /\ b.ic = inode[s].ic
           /\ Clean(inode, s, ok) = [inode EXCEPT ![s] = b]
<1> DEFINE a == inode[s]
           e == [a EXCEPT !.flag = @ \ {"CHG"}]
<1>1. a \in SlotType
  OBVIOUS
<1>2. e \in SlotType /\ e.ino = a.ino /\ e.count = a.count /\ e.flag = a.flag \ {"CHG"}
      /\ e.ic = a.ic
  <2> HIDE DEF a
  <2> QED BY <1>1 DEF SlotType
<1>3. CASE ok
  <2>1. Clean(inode, s, ok) = [inode EXCEPT ![s] = e]
    BY <1>1, <1>3 DEF Clean
  <2> QED BY <1>2, <2>1
<1>4. CASE ~ok
  <2>1. Clean(inode, s, ok) = [inode EXCEPT ![s] = a]
    BY <1>1, <1>4 DEF Clean
  <2> QED BY <1>1, <2>1
<1> QED BY <1>3, <1>4

LEMMA MaknodeInv == ASSUME Inv, NEW p \in Procs, Maknode(p) PROVE Inv' /\ Stays
<1> DEFINE s == proc[p].ip
           r == At(p, "enter", s)
<1>1. /\ s \in Table /\ Owns(proc[p], s) /\ Refers(proc[p], s) /\ proc[p] \in Proc
      /\ inode[s] \in SlotType /\ inode \in [Table -> SlotType]
  BY AtOwns DEF Maknode, Owning
<1>2. PICK ok \in BOOLEAN : Iupdat(s, ok) /\ Readable(s, ok) /\ inode' = Clean(inode, s, ok)
  BY DEF Maknode
<1>3. /\ proc' = [proc EXCEPT ![p] = r] /\ hashed' = hashed /\ ifree' = ifree
      /\ UNCHANGED <<used, dir, dirlock, updlock>>
  BY DEF Maknode
<1>4. Rest1
  BY <1>1, <1>2, <1>3, IupdatType DEF Rest1, Disk1, Inv, Typing
<1>5. Fits(r) /\ Owns(r, s) /\ ~Waits(r, s) /\ ~Reads(r, s) /\ ~Solely(r, s)
  BY <1>1, AtRole DEF Owning
<1>6. PICK b \in SlotType :
        /\ b.ino = inode[s].ino /\ b.count = inode[s].count
        /\ inode[s].flag \subseteq b.flag \cup {"CHG"} /\ b.ic = inode[s].ic
        /\ Clean(inode, s, ok) = [inode EXCEPT ![s] = b]
  BY <1>1, CleanRecord
<1>7. inode' = [inode EXCEPT ![s] = b]
  BY <1>2, <1>6
<1> HIDE DEF r, s
<1>8. Keeps1(p, s, b) /\ Written(s)
  BY <1>1, <1>2, <1>6, KeepsWritten
<1> QED BY <1>1, <1>3, <1>4, <1>5, <1>6, <1>7, <1>8, OwnInv

LEMMA DirenterInv == ASSUME Inv, NEW p \in Procs, Direnter(p) PROVE Inv' /\ Stays
<1> DEFINE s == proc[p].ip
           b == [inode[s] EXCEPT !.ic = [@ EXCEPT !.nlink = 0], !.flag = @ \cup {"CHG"}]
           r == User(p, s)
<1>1. /\ s \in Table /\ Owns(proc[p], s) /\ Refers(proc[p], s)
      /\ inode[s] \in SlotType /\ inode \in [Table -> SlotType] /\ ~Reads(proc[p], s)
  BY AtOwns DEF Direnter, Owning
<1>2. hashed' = hashed /\ dinode' = dinode /\ Disk1
  BY <1>1 DEF Direnter, Disk1, Inv, Typing, SlotType
<1>3. CASE /\ inode' = Unlocked(inode, s)
           /\ dirlock' = NONE /\ proc' = Wakes(s, p, User(p, s)) /\ UNCHANGED ifree
  <2> DEFINE e == [inode[s] EXCEPT !.flag = @ \ {"LOCKED", "WANT"}]
  <2>1. /\ e \in SlotType /\ e.ino = inode[s].ino /\ e.count = inode[s].count
        /\ "LOCKED" \notin e.flag /\ e.ic = inode[s].ic
        /\ "CHG" \in inode[s].flag => "CHG" \in e.flag
    BY <1>1 DEF SlotType
  <2>2. inode' = [inode EXCEPT ![s] = e]
    BY <1>1, <1>3 DEF Unlocked
  <2>3. /\ Fits(r) /\ Refers(r, s) /\ ~Owns(r, s) /\ ~Waits(r, s) /\ ~Solely(r, s)
        /\ ~Reads(r, s)
    BY <1>1, UserRole
  <2>4. ClaimsOnly(r, s) /\ Rest1
    BY <1>1, <1>2, <1>3, <2>3, OneSlot DEF Rest1
  <2>5. proc' = Wakes(s, p, r)
    BY <1>3
  <2> HIDE DEF e, r, s
  <2>6. Keeps1(p, s, e) /\ Written(s)
    BY <1>1, <1>2, <2>1, KeepsSame
  <2> QED BY <1>1, <1>2, <1>3, <2>1, <2>2, <2>3, <2>4, <2>5, <2>6, UnlockInv
<1>4. CASE Irele(p, Unlocked(Unlinked(s), s), s, NONE)
  <2> DEFINE u == [b EXCEPT !.flag = @ \ {"LOCKED", "WANT"}]
  <2>1. /\ b \in SlotType /\ b.ino = inode[s].ino /\ b.count = inode[s].count
        /\ "CHG" \in b.flag /\ Unlinked(s) = [inode EXCEPT ![s] = b]
    BY <1>1, UnlinkedRecord
  <2> HIDE DEF b
  <2>2. /\ u \in SlotType /\ u.ino = b.ino /\ u.count = b.count
        /\ "CHG" \in u.flag <=> "CHG" \in b.flag
        /\ u.flag \cap {"LOCKED", "WANT"} = {}
    BY <2>1, UnlockedType
  <2>3. Unlocked(Unlinked(s), s) = [inode EXCEPT ![s] = u]
    BY <1>1, <2>1 DEF Unlocked
  <2> HIDE DEF u, s
  <2>4. Names1(p, s, u) /\ Keeps1(p, s, u) /\ Written(s)
    BY <1>1, <1>2, <2>1, <2>2, NamesSame DEF Keeps1, Written
  <2>5. Irele(p, Unlocked(Unlinked(s), s), s, NONE)
    BY <1>4
  <2> QED BY <1>1, <1>2, <2>1, <2>2, <2>3, <2>4, <2>5, IreleInv
<1> QED BY <1>3, <1>4 DEF Direnter

(* close.                                                                  *)
LEMMA IlockInv ==
  ASSUME Inv, NEW p \in Procs, NEW s \in Table, Refers(proc[p], s), ~Owns(proc[p], s),
         ~Reads(proc[p], s), NEW r \in Proc, r.fd = NONE, Ilock(p, s, r)
  PROVE  Inv' /\ Stays
<1>1. /\ inode[s] \in SlotType /\ inode \in [Table -> SlotType] /\ Fits(proc[p])
  BY DEF Inv, Typing, Fitting
<1>2. hashed' = hashed /\ dinode' = dinode /\ Disk1
  BY DEF Ilock, Disk1, Inv, Typing
<1>3. CASE /\ Is(s, "LOCKED") /\ inode' = Want(inode, s)
           /\ proc' = [proc EXCEPT ![p] = Then(r, "lsleep", s)]
           /\ UNCHANGED <<ifree, dirlock>>
  <2> DEFINE e == [inode[s] EXCEPT !.flag = @ \cup {"WANT"}]
             x == Then(r, "lsleep", s)
  <2>1. /\ e \in SlotType /\ e.ino = inode[s].ino /\ e.count = inode[s].count
        /\ e.flag = inode[s].flag \cup {"WANT"} /\ e.ic = inode[s].ic
    BY <1>1 DEF SlotType
  <2>2. inode' = [inode EXCEPT ![s] = e]
    BY <1>1, <1>3 DEF Want
  <2>3. /\ Fits(x) /\ Refers(x, s) /\ ~Owns(x, s) /\ Waits(x, s) /\ ~Solely(x, s)
        /\ ~Reads(x, s)
    BY ThenRole DEF Owning
  <2>4. ClaimsOnly(proc[p], s) /\ ClaimsOnly(x, s) /\ Rest1
    BY <1>1, <1>2, <1>3, <2>3, OneSlot DEF Rest1, Inv, Typing
  <2>5. "LOCKED" \in inode[s].flag /\ proc' = [proc EXCEPT ![p] = x]
    BY <1>3 DEF Is
  <2> HIDE DEF e, x
  <2>6. Signals(p, s, e, x) /\ Locks(p, s, e, x) /\ Counts(p, s, e, x)
    BY <1>2, <2>1, <2>3, <2>5 DEF Signals, Locks, Counts
  <2>7. Listed1(s)
    BY <1>1, <1>3, <2>1, <2>2, ListedSame
  <2>8. Names1(p, s, e) /\ Keeps1(p, s, e) /\ Written(s)
    BY <1>2, <2>1, NamesSame, KeepsSame
  <2> QED BY <2>1, <2>2, <2>3, <2>4, <2>6, <2>7, <2>8, StepInv
<1>4. CASE ~Is(s, "LOCKED") /\ Iput(p, Locked(inode, s), s)
  <2> DEFINE b == [inode[s] EXCEPT !.flag = @ \cup {"LOCKED"}]
  <2>1. /\ b \in SlotType /\ b.ino = inode[s].ino /\ b.count = inode[s].count
        /\ b.ic = inode[s].ic /\ ("CHG" \in inode[s].flag => "CHG" \in b.flag)
    BY <1>1 DEF SlotType
  <2>2. Locked(inode, s) = [inode EXCEPT ![s] = b]
    BY <1>1 DEF Locked
  <2> HIDE DEF b
  <2>3. Names1(p, s, b) /\ Keeps1(p, s, b) /\ Written(s)
    BY <1>2, <2>1, NamesSame, KeepsSame
  <2>4. "LOCKED" \notin inode[s].flag
    BY <1>4 DEF Is
  <2> QED BY <1>2, <1>4, <2>1, <2>2, <2>3, <2>4, IputInv
<1> QED BY <1>3, <1>4 DEF Ilock

LEMMA CloseInv == ASSUME Inv, NEW p \in Procs, Close(p) PROVE Inv' /\ Stays
<1> DEFINE s == proc[p].fd
           u == User(p, NONE)
           r == [u EXCEPT !.op = "close"]
<1>1. Fits(proc[p]) /\ proc[p].pc = "user" /\ s # NONE
  BY DEF Inv, Fitting, Close, Up
<1>2. s \in Table /\ Refers(proc[p], s) /\ ~Owns(proc[p], s) /\ ~Reads(proc[p], s)
  BY <1>1 DEF Fits, Proc, Refers, Owns, Owning, Reads
<1>3. u \in Proc /\ u.fd = NONE
  BY UserRole DEF Fits, User
<1>4. Ilock(p, s, r)
  BY DEF Close
<1> HIDE DEF u, s
<1>5. r \in Proc /\ r.fd = NONE
  BY <1>3 DEF Proc
<1> HIDE DEF r
<1> QED BY <1>2, <1>4, <1>5, IlockInv

LEMMA IlockLoopInv == ASSUME Inv, NEW p \in Procs, IlockLoop(p) PROVE Inv' /\ Stays
<1> DEFINE s == proc[p].ip
<1>1. Fits(proc[p]) /\ proc[p].pc = "ilock" /\ Ilock(p, s, proc[p])
  BY DEF Inv, Fitting, IlockLoop, Up
<1>2. s \in Table /\ Refers(proc[p], s) /\ ~Owns(proc[p], s) /\ ~Reads(proc[p], s)
      /\ proc[p] \in Proc /\ proc[p].fd = NONE
  BY <1>1 DEF Fits, Proc, Refers, Owns, Owning, Reads
<1> QED BY <1>1, <1>2, IlockInv

(* What is left to do before the last reference may go.                    *)
LEMMA ItruncInv == ASSUME Inv, NEW p \in Procs, Itrunc(p) PROVE Inv' /\ Stays
<1> DEFINE s == proc[p].ip
           e == [inode[s] EXCEPT !.ic = Empty, !.flag = @ \cup {"CHG"}]
           r == At(p, "ifree", s)
<1>1. /\ s \in Table /\ Owns(proc[p], s) /\ proc[p] \in Proc
      /\ inode[s] \in SlotType /\ inode \in [Table -> SlotType] /\ inode[s].count = 1
  BY AtOwns DEF Itrunc, Owning
<1>2. /\ inode' = [inode EXCEPT ![s].ic = Empty, ![s].flag = @ \cup {"CHG"}]
      /\ proc' = [proc EXCEPT ![p] = r]
      /\ UNCHANGED <<hashed, ifree, used, dir, dirlock, updlock>>
  BY DEF Itrunc
<1>3. PICK ok \in BOOLEAN : Iupdat(s, ok)
  BY DEF Itrunc
<1>4. Rest1
  BY <1>1, <1>2, <1>3, IupdatType DEF Rest1, Disk1, Inv, Typing
<1>5. Empty \in Dinode
  BY DEF Empty, Dinode
<1>6. /\ e \in SlotType /\ e.ino = inode[s].ino /\ e.count = inode[s].count
      /\ e.flag = inode[s].flag \cup {"CHG"}
  <2> DEFINE b == inode[s]
             c == Empty
  <2>1. b \in SlotType /\ c \in Dinode /\ e = [b EXCEPT !.ic = c, !.flag = @ \cup {"CHG"}]
    BY <1>1, <1>5
  <2> HIDE DEF b, c, e
  <2>2. /\ e \in SlotType /\ e.ino = b.ino /\ e.count = b.count
        /\ e.flag = b.flag \cup {"CHG"}
    BY <2>1 DEF SlotType
  <2> QED BY <2>2 DEF b
<1>7. inode' = [inode EXCEPT ![s] = e]
  BY <1>1, <1>2
<1>8. Fits(r) /\ Owns(r, s) /\ ~Waits(r, s) /\ ~Reads(r, s)
  BY <1>1, AtRole DEF Owning
<1> HIDE DEF e, r, s
<1>9. Keeps1(p, s, e) /\ Written(s)
  BY <1>3, <1>6 DEF Keeps1, Written, Iupdat
<1> QED BY <1>1, <1>2, <1>4, <1>6, <1>7, <1>8, <1>9, OwnInv

LEMMA IfreeInv == ASSUME Inv, NEW p \in Procs, Ifree(p) PROVE Inv' /\ Stays
<1> DEFINE s == proc[p].ip
           e == inode[s]
           r == At(p, "iupd", s)
<1>1. /\ s \in Table /\ Owns(proc[p], s) /\ proc[p] \in Proc
      /\ e \in SlotType /\ inode \in [Table -> SlotType] /\ e.count = 1
      /\ ~Reads(proc[p], s)
  BY AtOwns DEF Ifree, Owning
<1>2. UNCHANGED <<inode, hashed, ifree, dinode, dir, dirlock, updlock>>
  BY DEF Ifree
<1>3. CASE used' \in {used, used \ {inode[s].ino}} /\ proc' = [proc EXCEPT ![p] = r]
  <2>1. Rest1
    BY <1>2, <1>3 DEF Rest1, Disk1, Inv, Typing
  <2>2. Fits(r) /\ Owns(r, s) /\ ~Waits(r, s) /\ ~Reads(r, s)
    BY <1>1, AtRole DEF Owning
  <2>3. inode' = [inode EXCEPT ![s] = e]
    BY <1>1, <1>2
  <2>4. /\ e.ino = inode[s].ino /\ e.count = inode[s].count
        /\ inode[s].flag \subseteq e.flag \cup {"CHG"}
    OBVIOUS
  <2>5. proc' = [proc EXCEPT ![p] = r] /\ (Solely(r, s) => inode[s].count = 1)
    BY <1>1, <1>3
  <2>6. Keeps1(p, s, e) /\ Written(s)
    BY <1>1, <1>2, KeepsSame
  <2> HIDE DEF e, r, s
  <2> QED BY <1>1, <1>2, <2>1, <2>2, <2>3, <2>4, <2>5, <2>6, OwnInv
<1>4. CASE UNCHANGED <<used, proc>>
  BY <1>2, <1>4, SameInv
<1> QED BY <1>3, <1>4 DEF Ifree

LEMMA IreleUpdatedInv == ASSUME Inv, NEW p \in Procs, IreleUpdated(p) PROVE Inv' /\ Stays
<1> DEFINE s == proc[p].ip
           b == inode[s]
           e == [b EXCEPT !.flag = {}, !.count = 0]
           r == Return(p)
<1>1. /\ s \in Table /\ Owns(proc[p], s) /\ Refers(proc[p], s) /\ Fits(proc[p])
      /\ b \in SlotType /\ inode \in [Table -> SlotType] /\ b.count = 1
  BY AtOwns DEF IreleUpdated, Owning
<1>2. /\ inode' = Released(inode, s) /\ ifree' = Append(ifree, s)
      /\ proc' = Wakes(s, p, r) /\ DirRelease(p, dirlock)
      /\ UNCHANGED <<hashed, used, dir, updlock>>
  BY DEF IreleUpdated
<1>3. PICK ok \in BOOLEAN : Iupdat(s, ok) /\ Readable(s, ok)
  BY DEF IreleUpdated
<1>4. Rest1
  BY <1>1, <1>2, <1>3, IupdatType DEF Rest1, Disk1, Inv, Typing, DirRelease
<1>5. inode' = [inode EXCEPT ![s] = e]
  BY <1>1, <1>2 DEF Released
<1>6. Fits(r) /\ NoClaims(r, s) /\ ClaimsOnly(r, s) /\ ClaimsOnly(proc[p], s)
  BY <1>1, ReturnRole, OneSlot
<1>7. inode[s].ino = b.ino /\ inode[s].count = 1 /\ inode[s].ic = b.ic
  BY <1>1
<1> HIDE DEF b
<1>8. e \in SlotType /\ e.ino = b.ino /\ e.count = 0 /\ e.flag = {} /\ e.ic = b.ic
  BY <1>1 DEF SlotType
<1> HIDE DEF e, r, s
<1>9. Signals(p, s, e, r) /\ Locks(p, s, e, r) /\ Counts(p, s, e, r)
  BY <1>1, <1>2, <1>6, <1>7, <1>8 DEF Signals, Locks, Counts, NoClaims
<1>10. Listed1(s)
  <2>1. inode'[s].count = 0
    BY <1>1, <1>5, <1>8
  <2> QED BY <1>1, <1>2, <1>7, <2>1, ListedAppend
<1>11. Names1(p, s, e) /\ Keeps1(p, s, e) /\ Written(s)
  BY <1>1, <1>2, <1>3, <1>7, <1>8, NamesSame, KeepsWritten
<1> QED BY <1>1, <1>4, <1>5, <1>6, <1>8, <1>9, <1>10, <1>11, StepInv

(* update.                                                                 *)
LEMMA SyncInv == ASSUME Inv, NEW p \in Procs, Sync(p) PROVE Inv' /\ Stays
<1> DEFINE x == proc[p]
           r == [x EXCEPT !.pc = "sync", !.op = "sync", !.todo = Table]
<1>1. Fits(x) /\ x.fd = NONE /\ x.pc = "user" /\ proc \in [Procs -> Proc]
  BY DEF Inv, Fitting, Typing, Sync, Free, Up
<1>2. x \in Proc /\ x.ip = NONE
  BY <1>1 DEF Fits
<1>3. /\ UNCHANGED <<inode, hashed, ifree, dinode>> /\ Rest1 /\ "sync" \in Ops
  BY DEF Sync, Rest1, Disk1, Inv, Typing
<1>4. proc' = [proc EXCEPT ![p] = r]
  BY <1>1 DEF Sync
<1> HIDE DEF x
<1>5. r \in Proc /\ r.fd = NONE /\ r.ip = NONE /\ r.pc = "sync"
  BY <1>1, <1>2, <1>3 DEF Proc
<1> HIDE DEF r
<1>6. Fits(r)
  BY <1>5 DEF Fits
<1>7. \A s \in Table : NoClaims(x, s) /\ NoClaims(r, s)
  BY <1>1, <1>2, <1>5, NoSlot
<1> QED BY <1>3, <1>4, <1>6, <1>7, ApartInv DEF x

LEMMA SyncDoneInv == ASSUME Inv, NEW p \in Procs, SyncDone(p) PROVE Inv' /\ Stays
<1> DEFINE r == User(p, NONE)
<1>1. Fits(proc[p]) /\ proc[p].pc = "sync"
  BY DEF Inv, Fitting, SyncDone, Up
<1>2. proc[p].ip = NONE /\ proc[p].fd = NONE
  BY <1>1 DEF Fits
<1>3. UNCHANGED <<inode, hashed, ifree, dinode>> /\ Rest1 /\ proc' = [proc EXCEPT ![p] = r]
  BY DEF SyncDone, Rest1, Disk1, Inv, Typing
<1>4. Fits(r) /\ r.fd = NONE /\ r.ip = NONE
  BY UserRole DEF User
<1> HIDE DEF r
<1>5. \A s \in Table : NoClaims(proc[p], s) /\ NoClaims(r, s)
  BY <1>2, <1>4, NoSlot
<1> QED BY <1>3, <1>4, <1>5, ApartInv

LEMMA SyncInodeInv == ASSUME Inv, NEW p \in Procs, SyncInode(p) PROVE Inv' /\ Stays
<1> PICK s \in Syncable(p) :
      /\ Up(p, "sync")
      /\ inode' = Held(s)
      /\ proc' = [proc EXCEPT ![p] = [At(p, "supd", s) EXCEPT
                                        !.todo = {t \in @ : t > s}]]
      /\ UNCHANGED <<hashed, ifree, dinode, used, dir, dirlock, updlock, panic>>
  BY DEF SyncInode
<1> DEFINE x == proc[p]
           b == inode[s]
           h == [b EXCEPT !.flag = @ \cup {"LOCKED"}, !.count = @ + 1]
           a == At(p, "supd", s)
           r == [a EXCEPT !.todo = {t \in @ : t > s}]
<1>1. Fits(x) /\ x.pc = "sync" /\ inode \in [Table -> SlotType]
  BY DEF Inv, Fitting, Typing, Up
<1>2. x.ip = NONE /\ x.fd = NONE /\ x \in Proc
  BY <1>1 DEF Fits
<1>3. s \in Table /\ "LOCKED" \notin b.flag /\ b.count # 0 /\ b \in SlotType
  BY <1>1, <1>2 DEF Syncable, Is, Proc
<1>4. /\ h \in SlotType /\ h.ino = b.ino /\ h.count = b.count + 1 /\ h.ic = b.ic
      /\ h.flag = b.flag \cup {"LOCKED"}
  <2> HIDE DEF b
  <2> QED BY <1>3, HeldType
<1>5. inode' = [inode EXCEPT ![s] = h]
  <2>1. inode \in [Table -> SlotType] /\ inode[s] \in SlotType
    BY <1>1, <1>3
  <2>2. Held(s) = [inode EXCEPT ![s] = h]
    BY <2>1 DEF Held, Counted, Locked, SlotType
  <2> QED BY <2>2
<1>6. a \in Proc /\ a.ip = s /\ a.pc = "supd" /\ a.fd = NONE
  BY <1>2, <1>3 DEF At, Proc
<1> HIDE DEF a
<1>7. r \in Proc /\ r.ip = s /\ r.pc = "supd" /\ r.fd = NONE
  BY <1>6 DEF Proc
<1>8. proc' = [proc EXCEPT ![p] = r]
  BY DEF a
<1> HIDE DEF r, h
<1>9. Fits(r) /\ Refers(r, s) /\ Owns(r, s) /\ ~Waits(r, s) /\ ~Solely(r, s) /\ ~Reads(r, s)
  BY <1>3, <1>7, OwnRole DEF Owning
<1>10. ClaimsOnly(r, s) /\ \A t \in Table : NoClaims(proc[p], t)
  BY <1>2, <1>3, <1>9, OneSlot, NoSlot
<1>11. Listed1(s)
  <2>1. inode'[s].count # 0 /\ inode[s].count # 0
    BY <1>1, <1>3, <1>4, <1>5 DEF SlotType
  <2> QED BY <1>3, <2>1, ListedSame
<1>12. Names1(p, s, h) /\ Rest1
  BY <1>3, <1>4, NamesSame DEF Rest1, Disk1, Inv, Typing
<1>13. Keeps1(p, s, h) /\ Written(s)
  <2>1. ~Reads(proc[p], s)
    BY <1>3, <1>10 DEF NoClaims
  <2> QED BY <1>3, <1>4, <2>1, KeepsSame
<1> QED BY <1>3, <1>4, <1>5, <1>8, <1>9, <1>10, <1>11, <1>12, <1>13, LockInv

LEMMA SyncUpdatedInv == ASSUME Inv, NEW p \in Procs, SyncUpdated(p) PROVE Inv' /\ Stays
<1> DEFINE s == proc[p].ip
<1>1. /\ s \in Table /\ Owns(proc[p], s) /\ Refers(proc[p], s)
      /\ inode[s] \in SlotType /\ inode \in [Table -> SlotType] /\ ~Reads(proc[p], s)
  BY AtOwns DEF SyncUpdated, Owning
<1>2. PICK ok \in BOOLEAN :
        /\ Readable(s, ok)
        /\ IF Is(s, "CHG") THEN Iupdat(s, ok) ELSE UNCHANGED dinode
        /\ Iput(p, Clean(inode, s, ok), s)
  BY DEF SyncUpdated
<1>3. PICK b \in SlotType :
        /\ b.ino = inode[s].ino /\ b.count = inode[s].count /\ b.ic = inode[s].ic
        /\ Clean(inode, s, ok) = [inode EXCEPT ![s] = b]
  BY <1>1, CleanRecord
<1>4. dinode' \in [Inos \cup {Noino} -> Dinode]
  BY <1>1, <1>2, IupdatType DEF Inv, Typing
<1>5. Disk1 /\ hashed' = hashed
  BY <1>4 DEF SyncUpdated, Disk1, Inv, Typing
<1> HIDE DEF s
<1>6. Names1(p, s, b)
  BY <1>1, <1>3, <1>5, NamesSame
<1>7. Keeps1(p, s, b) /\ Written(s)
  <2>1. CASE Is(s, "CHG")
    BY <1>1, <1>2, <1>3, <2>1, KeepsWritten
  <2>2. CASE ~Is(s, "CHG")
    BY <1>1, <1>2, <1>3, <1>5, <2>2, KeepsSame DEF Is
  <2> QED BY <2>1, <2>2
<1> QED BY <1>1, <1>2, <1>3, <1>5, <1>6, <1>7, IputInv

-----------------------------------------------------------------------------
(* The theorems.                                                           *)

LEMMA InitInv == Init => Inv
<1> SUFFICES ASSUME Init PROVE Inv
  OBVIOUS
<1>1. /\ inode = [s \in Table |-> [ino |-> Noino, flag |-> {}, count |-> 0, ic |-> Empty]]
      /\ hashed = {} /\ ifree = [s \in Table |-> s]
      /\ dinode = [i \in Inos \cup {Noino} |-> Empty] /\ used = {Noino}
      /\ dir = [n \in Names |-> Noino] /\ dirlock = NONE /\ updlock = FALSE
      /\ proc = [p \in Procs |-> User(p, NONE)]
  BY DEF Init
<1>2. \A p \in Procs : /\ Fits(proc[p]) /\ proc[p] \in Proc
                       /\ \A s \in Table : NoClaims(proc[p], s)
  <2> SUFFICES ASSUME NEW p \in Procs
               PROVE  /\ Fits(User(p, NONE)) /\ User(p, NONE) \in Proc
                      /\ \A s \in Table : NoClaims(User(p, NONE), s)
    BY <1>1
  <2>1. User(p, NONE).fd = NONE /\ User(p, NONE).ip = NONE
    BY DEF User
  <2> QED BY <2>1, UserRole, NoSlot DEF Fits
<1>3. /\ ifree \in Seq(Table) /\ Len(ifree) = Inodes
      /\ \A i \in 1..Inodes : ifree[i] = i
  BY <1>1, Constants DEF Table
<1>4. Typing
  <2>1. Empty \in Dinode
    BY DEF Empty, Dinode
  <2>2. [ino |-> Noino, flag |-> {}, count |-> 0, ic |-> Empty] \in SlotType
    BY <2>1 DEF SlotType
  <2> QED BY <1>1, <1>2, <1>3, <2>1, <2>2 DEF Typing
<1>5. Fitting /\ Locking /\ Waking /\ Alone
  <2>1. \A s \in Table : \A p \in Procs : NoClaims(proc[p], s)
    BY <1>2
  <2>2. \A s \in Table : inode[s].flag = {}
    BY <1>1
  <2>3. Locking
    BY <2>1, <2>2 DEF NoClaims, Locking
  <2>4. Waking /\ Alone
    BY <2>1 DEF NoClaims, Waking, Alone
  <2> QED BY <1>2, <2>3, <2>4 DEF Fitting
<1>6. Counting
  <2> SUFFICES ASSUME NEW s \in Table PROVE inode[s].count = Cardinality(Refs(s))
    BY DEF Counting
  <2>1. Refs(s) = {}
    BY <1>2 DEF Refs, NoClaims
  <2>2. Cardinality({}) = 0
    BY FS_EmptySet
  <2> QED BY <1>1, <2>1, <2>2
<1>7. Listing
  BY <1>1, <1>3 DEF Listing, NoRepeats, Elements, Table
<1>8. Naming /\ Kept
  BY <1>1 DEF Naming, SoleInode, Kept
<1> QED BY <1>4, <1>5, <1>6, <1>7, <1>8 DEF Inv

LEMMA NextInv == Inv /\ [Next]_vars => Inv' /\ [Stays]_vars
<1> SUFFICES ASSUME Inv, [Next]_vars PROVE Inv' /\ [Stays]_vars
  OBVIOUS
<1>1. CASE UNCHANGED vars
  BY <1>1, SameInv DEF vars
<1>2. ASSUME NEW p \in Procs, Step(p) PROVE Inv' /\ Stays
  <2>1. CASE Open(p) \/ Unlink(p) \/ Creat(p) \/ Close(p) \/ Sync(p)
    BY <2>1, OpenInv, UnlinkInv, CreatInv, CloseInv, SyncInv
  <2>2. CASE IgetLoop(p) \/ IgetRead(p) \/ IgetError(p) \/ OpenDone(p) \/ Dirremove(p)
    BY <2>2, IgetLoopInv, IgetReadInv, IgetErrorInv, OpenDoneInv, DirremoveInv
  <2>3. CASE Maknode(p) \/ Direnter(p) \/ IlockLoop(p) \/ Itrunc(p) \/ Ifree(p)
    BY <2>3, MaknodeInv, DirenterInv, IlockLoopInv, ItruncInv, IfreeInv
  <2>4. CASE IreleUpdated(p) \/ SyncInode(p) \/ SyncUpdated(p) \/ SyncDone(p)
    BY <2>4, IreleUpdatedInv, SyncInodeInv, SyncUpdatedInv, SyncDoneInv
  <2> QED BY <1>2, <2>1, <2>2, <2>3, <2>4 DEF Step
<1> QED BY <1>1, <1>2 DEF Next

THEOREM AlwaysInv == Spec => []Inv
<1>1. Init => Inv
  BY InitInv
<1>2. Inv /\ [Next]_vars => Inv'
  BY NextInv
<1> QED BY <1>1, <1>2, PTL DEF Spec

(* The references are those of the property: by an open file and from      *)
(* within a system call.                                                   *)
LEMMA RefsParts ==
  ASSUME Inv, NEW s \in Table
  PROVE  /\ inode[s].count = Cardinality(OpenBy(s)) + Cardinality(Within(s))
         /\ inode[s].count <= Cardinality(Procs) /\ inode[s].count \in Nat
<1>1. Refs(s) = OpenBy(s) \cup Within(s)
  BY DEF Refs, Refers, OpenBy, Within
<1>2. OpenBy(s) \cap Within(s) = {}
  <2> SUFFICES ASSUME NEW p \in Procs, proc[p].fd = s, proc[p].ip = s PROVE FALSE
    BY DEF OpenBy, Within
  <2>1. Fits(proc[p]) /\ s # NONE
    BY Constants DEF Inv, Fitting
  <2> QED BY <2>1 DEF Fits
<1>3. IsFiniteSet(OpenBy(s)) /\ IsFiniteSet(Within(s))
  <2>1. OpenBy(s) \in SUBSET Procs /\ Within(s) \in SUBSET Procs /\ IsFiniteSet(Procs)
    BY Constants DEF OpenBy, Within
  <2> QED BY <2>1, FS_Subset
<1>4. /\ Cardinality(OpenBy(s) \cup Within(s))
           = Cardinality(OpenBy(s)) + Cardinality(Within(s)) - Cardinality(OpenBy(s) \cap Within(s))
      /\ Cardinality(OpenBy(s)) \in Nat /\ Cardinality(Within(s)) \in Nat
  BY <1>3, FS_Union, FS_CardinalityType
<1>5. Cardinality(OpenBy(s) \cap Within(s)) = 0
  BY <1>2, FS_EmptySet
<1>6. inode[s].count = Cardinality(Refs(s))
  BY DEF Inv, Counting
<1>7. /\ Cardinality(Refs(s)) <= Cardinality(Procs)
      /\ Cardinality(Refs(s)) \in Nat
  BY RefsFinite
<1>8. Cardinality(Refs(s)) = Cardinality(OpenBy(s)) + Cardinality(Within(s))
  BY <1>1, <1>4, <1>5
<1> QED BY <1>6, <1>7, <1>8

(* The variables have their types, and no count of references exceeds the  *)
(* number of processes.                                                    *)
THEOREM TypeCorrect == Spec => []TypeOK
<1>1. Inv => TypeOK
  <2> SUFFICES ASSUME Inv PROVE TypeOK
    OBVIOUS
  <2>1. ASSUME NEW s \in Table PROVE inode[s] \in Inode
    <3> DEFINE b == inode[s]
    <3>1. b \in SlotType
      BY DEF Inv, Typing
    <3>2. b.count \in 0 .. 2 * Cardinality(Procs)
      <4>1. /\ b.count <= Cardinality(Procs) /\ b.count \in Nat /\ Cardinality(Procs) \in Nat
        BY RefsParts, RefsFinite
      <4> HIDE DEF b
      <4> QED BY <4>1
    <3> HIDE DEF b
    <3>3. b \in Inode
      BY <3>1, <3>2 DEF SlotType, Inode
    <3> QED BY <3>3 DEF b
  <2> QED BY <2>1 DEF Inv, Typing, TypeOK
<1> QED BY <1>1, AlwaysInv, PTL

(* An inode is in core once, its references are counted, and the slots on  *)
(* the free list are those without references.                             *)
THEOREM AlwaysSlotsSound == Spec => []SlotsSound
<1>1. Inv => SlotsSound
  <2> SUFFICES ASSUME Inv PROVE SlotsSound
    OBVIOUS
  <2>1. SoleInode
    BY DEF Inv, Naming
  <2>2. RefsCounted
    BY RefsParts DEF RefsCounted
  <2>3. OnFreeList
    <3>1. ifree \in Seq(Table)
      BY DEF Inv, Typing
    <3>2. DOMAIN ifree = 1 .. Len(ifree)
      BY <3>1
    <3>3. NoRepeats(ifree) /\ \A s \in Table : inode[s].count = 0 <=> s \in Elements(ifree)
      BY DEF Inv, Listing
    <3> QED BY <3>2, <3>3 DEF OnFreeList, NoRepeats, Elements
  <2> QED BY <2>1, <2>2, <2>3 DEF SlotsSound
<1> QED BY <1>1, AlwaysInv, PTL

(* A locked inode is locked by one process, and who sleeps on it will be   *)
(* woken.                                                                  *)
THEOREM AlwaysLocksSound == Spec => []LocksSound
<1>1. Inv => LocksSound
  <2> SUFFICES ASSUME Inv PROVE LocksSound
    OBVIOUS
  <2>1. ASSUME NEW s \in Table
        PROVE  Cardinality(Owners(s)) = IF Is(s, "LOCKED") THEN 1 ELSE 0
    <3>1. Owners(s) = {p \in Procs : Owns(proc[p], s)}
      BY DEF Owners, Owns, Owning
    <3>2. /\ "LOCKED" \in inode[s].flag <=> \E q \in Procs : Owns(proc[q], s)
          /\ \A q, r \in Procs : Owns(proc[q], s) /\ Owns(proc[r], s) => q = r
      BY DEF Inv, Locking
    <3>3. CASE Is(s, "LOCKED")
      <4> PICK q \in Procs : Owns(proc[q], s)
        BY <3>2, <3>3 DEF Is
      <4>1. Owners(s) = {q}
        BY <3>1, <3>2
      <4>2. Cardinality({q}) = 1
        BY FS_Singleton
      <4> QED BY <3>3, <4>1, <4>2
    <3>4. CASE ~Is(s, "LOCKED")
      <4>1. Owners(s) = {}
        BY <3>1, <3>2, <3>4 DEF Is
      <4> QED BY <3>4, <4>1, FS_EmptySet
    <3> QED BY <3>3, <3>4
  <2>2. NoLostWakeup
    <3> SUFFICES ASSUME NEW p \in Procs, proc[p].pc \in {"isleep", "lsleep"}
                 PROVE  {"LOCKED", "WANT"} \subseteq inode[proc[p].ip].flag
      BY DEF NoLostWakeup
    <3>1. Fits(proc[p])
      BY DEF Inv, Fitting
    <3>2. proc[p].ip \in Table /\ Waits(proc[p], proc[p].ip)
      BY <3>1 DEF Fits, Proc, Waits
    <3> QED BY <3>2 DEF Inv, Waking
  <2> QED BY <2>1, <2>2 DEF LocksSound, SoleOwner
<1> QED BY <1>1, AlwaysInv, PTL

(* What was done to an inode is on the disk or marked as changed.          *)
THEOREM AlwaysKept == Spec => []Kept
<1>1. Inv => Kept
  BY DEF Inv
<1> QED BY <1>1, AlwaysInv, PTL

(* The slot of an open file does not turn into another's.                  *)
THEOREM AlwaysThatFile == Spec => StaysThatFile
<1>1. Init => Inv
  BY InitInv
<1>2. Inv /\ [Next]_vars => Inv' /\ [Stays]_vars
  BY NextInv
<1> QED BY <1>1, <1>2, PTL DEF Spec, StaysThatFile, Stays

=============================================================================
