---------------------------- MODULE ResourceMap -----------------------------
(***************************************************************************)
(* Resource maps, sys/sys/subr_rmap.c: a fixed array that lists the free   *)
(* segments of an address space (kernel page-table slots, swap, UNIBUS map *)
(* registers), and the processes that sleep until a segment is free        *)
(* (vm_proc.c: procdup, for kernelmap).                                    *)
(*                                                                         *)
(* The array is a sequence: its used slots in order.  The slot after them  *)
(* is the delimiter, so a map of MapSize slots, of which the first is the  *)
(* header, has room for MapSize - 2 segments.  Every routine runs without  *)
(* sleeping and with interrupts that use the map blocked, and is one step. *)
(***************************************************************************)
EXTENDS Integers, Sequences

CONSTANTS
  Procs,     (* processes that use the map                                 *)
  MapSize,   (* slots of the map, with the header and the delimiter        *)
  InitSegs,  (* <<>> or the segment freed by rminit                        *)
  InitHeld,  (* segments in use, or not yet given to the map, at first     *)
  Sizes,     (* sizes asked of rmalloc                                     *)
  Gets,      (* segments asked of rmget                                    *)
  Swap,      (* whether the map is swapmap                                 *)
  DMMAX      (* size of the interleaved pieces of the swap space           *)

Segment == [addr : Nat \ {0}, size : Nat \ {0}]

Seg(a, n)   == [addr |-> a, size |-> n]
End(g)      == g.addr + g.size
Apart(g, h) == End(g) <= h.addr \/ End(h) <= g.addr   (* no common unit *)

ASSUME ResourceMapAssumption ==
  /\ MapSize \in Nat /\ MapSize > 3
  /\ InitSegs \in Seq(Segment) /\ Len(InitSegs) <= 1
  /\ InitHeld \subseteq Segment
  /\ \A g, h \in InitHeld : g # h => Apart(g, h)
  /\ \A i \in 1..Len(InitSegs), h \in InitHeld : Apart(InitSegs[i], h)
  /\ Sizes \subseteq Nat \ {0}
  /\ Gets \subseteq Segment
  /\ Swap \in BOOLEAN
  /\ DMMAX \in Nat \ {0}
  /\ Swap => /\ \A n \in Sizes : n <= DMMAX
             /\ \A h \in InitHeld : h.addr \div DMMAX = (End(h) - 1) \div DMMAX

VARIABLES
  segs,      (* the segments of the map                                    *)
  held,      (* the segments in use                                        *)
  discarded, (* the segments that were thrown away                         *)
  kmapwnt,   (* somebody sleeps for the map                                *)
  asleep,    (* the size each process sleeps for, 0: none                  *)
  panicked   (* "bad rmfree"                                               *)

vars == <<segs, held, discarded, kmapwnt, asleep, panicked>>

-----------------------------------------------------------------------------
(* The array.                                                              *)

Without(s, i)   == [j \in 1..(Len(s) - 1) |-> IF j < i THEN s[j] ELSE s[j + 1]]
Inserted(s, k, g) ==   (* g after the first k segments *)
  [j \in 1..(Len(s) + 1) |-> IF j <= k THEN s[j]
                             ELSE IF j = k + 1 THEN g ELSE s[j - 1]]

(* The delimiter of s lies outside of the array.                           *)
(* (Variant: off by one.)                                                  *)
OverflowsLate(s) == Len(s) + 1 > MapSize
Overflows(s)     == Len(s) + 1 >= MapSize

-----------------------------------------------------------------------------
(* rmfree(g) for a map with segments s: the first k start at or before g.  *)

Place(s, k, g) == /\ \A i \in 1..k : s[i].addr <= g.addr
                  /\ k < Len(s) => s[k + 1].addr > g.addr
AbutsLeft(s, k, g)  == k > 0 /\ End(s[k]) = g.addr
AbutsRight(s, k, g) == k < Len(s) /\ End(g) = s[k + 1].addr
Bad(s, k, g)        == \/ k > 0 /\ End(s[k]) > g.addr
                       \/ k < Len(s) /\ End(g) > s[k + 1].addr

JoinLeft(s, k, g)  == [s EXCEPT ![k] = Seg(@.addr, @.size + g.size)]
(* (Variant: the piece on the right is not joined.)                        *)
JoinBothForgotten(s, k, g) == JoinLeft(s, k, g)
JoinBoth(s, k, g)  ==
  [Without(s, k + 1) EXCEPT ![k] = Seg(@.addr, @.size + g.size + s[k + 1].size)]
(* (Variant: the piece on the right grows at its wrong end.)               *)
JoinRightUnmoved(s, k, g) == [s EXCEPT ![k + 1].size = @ + g.size]
JoinRight(s, k, g) == [s EXCEPT ![k + 1] = Seg(g.addr, g.size + @.size)]

(* A map that has overflowed loses its last segment but one.               *)
(* (Variant: it loses the last one, and the one before is there twice.)    *)
TrimmedWrong(s) == Without(s, Len(s) - 2)
Trimmed(s)      == Without(s, Len(s) - 1)

Wakeup == /\ kmapwnt' = FALSE
          /\ asleep' = IF kmapwnt THEN [p \in Procs |-> 0] ELSE asleep

(* (Variant: nobody is woken.)                                             *)
DoneQuietly == UNCHANGED <<kmapwnt, asleep>>
Done        == IF Swap THEN UNCHANGED <<kmapwnt, asleep>> ELSE Wakeup

Rmfree(s, g) ==
  \E k \in 0..Len(s) :
    /\ Place(s, k, g)
    /\ \/ /\ Bad(s, k, g)
          /\ panicked' = TRUE
          /\ UNCHANGED <<segs, discarded, kmapwnt, asleep>>
       \/ /\ ~Bad(s, k, g)
          /\ Done
          /\ UNCHANGED panicked
          /\ \/ /\ AbutsLeft(s, k, g) /\ AbutsRight(s, k, g)
                /\ segs' = JoinBoth(s, k, g)
                /\ UNCHANGED discarded
             \/ /\ AbutsLeft(s, k, g) /\ ~AbutsRight(s, k, g)
                /\ segs' = JoinLeft(s, k, g)
                /\ UNCHANGED discarded
             \/ /\ ~AbutsLeft(s, k, g) /\ AbutsRight(s, k, g)
                /\ segs' = JoinRight(s, k, g)
                /\ UNCHANGED discarded
             \/ /\ ~AbutsLeft(s, k, g) /\ ~AbutsRight(s, k, g)
                /\ LET t == Inserted(s, k, g) IN
                     IF Overflows(t)
                       THEN /\ segs' = Trimmed(t)
                            /\ discarded' = discarded \cup {t[Len(t) - 1]}
                       ELSE segs' = t /\ UNCHANGED discarded

-----------------------------------------------------------------------------
(* rmalloc: first fit.  In swapmap a segment that reaches over a boundary  *)
(* is used from the boundary on.                                           *)

ToBoundary(g) == DMMAX - (g.addr % DMMAX)
(* (Variant: boundaries are ignored.)                                      *)
CrossesNever(g) == FALSE
Crosses(g)    == Swap /\ ToBoundary(g) < g.size
Fits(g, n)    == g.size >= n /\ (Crosses(g) => g.size - ToBoundary(g) >= n)

(* (Variant: the part after the block that is cut out is forgotten.)       *)
CutForgotten(i, n) ==
  LET first == ToBoundary(segs[i]) IN
  /\ segs' = [segs EXCEPT ![i].size = first]
  /\ UNCHANGED <<discarded, kmapwnt, asleep, panicked>>

Cut(i, n) ==
  LET g     == segs[i]
      first == ToBoundary(g)
      s     == [segs EXCEPT ![i] = Seg(@.addr, first)]
      rest  == g.size - first - n
  IN  IF rest = 0 THEN segs' = s /\ UNCHANGED <<discarded, kmapwnt, asleep, panicked>>
                  ELSE Rmfree(s, Seg(g.addr + first + n, rest))

Front(i, n) ==
  /\ segs' = IF segs[i].size = n THEN Without(segs, i)
             ELSE [segs EXCEPT ![i] = Seg(@.addr + n, @.size - n)]
  /\ UNCHANGED <<discarded, kmapwnt, asleep, panicked>>

(* The segment rmalloc takes: the first that fits.                         *)
FirstFit(i, n) == Fits(segs[i], n) /\ \A j \in 1..(i - 1) : ~Fits(segs[j], n)

Rmalloc(p) ==
  \E n \in Sizes, i \in 1..Len(segs) :
    /\ ~panicked /\ asleep[p] = 0
    /\ FirstFit(i, n)
    /\ \/ /\ Crosses(segs[i]) /\ Cut(i, n)
          /\ held' = held \cup {Seg(segs[i].addr + ToBoundary(segs[i]), n)}
       \/ /\ ~Crosses(segs[i]) /\ Front(i, n)
          /\ held' = held \cup {Seg(segs[i].addr, n)}

(* rmalloc fails, and the process sleeps until something is freed.         *)
RmallocSleep(p) ==
  \E n \in Sizes :
    /\ ~panicked /\ ~Swap /\ asleep[p] = 0
    /\ \A i \in 1..Len(segs) : ~Fits(segs[i], n)
    /\ asleep' = [asleep EXCEPT ![p] = n]
    /\ kmapwnt' = TRUE
    /\ UNCHANGED <<segs, held, discarded, panicked>>

(* Whoever has a segment may give it back: a process that exits or is      *)
(* swapped out, which sched sees to when kmapwnt is set.                   *)
Release ==
  \E g \in held :
    /\ ~panicked
    /\ Rmfree(segs, g)
    /\ held' = held \ {g}

-----------------------------------------------------------------------------
(* rmget: a given segment, if it is free: all of a segment of the map, its *)
(* first part, its last part, or a part in the middle, which needs a slot. *)

RoomFor(s) == Len(s) + 1 # MapSize

Split(s, i, g) ==
  Inserted([s EXCEPT ![i] = Seg(@.addr, g.addr - @.addr)], i, Seg(End(g), End(s[i]) - End(g)))

Rmget(p) ==
  \E g \in Gets, i \in 1..Len(segs) :
    LET b == segs[i] IN
    /\ ~panicked /\ ~Swap /\ asleep[p] = 0
    /\ b.addr <= g.addr /\ End(g) <= End(b)
    /\ \/ /\ b = g
          /\ segs' = Without(segs, i)
       \/ /\ b.addr = g.addr /\ End(b) # End(g)
          /\ segs' = [segs EXCEPT ![i] = Seg(End(g), b.size - g.size)]
       \/ /\ b.addr # g.addr /\ End(b) = End(g)
          /\ segs' = [segs EXCEPT ![i] = Seg(@.addr, @.size - g.size)]
       \/ /\ b.addr # g.addr /\ End(b) # End(g)
          /\ RoomFor(segs)
          /\ segs' = Split(segs, i, g)
    /\ held' = held \cup {g}
    /\ UNCHANGED <<discarded, kmapwnt, asleep, panicked>>

-----------------------------------------------------------------------------
Init ==
  /\ segs = InitSegs
  /\ held = InitHeld
  /\ discarded = {}
  /\ kmapwnt = FALSE
  /\ asleep = [p \in Procs |-> 0]
  /\ panicked = FALSE

Next == \/ \E p \in Procs : Rmalloc(p) \/ RmallocSleep(p) \/ Rmget(p)
        \/ Release

Spec == Init /\ [][Next]_vars

=============================================================================
