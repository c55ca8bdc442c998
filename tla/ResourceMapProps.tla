-------------------------- MODULE ResourceMapProps --------------------------
(***************************************************************************)
(* What a resource map promises.                                           *)
(***************************************************************************)
EXTENDS ResourceMap

Units(g)  == g.addr..(End(g) - 1)
FreeUnits == UNION { Units(segs[i]) : i \in 1..Len(segs) }

(* Every variable has its type.                                            *)
TypeOK ==
  /\ segs \in Seq(Segment)
  /\ held \subseteq Segment
  /\ discarded \subseteq Segment
  /\ kmapwnt \in BOOLEAN
  /\ asleep \in [Procs -> Nat]
  /\ panicked \in BOOLEAN

(* The map lists its segments in order, with something in use between any  *)
(* two: what is free in one piece is listed as one piece.                  *)
Sorted(s) == \A i, j \in 1..Len(s) : i < j => End(s[i]) < s[j].addr
Coalesced == Sorted(segs)

(* No unit is free and in use, in use twice, or given away after it was    *)
(* discarded.                                                              *)
ApartFrom(x, s) == \A i \in 1..Len(s) : Apart(s[i], x)
Disjoint ==
  /\ \A h \in held : ApartFrom(h, segs)
  /\ \A g, h \in held : g # h => Apart(g, h)
  /\ \A d \in discarded : ApartFrom(d, segs) /\ \A h \in held : Apart(d, h)

(* Nothing is lost but what the overflow of the map discards, with a       *)
(* message.                                                                *)
AllUnits  == (UNION { Units(g) : g \in InitHeld }) \cup
             (UNION { Units(InitSegs[i]) : i \in 1..Len(InitSegs) })
Conserved ==
  AllUnits = FreeUnits \cup UNION { Units(g) : g \in held \cup discarded }

(* A process sleeps for the map only while it is marked wanted and no run  *)
(* of free units is long enough for it.                                    *)
NobodyWaitsInVain ==
  \A p \in Procs :
    asleep[p] # 0 =>
      /\ kmapwnt
      /\ \A a \in FreeUnits : ~ a..(a + asleep[p] - 1) \subseteq FreeUnits

(* The map stays within its array (comments in rminit and rmget).          *)
WithinMap == Len(segs) + 2 <= MapSize

(* "bad rmfree" does not happen to users who free what they were given.    *)
NoPanic == ~panicked

(* No block of swap space lies on both sides of a boundary, on two disks.  *)
SwapUncut ==
  Swap => \A g \in held : g.addr \div DMMAX = (End(g) - 1) \div DMMAX

(* The map is a pool of units.                                             *)
Pool == INSTANCE UnitPool WITH
          Sizes    <- Sizes \cup { g.size : g \in Gets },
          InitFree <- UNION { Units(InitSegs[i]) : i \in 1..Len(InitSegs) },
          free     <- FreeUnits
PoolSpec == Pool!Spec

=============================================================================
