------------------------- MODULE ResourceMapProofs --------------------------
(***************************************************************************)
(* Theorems about resource maps, for every size of the map and every       *)
(* sequence of calls.                                                      *)
(***************************************************************************)
EXTENDS ResourceMapProps, SequenceTheorems, TLAPS

-----------------------------------------------------------------------------
(* The array operations.                                                   *)

LEMMA WithoutSeq ==
  ASSUME NEW S, NEW s \in Seq(S), NEW i \in 1..Len(s)
  PROVE  /\ Without(s, i) \in Seq(S)
         /\ Len(Without(s, i)) = Len(s) - 1
         /\ \A j \in 1..(Len(s) - 1) :
              Without(s, i)[j] = IF j < i THEN s[j] ELSE s[j + 1]
<1>1. Len(s) \in Nat /\ Len(s) - 1 \in Nat
  OBVIOUS
<1>2. \A j \in 1..(Len(s) - 1) : (IF j < i THEN s[j] ELSE s[j + 1]) \in S
  BY ElementOfSeq
<1>3. Without(s, i) \in [1..(Len(s) - 1) -> S]
  BY <1>2 DEF Without
<1>4. Without(s, i) \in Seq(S) /\ Len(Without(s, i)) = Len(s) - 1
  BY <1>1, <1>3
<1> QED BY <1>4 DEF Without

LEMMA InsertedSeq ==
  ASSUME NEW S, NEW s \in Seq(S), NEW k \in 0..Len(s), NEW g \in S
  PROVE  /\ Inserted(s, k, g) \in Seq(S)
         /\ Len(Inserted(s, k, g)) = Len(s) + 1
         /\ \A j \in 1..(Len(s) + 1) :
              Inserted(s, k, g)[j] = IF j <= k THEN s[j]
                                     ELSE IF j = k + 1 THEN g ELSE s[j - 1]
<1>1. Len(s) \in Nat /\ Len(s) + 1 \in Nat
  OBVIOUS
<1>2. \A j \in 1..(Len(s) + 1) :
        (IF j <= k THEN s[j] ELSE IF j = k + 1 THEN g ELSE s[j - 1]) \in S
  BY ElementOfSeq
<1>3. Inserted(s, k, g) \in [1..(Len(s) + 1) -> S]
  BY <1>2 DEF Inserted
<1>4. Inserted(s, k, g) \in Seq(S) /\ Len(Inserted(s, k, g)) = Len(s) + 1
  BY <1>1, <1>3
<1> QED BY <1>4 DEF Inserted

(* The numbers of a list of segments.                                      *)
LEMMA Elements ==
  ASSUME NEW s \in Seq(Segment)
  PROVE  \A j \in 1..Len(s) :
           /\ s[j] \in Segment
           /\ s[j].addr \in Nat \ {0} /\ s[j].size \in Nat \ {0}
           /\ End(s[j]) \in Nat /\ s[j].addr < End(s[j])
<1> SUFFICES ASSUME NEW j \in 1..Len(s)
             PROVE  /\ s[j] \in Segment
                    /\ s[j].addr \in Nat \ {0} /\ s[j].size \in Nat \ {0}
                    /\ End(s[j]) \in Nat /\ s[j].addr < End(s[j])
  OBVIOUS
<1>1. s[j] \in Segment
  BY ElementOfSeq
<1> QED BY <1>1 DEF Segment, End

LEMMA SegType ==
  ASSUME NEW a \in Nat \ {0}, NEW n \in Nat \ {0}
  PROVE  Seg(a, n) \in Segment /\ Seg(a, n).addr = a /\ Seg(a, n).size = n
BY DEF Seg, Segment

(* A sorted list of segments with one taken out is sorted, and lies within *)
(* what it was.                                                            *)
LEMMA WithoutSorted ==
  ASSUME NEW s \in Seq(Segment), Sorted(s), NEW i \in 1..Len(s)
  PROVE  /\ Without(s, i) \in Seq(Segment) /\ Sorted(Without(s, i))
         /\ \A x : ApartFrom(x, s) => ApartFrom(x, Without(s, i))
         /\ ApartFrom(s[i], Without(s, i))
<1> DEFINE t == Without(s, i)
<1>1. /\ t \in Seq(Segment) /\ Len(t) = Len(s) - 1
      /\ \A j \in 1..(Len(s) - 1) : t[j] = IF j < i THEN s[j] ELSE s[j + 1]
  BY WithoutSeq
<1>2. \A j \in 1..Len(s) : s[j] \in Segment
  BY ElementOfSeq
<1> HIDE DEF t
<1>3. Sorted(t)
  <2> SUFFICES ASSUME NEW j \in 1..Len(t), NEW l \in 1..Len(t), j < l
               PROVE  End(t[j]) < t[l].addr
    BY DEF Sorted
  <2>1. CASE l < i
    BY <1>1, <2>1, SMTT(30) DEF Sorted
  <2>2. CASE j < i /\ i <= l
    <3>1. t[j] = s[j] /\ t[l] = s[l + 1] /\ j \in 1..Len(s) /\ l + 1 \in 1..Len(s)
      BY <1>1, <2>2
    <3> QED BY <3>1 DEF Sorted
  <2>3. CASE i <= j
    <3>1. /\ t[j] = s[j + 1] /\ t[l] = s[l + 1]
          /\ j + 1 \in 1..Len(s) /\ l + 1 \in 1..Len(s)
      BY <1>1, <2>3
    <3> QED BY <3>1 DEF Sorted
  <2> QED BY <1>1, <2>1, <2>2, <2>3
<1>4. \A x : ApartFrom(x, s) => ApartFrom(x, t)
  BY <1>1 DEF ApartFrom
<1>5. ApartFrom(s[i], t)
  <2> SUFFICES ASSUME NEW j \in 1..Len(t) PROVE Apart(t[j], s[i])
    BY DEF ApartFrom
  <2>1. CASE j < i
    <3>1. t[j] = s[j] /\ End(s[j]) < s[i].addr
      BY <1>1, <2>1 DEF Sorted
    <3>2. s[j] \in Segment /\ s[i] \in Segment
      BY <1>1, <1>2
    <3> QED BY <3>1, <3>2, SMTT(30) DEF Apart, End, Segment
  <2>2. CASE j >= i
    <3>1. t[j] = s[j + 1] /\ End(s[i]) < s[j + 1].addr
      BY <1>1, <2>2 DEF Sorted
    <3>2. s[j + 1] \in Segment /\ s[i] \in Segment
      BY <1>1, <1>2
    <3> QED BY <3>1, <3>2, SMTT(30) DEF Apart, End, Segment
  <2> QED BY <1>1, <2>1, <2>2
<1> QED BY <1>1, <1>3, <1>4, <1>5 DEF t

(* In a sorted list, what lies after a segment lies after all before it,   *)
(* and what lies before a segment lies before all after it.                *)
LEMMA Before ==
  ASSUME NEW s \in Seq(Segment), Sorted(s), NEW k \in 1..Len(s), NEW a \in Int,
         End(s[k]) < a
  PROVE  \A j \in 1..k : End(s[j]) < a
<1> SUFFICES ASSUME NEW j \in 1..k PROVE End(s[j]) < a
  OBVIOUS
<1>1. /\ j \in 1..Len(s) /\ End(s[j]) \in Nat /\ End(s[k]) \in Nat
      /\ s[k].addr \in Nat /\ s[k].addr < End(s[k])
  BY Elements
<1>2. j < k => End(s[j]) < s[k].addr
  BY <1>1 DEF Sorted
<1>3. CASE j < k
  BY <1>1, <1>2, <1>3
<1>4. CASE j = k
  BY <1>4
<1> QED BY <1>3, <1>4

LEMMA After ==
  ASSUME NEW s \in Seq(Segment), Sorted(s), NEW k \in 1..Len(s), NEW a \in Int,
         a < s[k].addr
  PROVE  \A j \in k..Len(s) : a < s[j].addr
<1> SUFFICES ASSUME NEW j \in k..Len(s) PROVE a < s[j].addr
  OBVIOUS
<1>1. /\ j \in 1..Len(s) /\ s[j].addr \in Nat /\ End(s[k]) \in Nat
      /\ s[k].addr \in Nat /\ s[k].addr < End(s[k])
  BY Elements
<1>2. k < j => End(s[k]) < s[j].addr
  BY <1>1 DEF Sorted
<1>3. CASE k < j
  BY <1>1, <1>2, <1>3
<1>4. CASE j = k
  BY <1>4
<1> QED BY <1>3, <1>4

(* A segment of a sorted list may be replaced by one that keeps clear of   *)
(* its neighbours.                                                         *)
LEMMA ReplacedSorted ==
  ASSUME NEW s \in Seq(Segment), Sorted(s), NEW i \in 1..Len(s),
         NEW g \in Segment,
         i > 1 => End(s[i - 1]) < g.addr,
         i < Len(s) => End(g) < s[i + 1].addr
  PROVE  /\ [s EXCEPT ![i] = g] \in Seq(Segment)
         /\ Len([s EXCEPT ![i] = g]) = Len(s)
         /\ \A j \in 1..Len(s) : [s EXCEPT ![i] = g][j] = IF j = i THEN g ELSE s[j]
         /\ Sorted([s EXCEPT ![i] = g])
<1> DEFINE t == [s EXCEPT ![i] = g]
<1>1. /\ t \in Seq(Segment) /\ Len(t) = Len(s)
      /\ \A j \in 1..Len(s) : t[j] = IF j = i THEN g ELSE s[j]
  BY ExceptSeq
<1> HIDE DEF t
<1>2. g.addr \in Int /\ End(g) \in Int
  BY DEF Segment, End
<1>3. \A j \in 1..Len(s) : j < i => End(s[j]) < g.addr
  <2> SUFFICES ASSUME NEW j \in 1..Len(s), j < i PROVE End(s[j]) < g.addr
    OBVIOUS
  <2>1. i - 1 \in 1..Len(s) /\ j \in 1..(i - 1) /\ i > 1
    OBVIOUS
  <2> QED BY <1>2, <2>1, Before
<1>4. \A j \in 1..Len(s) : i < j => End(g) < s[j].addr
  <2> SUFFICES ASSUME NEW j \in 1..Len(s), i < j PROVE End(g) < s[j].addr
    OBVIOUS
  <2>1. i + 1 \in 1..Len(s) /\ j \in (i + 1)..Len(s) /\ i < Len(s)
    OBVIOUS
  <2> QED BY <1>2, <2>1, After
<1>5. Sorted(t)
  BY <1>1, <1>3, <1>4 DEF Sorted
<1> QED BY <1>1, <1>5 DEF t

(* A segment that keeps clear of its neighbours may be put into a sorted   *)
(* list.                                                                   *)
LEMMA InsertedSorted ==
  ASSUME NEW s \in Seq(Segment), Sorted(s), NEW k \in 0..Len(s),
         NEW g \in Segment,
         k > 0 => End(s[k]) < g.addr,
         k < Len(s) => End(g) < s[k + 1].addr
  PROVE  Sorted(Inserted(s, k, g))
<1> DEFINE t == Inserted(s, k, g)
<1>1. /\ Len(t) = Len(s) + 1
      /\ \A j \in 1..(Len(s) + 1) :
           t[j] = IF j <= k THEN s[j] ELSE IF j = k + 1 THEN g ELSE s[j - 1]
  BY InsertedSeq
<1> HIDE DEF t
<1>2. g.addr \in Int /\ End(g) \in Int
  BY DEF Segment, End
<1>3. \A j \in 1..Len(s) : j <= k => End(s[j]) < g.addr
  <2> SUFFICES ASSUME NEW j \in 1..Len(s), j <= k PROVE End(s[j]) < g.addr
    OBVIOUS
  <2>1. k \in 1..Len(s) /\ j \in 1..k /\ k > 0
    OBVIOUS
  <2> QED BY <1>2, <2>1, Before
<1>4. \A j \in 1..Len(s) : k < j => End(g) < s[j].addr
  <2> SUFFICES ASSUME NEW j \in 1..Len(s), k < j PROVE End(g) < s[j].addr
    OBVIOUS
  <2>1. k + 1 \in 1..Len(s) /\ j \in (k + 1)..Len(s) /\ k < Len(s)
    OBVIOUS
  <2> QED BY <1>2, <2>1, After
<1>5. \A i, j \in 1..Len(t) : i < j => End(t[i]) < t[j].addr
  <2> SUFFICES ASSUME NEW i \in 1..Len(t), NEW j \in 1..Len(t), i < j
               PROVE  End(t[i]) < t[j].addr
    OBVIOUS
  <2>1. CASE j <= k
    BY <1>1, <2>1 DEF Sorted
  <2>2. CASE j = k + 1
    BY <1>1, <1>3, <2>2
  <2>3. CASE j > k + 1 /\ i = k + 1
    <3>1. t[i] = g /\ t[j] = s[j - 1] /\ j - 1 \in 1..Len(s) /\ k < j - 1
      BY <1>1, <2>3
    <3> QED BY <1>4, <3>1
  <2>4. CASE j > k + 1 /\ i < k + 1
    <3>1. /\ t[i] = s[i] /\ t[j] = s[j - 1]
          /\ i \in 1..Len(s) /\ j - 1 \in 1..Len(s) /\ i < j - 1
      BY <1>1, <2>4
    <3> QED BY <3>1 DEF Sorted
  <2>5. CASE i > k + 1
    <3>1. /\ t[i] = s[i - 1] /\ t[j] = s[j - 1]
          /\ i - 1 \in 1..Len(s) /\ j - 1 \in 1..Len(s) /\ i - 1 < j - 1
      BY <1>1, <2>5
    <3> QED BY <3>1 DEF Sorted
  <2> QED BY <2>1, <2>2, <2>3, <2>4, <2>5
<1> QED BY <1>5 DEF Sorted, t

-----------------------------------------------------------------------------
(* What lies within a segment is apart from whatever the segment is apart  *)
(* from.                                                                   *)

Inside(g, h) == h.addr <= g.addr /\ End(g) <= End(h)

LEMMA ApartFacts ==
  ASSUME NEW g \in Segment, NEW h \in Segment, NEW x \in Segment
  PROVE  /\ Apart(g, h) <=> Apart(h, g)
         /\ Inside(g, h) /\ Apart(h, x) => Apart(g, x)
BY DEF Apart, Inside, End, Segment

(* The segments of a sorted list are apart.                                *)
LEMMA SortedApart ==
  ASSUME NEW s \in Seq(Segment), Sorted(s)
  PROVE  \A i, j \in 1..Len(s) : i # j => Apart(s[i], s[j])
<1> SUFFICES ASSUME NEW i \in 1..Len(s), NEW j \in 1..Len(s), i # j
             PROVE  Apart(s[i], s[j])
  OBVIOUS
<1>1. /\ End(s[i]) \in Nat /\ s[i].addr \in Nat
      /\ End(s[j]) \in Nat /\ s[j].addr \in Nat
  BY Elements
<1>2. End(s[i]) < s[j].addr \/ End(s[j]) < s[i].addr
  BY DEF Sorted
<1> QED BY <1>1, <1>2 DEF Apart

(* A segment of the list gives way to a part of itself.                    *)
LEMMA ShortenedSorted ==
  ASSUME NEW s \in Seq(Segment), Sorted(s), NEW i \in 1..Len(s),
         NEW h \in Segment, Inside(h, s[i])
  PROVE  /\ [s EXCEPT ![i] = h] \in Seq(Segment)
         /\ Len([s EXCEPT ![i] = h]) = Len(s)
         /\ \A j \in 1..Len(s) : [s EXCEPT ![i] = h][j] = IF j = i THEN h ELSE s[j]
         /\ Sorted([s EXCEPT ![i] = h])
         /\ \A x \in Segment : ApartFrom(x, s) => ApartFrom(x, [s EXCEPT ![i] = h])
         /\ \A x \in Segment :
              Inside(x, s[i]) /\ Apart(h, x) => ApartFrom(x, [s EXCEPT ![i] = h])
<1> DEFINE t == [s EXCEPT ![i] = h]
<1>1. \A j \in 1..Len(s) : /\ s[j] \in Segment /\ s[j].addr \in Nat
                           /\ End(s[j]) \in Nat
  BY Elements
<1>2. h.addr \in Nat /\ End(h) \in Nat
  BY DEF Segment, End
<1>3. i > 1 => End(s[i - 1]) < h.addr
  <2> SUFFICES ASSUME i > 1 PROVE End(s[i - 1]) < h.addr
    OBVIOUS
  <2>1. i - 1 \in 1..Len(s)
    OBVIOUS
  <2>2. End(s[i - 1]) < s[i].addr
    BY <2>1 DEF Sorted
  <2> QED BY <1>1, <1>2, <2>1, <2>2 DEF Inside
<1>4. i < Len(s) => End(h) < s[i + 1].addr
  <2> SUFFICES ASSUME i < Len(s) PROVE End(h) < s[i + 1].addr
    OBVIOUS
  <2>1. i + 1 \in 1..Len(s)
    OBVIOUS
  <2>2. End(s[i]) < s[i + 1].addr
    BY <2>1 DEF Sorted
  <2> QED BY <1>1, <1>2, <2>1, <2>2 DEF Inside
<1>5. /\ t \in Seq(Segment) /\ Len(t) = Len(s) /\ Sorted(t)
      /\ \A j \in 1..Len(s) : t[j] = IF j = i THEN h ELSE s[j]
  BY <1>3, <1>4, ReplacedSorted
<1> HIDE DEF t
<1>6. ASSUME NEW x \in Segment, ApartFrom(x, s)
      PROVE  ApartFrom(x, t)
  <2>1. Apart(h, x)
    BY <1>1, <1>6, ApartFacts DEF ApartFrom
  <2> QED BY <1>5, <1>6, <2>1 DEF ApartFrom
<1>7. ASSUME NEW x \in Segment, Inside(x, s[i]), Apart(h, x)
      PROVE  ApartFrom(x, t)
  <2>1. \A j \in 1..Len(s) : j # i => Apart(s[j], x)
    <3> SUFFICES ASSUME NEW j \in 1..Len(s), j # i PROVE Apart(s[j], x)
      OBVIOUS
    <3>1. Apart(s[i], s[j]) /\ s[i] \in Segment /\ s[j] \in Segment
      BY <1>1, SortedApart
    <3> QED BY <1>7, <3>1, ApartFacts
  <2> QED BY <1>5, <1>7, <2>1 DEF ApartFrom
<1> QED BY <1>5, <1>6, <1>7 DEF t

(* What is apart from a list and a segment is apart from the list with the *)
(* segment in it.                                                          *)
LEMMA InsertedApart ==
  ASSUME NEW s \in Seq(Segment), NEW k \in 0..Len(s), NEW g \in Segment,
         NEW x, ApartFrom(x, s), Apart(g, x)
  PROVE  ApartFrom(x, Inserted(s, k, g))
<1> DEFINE t == Inserted(s, k, g)
<1>1. /\ Len(t) = Len(s) + 1
      /\ \A j \in 1..(Len(s) + 1) :
           t[j] = IF j <= k THEN s[j] ELSE IF j = k + 1 THEN g ELSE s[j - 1]
  BY InsertedSeq
<1> HIDE DEF t
<1>2. ASSUME NEW j \in 1..Len(t) PROVE Apart(t[j], x)
  <2>1. CASE j <= k
    BY <1>1, <2>1 DEF ApartFrom
  <2>2. CASE j = k + 1
    BY <1>1, <2>2
  <2>3. CASE j > k + 1
    <3>1. t[j] = s[j - 1] /\ j - 1 \in 1..Len(s)
      BY <1>1, <2>3
    <3> QED BY <3>1 DEF ApartFrom
  <2> QED BY <2>1, <2>2, <2>3
<1> QED BY <1>2 DEF ApartFrom, t

-----------------------------------------------------------------------------
(* rmfree of a segment that is apart from the map: the map stays sorted,   *)
(* what is apart from both stays apart from the map and from what is       *)
(* thrown away, and there is no panic.                                     *)

(* Where the segment goes, it fits.                                        *)
LEMMA PlaceFits ==
  ASSUME NEW s \in Seq(Segment), Sorted(s), NEW g \in Segment,
         ApartFrom(g, s), NEW k \in 0..Len(s), Place(s, k, g)
  PROVE  /\ k > 0 => End(s[k]) <= g.addr
         /\ k < Len(s) => End(g) <= s[k + 1].addr
<1>1. g.addr \in Nat /\ End(g) \in Nat /\ g.addr < End(g)
  BY DEF Segment, End
<1>2. k > 0 => End(s[k]) <= g.addr
  <2> SUFFICES ASSUME k > 0 PROVE End(s[k]) <= g.addr
    OBVIOUS
  <2>1. k \in 1..Len(s)
    OBVIOUS
  <2>2. s[k].addr <= g.addr /\ Apart(s[k], g) /\ s[k].addr \in Nat /\ End(s[k]) \in Nat
    BY <2>1, Elements DEF Place, ApartFrom
  <2> QED BY <1>1, <2>2 DEF Apart
<1>3. k < Len(s) => End(g) <= s[k + 1].addr
  <2> SUFFICES ASSUME k < Len(s) PROVE End(g) <= s[k + 1].addr
    OBVIOUS
  <2>1. k + 1 \in 1..Len(s)
    OBVIOUS
  <2>2. /\ s[k + 1].addr > g.addr /\ Apart(s[k + 1], g)
        /\ s[k + 1].addr \in Nat /\ End(s[k + 1]) \in Nat
        /\ s[k + 1].addr < End(s[k + 1])
    BY <2>1, Elements DEF Place, ApartFrom
  <2> QED BY <1>1, <2>2 DEF Apart
<1> QED BY <1>2, <1>3

(* t is sorted, and has no unit that s and g have not.                     *)
Keeps(s, g, t) ==
  /\ t \in Seq(Segment) /\ Sorted(t)
  /\ \A x \in Segment : ApartFrom(x, s) /\ Apart(g, x) => ApartFrom(x, t)

LEMMA JoinLeftKeeps ==
  ASSUME NEW s \in Seq(Segment), Sorted(s), NEW g \in Segment,
         ApartFrom(g, s), NEW k \in 0..Len(s), Place(s, k, g),
         AbutsLeft(s, k, g), ~AbutsRight(s, k, g)
  PROVE  Keeps(s, g, JoinLeft(s, k, g))
<1> DEFINE h == Seg(s[k].addr, s[k].size + g.size)
           t == [s EXCEPT ![k] = h]
<1>1. /\ g.addr \in Nat \ {0} /\ g.size \in Nat \ {0}
      /\ End(g) \in Nat /\ g.addr < End(g)
  BY DEF Segment, End
<1>2. k \in 1..Len(s) /\ End(s[k]) = g.addr
  BY DEF AbutsLeft
<1>3. \A j \in 1..Len(s) : /\ s[j] \in Segment
                           /\ s[j].addr \in Nat \ {0} /\ s[j].size \in Nat \ {0}
                           /\ End(s[j]) \in Nat
  BY Elements
<1>4. h \in Segment /\ h.addr = s[k].addr /\ End(h) = End(g)
  BY <1>1, <1>2, <1>3, SMTT(30) DEF Seg, Segment, End
<1>5. k > 1 => End(s[k - 1]) < h.addr
  <2> SUFFICES ASSUME k > 1 PROVE End(s[k - 1]) < h.addr
    OBVIOUS
  <2>1. k - 1 \in 1..Len(s)
    BY <1>2
  <2> QED BY <1>2, <1>4, <2>1 DEF Sorted
<1>6. k < Len(s) => End(h) < s[k + 1].addr
  <2> SUFFICES ASSUME k < Len(s) PROVE End(h) < s[k + 1].addr
    OBVIOUS
  <2>1. k + 1 \in 1..Len(s)
    OBVIOUS
  <2>2. End(g) <= s[k + 1].addr /\ End(g) # s[k + 1].addr
    BY PlaceFits DEF AbutsRight
  <2> QED BY <1>1, <1>3, <1>4, <2>1, <2>2
<1> HIDE DEF h
<1>7. /\ t \in Seq(Segment) /\ Len(t) = Len(s) /\ Sorted(t)
      /\ \A j \in 1..Len(s) : t[j] = IF j = k THEN h ELSE s[j]
  BY <1>2, <1>4, <1>5, <1>6, ReplacedSorted
<1>8. ASSUME NEW x \in Segment, ApartFrom(x, s), Apart(g, x)
      PROVE  ApartFrom(x, t)
  <2>1. Apart(s[k], x) /\ x.addr \in Nat /\ End(x) \in Nat /\ x.addr < End(x)
    BY <1>2, <1>8, SMTT(30) DEF ApartFrom, Segment, End
  <2>2. Apart(h, x)
    BY <1>1, <1>2, <1>3, <1>4, <1>8, <2>1 DEF Apart
  <2> HIDE DEF t
  <2> QED BY <1>7, <1>8, <2>2 DEF ApartFrom
<1>9. JoinLeft(s, k, g) = t
  BY DEF JoinLeft, h
<1> QED BY <1>7, <1>8, <1>9 DEF Keeps

LEMMA JoinRightKeeps ==
  ASSUME NEW s \in Seq(Segment), Sorted(s), NEW g \in Segment,
         ApartFrom(g, s), NEW k \in 0..Len(s), Place(s, k, g),
         ~AbutsLeft(s, k, g), AbutsRight(s, k, g)
  PROVE  Keeps(s, g, JoinRight(s, k, g))
<1> DEFINE h == Seg(g.addr, g.size + s[k + 1].size)
           t == [s EXCEPT ![k + 1] = h]
<1>1. /\ g.addr \in Nat \ {0} /\ g.size \in Nat \ {0}
      /\ End(g) \in Nat /\ g.addr < End(g)
  BY DEF Segment, End
<1>2. k + 1 \in 1..Len(s) /\ End(g) = s[k + 1].addr
  BY DEF AbutsRight
<1>3. \A j \in 1..Len(s) : /\ s[j] \in Segment
                           /\ s[j].addr \in Nat \ {0} /\ s[j].size \in Nat \ {0}
                           /\ End(s[j]) \in Nat
  BY Elements
<1>4. h \in Segment /\ h.addr = g.addr /\ End(h) = End(s[k + 1])
  BY <1>1, <1>2, <1>3, SMTT(30) DEF Seg, Segment, End
<1>5. k + 1 > 1 => End(s[(k + 1) - 1]) < h.addr
  <2> SUFFICES ASSUME k > 0 PROVE End(s[k]) < h.addr
    OBVIOUS
  <2>1. k \in 1..Len(s)
    BY <1>2
  <2>2. End(s[k]) <= g.addr /\ End(s[k]) # g.addr
    BY PlaceFits DEF AbutsLeft
  <2> QED BY <1>1, <1>3, <1>4, <2>1, <2>2
<1>6. k + 1 < Len(s) => End(h) < s[(k + 1) + 1].addr
  <2> SUFFICES ASSUME k + 1 < Len(s) PROVE End(h) < s[(k + 1) + 1].addr
    OBVIOUS
  <2>1. (k + 1) + 1 \in 1..Len(s)
    OBVIOUS
  <2> QED BY <1>2, <1>4, <2>1 DEF Sorted
<1> HIDE DEF h
<1>7. /\ t \in Seq(Segment) /\ Len(t) = Len(s) /\ Sorted(t)
      /\ \A j \in 1..Len(s) : t[j] = IF j = k + 1 THEN h ELSE s[j]
  BY <1>2, <1>4, <1>5, <1>6, ReplacedSorted
<1>8. ASSUME NEW x \in Segment, ApartFrom(x, s), Apart(g, x)
      PROVE  ApartFrom(x, t)
  <2>1. Apart(s[k + 1], x) /\ x.addr \in Nat /\ End(x) \in Nat /\ x.addr < End(x)
    BY <1>2, <1>8, SMTT(30) DEF ApartFrom, Segment, End
  <2>2. Apart(h, x)
    BY <1>1, <1>2, <1>3, <1>4, <1>8, <2>1 DEF Apart
  <2> HIDE DEF t
  <2> QED BY <1>7, <1>8, <2>2 DEF ApartFrom
<1>9. JoinRight(s, k, g) = t
  BY DEF JoinRight, h
<1> QED BY <1>7, <1>8, <1>9 DEF Keeps

(* Three segments in a row, made one.                                      *)
LEMMA ThreeInARow ==
  ASSUME NEW e \in Segment, NEW g \in Segment, NEW f \in Segment,
         End(e) = g.addr, End(g) = f.addr
  PROVE  LET h == Seg(e.addr, e.size + g.size + f.size) IN
         /\ h \in Segment /\ h.addr = e.addr /\ End(h) = End(f)
         /\ \A x \in Segment :
              Apart(e, x) /\ Apart(g, x) /\ Apart(f, x) => Apart(h, x)
<1> DEFINE h == Seg(e.addr, e.size + g.size + f.size)
<1>1. /\ e.addr \in Nat \ {0} /\ e.size \in Nat \ {0}
      /\ g.addr \in Nat \ {0} /\ g.size \in Nat \ {0}
      /\ f.addr \in Nat \ {0} /\ f.size \in Nat \ {0}
  BY DEF Segment
<1>2. e.addr + e.size = g.addr /\ g.addr + g.size = f.addr
  BY DEF End
<1>3. e.size + g.size + f.size \in Nat \ {0}
  BY <1>1
<1>4. /\ h \in Segment /\ h.addr = e.addr
      /\ h.size = e.size + g.size + f.size
  BY <1>1, <1>3, SegType
<1> HIDE DEF h
<1>5. End(h) = f.addr + f.size
  BY <1>1, <1>2, <1>4 DEF End
<1>6. ASSUME NEW x \in Segment, Apart(e, x), Apart(g, x), Apart(f, x)
      PROVE  Apart(h, x)
  <2>1. x.addr \in Nat \ {0} /\ x.size \in Nat \ {0}
    BY DEF Segment
  <2> QED BY <1>1, <1>2, <1>4, <1>5, <1>6, <2>1 DEF Apart, End
<1> QED BY <1>4, <1>5, <1>6 DEF End, h

LEMMA JoinBothKeeps ==
  ASSUME NEW s \in Seq(Segment), Sorted(s), NEW g \in Segment,
         ApartFrom(g, s), NEW k \in 0..Len(s), Place(s, k, g),
         AbutsLeft(s, k, g), AbutsRight(s, k, g)
  PROVE  Keeps(s, g, JoinBoth(s, k, g))
<1> DEFINE h == Seg(s[k].addr, s[k].size + g.size + s[k + 1].size)
           r == Without(s, k + 1)
           t == [r EXCEPT ![k] = h]
<1>1. /\ g.addr \in Nat \ {0} /\ g.size \in Nat \ {0}
      /\ End(g) \in Nat /\ g.addr < End(g)
  BY DEF Segment, End
<1>2. /\ k \in 1..Len(s) /\ k + 1 \in 1..Len(s)
      /\ End(s[k]) = g.addr /\ End(g) = s[k + 1].addr
  BY DEF AbutsLeft, AbutsRight
<1>3. \A j \in 1..Len(s) : /\ s[j] \in Segment
                           /\ s[j].addr \in Nat \ {0} /\ s[j].size \in Nat \ {0}
                           /\ End(s[j]) \in Nat /\ s[j].addr < End(s[j])
  BY Elements
<1>4. /\ h \in Segment /\ h.addr = s[k].addr /\ End(h) = End(s[k + 1])
      /\ \A x \in Segment :
           Apart(s[k], x) /\ Apart(g, x) /\ Apart(s[k + 1], x) => Apart(h, x)
  BY <1>2, <1>3, ThreeInARow
<1>5. /\ r \in Seq(Segment) /\ Sorted(r) /\ Len(r) = Len(s) - 1
      /\ \A j \in 1..(Len(s) - 1) : r[j] = IF j < k + 1 THEN s[j] ELSE s[j + 1]
  BY <1>2, WithoutSeq, WithoutSorted
<1> HIDE DEF h, r
<1>6. k \in 1..Len(r)
  BY <1>2, <1>5
<1>7. k > 1 => End(r[k - 1]) < h.addr
  <2> SUFFICES ASSUME k > 1 PROVE End(r[k - 1]) < h.addr
    OBVIOUS
  <2>1. k - 1 \in 1..Len(s) /\ r[k - 1] = s[k - 1]
    BY <1>2, <1>5
  <2> QED BY <1>2, <1>4, <2>1 DEF Sorted
<1>8. k < Len(r) => End(h) < r[k + 1].addr
  <2> SUFFICES ASSUME k < Len(r) PROVE End(h) < r[k + 1].addr
    OBVIOUS
  <2>1. (k + 1) + 1 \in 1..Len(s) /\ r[k + 1] = s[(k + 1) + 1]
    BY <1>5
  <2> QED BY <1>2, <1>4, <2>1 DEF Sorted
<1>9. /\ t \in Seq(Segment) /\ Len(t) = Len(r) /\ Sorted(t)
      /\ \A j \in 1..Len(r) : t[j] = IF j = k THEN h ELSE r[j]
  BY <1>4, <1>5, <1>6, <1>7, <1>8, ReplacedSorted
<1>10. ASSUME NEW x \in Segment, ApartFrom(x, s), Apart(g, x)
       PROVE  ApartFrom(x, t)
  <2>1. Apart(s[k], x) /\ Apart(s[k + 1], x)
    BY <1>2, <1>10 DEF ApartFrom
  <2>2. Apart(h, x)
    BY <1>4, <1>10, <2>1
  <2>3. ApartFrom(x, r)
    BY <1>2, <1>10, WithoutSorted DEF r
  <2> HIDE DEF t
  <2> QED BY <1>9, <2>2, <2>3 DEF ApartFrom
<1>11. JoinBoth(s, k, g) = t
  BY <1>2, <1>5, <1>6 DEF JoinBoth, h, r
<1> QED BY <1>9, <1>10, <1>11 DEF Keeps

LEMMA RmfreeKeeps ==
  ASSUME NEW s \in Seq(Segment), Sorted(s), NEW g \in Segment,
         ApartFrom(g, s), Rmfree(s, g), panicked = FALSE,
         discarded \subseteq Segment, kmapwnt \in BOOLEAN,
         asleep \in [Procs -> Nat]
  PROVE  /\ Keeps(s, g, segs')
         /\ discarded' \subseteq Segment
         /\ \A d \in discarded' :
              \/ d \in discarded
              \/ /\ ApartFrom(d, segs')
                 /\ \A x \in Segment : ApartFrom(x, s) /\ Apart(g, x) => Apart(d, x)
         /\ kmapwnt' \in BOOLEAN
         /\ asleep' \in [Procs -> Nat]
         /\ panicked' = FALSE
<1>1. PICK k \in 0..Len(s) : Rmfree(s, g)!(k)
  BY DEF Rmfree
<1>2. Place(s, k, g)
  BY <1>1
<1>3. /\ k > 0 => End(s[k]) <= g.addr
      /\ k < Len(s) => End(g) <= s[k + 1].addr
  BY <1>2, PlaceFits
<1>4. /\ g.addr \in Nat /\ End(g) \in Nat
      /\ k > 0 => End(s[k]) \in Nat
      /\ k < Len(s) => s[k + 1].addr \in Nat
  <2>1. k > 0 => k \in 1..Len(s)
    OBVIOUS
  <2>2. k < Len(s) => k + 1 \in 1..Len(s)
    OBVIOUS
  <2> QED BY <2>1, <2>2, Elements DEF Segment, End
<1>5. ~Bad(s, k, g)
  BY <1>3, <1>4 DEF Bad
<1>6. /\ kmapwnt' \in BOOLEAN
      /\ asleep' \in [Procs -> Nat]
      /\ panicked' = FALSE
  <2>1. Done /\ panicked' = panicked
    BY <1>1, <1>5
  <2>2. kmapwnt' = kmapwnt \/ kmapwnt' = FALSE
    BY <2>1, Zenon DEF Done, Wakeup
  <2>3. asleep' = asleep \/ asleep' = [p \in Procs |-> 0]
    BY <2>1, Zenon DEF Done, Wakeup
  <2>4. kmapwnt' \in BOOLEAN
    BY <2>2, Zenon
  <2>5. asleep' \in [Procs -> Nat]
    BY <2>3
  <2>6. panicked' = FALSE
    BY <2>1
  <2> QED BY <2>4, <2>5, <2>6
<1>7. CASE AbutsLeft(s, k, g) /\ AbutsRight(s, k, g)
  <2>1. segs' = JoinBoth(s, k, g) /\ discarded' = discarded
    BY <1>1, <1>5, <1>7
  <2> QED BY <1>2, <1>6, <1>7, <2>1, JoinBothKeeps
<1>8. CASE AbutsLeft(s, k, g) /\ ~AbutsRight(s, k, g)
  <2>1. segs' = JoinLeft(s, k, g) /\ discarded' = discarded
    BY <1>1, <1>5, <1>8
  <2> QED BY <1>2, <1>6, <1>8, <2>1, JoinLeftKeeps
<1>9. CASE ~AbutsLeft(s, k, g) /\ AbutsRight(s, k, g)
  <2>1. segs' = JoinRight(s, k, g) /\ discarded' = discarded
    BY <1>1, <1>5, <1>9
  <2> QED BY <1>2, <1>6, <1>9, <2>1, JoinRightKeeps
<1>10. CASE ~AbutsLeft(s, k, g) /\ ~AbutsRight(s, k, g)
  <2> DEFINE t == Inserted(s, k, g)
             i == Len(t) - 1
  <2>1. /\ k > 0 => End(s[k]) < g.addr
        /\ k < Len(s) => End(g) < s[k + 1].addr
    BY <1>3, <1>4, <1>10 DEF AbutsLeft, AbutsRight
  <2>2. t \in Seq(Segment) /\ Sorted(t) /\ Len(t) = Len(s) + 1
    <3>1. t \in Seq(Segment) /\ Len(t) = Len(s) + 1
      BY InsertedSeq
    <3>2. Sorted(t)
      BY <2>1, InsertedSorted
    <3> QED BY <3>1, <3>2
  <2>3. \A x \in Segment : ApartFrom(x, s) /\ Apart(g, x) => ApartFrom(x, t)
    BY InsertedApart
  <2>4. IF Overflows(t)
          THEN segs' = Trimmed(t) /\ discarded' = discarded \cup {t[i]}
          ELSE segs' = t /\ discarded' = discarded
    BY <1>1, <1>5, <1>10
  <2> HIDE DEF t
  <2>5. CASE Overflows(t)
    <3>1. i \in 1..Len(t)
      BY <2>2, <2>5, ResourceMapAssumption DEF Overflows
    <3>2. segs' = Without(t, i)
      BY <2>4, <2>5 DEF Trimmed
    <3> HIDE DEF i
    <3>3. /\ segs' \in Seq(Segment) /\ Sorted(segs')
          /\ \A x : ApartFrom(x, t) => ApartFrom(x, segs')
          /\ ApartFrom(t[i], segs')
      BY <2>2, <3>1, <3>2, WithoutSorted
    <3>4. t[i] \in Segment
      BY <2>2, <3>1, Elements
    <3>5. \A x \in Segment : ApartFrom(x, s) /\ Apart(g, x) => Apart(t[i], x)
      BY <2>3, <3>1 DEF ApartFrom
    <3>6. discarded' = discarded \cup {t[i]}
      BY <2>4, <2>5 DEF i
    <3> QED BY <1>6, <2>3, <3>3, <3>4, <3>5, <3>6 DEF Keeps
  <2>6. CASE ~Overflows(t)
    BY <1>6, <2>2, <2>3, <2>4, <2>6 DEF Keeps
  <2> QED BY <2>5, <2>6
<1> QED BY <1>7, <1>8, <1>9, <1>10

-----------------------------------------------------------------------------
(* The inductive invariant: it is inductive because what is used, what is  *)
(* free and what is thrown away share no unit, so that whatever is freed   *)
(* is apart from the map, and rmfree does not panic.                       *)

MapSafe == TypeOK /\ Coalesced /\ Disjoint /\ NoPanic

LEMMA InitSafe == Init => MapSafe
<1> SUFFICES ASSUME Init PROVE MapSafe
  OBVIOUS
<1> USE DEF Init
<1>1. segs \in Seq(Segment) /\ Len(segs) <= 1 /\ held \subseteq Segment
  BY ResourceMapAssumption
<1>2. TypeOK
  BY <1>1 DEF TypeOK
<1>3. Coalesced
  BY <1>1 DEF Coalesced, Sorted
<1>4. Disjoint
  BY ResourceMapAssumption DEF Disjoint, ApartFrom
<1> QED BY <1>2, <1>3, <1>4 DEF MapSafe, NoPanic

LEMMA ReleaseSafe == MapSafe /\ Release => MapSafe'
<1> SUFFICES ASSUME MapSafe, Release PROVE MapSafe'
  OBVIOUS
<1> USE DEF MapSafe
<1>1. PICK g \in held : Release!(g)
  BY DEF Release
<1>2. /\ g \in Segment /\ segs \in Seq(Segment) /\ Sorted(segs)
      /\ held \subseteq Segment /\ discarded \subseteq Segment
      /\ asleep \in [Procs -> Nat] /\ kmapwnt \in BOOLEAN
      /\ panicked = FALSE /\ ApartFrom(g, segs)
  BY <1>1 DEF TypeOK, Coalesced, Disjoint, NoPanic
<1>3. /\ Keeps(segs, g, segs')
      /\ discarded' \subseteq Segment
      /\ \A d \in discarded' :
           \/ d \in discarded
           \/ /\ ApartFrom(d, segs')
              /\ \A x \in Segment : ApartFrom(x, segs) /\ Apart(g, x) => Apart(d, x)
      /\ kmapwnt' \in BOOLEAN
      /\ asleep' \in [Procs -> Nat]
      /\ panicked' = FALSE
  BY <1>1, <1>2, RmfreeKeeps
<1>4. TypeOK' /\ Coalesced' /\ NoPanic'
  BY <1>1, <1>2, <1>3 DEF TypeOK, Coalesced, NoPanic, Keeps
<1>5. \A h \in held' : h \in held /\ ApartFrom(h, segs) /\ Apart(g, h)
  BY <1>1, <1>2 DEF Disjoint
<1>6. \A h \in held' : ApartFrom(h, segs')
  BY <1>2, <1>3, <1>5 DEF Keeps
<1>7. \A h1, h2 \in held' : h1 # h2 => Apart(h1, h2)
  BY <1>5 DEF Disjoint
<1>8. \A d \in discarded : ApartFrom(d, segs) /\ Apart(g, d)
  BY <1>1, <1>2, ApartFacts DEF Disjoint
<1>9. \A d \in discarded' : ApartFrom(d, segs') /\ \A h \in held' : Apart(d, h)
  <2> SUFFICES ASSUME NEW d \in discarded'
               PROVE  ApartFrom(d, segs') /\ \A h \in held' : Apart(d, h)
    OBVIOUS
  <2>1. CASE d \in discarded
    BY <1>2, <1>3, <1>5, <1>8, <2>1 DEF Disjoint, Keeps
  <2>2. CASE d \notin discarded
    BY <1>2, <1>3, <1>5, <2>2
  <2> QED BY <2>1, <2>2
<1> QED BY <1>4, <1>6, <1>7, <1>9 DEF Disjoint

(* The invariant again, and nothing is free that was not free before.      *)
Took == MapSafe' /\ \A x \in Segment : ApartFrom(x, segs) => ApartFrom(x, segs')

(* A segment g is taken out of the i-th segment of the map.                *)
LEMMA TakeSafe ==
  ASSUME MapSafe, NEW i \in 1..Len(segs), NEW g \in Segment, Inside(g, segs[i]),
         held' = held \cup {g},
         segs' \in Seq(Segment), Sorted(segs'), ApartFrom(g, segs'),
         \A x \in Segment : ApartFrom(x, segs) => ApartFrom(x, segs'),
         discarded' \subseteq Segment,
         \A d \in discarded' :
            d \in discarded \/ (ApartFrom(d, segs') /\ \A h \in held' : Apart(d, h)),
         kmapwnt' \in BOOLEAN, asleep' \in [Procs -> Nat], panicked' = FALSE
  PROVE  Took
<1>1. /\ segs \in Seq(Segment) /\ held \subseteq Segment
      /\ discarded \subseteq Segment /\ segs[i] \in Segment
  BY Elements DEF MapSafe, TypeOK
<1>2. TypeOK' /\ Coalesced' /\ NoPanic'
  BY <1>1 DEF TypeOK, Coalesced, NoPanic
<1>3. \A x \in Segment : ApartFrom(x, segs) => Apart(g, x)
  BY <1>1, ApartFacts DEF ApartFrom
<1>4. \A h \in held : ApartFrom(h, segs) /\ Apart(g, h) /\ Apart(h, g)
  BY <1>1, <1>3, ApartFacts DEF MapSafe, Disjoint
<1>5. \A h \in held' : ApartFrom(h, segs')
  BY <1>1, <1>4
<1>6. \A h1, h2 \in held' : h1 # h2 => Apart(h1, h2)
  BY <1>4 DEF MapSafe, Disjoint
<1>7. \A d \in discarded' : ApartFrom(d, segs') /\ \A h \in held' : Apart(d, h)
  <2> SUFFICES ASSUME NEW d \in discarded'
               PROVE  ApartFrom(d, segs') /\ \A h \in held' : Apart(d, h)
    OBVIOUS
  <2>1. CASE d \in discarded
    <3>1. /\ d \in Segment /\ ApartFrom(d, segs)
          /\ \A h \in held : Apart(d, h)
      BY <1>1, <2>1 DEF MapSafe, Disjoint
    <3>2. Apart(d, g)
      BY <1>3, <3>1, ApartFacts
    <3> QED BY <3>1, <3>2
  <2>2. CASE d \notin discarded
    BY <2>2
  <2> QED BY <2>1, <2>2
<1> QED BY <1>2, <1>5, <1>6, <1>7 DEF Took, MapSafe, Disjoint

(* The whole of a segment is taken.                                        *)
LEMMA WholeSafe ==
  ASSUME MapSafe, NEW i \in 1..Len(segs), NEW g \in Segment, g = segs[i],
         held' = held \cup {g}, segs' = Without(segs, i),
         UNCHANGED <<discarded, kmapwnt, asleep, panicked>>
  PROVE  Took
<1>1. /\ segs \in Seq(Segment) /\ Sorted(segs) /\ panicked = FALSE
      /\ kmapwnt \in BOOLEAN /\ asleep \in [Procs -> Nat]
      /\ discarded \subseteq Segment
  BY DEF MapSafe, TypeOK, NoPanic, Coalesced
<1>2. /\ segs' \in Seq(Segment) /\ Sorted(segs') /\ ApartFrom(g, segs')
      /\ \A x : ApartFrom(x, segs) => ApartFrom(x, segs')
  BY <1>1, WithoutSorted
<1>3. Inside(g, segs[i])
  BY DEF Inside, End, Segment
<1> QED BY <1>1, <1>2, <1>3, TakeSafe

(* One end of a segment is taken, and h is left.                           *)
LEMMA EndSafe ==
  ASSUME MapSafe, NEW i \in 1..Len(segs), NEW g \in Segment, NEW h \in Segment,
         Inside(g, segs[i]), Inside(h, segs[i]), Apart(h, g),
         held' = held \cup {g}, segs' = [segs EXCEPT ![i] = h],
         UNCHANGED <<discarded, kmapwnt, asleep, panicked>>
  PROVE  Took
<1>1. /\ segs \in Seq(Segment) /\ Sorted(segs) /\ panicked = FALSE
      /\ kmapwnt \in BOOLEAN /\ asleep \in [Procs -> Nat]
      /\ discarded \subseteq Segment
  BY DEF MapSafe, TypeOK, NoPanic, Coalesced
<1>2. /\ segs' \in Seq(Segment) /\ Sorted(segs') /\ ApartFrom(g, segs')
      /\ \A x \in Segment : ApartFrom(x, segs) => ApartFrom(x, segs')
  BY <1>1, ShortenedSorted
<1> QED BY <1>1, <1>2, TakeSafe

(* g is cut out of the middle of a segment; e is left before it and f      *)
(* after it.                                                               *)
LEMMA CutOut ==
  ASSUME MapSafe, NEW i \in 1..Len(segs), NEW g \in Segment, Inside(g, segs[i]),
         NEW e \in Segment, Inside(e, segs[i]), End(e) = g.addr,
         NEW f \in Segment, Inside(f, segs[i]), End(g) = f.addr
  PROVE  LET t == [segs EXCEPT ![i] = e] IN
         /\ t \in Seq(Segment) /\ Len(t) = Len(segs) /\ Sorted(t)
         /\ ApartFrom(g, t) /\ ApartFrom(f, t)
         /\ Apart(e, g) /\ Apart(f, g) /\ End(e) < f.addr
         /\ \A x \in Segment :
              ApartFrom(x, segs) => ApartFrom(x, t) /\ Apart(f, x) /\ Apart(g, x)
<1> DEFINE t == [segs EXCEPT ![i] = e]
<1>1. segs \in Seq(Segment) /\ Sorted(segs) /\ segs[i] \in Segment
  BY Elements DEF MapSafe, TypeOK, Coalesced
<1>2. Apart(e, g) /\ Apart(f, g) /\ Apart(e, f) /\ End(e) < f.addr
  BY DEF Apart, End, Segment
<1>3. /\ t \in Seq(Segment) /\ Len(t) = Len(segs) /\ Sorted(t)
      /\ \A j \in 1..Len(segs) : t[j] = IF j = i THEN e ELSE segs[j]
      /\ \A x \in Segment : ApartFrom(x, segs) => ApartFrom(x, t)
      /\ \A x \in Segment : Inside(x, segs[i]) /\ Apart(e, x) => ApartFrom(x, t)
  <2>1. /\ t \in Seq(Segment) /\ Len(t) = Len(segs) /\ Sorted(t)
        /\ \A j \in 1..Len(segs) : t[j] = IF j = i THEN e ELSE segs[j]
    BY <1>1, ShortenedSorted
  <2>2. \A x \in Segment : ApartFrom(x, segs) => ApartFrom(x, t)
    BY <1>1, ShortenedSorted
  <2>3. \A x \in Segment : Inside(x, segs[i]) /\ Apart(e, x) => ApartFrom(x, t)
    BY <1>1, ShortenedSorted
  <2> QED BY <2>1, <2>2, <2>3
<1> HIDE DEF t
<1>4. \A x \in Segment : ApartFrom(x, segs) => Apart(f, x) /\ Apart(g, x)
  BY <1>1, ApartFacts DEF ApartFrom
<1>5. ApartFrom(g, t) /\ ApartFrom(f, t)
  BY <1>2, <1>3
<1> QED BY <1>2, <1>3, <1>4, <1>5 DEF t

LEMMA ToBoundaryType ==
  ASSUME NEW g \in Segment
  PROVE  ToBoundary(g) \in Nat \ {0}
<1>1. g.addr \in Nat /\ DMMAX \in Nat \ {0}
  BY ResourceMapAssumption DEF Segment
<1>2. g.addr % DMMAX \in 0..(DMMAX - 1)
  BY <1>1
<1> QED BY <1>1, <1>2 DEF ToBoundary

LEMMA FrontSafe ==
  ASSUME MapSafe, NEW i \in 1..Len(segs), NEW n \in Nat \ {0}, segs[i].size >= n,
         Front(i, n), held' = held \cup {Seg(segs[i].addr, n)}
  PROVE  Took
<1> DEFINE b == segs[i]
           g == Seg(b.addr, n)
<1>1. b \in Segment /\ b.addr \in Nat \ {0} /\ b.size \in Nat \ {0}
  BY Elements DEF MapSafe, TypeOK
<1>2. g \in Segment /\ g.addr = b.addr /\ g.size = n
  BY <1>1, SegType
<1>3. CASE b.size = n
  <2>1. g = segs[i]
    BY <1>1, <1>2, <1>3 DEF Segment, Seg
  <2>2. segs' = Without(segs, i) /\ UNCHANGED <<discarded, kmapwnt, asleep, panicked>>
    BY <1>3 DEF Front
  <2> QED BY <1>2, <2>1, <2>2, WholeSafe
<1>4. CASE b.size # n
  <2> DEFINE h == Seg(b.addr + n, b.size - n)
  <2>1. b.addr + n \in Nat \ {0} /\ b.size - n \in Nat \ {0}
    BY <1>1, <1>4
  <2>2. h \in Segment /\ h.addr = b.addr + n /\ h.size = b.size - n
    BY <2>1, SegType
  <2>3. /\ segs' = [segs EXCEPT ![i] = h]
        /\ UNCHANGED <<discarded, kmapwnt, asleep, panicked>>
    BY <1>4 DEF Front
  <2>4. held' = held \cup {g}
    OBVIOUS
  <2> HIDE DEF g, h
  <2>5. Inside(g, b) /\ Inside(h, b) /\ Apart(h, g)
    BY <1>1, <1>2, <1>4, <2>2 DEF Inside, Apart, End
  <2> QED BY <1>2, <2>2, <2>3, <2>4, <2>5, EndSafe
<1> QED BY <1>3, <1>4

LEMMA CutSafe ==
  ASSUME MapSafe, NEW i \in 1..Len(segs), NEW n \in Nat \ {0},
         Fits(segs[i], n), Crosses(segs[i]), Cut(i, n),
         held' = held \cup {Seg(segs[i].addr + ToBoundary(segs[i]), n)}
  PROVE  Took
<1> DEFINE b     == segs[i]
           first == ToBoundary(b)
           rest  == b.size - first - n
           e     == Seg(b.addr, first)
           g     == Seg(b.addr + first, n)
           f     == Seg(b.addr + first + n, rest)
           t     == [segs EXCEPT ![i] = e]
<1>1. /\ b \in Segment /\ b.addr \in Nat \ {0} /\ b.size \in Nat \ {0}
      /\ segs \in Seq(Segment)
  BY Elements DEF MapSafe, TypeOK
<1>2. first \in Nat \ {0}
  BY <1>1, ToBoundaryType
<1>3. first < b.size /\ b.size - first >= n
  BY DEF Crosses, Fits
<1>4. IF rest = 0 THEN segs' = t /\ UNCHANGED <<discarded, kmapwnt, asleep, panicked>>
                  ELSE Rmfree(t, f)
  BY DEF Cut
<1>5. held' = held \cup {g}
  OBVIOUS
<1> HIDE DEF first
<1>6. b.addr + first \in Nat \ {0} /\ b.addr + first + n \in Nat \ {0} /\ rest \in Nat
  BY <1>1, <1>2, <1>3, SMTT(30)
<1>7. /\ e \in Segment /\ e.addr = b.addr /\ e.size = first
      /\ g \in Segment /\ g.addr = b.addr + first /\ g.size = n
  BY <1>1, <1>2, <1>6, SegType
<1>8. CASE rest = 0
  <2> HIDE DEF e, g
  <2>1. Inside(g, b) /\ Inside(e, b) /\ Apart(e, g)
    BY <1>1, <1>2, <1>3, <1>7, <1>8 DEF Inside, Apart, End
  <2> QED BY <1>4, <1>5, <1>7, <1>8, <2>1, EndSafe
<1>9. CASE rest # 0
  <2>1. /\ f \in Segment /\ f.addr = b.addr + first + n
        /\ f.size = b.size - first - n
    BY <1>6, <1>9, SegType
  <2>2. Rmfree(t, f)
    BY <1>4, <1>9
  <2> HIDE DEF e, g, f, rest
  <2>3. /\ Inside(g, b) /\ Inside(e, b) /\ Inside(f, b)
        /\ End(e) = g.addr /\ End(g) = f.addr
    BY <1>1, <1>2, <1>3, <1>7, <2>1, SMTT(30) DEF Inside, Apart, End
  <2>4. /\ t \in Seq(Segment) /\ Sorted(t)
        /\ ApartFrom(g, t) /\ ApartFrom(f, t) /\ Apart(f, g)
        /\ \A x \in Segment : ApartFrom(x, segs) => ApartFrom(x, t) /\ Apart(f, x)
    BY <1>7, <2>1, <2>3, CutOut
  <2> HIDE DEF t
  <2>5. /\ panicked = FALSE /\ discarded \subseteq Segment /\ held \subseteq Segment
        /\ kmapwnt \in BOOLEAN /\ asleep \in [Procs -> Nat]
    BY DEF MapSafe, TypeOK, NoPanic
  <2>6. /\ Keeps(t, f, segs')
        /\ discarded' \subseteq Segment
        /\ \A d \in discarded' :
             \/ d \in discarded
             \/ /\ ApartFrom(d, segs')
                /\ \A x \in Segment : ApartFrom(x, t) /\ Apart(f, x) => Apart(d, x)
        /\ kmapwnt' \in BOOLEAN
        /\ asleep' \in [Procs -> Nat]
        /\ panicked' = FALSE
    BY <2>1, <2>2, <2>4, <2>5, RmfreeKeeps
  <2>7. /\ segs' \in Seq(Segment) /\ Sorted(segs') /\ ApartFrom(g, segs')
        /\ \A x \in Segment : ApartFrom(x, segs) => ApartFrom(x, segs')
    BY <1>7, <2>4, <2>6 DEF Keeps
  <2>8. \A h \in held' : h \in Segment /\ ApartFrom(h, t) /\ Apart(f, h)
    BY <1>5, <1>7, <2>4, <2>5 DEF MapSafe, Disjoint
  <2>9. \A d \in discarded' :
           d \in discarded \/ (ApartFrom(d, segs') /\ \A h \in held' : Apart(d, h))
    BY <2>6, <2>8
  <2> QED BY <1>5, <1>7, <2>3, <2>6, <2>7, <2>9, TakeSafe
<1> QED BY <1>8, <1>9

LEMMA RmallocSafe ==
  ASSUME MapSafe, NEW p \in Procs, Rmalloc(p)
  PROVE  Took
<1>1. PICK n \in Sizes : \E i \in 1..Len(segs) : Rmalloc(p)!(n, i)
  BY DEF Rmalloc
<1>2. PICK i \in 1..Len(segs) : Rmalloc(p)!(n, i)
  BY <1>1
<1>3. n \in Nat \ {0} /\ Fits(segs[i], n)
  BY <1>2, ResourceMapAssumption DEF FirstFit
<1>4. CASE Crosses(segs[i])
  BY <1>2, <1>3, <1>4, CutSafe
<1>5. CASE ~Crosses(segs[i])
  BY <1>2, <1>3, <1>5, FrontSafe DEF Fits
<1> QED BY <1>4, <1>5

LEMMA SplitSafe ==
  ASSUME MapSafe, NEW i \in 1..Len(segs), NEW g \in Segment,
         segs[i].addr < g.addr, End(g) < End(segs[i]),
         segs' = Split(segs, i, g), held' = held \cup {g},
         UNCHANGED <<discarded, kmapwnt, asleep, panicked>>
  PROVE  Took
<1> DEFINE b == segs[i]
           e == Seg(b.addr, g.addr - b.addr)
           f == Seg(End(g), End(b) - End(g))
           t == [segs EXCEPT ![i] = e]
<1>1. /\ b \in Segment /\ b.addr \in Nat \ {0} /\ b.size \in Nat \ {0}
      /\ End(b) \in Nat /\ segs \in Seq(Segment) /\ Sorted(segs)
      /\ panicked = FALSE /\ kmapwnt \in BOOLEAN /\ asleep \in [Procs -> Nat]
      /\ discarded \subseteq Segment
  BY Elements DEF MapSafe, TypeOK, Coalesced, NoPanic
<1>2. /\ g.addr \in Nat \ {0} /\ g.size \in Nat \ {0} /\ End(g) \in Nat \ {0}
      /\ End(g) = g.addr + g.size /\ End(b) = b.addr + b.size
  BY DEF Segment, End
<1>3. g.addr - b.addr \in Nat \ {0} /\ End(b) - End(g) \in Nat \ {0}
  BY <1>1, <1>2, SMTT(30)
<1>4. /\ e \in Segment /\ e.addr = b.addr /\ e.size = g.addr - b.addr
      /\ f \in Segment /\ f.addr = End(g) /\ f.size = End(b) - End(g)
  BY <1>1, <1>2, <1>3, SegType
<1>5. segs' = Inserted(t, i, f)
  BY DEF Split
<1> HIDE DEF e, f
<1>6. /\ End(e) = g.addr /\ End(f) = End(b)
  BY <1>1, <1>2, <1>4, SMTT(30) DEF End
<1>7. Inside(g, b) /\ Inside(e, b) /\ Inside(f, b)
  BY <1>1, <1>2, <1>4, <1>6, SMTT(30) DEF Inside
<1>8. /\ t \in Seq(Segment) /\ Len(t) = Len(segs) /\ Sorted(t)
      /\ t[i] = e /\ \A j \in 1..Len(segs) : j # i => t[j] = segs[j]
      /\ ApartFrom(g, t) /\ Apart(f, g) /\ End(e) < f.addr
      /\ \A x \in Segment : ApartFrom(x, segs) => ApartFrom(x, t) /\ Apart(f, x)
  <2>1. /\ t \in Seq(Segment) /\ Len(t) = Len(segs) /\ Sorted(t)
        /\ \A j \in 1..Len(segs) : t[j] = IF j = i THEN e ELSE segs[j]
    BY <1>1, <1>4, <1>7, ShortenedSorted
  <2>2. /\ ApartFrom(g, t) /\ Apart(f, g) /\ End(e) < f.addr
        /\ \A x \in Segment : ApartFrom(x, segs) => ApartFrom(x, t) /\ Apart(f, x)
    BY <1>4, <1>6, <1>7, CutOut
  <2> HIDE DEF t
  <2> QED BY <2>1, <2>2
<1> HIDE DEF t
<1>9. i < Len(t) => End(f) < t[i + 1].addr
  <2> SUFFICES ASSUME i < Len(t) PROVE End(f) < t[i + 1].addr
    OBVIOUS
  <2>1. i + 1 \in 1..Len(segs) /\ t[i + 1] = segs[i + 1]
    BY <1>8
  <2> QED BY <1>1, <1>6, <2>1 DEF Sorted
<1>10. i \in 0..Len(t) /\ End(t[i]) < f.addr
  BY <1>8
<1>11. segs' \in Seq(Segment) /\ Sorted(segs')
  <2>1. segs' \in Seq(Segment)
    BY <1>4, <1>5, <1>8, <1>10, InsertedSeq
  <2>2. Sorted(segs')
    BY <1>4, <1>5, <1>8, <1>9, <1>10, InsertedSorted
  <2> QED BY <2>1, <2>2
<1>12. /\ ApartFrom(g, segs')
       /\ \A x \in Segment : ApartFrom(x, segs) => ApartFrom(x, segs')
  BY <1>4, <1>5, <1>8, <1>10, InsertedApart
<1> QED BY <1>1, <1>7, <1>11, <1>12, TakeSafe

LEMMA RmgetSafe ==
  ASSUME MapSafe, NEW p \in Procs, Rmget(p)
  PROVE  Took
<1>1. PICK g \in Gets : \E i \in 1..Len(segs) : Rmget(p)!(g, i)
  BY DEF Rmget
<1>2. PICK i \in 1..Len(segs) : Rmget(p)!(g, i)
  BY <1>1
<1> DEFINE b == segs[i]
<1>3. /\ b.addr <= g.addr /\ End(g) <= End(b) /\ held' = held \cup {g}
      /\ UNCHANGED <<discarded, kmapwnt, asleep, panicked>>
  BY <1>2
<1>4. g \in Segment
  BY ResourceMapAssumption
<1>5. b \in Segment
  BY Elements DEF MapSafe, TypeOK
<1>6. /\ b.addr \in Nat \ {0} /\ b.size \in Nat \ {0} /\ End(b) = b.addr + b.size
      /\ g.addr \in Nat \ {0} /\ g.size \in Nat \ {0} /\ End(g) = g.addr + g.size
  BY <1>4, <1>5 DEF Segment, End
<1>7. CASE b = g
  <2>1. segs' = Without(segs, i)
    BY <1>2, <1>7
  <2> QED BY <1>3, <1>4, <1>7, <2>1, WholeSafe
<1>8. CASE b.addr = g.addr /\ End(b) # End(g)
  <2> DEFINE h == Seg(End(g), b.size - g.size)
  <2>1. segs' = [segs EXCEPT ![i] = h]
    BY <1>2, <1>8
  <2>2. End(g) \in Nat \ {0} /\ b.size - g.size \in Nat \ {0}
    BY <1>3, <1>6, <1>8
  <2>3. h \in Segment /\ h.addr = End(g) /\ h.size = b.size - g.size
    BY <2>2, SegType
  <2> HIDE DEF h
  <2>4. Inside(g, b) /\ Inside(h, b) /\ Apart(h, g)
    BY <1>3, <1>6, <1>8, <2>3 DEF Inside, Apart, End
  <2> QED BY <1>3, <1>4, <2>1, <2>3, <2>4, EndSafe
<1>9. CASE b.addr # g.addr /\ End(b) = End(g)
  <2> DEFINE h == Seg(b.addr, b.size - g.size)
  <2>1. segs' = [segs EXCEPT ![i] = h]
    BY <1>2, <1>9
  <2>2. b.size - g.size \in Nat \ {0}
    BY <1>3, <1>6, <1>9
  <2>3. h \in Segment /\ h.addr = b.addr /\ h.size = b.size - g.size
    BY <1>6, <2>2, SegType
  <2> HIDE DEF h
  <2>4. Inside(g, b) /\ Inside(h, b) /\ Apart(h, g)
    BY <1>3, <1>6, <1>9, <2>3 DEF Inside, Apart, End
  <2> QED BY <1>3, <1>4, <2>1, <2>3, <2>4, EndSafe
<1>10. CASE b # g /\ b.addr # g.addr /\ End(b) # End(g)
  <2>1. segs' = Split(segs, i, g)
    BY <1>2, <1>10
  <2>2. b.addr < g.addr /\ End(g) < End(b)
    BY <1>3, <1>6, <1>10
  <2> QED BY <1>3, <1>4, <2>1, <2>2, SplitSafe
<1>11. b.addr = g.addr /\ End(b) = End(g) => b = g
  BY <1>4, <1>5, <1>6 DEF Segment
<1> QED BY <1>7, <1>8, <1>9, <1>10, <1>11

(* The sleepers change nothing of the map.                                 *)
LEMMA RmallocSleepSafe ==
  ASSUME MapSafe, NEW p \in Procs, RmallocSleep(p)
  PROVE  MapSafe'
<1>1. /\ UNCHANGED <<segs, held, discarded, panicked>>
      /\ kmapwnt' = TRUE
  BY DEF RmallocSleep
<1>2. asleep' \in [Procs -> Nat]
  BY ResourceMapAssumption DEF RmallocSleep, MapSafe, TypeOK
<1>3. TypeOK'
  BY <1>1, <1>2 DEF MapSafe, TypeOK
<1> QED BY <1>1, <1>3 DEF MapSafe, Coalesced, Disjoint, NoPanic

LEMMA NextSafe == MapSafe /\ [Next]_vars => MapSafe'
<1> SUFFICES ASSUME MapSafe, [Next]_vars PROVE MapSafe'
  OBVIOUS
<1>1. ASSUME NEW p \in Procs, Rmalloc(p) PROVE MapSafe'
  BY <1>1, RmallocSafe DEF Took
<1>2. ASSUME NEW p \in Procs, RmallocSleep(p) PROVE MapSafe'
  BY <1>2, RmallocSleepSafe
<1>3. ASSUME NEW p \in Procs, Rmget(p) PROVE MapSafe'
  BY <1>3, RmgetSafe DEF Took
<1>4. CASE Release
  BY <1>4, ReleaseSafe
<1>5. CASE UNCHANGED vars
  <2>1. UNCHANGED <<segs, held, discarded, kmapwnt, asleep, panicked>>
    BY <1>5 DEF vars
  <2> QED BY <2>1 DEF MapSafe, TypeOK, Coalesced, Disjoint, NoPanic
<1> QED BY <1>1, <1>2, <1>3, <1>4, <1>5 DEF Next

LEMMA AlwaysSafe == Spec => []MapSafe
BY InitSafe, NextSafe, PTL DEF Spec

(* Every variable of a resource map has its type; in particular no slot    *)
(* that rmalloc, rmfree and rmget leave in use lists an empty segment,     *)
(* which would end the map there.                                          *)
THEOREM TypeCorrect == Spec => []TypeOK
<1>1. MapSafe => TypeOK
  BY DEF MapSafe
<1> QED BY <1>1, AlwaysSafe, PTL

(* However rmalloc, rmfree and rmget are called, and whenever the map      *)
(* overflows, it lists its segments in order and joined.                   *)
THEOREM AlwaysCoalesced == Spec => []Coalesced
<1>1. MapSafe => Coalesced
  BY DEF MapSafe
<1> QED BY <1>1, AlwaysSafe, PTL

(* No unit is ever given to two users, or to one while it is listed free   *)
(* or has been discarded.                                                  *)
THEOREM AlwaysDisjoint == Spec => []Disjoint
<1>1. MapSafe => Disjoint
  BY DEF MapSafe
<1> QED BY <1>1, AlwaysSafe, PTL

(* Users who free what they were given never see the panic of rmfree.      *)
THEOREM NeverPanics == Spec => []NoPanic
<1>1. MapSafe => NoPanic
  BY DEF MapSafe
<1> QED BY <1>1, AlwaysSafe, PTL

-----------------------------------------------------------------------------
(* Nobody waits in vain: what is taken makes no run of free units longer,  *)
(* what is freed wakes all, and who starts to wait has found no segment    *)
(* long enough, and so, as the map is joined, no run of units.             *)

LEMMA UnitFree ==
  ASSUME NEW s \in Seq(Segment), NEW a \in Nat \ {0}
  PROVE  ~ApartFrom(Seg(a, 1), s) <=> \E i \in 1..Len(s) : a \in Units(s[i])
<1>1. Seg(a, 1) \in Segment /\ Seg(a, 1).addr = a /\ End(Seg(a, 1)) = a + 1
  BY SegType DEF End
<1>2. ASSUME NEW i \in 1..Len(s)
      PROVE  ~Apart(s[i], Seg(a, 1)) <=> a \in Units(s[i])
  <2>1. s[i].addr \in Nat /\ End(s[i]) \in Nat /\ s[i].addr < End(s[i])
    BY Elements
  <2> QED BY <1>1, <2>1 DEF Apart, Units
<1> QED BY <1>2 DEF ApartFrom

LEMMA FreeIsPositive ==
  ASSUME segs \in Seq(Segment), NEW a \in FreeUnits
  PROVE  a \in Nat \ {0}
<1>1. PICK i \in 1..Len(segs) : a \in Units(segs[i])
  BY DEF FreeUnits
<1>2. segs[i].addr \in Nat \ {0} /\ End(segs[i]) \in Nat
  BY Elements
<1> QED BY <1>1, <1>2 DEF Units

LEMMA TookShrinks ==
  ASSUME MapSafe, Took PROVE FreeUnits' \subseteq FreeUnits
<1>1. segs \in Seq(Segment) /\ segs' \in Seq(Segment)
  BY DEF Took, MapSafe, TypeOK
<1>2. ASSUME NEW a \in FreeUnits' PROVE a \in FreeUnits
  <2>1. PICK i \in 1..Len(segs') : a \in Units(segs'[i])
    BY DEF FreeUnits
  <2>2. segs'[i].addr \in Nat \ {0} /\ End(segs'[i]) \in Nat
    BY <1>1, Elements
  <2>3. a \in Nat \ {0}
    BY <2>1, <2>2 DEF Units
  <2>4. ~ApartFrom(Seg(a, 1), segs')
    BY <1>1, <2>1, <2>3, UnitFree
  <2>5. ~ApartFrom(Seg(a, 1), segs)
    BY <2>3, <2>4, SegType DEF Took
  <2> QED BY <1>1, <2>3, <2>5, UnitFree DEF FreeUnits
<1> QED BY <1>2

(* A run of free units lies within one segment.                            *)
LEMMA RunInside ==
  ASSUME segs \in Seq(Segment), Sorted(segs), NEW a \in FreeUnits,
         NEW n \in Nat \ {0}, a..(a + n - 1) \subseteq FreeUnits
  PROVE  \E i \in 1..Len(segs) : segs[i].size >= n
<1>1. PICK i \in 1..Len(segs) : a \in Units(segs[i])
  BY DEF FreeUnits
<1>2. /\ segs[i].addr \in Nat \ {0} /\ segs[i].size \in Nat \ {0}
      /\ End(segs[i]) \in Nat /\ End(segs[i]) = segs[i].addr + segs[i].size
  BY Elements DEF End
<1>3. segs[i].addr <= a /\ a < End(segs[i]) /\ a \in Nat
  BY <1>1, <1>2 DEF Units
<1>4. ASSUME End(segs[i]) <= a + n - 1 PROVE FALSE
  <2>1. End(segs[i]) \in FreeUnits
    BY <1>2, <1>3, <1>4
  <2>2. PICK j \in 1..Len(segs) : End(segs[i]) \in Units(segs[j])
    BY <2>1 DEF FreeUnits
  <2>3. segs[j].addr \in Nat /\ End(segs[j]) \in Nat
    BY Elements
  <2>4. segs[j].addr <= End(segs[i]) /\ End(segs[i]) < End(segs[j])
    BY <2>2, <2>3 DEF Units
  <2>5. CASE i < j
    BY <1>2, <2>3, <2>4, <2>5 DEF Sorted
  <2>6. CASE j < i
    <3>1. End(segs[j]) < segs[i].addr
      BY <2>6 DEF Sorted
    <3> QED BY <1>2, <2>3, <2>4, <3>1
  <2>7. CASE i = j
    BY <1>2, <2>4, <2>7
  <2> QED BY <2>5, <2>6, <2>7
<1> QED BY <1>2, <1>3, <1>4

Waiting == MapSafe /\ (Swap => \A p \in Procs : asleep[p] = 0) /\ NobodyWaitsInVain

LEMMA InitWaiting == Init => Waiting
BY InitSafe DEF Init, Waiting, NobodyWaitsInVain

(* Who takes from the map disturbs nobody's sleep.                         *)
LEMMA TookWaiting ==
  ASSUME Waiting, Took, kmapwnt' = kmapwnt, asleep' = asleep
  PROVE  Waiting'
<1>1. FreeUnits' \subseteq FreeUnits
  BY TookShrinks DEF Waiting
<1>2. NobodyWaitsInVain'
  <2> SUFFICES ASSUME NEW p \in Procs, asleep[p] # 0, NEW a \in FreeUnits'
               PROVE  kmapwnt /\ ~ a..(a + asleep[p] - 1) \subseteq FreeUnits'
    BY DEF NobodyWaitsInVain, Waiting
  <2> QED BY <1>1 DEF NobodyWaitsInVain, Waiting
<1> QED BY <1>2 DEF Waiting, Took

LEMMA RmallocWaiting ==
  ASSUME Waiting, NEW p \in Procs, Rmalloc(p)
  PROVE  Waiting'
<1>1. Took
  BY RmallocSafe DEF Waiting
<1>2. PICK n \in Sizes : \E i \in 1..Len(segs) : Rmalloc(p)!(n, i)
  BY DEF Rmalloc
<1>3. PICK i \in 1..Len(segs) : Rmalloc(p)!(n, i)
  BY <1>2
<1>4. CASE ~Crosses(segs[i])
  <2>1. kmapwnt' = kmapwnt /\ asleep' = asleep
    BY <1>3, <1>4 DEF Front
  <2> QED BY <1>1, <2>1, TookWaiting
<1>5. CASE Crosses(segs[i])
  <2>1. Swap /\ Cut(i, n)
    BY <1>3, <1>5 DEF Crosses
  <2>2. kmapwnt' = kmapwnt /\ asleep' = asleep
    <3>1. panicked' = FALSE
      BY <1>1 DEF Took, MapSafe, NoPanic
    <3>2. ASSUME NEW s, NEW g, Rmfree(s, g)
          PROVE  kmapwnt' = kmapwnt /\ asleep' = asleep
      BY <2>1, <3>1, <3>2 DEF Rmfree, Done
    <3> QED BY <2>1, <3>2 DEF Cut
  <2> QED BY <1>1, <2>2, TookWaiting
<1> QED BY <1>4, <1>5

LEMMA RmgetWaiting ==
  ASSUME Waiting, NEW p \in Procs, Rmget(p)
  PROVE  Waiting'
<1>1. Took
  BY RmgetSafe DEF Waiting
<1>2. kmapwnt' = kmapwnt /\ asleep' = asleep
  BY DEF Rmget
<1> QED BY <1>1, <1>2, TookWaiting

LEMMA ReleaseWaiting == Waiting /\ Release => Waiting'
<1> SUFFICES ASSUME Waiting, Release PROVE Waiting'
  OBVIOUS
<1>1. MapSafe' /\ panicked' = FALSE
  BY ReleaseSafe DEF Waiting, MapSafe, NoPanic
<1>2. PICK g \in held : Rmfree(segs, g)
  BY DEF Release
<1>3. Done
  BY <1>1, <1>2 DEF Rmfree
<1>4. CASE Swap
  <2>1. asleep' = asleep
    BY <1>3, <1>4 DEF Done
  <2> QED BY <1>1, <1>4, <2>1 DEF Waiting, NobodyWaitsInVain
<1>5. CASE ~Swap
  <2>1. \A p \in Procs : asleep'[p] = 0
    <3>1. CASE kmapwnt
      BY <1>3, <1>5, <3>1 DEF Done, Wakeup
    <3>2. CASE ~kmapwnt
      <4>1. asleep' = asleep
        BY <1>3, <1>5, <3>2 DEF Done, Wakeup
      <4> QED BY <3>2, <4>1 DEF Waiting, NobodyWaitsInVain
    <3> QED BY <3>1, <3>2
  <2> QED BY <1>1, <2>1 DEF Waiting, NobodyWaitsInVain
<1> QED BY <1>4, <1>5

LEMMA RmallocSleepWaiting ==
  ASSUME Waiting, NEW p \in Procs, RmallocSleep(p)
  PROVE  Waiting'
<1>1. MapSafe'
  BY RmallocSleepSafe DEF Waiting
<1>2. PICK n \in Sizes : RmallocSleep(p)!(n)
  BY DEF RmallocSleep
<1>3. /\ ~Swap /\ kmapwnt' = TRUE /\ segs' = segs /\ n \in Nat \ {0}
      /\ asleep \in [Procs -> Nat] /\ segs \in Seq(Segment) /\ Sorted(segs)
      /\ asleep' = [asleep EXCEPT ![p] = n]
  BY <1>2, ResourceMapAssumption DEF Waiting, MapSafe, TypeOK, Coalesced
<1>4. \A i \in 1..Len(segs) : ~(segs[i].size >= n)
  BY <1>2, <1>3 DEF Fits, Crosses
<1>5. FreeUnits' = FreeUnits
  BY <1>3 DEF FreeUnits
<1>6. ASSUME NEW q \in Procs, asleep'[q] # 0, NEW a \in FreeUnits
      PROVE  ~ a..(a + asleep'[q] - 1) \subseteq FreeUnits
  <2>1. CASE q = p
    <3>1. asleep'[q] = n
      BY <1>3, <2>1
    <3> QED BY <1>3, <1>4, <3>1, RunInside
  <2>2. CASE q # p
    <3>1. asleep'[q] = asleep[q]
      BY <1>3, <2>2
    <3> QED BY <1>6, <3>1 DEF Waiting, NobodyWaitsInVain
  <2> QED BY <2>1, <2>2
<1> QED BY <1>1, <1>3, <1>5, <1>6 DEF Waiting, NobodyWaitsInVain

LEMMA NextWaiting == Waiting /\ [Next]_vars => Waiting'
<1> SUFFICES ASSUME Waiting, [Next]_vars PROVE Waiting'
  OBVIOUS
<1>1. CASE UNCHANGED vars
  <2>1. UNCHANGED <<segs, held, discarded, kmapwnt, asleep, panicked>>
    BY <1>1 DEF vars
  <2>2. MapSafe'
    BY <2>1, NextSafe DEF Waiting, vars
  <2> QED BY <2>1, <2>2, SMTT(30) DEF Waiting, NobodyWaitsInVain, FreeUnits
<1>2. CASE Release
  BY <1>2, ReleaseWaiting
<1>3. ASSUME NEW p \in Procs, Rmalloc(p) \/ RmallocSleep(p) \/ Rmget(p)
      PROVE  Waiting'
  BY <1>3, RmallocWaiting, RmallocSleepWaiting, RmgetWaiting
<1> QED BY <1>1, <1>2, <1>3 DEF Next

(* A process that sleeps for the map (procdup) sleeps only while nothing   *)
(* it could have is free, and the mark is set that makes rmfree wake it.   *)
THEOREM NobodyEverWaitsInVain == Spec => []NobodyWaitsInVain
<1>1. Waiting => NobodyWaitsInVain
  BY DEF Waiting
<1> QED BY <1>1, InitWaiting, NextWaiting, PTL DEF Spec

-----------------------------------------------------------------------------
(* The map stays within its array, if rmget is not used.                   *)

Short == MapSafe /\ WithinMap

LEMMA RmfreeShort ==
  ASSUME NEW s \in Seq(Segment), Len(s) + 2 <= MapSize, NEW g \in Segment,
         Rmfree(s, g), panicked' = FALSE
  PROVE  Len(segs') + 2 <= MapSize
<1>1. PICK k \in 0..Len(s) : Rmfree(s, g)!(k)
  BY DEF Rmfree
<1>2. MapSize \in Nat /\ MapSize > 3 /\ Len(s) \in Nat
  BY ResourceMapAssumption
<1>3. ~Bad(s, k, g)
  BY <1>1
<1>4. CASE AbutsLeft(s, k, g) /\ AbutsRight(s, k, g)
  <2>1. segs' = JoinBoth(s, k, g) /\ k + 1 \in 1..Len(s)
    BY <1>1, <1>3, <1>4 DEF AbutsRight
  <2> DEFINE r == Without(s, k + 1)
             h == Seg(r[k].addr, r[k].size + g.size + s[k + 1].size)
  <2>2. r \in Seq(Segment) /\ Len(r) = Len(s) - 1
    BY <2>1, WithoutSeq
  <2> HIDE DEF r
  <2>3. JoinBoth(s, k, g) = [r EXCEPT ![k] = Seg(@.addr, @.size + g.size + s[k + 1].size)]
    BY DEF JoinBoth, r
  <2>4. Len(JoinBoth(s, k, g)) = Len(r)
    BY <2>2, <2>3
  <2> QED BY <1>2, <2>1, <2>2, <2>4
<1>5. CASE AbutsLeft(s, k, g) /\ ~AbutsRight(s, k, g)
  <2>1. segs' = JoinLeft(s, k, g)
    BY <1>1, <1>3, <1>5
  <2>2. Len(segs') = Len(s)
    BY <2>1 DEF JoinLeft
  <2> QED BY <2>2
<1>6. CASE ~AbutsLeft(s, k, g) /\ AbutsRight(s, k, g)
  <2>1. segs' = JoinRight(s, k, g)
    BY <1>1, <1>3, <1>6
  <2>2. Len(segs') = Len(s)
    BY <2>1 DEF JoinRight
  <2> QED BY <2>2
<1>7. CASE ~AbutsLeft(s, k, g) /\ ~AbutsRight(s, k, g)
  <2> DEFINE t == Inserted(s, k, g)
  <2>1. t \in Seq(Segment) /\ Len(t) = Len(s) + 1
    BY InsertedSeq
  <2>2. IF Overflows(t) THEN segs' = Trimmed(t) ELSE segs' = t
    BY <1>1, <1>3, <1>7
  <2> HIDE DEF t
  <2>3. CASE Overflows(t)
    <3>1. Len(t) - 1 \in 1..Len(t)
      BY <1>2, <2>1, <2>3 DEF Overflows
    <3>2. Len(Without(t, Len(t) - 1)) = Len(t) - 1
      BY <2>1, <3>1, WithoutSeq
    <3> QED BY <1>2, <2>1, <2>2, <2>3, <3>2 DEF Trimmed
  <2>4. CASE ~Overflows(t)
    BY <1>2, <2>1, <2>2, <2>4 DEF Overflows
  <2> QED BY <2>3, <2>4
<1> QED BY <1>4, <1>5, <1>6, <1>7

LEMMA RmallocShort ==
  ASSUME Short, NEW p \in Procs, Rmalloc(p)
  PROVE  Len(segs') + 2 <= MapSize
<1>1. PICK n \in Sizes : \E i \in 1..Len(segs) : Rmalloc(p)!(n, i)
  BY DEF Rmalloc
<1>2. PICK i \in 1..Len(segs) : Rmalloc(p)!(n, i)
  BY <1>1
<1>3. segs \in Seq(Segment) /\ Len(segs) + 2 <= MapSize /\ Len(segs) \in Nat
  BY DEF Short, MapSafe, TypeOK, WithinMap
<1>4. /\ segs[i] \in Segment /\ segs[i].addr \in Nat \ {0} /\ segs[i].size \in Nat \ {0}
      /\ n \in Nat \ {0} /\ MapSize \in Nat
  BY <1>2, <1>3, Elements, ResourceMapAssumption
<1>5. CASE ~Crosses(segs[i])
  <2>1. \/ segs' = Without(segs, i)
        \/ segs' = [segs EXCEPT ![i] = Seg(@.addr + n, @.size - n)]
    BY <1>2, <1>5 DEF Front
  <2>2. Len(Without(segs, i)) = Len(segs) - 1
    BY <1>3, WithoutSeq
  <2>3. Len([segs EXCEPT ![i] = Seg(@.addr + n, @.size - n)]) = Len(segs)
    BY <1>3
  <2> QED BY <1>3, <1>4, <2>1, <2>2, <2>3
<1>6. CASE Crosses(segs[i])
  <2> DEFINE first == ToBoundary(segs[i])
             e == Seg(segs[i].addr, first)
             t == [segs EXCEPT ![i] = e]
             rest == segs[i].size - first - n
             f == Seg(segs[i].addr + first + n, rest)
  <2>1. IF rest = 0 THEN segs' = t ELSE Rmfree(t, f)
    BY <1>2, <1>6 DEF Cut
  <2>2. first \in Nat \ {0}
    BY <1>4, ToBoundaryType
  <2>3. rest \in Nat
    BY <1>2, <1>4, <1>6, <2>2 DEF FirstFit, Fits
  <2> HIDE DEF first
  <2>4. e \in Segment
    BY <1>4, <2>2, SegType
  <2> HIDE DEF e
  <2>5. t \in Seq(Segment) /\ Len(t) = Len(segs)
    BY <1>3, <2>4
  <2> HIDE DEF t, rest
  <2>6. CASE rest = 0
    BY <1>3, <2>1, <2>5, <2>6
  <2>7. CASE rest # 0
    <3>1. segs[i].addr + first + n \in Nat \ {0} /\ rest \in Nat \ {0}
      BY <1>4, <2>2, <2>3, <2>7
    <3>2. f \in Segment
      BY <3>1, SegType
    <3>3. panicked' = FALSE
      BY RmallocSafe DEF Short, Took, MapSafe, NoPanic
    <3> HIDE DEF f
    <3> QED BY <1>3, <2>1, <2>5, <2>7, <3>2, <3>3, RmfreeShort
  <2> QED BY <2>6, <2>7
<1> QED BY <1>5, <1>6

LEMMA NextShort == Gets = {} /\ Short /\ [Next]_vars => Short'
<1> SUFFICES ASSUME Gets = {}, Short, [Next]_vars PROVE Short'
  OBVIOUS
<1>1. MapSafe'
  BY NextSafe DEF Short
<1>2. Len(segs') + 2 <= MapSize
  <2>1. ASSUME NEW p \in Procs, Rmalloc(p) PROVE Len(segs') + 2 <= MapSize
    BY <2>1, RmallocShort
  <2>2. ASSUME NEW p \in Procs, RmallocSleep(p) PROVE segs' = segs
    BY <2>2 DEF RmallocSleep
  <2>3. ASSUME NEW p \in Procs, Rmget(p) PROVE FALSE
    BY <2>3 DEF Rmget
  <2>4. CASE Release
    <3>1. PICK g \in held : Rmfree(segs, g)
      BY <2>4 DEF Release
    <3>2. /\ g \in Segment /\ segs \in Seq(Segment) /\ Len(segs) + 2 <= MapSize
          /\ panicked' = FALSE
      BY <1>1 DEF Short, MapSafe, TypeOK, WithinMap, NoPanic
    <3> QED BY <3>1, <3>2, RmfreeShort
  <2>5. CASE UNCHANGED vars
    BY <2>5 DEF vars, Short, WithinMap
  <2> QED BY <2>1, <2>2, <2>3, <2>4, <2>5 DEF Next, Short, WithinMap
<1> QED BY <1>1, <1>2 DEF Short, WithinMap

(* Without rmget, rmalloc and rmfree never write behind the array, however *)
(* often the map overflows, within rmalloc too.  (With rmget they may.)    *)
THEOREM StaysWithinMap == Gets = {} => (Spec => []WithinMap)
<1> SUFFICES ASSUME Gets = {} PROVE Spec => []WithinMap
  OBVIOUS
<1>1. Init => Short
  <2> SUFFICES ASSUME Init PROVE Short
    OBVIOUS
  <2>1. Len(segs) <= 1 /\ Len(segs) \in Nat /\ MapSize \in Nat /\ MapSize > 3
    BY ResourceMapAssumption DEF Init
  <2> QED BY <2>1, InitSafe DEF Short, WithinMap
<1>2. Short => WithinMap
  BY DEF Short
<1>3. Short /\ [Next]_vars => Short'
  BY NextShort
<1> QED BY <1>1, <1>2, <1>3, PTL DEF Spec

-----------------------------------------------------------------------------
(* No block of the swap space is cut by a boundary between the disks.      *)

LEMMA DivUnique ==
  ASSUME NEW d \in Nat \ {0}, NEW q \in Int, NEW x \in Int, d * q <= x, x < d * q + d
  PROVE  x \div d = q
<1>1. x = d * (x \div d) + (x % d) /\ x % d \in 0..(d - 1) /\ x \div d \in Int
  OBVIOUS
<1> DEFINE y == x \div d
<1>2. d * y <= x /\ x < d * y + d /\ y \in Int
  BY <1>1
<1> HIDE DEF y
<1>3. CASE y < q
  <2>1. d * (y + 1) <= d * q
    BY <1>2, <1>3
  <2>2. d * (y + 1) = d * y + d
    BY <1>2
  <2> QED BY <1>2, <2>1, <2>2
<1>4. CASE q < y
  <2>1. d * (q + 1) <= d * y
    BY <1>2, <1>4
  <2>2. d * (q + 1) = d * q + d
    OBVIOUS
  <2> QED BY <1>2, <2>1, <2>2
<1> QED BY <1>2, <1>3, <1>4 DEF y

(* A block that begins in a piece, and is not longer than the rest of it.  *)
LEMMA WithinPiece ==
  ASSUME NEW d \in Nat \ {0}, NEW a \in Nat, NEW n \in Nat \ {0}, n <= d - (a % d)
  PROVE  a \div d = (a + n - 1) \div d
<1>1. a = d * (a \div d) + (a % d) /\ a % d \in 0..(d - 1) /\ a \div d \in Int
  OBVIOUS
<1> DEFINE q == a \div d
           r == a % d
<1> HIDE DEF q, r
<1>2. d * q <= a + n - 1 /\ a + n - 1 < d * q + d /\ q \in Int
  BY <1>1 DEF q, r
<1>3. (a + n - 1) \div d = q
  BY <1>2, DivUnique
<1> QED BY <1>3 DEF q

(* A boundary is the beginning of a piece.                                 *)
LEMMA AtBoundary ==
  ASSUME NEW d \in Nat \ {0}, NEW a \in Nat
  PROVE  (a + (d - (a % d))) % d = 0
<1>1. a = d * (a \div d) + (a % d) /\ a % d \in 0..(d - 1) /\ a \div d \in Int
  OBVIOUS
<1> DEFINE q == a \div d
           b == a + (d - (a % d))
<1>2. b = d * q + d /\ q \in Int
  BY <1>1
<1> HIDE DEF q
<1>3. d * (q + 1) = d * q + d
  BY <1>2
<1> HIDE DEF b
<1>4. b \in Int /\ d * (q + 1) <= b /\ b < d * (q + 1) + d /\ q + 1 \in Int
  BY <1>2, <1>3
<1>5. b \div d = q + 1
  BY <1>4, DivUnique
<1>6. b = d * (b \div d) + (b % d)
  BY <1>4
<1>7. b % d = 0
  <2> DEFINE c == b % d
  <2>1. c \in 0..(d - 1)
    BY <1>4
  <2>2. b = d * (q + 1) + c
    BY <1>5, <1>6
  <2> HIDE DEF c
  <2>3. c = 0
    BY <1>2, <1>3, <2>1, <2>2
  <2> QED BY <2>3 DEF c
<1> QED BY <1>7 DEF b

Whole(g) == g.addr \div DMMAX = (End(g) - 1) \div DMMAX

LEMMA WholeSeg ==
  ASSUME NEW a \in Nat \ {0}, NEW n \in Nat \ {0}, n <= DMMAX - (a % DMMAX)
  PROVE  Whole(Seg(a, n))
<1>1. a \div DMMAX = (a + n - 1) \div DMMAX
  BY WithinPiece, ResourceMapAssumption
<1>2. Seg(a, n).addr = a /\ End(Seg(a, n)) - 1 = a + n - 1
  BY SegType DEF End
<1> QED BY <1>1, <1>2, Zenon DEF Whole

LEMMA RmallocUncut ==
  ASSUME MapSafe, SwapUncut, NEW p \in Procs, Rmalloc(p)
  PROVE  SwapUncut'
<1> SUFFICES ASSUME Swap PROVE \A g \in held' : Whole(g)
  BY DEF SwapUncut, Whole
<1>1. PICK n \in Sizes : \E i \in 1..Len(segs) : Rmalloc(p)!(n, i)
  BY DEF Rmalloc
<1>2. PICK i \in 1..Len(segs) : Rmalloc(p)!(n, i)
  BY <1>1
<1> DEFINE b == segs[i]
<1>3. /\ b \in Segment /\ b.addr \in Nat \ {0} /\ b.size \in Nat \ {0}
      /\ n \in Nat \ {0} /\ n <= DMMAX /\ DMMAX \in Nat \ {0}
  BY Elements, ResourceMapAssumption DEF MapSafe, TypeOK
<1>4. Fits(b, n)
  BY <1>2 DEF FirstFit
<1> HIDE DEF b
<1>5. \A g \in held : Whole(g)
  BY DEF SwapUncut, Whole
<1>6. CASE Crosses(b)
  <2> DEFINE a == b.addr + ToBoundary(b)
  <2>1. held' = held \cup {Seg(a, n)}
    BY <1>2, <1>6 DEF b
  <2>2. ToBoundary(b) \in Nat \ {0}
    BY <1>3, ToBoundaryType
  <2>3. a % DMMAX = 0
    BY <1>3, AtBoundary DEF ToBoundary
  <2>4. a \in Nat \ {0}
    BY <1>3, <2>2
  <2> HIDE DEF a
  <2>5. n <= DMMAX - (a % DMMAX)
    BY <1>3, <2>3
  <2>6. Whole(Seg(a, n))
    BY <1>3, <2>4, <2>5, WholeSeg
  <2> QED BY <1>5, <2>1, <2>6
<1>7. CASE ~Crosses(b)
  <2> DEFINE a == b.addr
  <2>1. held' = held \cup {Seg(a, n)}
    BY <1>2, <1>7 DEF b
  <2>2. ToBoundary(b) \in Nat \ {0}
    BY <1>3, ToBoundaryType
  <2>3. n <= DMMAX - (a % DMMAX)
    BY <1>3, <1>4, <1>7, <2>2 DEF Crosses, Fits, ToBoundary
  <2>4. a \in Nat \ {0}
    BY <1>3
  <2> HIDE DEF a
  <2>5. Whole(Seg(a, n))
    BY <1>3, <2>3, <2>4, WholeSeg
  <2> QED BY <1>5, <2>1, <2>5
<1> QED BY <1>6, <1>7

(* No block handed out of swapmap lies on both sides of a boundary of the  *)
(* interleaving, that is, on two disks: rmalloc cuts it out behind.        *)
THEOREM NeverCut == Spec => []SwapUncut
<1>1. Init => SwapUncut
  BY ResourceMapAssumption DEF Init, SwapUncut
<1>2. MapSafe /\ SwapUncut /\ [Next]_vars => SwapUncut'
  <2> SUFFICES ASSUME MapSafe, SwapUncut, [Next]_vars PROVE SwapUncut'
    OBVIOUS
  <2>1. ASSUME NEW p \in Procs, Rmalloc(p) PROVE SwapUncut'
    BY <2>1, RmallocUncut
  <2>2. ASSUME NEW p \in Procs, RmallocSleep(p) PROVE SwapUncut'
    BY <2>2 DEF RmallocSleep, SwapUncut
  <2>3. ASSUME NEW p \in Procs, Rmget(p) PROVE SwapUncut'
    BY <2>3 DEF Rmget, SwapUncut
  <2>4. CASE Release
    BY <2>4 DEF Release, SwapUncut
  <2>5. CASE UNCHANGED vars
    BY <2>5 DEF vars, SwapUncut
  <2> QED BY <2>1, <2>2, <2>3, <2>4, <2>5 DEF Next
<1> QED BY <1>1, <1>2, AlwaysSafe, PTL DEF Spec

-----------------------------------------------------------------------------
(* Which units a list of segments covers, and what the operations do to    *)
(* it.                                                                     *)

Covers(s, a) == \E i \in 1..Len(s) : a \in Units(s[i])

LEMMA WithoutCovers ==
  ASSUME NEW s \in Seq(Segment), NEW i \in 1..Len(s), NEW a
  PROVE  Covers(s, a) <=> Covers(Without(s, i), a) \/ a \in Units(s[i])
<1> DEFINE t == Without(s, i)
<1>1. /\ Len(t) = Len(s) - 1 /\ Len(s) \in Nat
      /\ \A j \in 1..(Len(s) - 1) : t[j] = IF j < i THEN s[j] ELSE s[j + 1]
  BY WithoutSeq
<1> HIDE DEF t
<1>2. ASSUME NEW j \in 1..Len(t), a \in Units(t[j]) PROVE Covers(s, a)
  <2>1. CASE j < i
    BY <1>1, <1>2, <2>1 DEF Covers
  <2>2. CASE j >= i
    <3>1. t[j] = s[j + 1] /\ j + 1 \in 1..Len(s)
      BY <1>1, <2>2
    <3> QED BY <1>2, <3>1 DEF Covers
  <2> QED BY <1>1, <2>1, <2>2
<1>3. ASSUME NEW j \in 1..Len(s), j # i, a \in Units(s[j]) PROVE Covers(t, a)
  <2>1. CASE j < i
    BY <1>1, <1>3, <2>1 DEF Covers
  <2>2. CASE j > i
    <3>1. j - 1 \in 1..Len(t) /\ t[j - 1] = s[(j - 1) + 1] /\ (j - 1) + 1 = j
      BY <1>1, <2>2
    <3> QED BY <1>3, <3>1 DEF Covers
  <2> QED BY <1>3, <2>1, <2>2
<1> QED BY <1>2, <1>3 DEF Covers, t

LEMMA InsertedCovers ==
  ASSUME NEW s \in Seq(Segment), NEW k \in 0..Len(s), NEW g \in Segment, NEW a
  PROVE  Covers(Inserted(s, k, g), a) <=> Covers(s, a) \/ a \in Units(g)
<1> DEFINE t == Inserted(s, k, g)
<1>1. /\ Len(t) = Len(s) + 1 /\ Len(s) \in Nat
      /\ \A j \in 1..(Len(s) + 1) :
           t[j] = IF j <= k THEN s[j] ELSE IF j = k + 1 THEN g ELSE s[j - 1]
  <2>1. Len(t) = Len(s) + 1 /\ Len(s) \in Nat
    BY InsertedSeq
  <2>2. \A j \in 1..(Len(s) + 1) :
          t[j] = IF j <= k THEN s[j] ELSE IF j = k + 1 THEN g ELSE s[j - 1]
    BY InsertedSeq
  <2> QED BY <2>1, <2>2
<1> HIDE DEF t
<1>2. ASSUME NEW j \in 1..Len(t), a \in Units(t[j])
      PROVE  Covers(s, a) \/ a \in Units(g)
  <2>1. CASE j <= k
    BY <1>1, <1>2, <2>1 DEF Covers
  <2>2. CASE j = k + 1
    BY <1>1, <1>2, <2>2
  <2>3. CASE j > k + 1
    <3>1. t[j] = s[j - 1] /\ j - 1 \in 1..Len(s)
      BY <1>1, <2>3
    <3> QED BY <1>2, <3>1 DEF Covers
  <2> QED BY <2>1, <2>2, <2>3
<1>3. ASSUME a \in Units(g) PROVE Covers(t, a)
  <2>1. k + 1 \in 1..Len(t) /\ t[k + 1] = g
    BY <1>1
  <2> QED BY <1>3, <2>1 DEF Covers
<1>4. ASSUME NEW j \in 1..Len(s), a \in Units(s[j]) PROVE Covers(t, a)
  <2>1. CASE j <= k
    BY <1>1, <1>4, <2>1 DEF Covers
  <2>2. CASE j > k
    <3>1. j + 1 \in 1..Len(t) /\ t[j + 1] = s[(j + 1) - 1] /\ (j + 1) - 1 = j
      BY <1>1, <2>2
    <3> QED BY <1>4, <3>1 DEF Covers
  <2> QED BY <2>1, <2>2
<1> QED BY <1>2, <1>3, <1>4 DEF Covers, t

LEMMA ReplacedCovers ==
  ASSUME NEW s \in Seq(Segment), NEW i \in 1..Len(s), NEW h \in Segment, NEW X, NEW a
  PROVE  /\ Units(h) = Units(s[i]) \cup X =>
              (Covers([s EXCEPT ![i] = h], a) <=> Covers(s, a) \/ a \in X)
         /\ Units(s[i]) = Units(h) \cup X =>
              (Covers(s, a) <=> Covers([s EXCEPT ![i] = h], a) \/ a \in X)
<1> DEFINE t == [s EXCEPT ![i] = h]
<1>1. /\ Len(t) = Len(s)
      /\ \A j \in 1..Len(s) : t[j] = IF j = i THEN h ELSE s[j]
  BY ExceptSeq
<1> HIDE DEF t
<1>2. Covers(t, a) <=> a \in Units(h) \/ \E j \in 1..Len(s) : j # i /\ a \in Units(s[j])
  BY <1>1 DEF Covers
<1>3. Covers(s, a) <=> a \in Units(s[i]) \/ \E j \in 1..Len(s) : j # i /\ a \in Units(s[j])
  BY DEF Covers
<1> QED BY <1>2, <1>3 DEF t

(* Two segments that abut are the units of both.                           *)
LEMMA JoinedUnits ==
  ASSUME NEW e \in Segment, NEW g \in Segment, End(e) = g.addr
  PROVE  LET h == Seg(e.addr, e.size + g.size) IN
         h \in Segment /\ Units(h) = Units(e) \cup Units(g)
<1> DEFINE h == Seg(e.addr, e.size + g.size)
<1>1. /\ e.addr \in Nat \ {0} /\ e.size \in Nat \ {0} /\ e.addr + e.size = g.addr
      /\ g.addr \in Nat \ {0} /\ g.size \in Nat \ {0}
  BY DEF Segment, End
<1>2. e.size + g.size \in Nat \ {0}
  BY <1>1
<1>3. h \in Segment /\ h.addr = e.addr /\ h.size = e.size + g.size
  BY <1>1, <1>2, SegType
<1> HIDE DEF h
<1>4. Units(h) = Units(e) \cup Units(g)
  BY <1>1, <1>3 DEF Units, End
<1> QED BY <1>3, <1>4 DEF h

(* What rmfree does: the units of s and g are now those of the map and of  *)
(* what was thrown away.                                                   *)
Lose(lost, a) == \E d \in lost : a \in Units(d)

LEMMA RmfreeCovers ==
  ASSUME NEW s \in Seq(Segment), NEW g \in Segment, Rmfree(s, g), panicked' = FALSE
  PROVE  \E lost :
           /\ discarded' = discarded \cup lost
           /\ \A a : Covers(s, a) \/ a \in Units(g) <=> Covers(segs', a) \/ Lose(lost, a)
<1>1. PICK k \in 0..Len(s) : Rmfree(s, g)!(k)
  BY DEF Rmfree
<1>2. ~Bad(s, k, g)
  BY <1>1
<1>3. g.addr \in Nat \ {0} /\ g.size \in Nat \ {0}
  BY DEF Segment
<1>4. CASE AbutsLeft(s, k, g) /\ AbutsRight(s, k, g)
  <2> DEFINE r == Without(s, k + 1)
             j == Seg(s[k].addr, s[k].size + g.size)
             h == Seg(j.addr, j.size + s[k + 1].size)
  <2>1. segs' = JoinBoth(s, k, g) /\ discarded' = discarded
    BY <1>1, <1>2, <1>4
  <2>2. /\ k \in 1..Len(s) /\ k + 1 \in 1..Len(s)
        /\ s[k] \in Segment /\ s[k + 1] \in Segment
        /\ End(s[k]) = g.addr /\ End(g) = s[k + 1].addr
    <3>1. k \in 1..Len(s) /\ k + 1 \in 1..Len(s)
      BY <1>4 DEF AbutsLeft, AbutsRight
    <3> QED BY <1>4, <3>1, Elements DEF AbutsLeft, AbutsRight
  <2>3. j \in Segment /\ Units(j) = Units(s[k]) \cup Units(g)
    BY <2>2, JoinedUnits
  <2>4. /\ s[k].addr \in Nat \ {0} /\ s[k].size \in Nat \ {0}
        /\ s[k].size + g.size \in Nat \ {0} /\ s[k + 1].size \in Nat \ {0}
    BY <1>3, <2>2, SMTT(30) DEF Segment
  <2>5. j.addr = s[k].addr /\ j.size = s[k].size + g.size
    BY <2>4, SegType
  <2>6. End(j) = s[k + 1].addr
    BY <1>3, <2>2, <2>4, <2>5 DEF End
  <2>7. h \in Segment /\ Units(h) = Units(j) \cup Units(s[k + 1])
    BY <2>2, <2>3, <2>6, JoinedUnits
  <2>8. /\ r \in Seq(Segment) /\ k \in 1..Len(r) /\ r[k] = s[k]
    <3>1. r \in Seq(Segment) /\ Len(r) = Len(s) - 1
      BY <2>2, WithoutSeq
    <3>2. r[k] = s[k]
      BY <2>2, WithoutSeq
    <3> HIDE DEF r
    <3> QED BY <2>2, <3>1, <3>2
  <2>9. h = Seg(s[k].addr, s[k].size + g.size + s[k + 1].size)
    BY <2>5
  <2> HIDE DEF r, j, h
  <2>10. segs' = [r EXCEPT ![k] = h]
    BY <2>1, <2>8, <2>9 DEF JoinBoth, r
  <2>11. Units(h) = Units(r[k]) \cup (Units(g) \cup Units(s[k + 1]))
    BY <2>3, <2>7, <2>8
  <2>12. \A a : Covers(segs', a) <=> Covers(r, a) \/ a \in (Units(g) \cup Units(s[k + 1]))
    <3> TAKE a
    <3> DEFINE X == Units(g) \cup Units(s[k + 1])
    <3>1. Units(h) = Units(r[k]) \cup X
      BY <2>11
    <3> HIDE DEF X
    <3>2. Covers([r EXCEPT ![k] = h], a) <=> Covers(r, a) \/ a \in X
      BY <2>7, <2>8, <3>1, ReplacedCovers
    <3> QED BY <2>10, <3>2 DEF X
  <2>13. \A a : Covers(s, a) <=> Covers(r, a) \/ a \in Units(s[k + 1])
    BY <2>2, WithoutCovers DEF r
  <2>14. discarded' = discarded \cup {} /\ \A a : ~Lose({}, a)
    BY <2>1 DEF Lose
  <2> QED BY <2>12, <2>13, <2>14
<1>5. CASE AbutsLeft(s, k, g) /\ ~AbutsRight(s, k, g)
  <2> DEFINE h == Seg(s[k].addr, s[k].size + g.size)
  <2>1. segs' = JoinLeft(s, k, g) /\ discarded' = discarded
    BY <1>1, <1>2, <1>5
  <2>2. k \in 1..Len(s) /\ s[k] \in Segment /\ End(s[k]) = g.addr
    <3>1. k \in 1..Len(s)
      BY <1>5 DEF AbutsLeft
    <3> QED BY <1>5, <3>1, Elements DEF AbutsLeft
  <2>3. h \in Segment /\ Units(h) = Units(s[k]) \cup Units(g)
    BY <2>2, JoinedUnits
  <2>4. segs' = [s EXCEPT ![k] = h]
    BY <2>1, <2>2 DEF JoinLeft
  <2> HIDE DEF h
  <2>5. \A a : Covers(segs', a) <=> Covers(s, a) \/ a \in Units(g)
    BY <2>2, <2>3, <2>4, ReplacedCovers
  <2>6. discarded' = discarded \cup {} /\ \A a : ~Lose({}, a)
    BY <2>1 DEF Lose
  <2> QED BY <2>5, <2>6
<1>6. CASE ~AbutsLeft(s, k, g) /\ AbutsRight(s, k, g)
  <2> DEFINE b == s[k + 1]
             h == Seg(g.addr, g.size + b.size)
  <2>1. segs' = JoinRight(s, k, g) /\ discarded' = discarded
    BY <1>1, <1>2, <1>6
  <2>2. k + 1 \in 1..Len(s) /\ b \in Segment /\ End(g) = b.addr
    <3>1. k + 1 \in 1..Len(s)
      BY <1>6 DEF AbutsRight
    <3> QED BY <1>6, <3>1, Elements DEF AbutsRight
  <2>3. h \in Segment /\ Units(h) = Units(g) \cup Units(b)
    BY <2>2, JoinedUnits
  <2>4. segs' = [s EXCEPT ![k + 1] = h]
    BY <2>1, <2>2 DEF JoinRight
  <2> HIDE DEF h
  <2>5. Units(h) = Units(s[k + 1]) \cup Units(g)
    BY <2>3
  <2>6. \A a : Covers(segs', a) <=> Covers(s, a) \/ a \in Units(g)
    BY <2>2, <2>3, <2>4, <2>5, ReplacedCovers
  <2>7. discarded' = discarded \cup {} /\ \A a : ~Lose({}, a)
    BY <2>1 DEF Lose
  <2> QED BY <2>6, <2>7
<1>7. CASE ~AbutsLeft(s, k, g) /\ ~AbutsRight(s, k, g)
  <2> DEFINE t == Inserted(s, k, g)
             i == Len(t) - 1
  <2>1. t \in Seq(Segment) /\ Len(t) = Len(s) + 1 /\ Len(s) \in Nat
    BY InsertedSeq
  <2>2. \A a : Covers(t, a) <=> Covers(s, a) \/ a \in Units(g)
    BY InsertedCovers
  <2>3. IF Overflows(t)
          THEN segs' = Trimmed(t) /\ discarded' = discarded \cup {t[i]}
          ELSE segs' = t /\ discarded' = discarded
    BY <1>1, <1>2, <1>7
  <2> HIDE DEF t
  <2>4. CASE Overflows(t)
    <3>1. i \in 1..Len(t)
      BY <2>1, <2>4, ResourceMapAssumption DEF Overflows
    <3>2. segs' = Without(t, i)
      BY <2>3, <2>4 DEF Trimmed
    <3> HIDE DEF i
    <3>3. \A a : Covers(t, a) <=> Covers(segs', a) \/ a \in Units(t[i])
      BY <2>1, <3>1, <3>2, WithoutCovers
    <3>4. \A a : Lose({t[i]}, a) <=> a \in Units(t[i])
      BY DEF Lose
    <3>5. discarded' = discarded \cup {t[i]}
      BY <2>3, <2>4 DEF i
    <3> QED BY <2>2, <3>3, <3>4, <3>5
  <2>5. CASE ~Overflows(t)
    <3>1. discarded' = discarded \cup {} /\ \A a : ~Lose({}, a)
      BY <2>3, <2>5 DEF Lose
    <3>2. segs' = t
      BY <2>3, <2>5
    <3> QED BY <2>2, <3>1, <3>2
  <2> QED BY <2>4, <2>5
<1> QED BY <1>4, <1>5, <1>6, <1>7

(* A segment in two pieces, and in three.                                  *)
LEMMA SplitUnits ==
  ASSUME NEW b \in Segment, NEW e \in Segment, NEW f \in Segment,
         e.addr = b.addr, End(e) = f.addr, End(f) = End(b)
  PROVE  Units(b) = Units(e) \cup Units(f)
<1>1. /\ b.addr \in Nat /\ e.size \in Nat /\ f.size \in Nat /\ e.addr \in Nat
      /\ f.addr \in Nat /\ b.size \in Nat
  BY DEF Segment
<1>2. /\ End(b) \in Nat /\ End(e) \in Nat /\ e.addr <= End(e) /\ End(e) <= End(f)
  BY <1>1 DEF End
<1> QED BY <1>1, <1>2 DEF Units

LEMMA ThirdUnits ==
  ASSUME NEW b \in Segment, NEW e \in Segment, NEW g \in Segment, NEW f \in Segment,
         e.addr = b.addr, End(e) = g.addr, End(g) = f.addr, End(f) = End(b)
  PROVE  Units(b) = Units(e) \cup (Units(g) \cup Units(f))
<1> DEFINE m == Seg(g.addr, g.size + f.size)
<1>1. m \in Segment /\ Units(m) = Units(g) \cup Units(f)
  BY JoinedUnits
<1>2. /\ g.addr \in Nat \ {0} /\ g.size \in Nat \ {0} /\ f.size \in Nat \ {0}
      /\ f.addr = g.addr + g.size /\ End(f) = f.addr + f.size
  BY DEF Segment, End
<1>3. m.addr = g.addr /\ End(m) = End(f)
  <2>1. g.size + f.size \in Nat \ {0}
    BY <1>2
  <2>2. m.addr = g.addr /\ m.size = g.size + f.size
    BY <1>2, <2>1, SegType
  <2> HIDE DEF m
  <2> QED BY <1>2, <2>2 DEF End
<1> HIDE DEF m
<1> QED BY <1>1, <1>3, SplitUnits

(* A segment g is given out: nothing but its units leaves the map, but for *)
(* what an overflow throws away, which only happens to swapmap.            *)
Gave(g) ==
  /\ held' = held \cup {g}
  /\ \E lost : /\ discarded' = discarded \cup lost
               /\ ~Swap => lost = {}
               /\ \A a : Covers(segs, a) <=> \/ Covers(segs', a) \/ a \in Units(g)
                                             \/ Lose(lost, a)

LEMMA GaveNothingLost ==
  ASSUME NEW g, held' = held \cup {g}, discarded' = discarded,
         \A a : Covers(segs, a) <=> Covers(segs', a) \/ a \in Units(g)
  PROVE  Gave(g)
<1>1. discarded' = discarded \cup {} /\ \A a : ~Lose({}, a)
  BY DEF Lose
<1> QED BY <1>1 DEF Gave

LEMMA WholeGave ==
  ASSUME segs \in Seq(Segment), NEW i \in 1..Len(segs), held' = held \cup {segs[i]},
         segs' = Without(segs, i), discarded' = discarded
  PROVE  Gave(segs[i])
<1>1. \A a : Covers(segs, a) <=> Covers(segs', a) \/ a \in Units(segs[i])
  BY WithoutCovers
<1> QED BY <1>1, GaveNothingLost

LEMMA EndGave ==
  ASSUME segs \in Seq(Segment), NEW i \in 1..Len(segs), NEW g, NEW h \in Segment,
         Units(segs[i]) = Units(h) \cup Units(g),
         held' = held \cup {g}, segs' = [segs EXCEPT ![i] = h], discarded' = discarded
  PROVE  Gave(g)
<1>1. \A a : Covers(segs, a) <=> Covers(segs', a) \/ a \in Units(g)
  BY ReplacedCovers
<1> QED BY <1>1, GaveNothingLost

LEMMA FrontGave ==
  ASSUME segs \in Seq(Segment), NEW i \in 1..Len(segs), NEW n \in Nat \ {0},
         segs[i].size >= n, Front(i, n), held' = held \cup {Seg(segs[i].addr, n)}
  PROVE  /\ Seg(segs[i].addr, n) \in Segment
         /\ Gave(Seg(segs[i].addr, n))
<1> DEFINE b == segs[i]
           g == Seg(b.addr, n)
<1>1. b \in Segment /\ b.addr \in Nat \ {0} /\ b.size \in Nat \ {0}
  BY Elements
<1>2. g \in Segment /\ g.addr = b.addr /\ g.size = n
  BY <1>1, SegType
<1>3. discarded' = discarded
  BY DEF Front
<1>4. CASE b.size = n
  <2>1. g = segs[i]
    BY <1>1, <1>2, <1>4 DEF Segment, Seg
  <2>2. segs' = Without(segs, i)
    BY <1>4 DEF Front
  <2> QED BY <1>2, <1>3, <2>1, <2>2, WholeGave
<1>5. CASE b.size # n
  <2> DEFINE h == Seg(b.addr + n, b.size - n)
  <2>1. b.addr + n \in Nat \ {0} /\ b.size - n \in Nat \ {0}
    BY <1>1, <1>5
  <2>2. h \in Segment /\ h.addr = b.addr + n /\ h.size = b.size - n
    BY <2>1, SegType
  <2>3. segs' = [segs EXCEPT ![i] = h] /\ held' = held \cup {g}
    BY <1>5 DEF Front
  <2> HIDE DEF g, h
  <2>4. Units(b) = Units(g) \cup Units(h)
    <3>1. End(g) = h.addr /\ End(h) = End(b)
      BY <1>1, <1>2, <1>5, <2>1, <2>2 DEF End
    <3> QED BY <1>1, <1>2, <2>2, <3>1, SplitUnits
  <2>5. Gave(g)
    BY <1>3, <2>2, <2>3, <2>4, EndGave
  <2> QED BY <1>2, <2>5 DEF g
<1> QED BY <1>4, <1>5

LEMMA CutGave ==
  ASSUME segs \in Seq(Segment), NEW i \in 1..Len(segs), NEW n \in Nat \ {0},
         Swap, Fits(segs[i], n), Crosses(segs[i]), Cut(i, n),
         panicked = FALSE, panicked' = FALSE,
         held' = held \cup {Seg(segs[i].addr + ToBoundary(segs[i]), n)}
  PROVE  LET g == Seg(segs[i].addr + ToBoundary(segs[i]), n) IN
         g \in Segment /\ Gave(g)
<1> DEFINE b     == segs[i]
           first == ToBoundary(b)
           rest  == b.size - first - n
           e     == Seg(b.addr, first)
           g     == Seg(b.addr + first, n)
           f     == Seg(b.addr + first + n, rest)
           t     == [segs EXCEPT ![i] = e]
<1>1. b \in Segment /\ b.addr \in Nat \ {0} /\ b.size \in Nat \ {0}
  BY Elements
<1>2. first \in Nat \ {0}
  BY <1>1, ToBoundaryType
<1>3. first < b.size /\ b.size - first >= n
  BY DEF Crosses, Fits
<1>4. IF rest = 0 THEN segs' = t /\ discarded' = discarded ELSE Rmfree(t, f)
  BY DEF Cut
<1>5. held' = held \cup {g}
  OBVIOUS
<1> HIDE DEF first
<1>6. b.addr + first \in Nat \ {0} /\ b.addr + first + n \in Nat \ {0} /\ rest \in Nat
  BY <1>1, <1>2, <1>3, SMTT(30)
<1>7. /\ e \in Segment /\ e.addr = b.addr /\ e.size = first
      /\ g \in Segment /\ g.addr = b.addr + first /\ g.size = n
  BY <1>1, <1>2, <1>6, SegType
<1>8. CASE rest = 0
  <2>1. segs' = t /\ discarded' = discarded
    BY <1>4, <1>8
  <2> HIDE DEF e, g
  <2>2. Units(b) = Units(e) \cup Units(g)
    <3>1. End(e) = g.addr /\ End(g) = End(b)
      BY <1>1, <1>2, <1>3, <1>7, <1>8 DEF End
    <3> QED BY <1>1, <1>7, <3>1, SplitUnits
  <2>3. Gave(g)
    BY <1>5, <1>7, <2>1, <2>2, EndGave
  <2> QED BY <1>7, <2>3 DEF g, first
<1>9. CASE rest # 0
  <2>1. /\ f \in Segment /\ f.addr = b.addr + first + n
        /\ f.size = b.size - first - n
    BY <1>6, <1>9, SegType
  <2>2. Rmfree(t, f)
    BY <1>4, <1>9
  <2> HIDE DEF e, g, f, rest
  <2>3. Units(b) = Units(e) \cup (Units(g) \cup Units(f))
    <3>1. End(e) = g.addr /\ End(g) = f.addr /\ End(f) = End(b)
      BY <1>1, <1>2, <1>3, <1>7, <2>1 DEF End
    <3> QED BY <1>1, <1>7, <2>1, <3>1, ThirdUnits
  <2>4. t \in Seq(Segment)
    BY <1>7
  <2>5. \A a : Covers(segs, a) <=> Covers(t, a) \/ a \in Units(g) \/ a \in Units(f)
    <3> TAKE a
    <3> DEFINE X == Units(g) \cup Units(f)
    <3>1. Units(b) = Units(e) \cup X
      BY <2>3
    <3> HIDE DEF X
    <3>2. Covers(segs, a) <=> Covers(t, a) \/ a \in X
      BY <1>7, <3>1, ReplacedCovers
    <3> QED BY <3>2 DEF X
  <2> HIDE DEF t
  <2>6. PICK lost :
          /\ discarded' = discarded \cup lost
          /\ \A a : Covers(t, a) \/ a \in Units(f) <=> Covers(segs', a) \/ Lose(lost, a)
    BY <2>1, <2>2, <2>4, RmfreeCovers
  <2>7. Gave(g)
    BY <1>5, <2>5, <2>6 DEF Gave
  <2> QED BY <1>7, <2>7 DEF g, first
<1> QED BY <1>8, <1>9

LEMMA RmallocGave ==
  ASSUME MapSafe, NEW p \in Procs, Rmalloc(p)
  PROVE  \E g \in Segment : g.size \in Sizes /\ Gave(g)
<1>1. PICK n \in Sizes : \E i \in 1..Len(segs) : Rmalloc(p)!(n, i)
  BY DEF Rmalloc
<1>2. PICK i \in 1..Len(segs) : Rmalloc(p)!(n, i)
  BY <1>1
<1>3. n \in Nat \ {0} /\ Fits(segs[i], n)
  BY <1>2, ResourceMapAssumption DEF FirstFit
<1>4. segs \in Seq(Segment) /\ panicked = FALSE /\ panicked' = FALSE
  BY RmallocSafe DEF Took, MapSafe, TypeOK, NoPanic
<1>5. segs[i].addr \in Nat \ {0} /\ ToBoundary(segs[i]) \in Nat \ {0}
  BY <1>4, Elements, ToBoundaryType
<1>6. CASE Crosses(segs[i])
  <2> DEFINE g == Seg(segs[i].addr + ToBoundary(segs[i]), n)
  <2>1. Swap /\ Cut(i, n) /\ held' = held \cup {g}
    BY <1>2, <1>6 DEF Crosses
  <2>2. g \in Segment /\ Gave(g)
    BY <1>3, <1>4, <1>6, <2>1, CutGave
  <2>3. g.size = n
    BY DEF Seg
  <2> QED BY <2>2, <2>3
<1>7. CASE ~Crosses(segs[i])
  <2> DEFINE g == Seg(segs[i].addr, n)
  <2>1. Front(i, n) /\ held' = held \cup {g} /\ segs[i].size >= n
    BY <1>2, <1>3, <1>7 DEF Fits
  <2>2. g \in Segment /\ Gave(g)
    BY <1>3, <1>4, <2>1, FrontGave
  <2>3. g.size = n
    BY DEF Seg
  <2> QED BY <2>2, <2>3
<1> QED BY <1>6, <1>7

LEMMA RmgetGave ==
  ASSUME MapSafe, NEW p \in Procs, Rmget(p)
  PROVE  \E g \in Gets : Gave(g)
<1>1. PICK g \in Gets : \E i \in 1..Len(segs) : Rmget(p)!(g, i)
  BY DEF Rmget
<1>2. PICK i \in 1..Len(segs) : Rmget(p)!(g, i)
  BY <1>1
<1> DEFINE b == segs[i]
<1>3. /\ b.addr <= g.addr /\ End(g) <= End(b) /\ held' = held \cup {g}
      /\ discarded' = discarded
  BY <1>2
<1>4. g \in Segment /\ b \in Segment /\ segs \in Seq(Segment)
  BY ResourceMapAssumption, Elements DEF MapSafe, TypeOK
<1>5. /\ b.addr \in Nat \ {0} /\ b.size \in Nat \ {0} /\ End(b) = b.addr + b.size
      /\ g.addr \in Nat \ {0} /\ g.size \in Nat \ {0} /\ End(g) = g.addr + g.size
  BY <1>4 DEF Segment, End
<1>6. CASE b = g
  <2>1. segs' = Without(segs, i)
    BY <1>2, <1>6
  <2> QED BY <1>3, <1>4, <1>6, <2>1, WholeGave
<1>7. CASE b.addr = g.addr /\ End(b) # End(g)
  <2> DEFINE h == Seg(End(g), b.size - g.size)
  <2>1. segs' = [segs EXCEPT ![i] = h]
    BY <1>2, <1>7
  <2>2. End(g) \in Nat \ {0} /\ b.size - g.size \in Nat \ {0}
    BY <1>3, <1>5, <1>7
  <2>3. h \in Segment /\ h.addr = End(g) /\ h.size = b.size - g.size
    BY <2>2, SegType
  <2> HIDE DEF h
  <2>4. End(h) = End(b)
    BY <1>5, <1>7, <2>3 DEF End
  <2>5. Units(b) = Units(h) \cup Units(g)
    BY <1>4, <1>7, <2>3, <2>4, SplitUnits
  <2> QED BY <1>3, <1>4, <2>1, <2>3, <2>5, EndGave
<1>8. CASE b.addr # g.addr /\ End(b) = End(g)
  <2> DEFINE h == Seg(b.addr, b.size - g.size)
  <2>1. segs' = [segs EXCEPT ![i] = h]
    BY <1>2, <1>8
  <2>2. b.size - g.size \in Nat \ {0}
    BY <1>3, <1>5, <1>8
  <2>3. h \in Segment /\ h.addr = b.addr /\ h.size = b.size - g.size
    BY <1>5, <2>2, SegType
  <2> HIDE DEF h
  <2>4. End(h) = g.addr
    BY <1>5, <1>8, <2>3 DEF End
  <2>5. Units(b) = Units(h) \cup Units(g)
    BY <1>4, <1>8, <2>3, <2>4, SplitUnits
  <2> QED BY <1>3, <1>4, <2>1, <2>3, <2>5, EndGave
<1>9. CASE b # g /\ b.addr # g.addr /\ End(b) # End(g)
  <2> DEFINE e == Seg(b.addr, g.addr - b.addr)
             f == Seg(End(g), End(b) - End(g))
             t == [segs EXCEPT ![i] = e]
  <2>1. segs' = Inserted(t, i, f)
    BY <1>2, <1>9 DEF Split
  <2>2. /\ g.addr - b.addr \in Nat \ {0} /\ End(g) \in Nat \ {0}
        /\ End(b) - End(g) \in Nat \ {0}
    BY <1>3, <1>5, <1>9, SMTT(30)
  <2>3. /\ e \in Segment /\ e.addr = b.addr /\ e.size = g.addr - b.addr
        /\ f \in Segment /\ f.addr = End(g) /\ f.size = End(b) - End(g)
    BY <1>5, <2>2, SegType
  <2> HIDE DEF e, f
  <2>4. End(e) = g.addr /\ End(f) = End(b)
    BY <1>5, <2>3 DEF End
  <2>5. Units(b) = Units(e) \cup (Units(g) \cup Units(f))
    BY <1>4, <2>3, <2>4, ThirdUnits
  <2>6. t \in Seq(Segment) /\ i \in 0..Len(t)
    BY <1>4, <2>3
  <2>7. \A a : Covers(segs, a) <=> Covers(t, a) \/ a \in Units(g) \/ a \in Units(f)
    <3> TAKE a
    <3> DEFINE X == Units(g) \cup Units(f)
    <3>1. Units(b) = Units(e) \cup X
      BY <2>5
    <3> HIDE DEF X
    <3>2. Covers(segs, a) <=> Covers(t, a) \/ a \in X
      BY <1>4, <2>3, <3>1, ReplacedCovers
    <3> QED BY <3>2 DEF X
  <2> HIDE DEF t
  <2>8. \A a : Covers(segs', a) <=> Covers(t, a) \/ a \in Units(f)
    BY <2>1, <2>3, <2>6, InsertedCovers
  <2>9. \A a : Covers(segs, a) <=> Covers(segs', a) \/ a \in Units(g)
    BY <2>7, <2>8
  <2> QED BY <1>3, <2>9, GaveNothingLost
<1>10. ASSUME b.addr = g.addr, End(b) = End(g) PROVE b = g
  <2>1. b.size = g.size
    BY <1>5, <1>10
  <2> QED BY <1>4, <1>10, <2>1 DEF Segment
<1> QED BY <1>6, <1>7, <1>8, <1>9, <1>10

-----------------------------------------------------------------------------
(* Nothing is lost but what is thrown away.                                *)

LEMMA ConservedCovers ==
  Conserved <=> \A a : a \in AllUnits <=> Covers(segs, a) \/ Lose(held \cup discarded, a)
<1>1. \A a : a \in FreeUnits <=> Covers(segs, a)
  BY DEF FreeUnits, Covers
<1>2. \A a : a \in UNION { Units(g) : g \in held \cup discarded } <=> Lose(held \cup discarded, a)
  BY DEF Lose
<1> QED BY <1>1, <1>2 DEF Conserved

LEMMA GaveConserves ==
  ASSUME Conserved, NEW g, Gave(g)
  PROVE  Conserved'
<1>1. PICK lost :
        /\ discarded' = discarded \cup lost
        /\ \A a : Covers(segs, a) <=> Covers(segs', a) \/ a \in Units(g) \/ Lose(lost, a)
  BY DEF Gave
<1>2. \A a : Lose(held' \cup discarded', a)
              <=> Lose(held \cup discarded, a) \/ a \in Units(g) \/ Lose(lost, a)
  BY <1>1 DEF Gave, Lose
<1>3. \A a : a \in AllUnits <=> Covers(segs, a) \/ Lose(held \cup discarded, a)
  BY ConservedCovers
<1>4. \A a : a \in AllUnits <=> Covers(segs', a) \/ Lose(held' \cup discarded', a)
  BY <1>1, <1>2, <1>3
<1>5. \A a : a \in FreeUnits' <=> Covers(segs', a)
  BY DEF FreeUnits, Covers
<1>6. \A a : a \in UNION { Units(h) : h \in held' \cup discarded' }
             <=> Lose(held' \cup discarded', a)
  BY DEF Lose
<1> QED BY <1>4, <1>5, <1>6 DEF Conserved, AllUnits

LEMMA ReleaseConserves ==
  ASSUME MapSafe, Conserved, Release
  PROVE  Conserved'
<1>1. PICK g \in held : Rmfree(segs, g) /\ held' = held \ {g}
  BY DEF Release
<1>2. panicked' = FALSE
  BY ReleaseSafe DEF MapSafe, NoPanic
<1>3. g \in Segment /\ segs \in Seq(Segment)
  BY DEF MapSafe, TypeOK
<1>4. PICK lost :
        /\ discarded' = discarded \cup lost
        /\ \A a : Covers(segs, a) \/ a \in Units(g) <=> Covers(segs', a) \/ Lose(lost, a)
  BY <1>1, <1>2, <1>3, RmfreeCovers
<1>5. \A a : Lose(held \cup discarded, a) \/ Lose(lost, a)
             <=> Lose(held' \cup discarded', a) \/ a \in Units(g)
  BY <1>1, <1>4 DEF Lose
<1>6. \A a : Lose(lost, a) => Lose(held' \cup discarded', a)
  BY <1>4 DEF Lose
<1>7. \A a : a \in Units(g) => Lose(held \cup discarded, a)
  BY <1>1 DEF Lose
<1>8. \A a : a \in AllUnits <=> Covers(segs, a) \/ Lose(held \cup discarded, a)
  BY ConservedCovers
<1>9. \A a : a \in AllUnits <=> Covers(segs', a) \/ Lose(held' \cup discarded', a)
  BY <1>4, <1>5, <1>6, <1>7, <1>8
<1>10. \A a : a \in FreeUnits' <=> Covers(segs', a)
  BY DEF FreeUnits, Covers
<1>11. \A a : a \in UNION { Units(h) : h \in held' \cup discarded' }
              <=> Lose(held' \cup discarded', a)
  BY DEF Lose
<1> QED BY <1>9, <1>10, <1>11 DEF Conserved, AllUnits

LEMMA InitConserved == Init => Conserved
<1> SUFFICES ASSUME Init PROVE Conserved
  OBVIOUS
<1> DEFINE H == UNION { Units(g) : g \in InitHeld }
           S == UNION { Units(InitSegs[i]) : i \in 1..Len(InitSegs) }
<1>1. segs = InitSegs /\ held = InitHeld /\ discarded = {}
  BY DEF Init
<1>2. AllUnits = H \cup S
  BY DEF AllUnits
<1>3. FreeUnits = S
  BY <1>1 DEF FreeUnits
<1>4. UNION { Units(g) : g \in held \cup discarded } = H
  <2>1. held \cup discarded = InitHeld
    BY <1>1
  <2> QED BY <2>1
<1> HIDE DEF H, S
<1> QED BY <1>2, <1>3, <1>4 DEF Conserved

LEMMA NextConserved == MapSafe /\ Conserved /\ [Next]_vars => Conserved'
<1> SUFFICES ASSUME MapSafe, Conserved, [Next]_vars PROVE Conserved'
  OBVIOUS
<1>1. ASSUME NEW p \in Procs, Rmalloc(p) PROVE Conserved'
  BY <1>1, RmallocGave, GaveConserves
<1>2. ASSUME NEW p \in Procs, Rmget(p) PROVE Conserved'
  BY <1>2, RmgetGave, GaveConserves
<1>3. ASSUME UNCHANGED <<segs, held, discarded>> PROVE Conserved'
  BY <1>3 DEF Conserved, AllUnits, FreeUnits
<1>4. ASSUME NEW p \in Procs, RmallocSleep(p) PROVE Conserved'
  BY <1>3, <1>4 DEF RmallocSleep
<1>5. CASE Release
  BY <1>5, ReleaseConserves
<1>6. CASE UNCHANGED vars
  BY <1>3, <1>6 DEF vars
<1> QED BY <1>1, <1>2, <1>4, <1>5, <1>6 DEF Next

(* Every unit the map and its users began with is at all times free, in    *)
(* use or among what an overflow threw away with a message (rmfree, "rmap  *)
(* overflow"): rmalloc, rmget and rmfree lose nothing, and make up         *)
(* nothing, however they cut and join the segments.                        *)
THEOREM AlwaysConserved == Spec => []Conserved
<1>1. Init => MapSafe /\ Conserved
  BY InitSafe, InitConserved
<1>2. MapSafe /\ Conserved /\ [Next]_vars => (MapSafe /\ Conserved)'
  BY NextSafe, NextConserved
<1> QED BY <1>1, <1>2, PTL DEF Spec

-----------------------------------------------------------------------------
(* A map other than swapmap is a pool of units.                            *)

LEMMA UnitsOfPool ==
  ASSUME NEW g \in Segment
  PROVE  Pool!Units(g) = Units(g) /\ g.addr \in Units(g)
<1>1. g.addr \in Nat /\ g.size \in Nat /\ g.size > 0
  BY DEF Segment
<1>2. g.addr + (g.size - 1) = (g.addr + g.size) - 1
  BY <1>1
<1> QED BY <1>1, <1>2 DEF Pool!Units, Units, End

LEMMA PoolInit == Init => Pool!Init
BY DEF Init, Pool!Init, FreeUnits

LEMMA GaveTakes ==
  ASSUME ~Swap, MapSafe, MapSafe', NEW g \in Segment, Gave(g),
         g.size \in Sizes \cup { x.size : x \in Gets }
  PROVE  Pool!Take
<1>1. \A a : Covers(segs, a) <=> Covers(segs', a) \/ a \in Units(g)
  BY DEF Gave, Lose
<1>2. \A a : a \in FreeUnits <=> Covers(segs, a)
  BY DEF FreeUnits, Covers
<1>3. \A a : a \in FreeUnits' <=> Covers(segs', a)
  BY DEF FreeUnits, Covers
<1>4. held' = held \cup {g}
  BY DEF Gave
<1>5. /\ g.addr \in Nat \ {0} /\ g.size \in Nat \ {0}
      /\ g = [addr |-> g.addr, size |-> g.size]
  BY DEF Segment
<1>6. held \subseteq Segment
  BY DEF MapSafe, TypeOK
<1>7. g.addr \in Units(g)
  BY UnitsOfPool
<1>8. ASSUME NEW h \in Segment, Apart(h, g), NEW a \in Units(h) PROVE a \notin Units(g)
  <2>1. /\ h.addr \in Nat /\ End(h) \in Nat /\ g.addr \in Nat /\ End(g) \in Nat
    BY DEF Segment, End
  <2> QED BY <1>8, <2>1 DEF Units, Apart
<1>9. \A a : a \in FreeUnits' => a \notin Units(g)
  <2>1. segs' \in Seq(Segment) /\ ApartFrom(g, segs')
    BY <1>4 DEF MapSafe, TypeOK, Disjoint
  <2>2. \A j \in 1..Len(segs') : segs'[j] \in Segment /\ Apart(segs'[j], g)
    BY <2>1, Elements DEF ApartFrom
  <2> QED BY <1>3, <1>8, <2>2 DEF Covers
<1>10. \A h \in held : Units(g) \cap Units(h) = {}
  <2> SUFFICES ASSUME NEW h \in held, NEW a \in Units(g), a \in Units(h) PROVE FALSE
    OBVIOUS
  <2>1. segs \in Seq(Segment) /\ ApartFrom(h, segs) /\ h \in Segment
    BY DEF MapSafe, TypeOK, Disjoint
  <2>2. PICK j \in 1..Len(segs) : a \in Units(segs[j])
    BY <1>1 DEF Covers
  <2>3. Apart(segs[j], h) /\ segs[j] \in Segment
    BY <2>1, Elements DEF ApartFrom
  <2>4. /\ h.addr \in Nat /\ End(h) \in Nat
        /\ segs[j].addr \in Nat /\ End(segs[j]) \in Nat
    BY <2>1, <2>3 DEF Segment, End
  <2> QED BY <2>2, <2>3, <2>4 DEF Units, Apart
<1>11. /\ g.addr \in FreeUnits /\ Units(g) \subseteq FreeUnits
       /\ FreeUnits' = FreeUnits \ Units(g)
  BY <1>1, <1>2, <1>3, <1>7, <1>9
<1>12. \A h \in held : Pool!Units(h) = Units(h)
  BY <1>6, UnitsOfPool
<1>13. Pool!Units(g) = Units(g)
  BY UnitsOfPool
<1> QED BY <1>4, <1>5, <1>10, <1>11, <1>12, <1>13 DEF Pool!Take

LEMMA ReleaseGives ==
  ASSUME MapSafe, Release
  PROVE  Pool!Give
<1>1. PICK g \in held : Rmfree(segs, g) /\ held' = held \ {g}
  BY DEF Release
<1>2. panicked' = FALSE
  BY ReleaseSafe DEF MapSafe, NoPanic
<1>3. g \in Segment /\ segs \in Seq(Segment)
  BY DEF MapSafe, TypeOK
<1>4. \A a : Covers(segs', a) => Covers(segs, a) \/ a \in Units(g)
  BY <1>1, <1>2, <1>3, RmfreeCovers
<1>5. \A a : a \in FreeUnits <=> Covers(segs, a)
  BY DEF FreeUnits, Covers
<1>6. \A a : a \in FreeUnits' <=> Covers(segs', a)
  BY DEF FreeUnits, Covers
<1>7. Pool!Units(g) = Units(g)
  BY <1>3, UnitsOfPool
<1> QED BY <1>1, <1>4, <1>5, <1>6, <1>7 DEF Pool!Give

(* A map other than swapmap does what UnitPool says of a pool of units,    *)
(* for every map size and every mix of rmalloc, rmget and rmfree: blocks   *)
(* of the asked size are taken from free units, nothing else changes hands *)
(* and only a block that comes back may lose units.  (The tail that        *)
(* rmalloc frees when it cuts a block out of swapmap may overflow the map: *)
(* there a block given out may lose units too.)                            *)
THEOREM MapIsPool == ~Swap => (Spec => PoolSpec)
<1> SUFFICES ASSUME ~Swap PROVE Spec => PoolSpec
  OBVIOUS
<1>1. Init => Pool!Init
  BY PoolInit
<1>2. MapSafe /\ MapSafe' /\ [Next]_vars => [Pool!Next]_<<FreeUnits, held>>
  <2> SUFFICES ASSUME MapSafe, MapSafe', [Next]_vars
               PROVE  [Pool!Next]_<<FreeUnits, held>>
    OBVIOUS
  <2>1. ASSUME NEW p \in Procs, Rmalloc(p) PROVE Pool!Take
    BY <2>1, RmallocGave, GaveTakes
  <2>2. ASSUME NEW p \in Procs, Rmget(p) PROVE Pool!Take
    <3>1. PICK g \in Gets : Gave(g)
      BY <2>2, RmgetGave
    <3> QED BY <3>1, GaveTakes, ResourceMapAssumption
  <2>3. CASE Release
    <3>1. Pool!Give
      BY <2>3, ReleaseGives
    <3> QED BY <3>1 DEF Pool!Next
  <2>4. ASSUME UNCHANGED <<segs, held>> PROVE UNCHANGED <<FreeUnits, held>>
    BY <2>4 DEF FreeUnits
  <2>5. ASSUME NEW p \in Procs, RmallocSleep(p) PROVE UNCHANGED <<FreeUnits, held>>
    BY <2>4, <2>5 DEF RmallocSleep
  <2>6. CASE UNCHANGED vars
    BY <2>4, <2>6 DEF vars
  <2> QED BY <2>1, <2>2, <2>3, <2>5, <2>6 DEF Next, Pool!Next
<1> QED BY <1>1, <1>2, AlwaysSafe, PTL DEF Spec, PoolSpec, Pool!Spec

=============================================================================
