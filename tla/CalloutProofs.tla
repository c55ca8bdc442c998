---------------------------- MODULE CalloutProofs ---------------------------
(***************************************************************************)
(* Theorems about the callout queue, for any number of entries, functions  *)
(* and times.                                                              *)
(***************************************************************************)
EXTENDS CalloutProps, FiniteSetsExt, SequenceTheorems, FiniteSetTheorems,
        WellFoundedInduction, TLAPS

-----------------------------------------------------------------------------
(* Lists, numbers and sums.                                                *)

Elements(s)  == { s[i] : i \in 1..Len(s) }

NoRepeats(s) == \A i, j \in 1..Len(s) : s[i] = s[j] => i = j

(* What the operators of Sequences do, a fact each.                        *)
LEMMA Cat ==
  ASSUME NEW S, NEW c \in Seq(S), NEW d \in Seq(S)
  PROVE  c \o d \in Seq(S)
OBVIOUS

LEMMA CatLen ==
  ASSUME NEW S, NEW c \in Seq(S), NEW d \in Seq(S)
  PROVE  Len(c \o d) = Len(c) + Len(d)
OBVIOUS

LEMMA CatElement ==
  ASSUME NEW S, NEW c \in Seq(S), NEW d \in Seq(S), NEW i \in 1..(Len(c) + Len(d))
  PROVE  (c \o d)[i] = IF i <= Len(c) THEN c[i] ELSE d[i - Len(c)]
OBVIOUS

LEMMA Sub ==
  ASSUME NEW S, NEW s \in Seq(S), NEW a \in 1..(Len(s) + 1), NEW b \in 0..Len(s)
  PROVE  SubSeq(s, a, b) \in Seq(S)
OBVIOUS

LEMMA SubLen ==
  ASSUME NEW S, NEW s \in Seq(S), NEW a \in 1..(Len(s) + 1), NEW b \in 0..Len(s), a <= b + 1
  PROVE  Len(SubSeq(s, a, b)) = b + 1 - a
OBVIOUS

LEMMA SubElement ==
  ASSUME NEW S, NEW s \in Seq(S), NEW a \in 1..(Len(s) + 1), NEW b \in 0..Len(s), a <= b + 1,
         NEW i \in 1..(b + 1 - a)
  PROVE  SubSeq(s, a, b)[i] = s[a + i - 1]
OBVIOUS

LEMMA Single ==
  ASSUME NEW S, NEW e \in S
  PROVE  <<e>> \in Seq(S) /\ Len(<<e>>) = 1 /\ <<e>>[1] = e
OBVIOUS

(* Three lists in a row.                                                   *)
LEMMA CatThree ==
  ASSUME NEW S, NEW c \in Seq(S), NEW e \in S, NEW d \in Seq(S)
  PROVE  /\ c \o <<e>> \o d \in Seq(S)
         /\ Len(c \o <<e>> \o d) = Len(c) + Len(d) + 1
         /\ \A i \in 1..(Len(c) + Len(d) + 1) :
              (c \o <<e>> \o d)[i] = IF i <= Len(c) THEN c[i]
                                     ELSE IF i = Len(c) + 1 THEN e
                                     ELSE d[i - (Len(c) + 1)]
<1> DEFINE m == c \o <<e>>
<1>1. Len(c) \in Nat /\ Len(d) \in Nat
  OBVIOUS
<1>2. m \in Seq(S)
  BY Single, Cat
<1>3. Len(m) = Len(c) + 1
  BY Single, CatLen
<1>4. ASSUME NEW i \in 1..(Len(c) + 1) PROVE m[i] = IF i <= Len(c) THEN c[i] ELSE e
  <2>1. /\ <<e>> \in Seq(S) /\ Len(<<e>>) = 1 /\ <<e>>[1] = e
    BY Single
  <2>2. m[i] = IF i <= Len(c) THEN c[i] ELSE <<e>>[i - Len(c)]
    BY <2>1, CatElement
  <2>3. i > Len(c) => i - Len(c) = 1
    BY <1>1
  <2> QED BY <1>1, <2>1, <2>2, <2>3
<1> HIDE DEF m
<1>5. m \o d \in Seq(S)
  BY <1>2, Cat
<1>6. Len(m \o d) = Len(c) + 1 + Len(d)
  BY <1>2, <1>3, CatLen
<1>7. ASSUME NEW i \in 1..(Len(c) + Len(d) + 1)
      PROVE  (m \o d)[i] = IF i <= Len(c) THEN c[i] ELSE IF i = Len(c) + 1 THEN e
                           ELSE d[i - (Len(c) + 1)]
  <2>1. i \in 1..(Len(m) + Len(d))
    BY <1>1, <1>3
  <2>2. (m \o d)[i] = IF i <= Len(c) + 1 THEN m[i] ELSE d[i - (Len(c) + 1)]
    BY <1>2, <1>3, <2>1, CatElement
  <2>3. i <= Len(c) + 1 => m[i] = IF i <= Len(c) THEN c[i] ELSE e
    BY <1>1, <1>4
  <2> QED BY <1>1, <2>2, <2>3
<1>8. Len(m \o d) = Len(c) + Len(d) + 1
  BY <1>1, <1>6
<1> QED BY <1>5, <1>7, <1>8 DEF m

(* A list with e put in place n.                                           *)
LEMMA InsertAtIs ==
  ASSUME NEW S, NEW s \in Seq(S), NEW n \in 1..(Len(s) + 1), NEW e \in S
  PROVE  /\ Len(InsertAt(s, n, e)) = Len(s) + 1
         /\ \A i \in 1..(Len(s) + 1) :
              InsertAt(s, n, e)[i] = IF i < n THEN s[i] ELSE IF i = n THEN e ELSE s[i - 1]
<1> DEFINE k == n - 1
           c == SubSeq(s, 1, k)
           d == SubSeq(s, n, Len(s))
<1>1. Len(s) \in Nat /\ n \in Nat /\ k \in Nat /\ k <= Len(s) /\ n = k + 1 /\ n - 1 = k
  OBVIOUS
<1> HIDE DEF k
<1>2. c \in Seq(S) /\ d \in Seq(S)
  BY <1>1, Sub
<1>3. Len(c) = k /\ Len(d) = Len(s) - k
  <2>1. Len(c) = k + 1 - 1
    BY <1>1, SubLen
  <2>2. Len(d) = Len(s) + 1 - n
    BY <1>1, SubLen
  <2> QED BY <1>1, <2>1, <2>2
<1>4. ASSUME NEW i \in 1..k PROVE c[i] = s[i]
  <2>1. c[i] = s[1 + i - 1]
    BY <1>1, SubElement
  <2> QED BY <1>1, <2>1
<1>5. ASSUME NEW i \in 1..(Len(s) - k) PROVE d[i] = s[k + i]
  <2>1. i \in 1..(Len(s) + 1 - n) /\ n + i - 1 = k + i
    BY <1>1
  <2>2. d[i] = s[n + i - 1]
    BY <1>1, <2>1, SubElement
  <2> QED BY <2>1, <2>2
<1>6. InsertAt(s, n, e) = c \o <<e>> \o d
  BY <1>1, Zenon DEF InsertAt
<1> HIDE DEF c, d
<1>7. /\ Len(c \o <<e>> \o d) = Len(c) + Len(d) + 1
      /\ \A i \in 1..(Len(c) + Len(d) + 1) :
           (c \o <<e>> \o d)[i] = IF i <= Len(c) THEN c[i]
                                  ELSE IF i = Len(c) + 1 THEN e
                                  ELSE d[i - (Len(c) + 1)]
  BY <1>2, CatThree
<1>8. Len(c) + Len(d) + 1 = Len(s) + 1
  BY <1>1, <1>3
<1>9. ASSUME NEW i \in 1..(Len(s) + 1)
      PROVE  InsertAt(s, n, e)[i] = IF i < n THEN s[i] ELSE IF i = n THEN e ELSE s[i - 1]
  <2>1. InsertAt(s, n, e)[i] = IF i <= k THEN c[i] ELSE IF i = k + 1 THEN e
                               ELSE d[i - (k + 1)]
    BY <1>3, <1>6, <1>7, <1>8, Zenon
  <2>2. i <= k => c[i] = s[i]
    BY <1>1, <1>4
  <2>3. i > k + 1 => d[i - (k + 1)] = s[k + (i - (k + 1))]
    BY <1>1, <1>5
  <2>4. /\ k + (i - (k + 1)) = i - 1 /\ (i <= k <=> i < n) /\ (i = k + 1 <=> i = n)
        /\ (~(i <= k) /\ i # k + 1 => i > k + 1)
    BY <1>1
  <2> QED BY <2>1, <2>2, <2>3, <2>4, Zenon
<1> QED BY <1>6, <1>7, <1>8, <1>9, Zenon

(* The same for a list with e put after its first k elements.              *)
LEMMA InsertAtSeq ==
  ASSUME NEW S, NEW s \in Seq(S), NEW k \in 0..Len(s), NEW e \in S
  PROVE  /\ InsertAt(s, k + 1, e) \in Seq(S)
         /\ Len(InsertAt(s, k + 1, e)) = Len(s) + 1
         /\ \A i \in 1..(Len(s) + 1) :
              InsertAt(s, k + 1, e)[i] = IF i <= k THEN s[i]
                                         ELSE IF i = k + 1 THEN e ELSE s[i - 1]
<1> DEFINE n == k + 1
           c == SubSeq(s, 1, k)
           d == SubSeq(s, n, Len(s))
<1>1. Len(s) \in Nat /\ n \in 1..(Len(s) + 1) /\ n - 1 = k /\ \A i \in Nat : i < n <=> i <= k
  OBVIOUS
<1>2. c \in Seq(S) /\ d \in Seq(S)
  BY <1>1, Sub
<1>3. n = k + 1
  OBVIOUS
<1> HIDE DEF n
<1>4. InsertAt(s, n, e) = c \o <<e>> \o d
  BY <1>1, Zenon DEF InsertAt
<1>5. InsertAt(s, n, e) \in Seq(S)
  <2> HIDE DEF c, d
  <2> QED BY <1>2, <1>4, CatThree
<1>6. /\ Len(InsertAt(s, n, e)) = Len(s) + 1
      /\ \A i \in 1..(Len(s) + 1) :
           InsertAt(s, n, e)[i] = IF i < n THEN s[i] ELSE IF i = n THEN e ELSE s[i - 1]
  BY <1>1, InsertAtIs
<1>7. \A i \in 1..(Len(s) + 1) :
        InsertAt(s, n, e)[i] = IF i <= k THEN s[i] ELSE IF i = n THEN e ELSE s[i - 1]
  BY <1>1, <1>6
<1> QED BY <1>3, <1>5, <1>6, <1>7, Zenon

(* A list without its i-th element.                                        *)
LEMMA RemoveAtSeq ==
  ASSUME NEW S, NEW s \in Seq(S), NEW k \in 1..Len(s)
  PROVE  /\ RemoveAt(s, k) \in Seq(S)
         /\ Len(RemoveAt(s, k)) = Len(s) - 1
         /\ \A i \in 1..(Len(s) - 1) :
              RemoveAt(s, k)[i] = IF i < k THEN s[i] ELSE s[i + 1]
<1> DEFINE c == SubSeq(s, 1, k - 1)
           d == SubSeq(s, k + 1, Len(s))
<1>1. Len(s) \in Nat /\ k \in Nat \ {0} /\ k <= Len(s) /\ k - 1 \in 0..Len(s)
  OBVIOUS
<1>2. c \in Seq(S) /\ d \in Seq(S)
  BY <1>1, Sub
<1>3. Len(c) = k - 1 /\ Len(d) = Len(s) - k
  <2>1. Len(c) = k - 1 + 1 - 1
    BY <1>1, SubLen
  <2>2. Len(d) = Len(s) + 1 - (k + 1)
    BY <1>1, SubLen
  <2> QED BY <1>1, <2>1, <2>2
<1>4. ASSUME NEW i \in 1..(k - 1) PROVE c[i] = s[i]
  <2>1. i \in 1..(k - 1 + 1 - 1)
    BY <1>1
  <2>2. c[i] = s[1 + i - 1]
    BY <1>1, <2>1, SubElement
  <2> QED BY <1>1, <2>2
<1>5. ASSUME NEW i \in 1..(Len(s) - k) PROVE d[i] = s[k + i]
  <2>1. i \in 1..(Len(s) + 1 - (k + 1)) /\ k + 1 + i - 1 = k + i
    BY <1>1
  <2>2. d[i] = s[k + 1 + i - 1]
    BY <1>1, <2>1, SubElement
  <2> QED BY <2>1, <2>2
<1>6. RemoveAt(s, k) = c \o d
  BY Zenon DEF RemoveAt
<1> HIDE DEF c, d
<1>7. c \o d \in Seq(S)
  BY <1>2, Cat
<1>8. Len(c \o d) = Len(s) - 1
  <2>1. Len(c \o d) = Len(c) + Len(d)
    BY <1>2, CatLen
  <2> QED BY <1>1, <1>3, <2>1
<1>9. ASSUME NEW i \in 1..(Len(s) - 1)
      PROVE  (c \o d)[i] = IF i < k THEN s[i] ELSE s[i + 1]
  <2>1. i \in 1..(Len(c) + Len(d))
    BY <1>1, <1>3
  <2>2. (c \o d)[i] = IF i <= k - 1 THEN c[i] ELSE d[i - (k - 1)]
    BY <1>2, <1>3, <2>1, CatElement
  <2>3. i <= k - 1 => c[i] = s[i]
    BY <1>1, <1>4
  <2>4. i > k - 1 => d[i - (k - 1)] = s[k + (i - (k - 1))]
    BY <1>1, <1>5
  <2>5. k + (i - (k - 1)) = i + 1
    BY <1>1
  <2> QED BY <1>1, <2>2, <2>3, <2>4, <2>5
<1> QED BY <1>6, <1>7, <1>8, <1>9

LEMMA InsertAtElements ==
  ASSUME NEW S, NEW s \in Seq(S), NEW k \in 0..Len(s), NEW e \in S,
         NoRepeats(s), e \notin Elements(s)
  PROVE  /\ NoRepeats(InsertAt(s, k + 1, e))
         /\ Elements(InsertAt(s, k + 1, e)) = Elements(s) \cup {e}
<1> DEFINE r == InsertAt(s, k + 1, e)
<1>0. Len(s) \in Nat /\ k \in Nat /\ k <= Len(s)
  OBVIOUS
<1>1. /\ Len(s) \in Nat /\ k \in Nat /\ k <= Len(s) /\ Len(r) = Len(s) + 1
      /\ \A i \in 1..(Len(s) + 1) :
           r[i] = IF i <= k THEN s[i] ELSE IF i = k + 1 THEN e ELSE s[i - 1]
  BY <1>0, InsertAtSeq
<1> HIDE DEF r
<1>2. ASSUME NEW i \in 1..Len(r), NEW j \in 1..Len(r), r[i] = r[j]
      PROVE  i = j
  <2>1. \A h \in 1..Len(s) : s[h] # e
    BY DEF Elements
  <2>2. CASE i <= k
    BY <1>1, <1>2, <2>1, <2>2 DEF NoRepeats
  <2>3. CASE i = k + 1
    BY <1>1, <1>2, <2>1, <2>3 DEF NoRepeats
  <2>4. CASE i > k + 1
    BY <1>1, <1>2, <2>1, <2>4 DEF NoRepeats
  <2> QED BY <1>1, <2>2, <2>3, <2>4
<1>3. Elements(r) \subseteq Elements(s) \cup {e}
  BY <1>1 DEF Elements
<1>4. e \in Elements(r)
  <2>1. k + 1 \in 1..Len(r) /\ r[k + 1] = e
    BY <1>1
  <2> QED BY <2>1 DEF Elements
<1>5. ASSUME NEW i \in 1..Len(s) PROVE s[i] \in Elements(r)
  <2>1. CASE i <= k
    <3>1. i \in 1..Len(r) /\ r[i] = s[i]
      BY <1>1, <2>1
    <3> QED BY <3>1 DEF Elements
  <2>2. CASE i > k
    <3>1. i + 1 \in 1..Len(r) /\ r[i + 1] = s[i]
      BY <1>1, <2>2
    <3> QED BY <3>1 DEF Elements
  <2> QED BY <1>1, <2>1, <2>2
<1>6. Elements(s) \cup {e} \subseteq Elements(r)
  BY <1>4, <1>5, Zenon DEF Elements
<1>7. NoRepeats(r)
  BY <1>2, Zenon DEF NoRepeats
<1> QED BY <1>3, <1>6, <1>7 DEF r

LEMMA RemoveAtElements ==
  ASSUME NEW S, NEW s \in Seq(S), NEW k \in 1..Len(s), NoRepeats(s)
  PROVE  /\ NoRepeats(RemoveAt(s, k))
         /\ Elements(RemoveAt(s, k)) = Elements(s) \ {s[k]}
<1> DEFINE r == RemoveAt(s, k)
<1>0. Len(s) \in Nat /\ k \in Nat \ {0} /\ k <= Len(s)
  OBVIOUS
<1>1. /\ Len(s) \in Nat /\ k \in Nat \ {0} /\ k <= Len(s) /\ Len(r) = Len(s) - 1
      /\ \A i \in 1..(Len(s) - 1) : r[i] = IF i < k THEN s[i] ELSE s[i + 1]
  BY <1>0, RemoveAtSeq
<1> HIDE DEF r
<1>2. NoRepeats(r)
  BY <1>1 DEF NoRepeats
<1>3. ASSUME NEW i \in 1..Len(r) PROVE r[i] \in Elements(s) \ {s[k]}
  <2>1. CASE i < k
    <3>1. i \in 1..Len(s) /\ r[i] = s[i] /\ i # k
      BY <1>1, <2>1
    <3> QED BY <3>1 DEF Elements, NoRepeats
  <2>2. CASE i >= k
    <3>1. i + 1 \in 1..Len(s) /\ r[i] = s[i + 1] /\ i + 1 # k
      BY <1>1, <2>2
    <3> QED BY <3>1 DEF Elements, NoRepeats
  <2> QED BY <1>1, <2>1, <2>2
<1>4. ASSUME NEW i \in 1..Len(s), s[i] # s[k] PROVE s[i] \in Elements(r)
  <2>1. CASE i < k
    <3>1. i \in 1..Len(r) /\ r[i] = s[i]
      BY <1>1, <2>1
    <3> QED BY <3>1 DEF Elements
  <2>2. CASE i > k
    <3>1. i - 1 \in 1..Len(r) /\ r[i - 1] = s[i]
      BY <1>1, <2>2
    <3> QED BY <3>1 DEF Elements
  <2>3. i # k
    BY <1>4
  <2> QED BY <1>1, <2>1, <2>2, <2>3
<1> QED BY <1>2, <1>3, <1>4 DEF Elements, r

LEMMA TailElements ==
  ASSUME NEW S, NEW s \in Seq(S), s # <<>>, NoRepeats(s)
  PROVE  /\ Tail(s) \in Seq(S) /\ Head(s) \in S
         /\ NoRepeats(Tail(s))
         /\ Elements(Tail(s)) = Elements(s) \ {Head(s)}
<1>1. /\ Len(s) \in Nat \ {0} /\ Tail(s) \in Seq(S) /\ Len(Tail(s)) = Len(s) - 1
      /\ \A i \in 1..(Len(s) - 1) : Tail(s)[i] = s[i + 1]
      /\ Head(s) = s[1] /\ Head(s) \in S
  OBVIOUS
<1>2. NoRepeats(Tail(s))
  BY <1>1 DEF NoRepeats
<1>3. ASSUME NEW i \in 1..Len(Tail(s)) PROVE Tail(s)[i] \in Elements(s) \ {Head(s)}
  <2>1. i + 1 \in 1..Len(s) /\ 1 \in 1..Len(s) /\ i + 1 # 1 /\ Tail(s)[i] = s[i + 1]
    BY <1>1
  <2> QED BY <1>1, <2>1 DEF Elements, NoRepeats
<1>4. ASSUME NEW i \in 1..Len(s), s[i] # Head(s) PROVE s[i] \in Elements(Tail(s))
  <2>1. i - 1 \in 1..Len(Tail(s)) /\ Tail(s)[i - 1] = s[i]
    BY <1>1, <1>4
  <2> QED BY <2>1 DEF Elements
<1>5. ASSUME NEW x \in Elements(Tail(s)) PROVE x \in Elements(s) \ {Head(s)}
  BY <1>3, <1>5, Zenon DEF Elements
<1>6. ASSUME NEW x \in Elements(s) \ {Head(s)} PROVE x \in Elements(Tail(s))
  BY <1>4, <1>6, Zenon DEF Elements
<1>7. Elements(Tail(s)) = Elements(s) \ {Head(s)}
  BY <1>5, <1>6, Zenon
<1> QED BY <1>1, <1>2, <1>7

(* A set of numbers has a least one.                                       *)
LEMMA NatLeast ==
  ASSUME NEW T, T \subseteq Nat, T # {}
  PROVE  \E x \in T : \A y \in T : x <= y
<1> DEFINE R == OpToRel(<, Nat)
<1>1. IsWellFoundedOn(R, Nat)
  BY NatLessThanWellFounded, Zenon
<1>2. \A x, y \in Nat : y < x => <<y, x>> \in R
  BY DEF OpToRel
<1> HIDE DEF R
<1>3. PICK x \in T : \A y \in T : ~ (<<y, x>> \in R)
  BY <1>1, WFMin, Zenon
<1>4. ASSUME NEW y \in T PROVE x <= y
  <2>1. x \in Nat /\ y \in Nat
    OBVIOUS
  <2>2. ~ (y < x)
    BY <1>2, <1>3, <2>1, Zenon
  <2> QED BY <2>1, <2>2
<1> QED BY <1>4, Zenon

(* The least place of a list that has a property.                          *)
LEMMA LeastOf ==
  ASSUME NEW n \in Nat, NEW T, T \subseteq 1..n, T # {}
  PROVE  \E i \in T : \A j \in 1..(i - 1) : j \notin T
<1>1. T \subseteq Nat
  OBVIOUS
<1>2. PICK i \in T : \A j \in T : i <= j
  BY <1>1, NatLeast
<1>3. \A j \in 1..(i - 1) : j \notin T
  BY <1>2
<1> QED BY <1>3

(* Sums over finite sets.  The fold of SumFunctionOnSet takes the terms in *)
(* the order of CHOOSE; what holds of sums is proved from a least set for  *)
(* which it would fail.                                                    *)
Pick(s) == CHOOSE x \in s : TRUE

Adds(h, f, S) ==
  h = [s \in SUBSET S |-> IF s = {} THEN 0 ELSE f[Pick(s)] + h[s \ {Pick(s)}]]

LEMMA SumIs ==
  ASSUME NEW f, NEW S
  PROVE  SumFunctionOnSet(f, S) = (CHOOSE h : Adds(h, f, S))[S]
BY DEF SumFunctionOnSet, FoldFunctionOnSet, MapThenFoldSet, Adds, Pick

(* Of sets of subsets of a finite set one is least.                        *)
LEMMA LeastSet ==
  ASSUME NEW S, IsFiniteSet(S), NEW T, T \subseteq SUBSET S, T # {}
  PROVE  \E t \in T : \A r \in T : ~(r \subseteq t /\ r # t)
<1>1. FiniteSubsetsOf(S) = SUBSET S
  BY FS_FiniteSubsetsOfFinite
<1>2. IsWellFoundedOn(StrictSubsetOrdering(S), SUBSET S)
  BY <1>1, FS_StrictSubsetOrderingWellFounded
<1>3. PICK t \in T : \A r \in T : ~(<<r, t>> \in StrictSubsetOrdering(S))
  BY <1>2, WFMin
<1> QED BY <1>3 DEF StrictSubsetOrdering

(* Two functions that add the terms agree, whatever their domains.         *)
LEMMA AddsAgree ==
  ASSUME NEW S, IsFiniteSet(S), NEW f, NEW h, NEW Q, NEW g,
         Adds(h, f, S), Adds(g, f, Q), NEW s, s \subseteq S, s \subseteq Q
  PROVE  h[s] = g[s]
<1> DEFINE T == { t \in SUBSET s : h[t] # g[t] }
<1> SUFFICES ASSUME T # {} PROVE FALSE
  OBVIOUS
<1>1. IsFiniteSet(s)
  BY FS_Subset
<1>2. PICK t \in T : \A r \in T : ~(r \subseteq t /\ r # t)
  <2>1. T \subseteq SUBSET s
    OBVIOUS
  <2> HIDE DEF T
  <2> QED BY <1>1, <2>1, LeastSet
<1>3. t # {}
  BY <1>2 DEF Adds
<1>4. Pick(t) \in t
  BY <1>3 DEF Pick
<1>5. h[t \ {Pick(t)}] = g[t \ {Pick(t)}]
  BY <1>2, <1>4
<1>6. h[t] = f[Pick(t)] + h[t \ {Pick(t)}] /\ g[t] = f[Pick(t)] + g[t \ {Pick(t)}]
  BY <1>3 DEF Adds
<1> QED BY <1>5, <1>6

LEMMA AddsExists ==
  ASSUME NEW S, IsFiniteSet(S), NEW f
  PROVE  \E h : Adds(h, f, S)
<1> DEFINE T == { t \in SUBSET S : ~\E h : Adds(h, f, t) }
<1> SUFFICES ASSUME T # {} PROVE FALSE
  OBVIOUS
<1>1. PICK t \in T : \A r \in T : ~(r \subseteq t /\ r # t)
  <2>1. T \subseteq SUBSET S
    OBVIOUS
  <2> HIDE DEF T
  <2> QED BY <2>1, LeastSet
<1> DEFINE less(s) == s \ {Pick(s)}
           g(s) == CHOOSE h : Adds(h, f, s)
           H == [s \in SUBSET t |-> IF s = {} THEN 0 ELSE f[Pick(s)] + g(less(s))[less(s)]]
<1>2. ASSUME NEW s \in SUBSET t, s # {} PROVE Pick(s) \in s
  BY <1>2 DEF Pick
<1>3. ASSUME NEW s \in SUBSET t, s # t PROVE Adds(g(s), f, s) /\ IsFiniteSet(s)
  <2>1. s \in SUBSET S /\ s \notin T
    BY <1>1, <1>3
  <2>2. \E h : Adds(h, f, s)
    BY <2>1
  <2>3. IsFiniteSet(s)
    BY <2>1, FS_Subset
  <2> QED BY <2>2, <2>3
<1>4. ASSUME NEW s \in SUBSET t, s # {} PROVE H[less(s)] = g(less(s))[less(s)]
  <2> DEFINE v == less(s)
  <2>1. v \in SUBSET t /\ v # t
    BY <1>2, <1>4
  <2>2. Adds(g(v), f, v) /\ v \in SUBSET v /\ IsFiniteSet(v)
    BY <1>3, <2>1
  <2>3. CASE v = {}
    <3>1. g(v)[v] = 0
      BY <2>2, <2>3 DEF Adds
    <3>2. H[v] = 0
      BY <2>1, <2>3
    <3> QED BY <3>1, <3>2
  <2>4. CASE v # {}
    <3> DEFINE w == less(v)
    <3>1. w \in SUBSET t /\ w # t /\ w \in SUBSET v
      BY <1>2, <2>1, <2>4
    <3>2. Adds(g(w), f, w)
      BY <1>3, <3>1
    <3> HIDE DEF g, less
    <3>3. g(v)[v] = f[Pick(v)] + g(v)[v \ {Pick(v)}]
      BY <2>2, <2>4 DEF Adds
    <3>4. g(v)[w] = g(w)[w]
      BY <2>2, <3>1, <3>2, AddsAgree
    <3>5. w = v \ {Pick(v)}
      BY DEF less
    <3>6. H[v] = f[Pick(v)] + g(w)[w]
      BY <2>1, <2>4
    <3> QED BY <3>3, <3>4, <3>5, <3>6
  <2> QED BY <2>3, <2>4
<1>5. Adds(H, f, t)
  <2> HIDE DEF g
  <2>1. H = [s \in SUBSET t |-> IF s = {} THEN 0 ELSE f[Pick(s)] + H[less(s)]]
    <3> DEFINE G == [s \in SUBSET t |-> IF s = {} THEN 0 ELSE f[Pick(s)] + H[less(s)]]
    <3>1. ASSUME NEW s \in SUBSET t PROVE H[s] = G[s]
      BY <1>4, <3>1
    <3> QED BY <3>1
  <2> HIDE DEF H
  <2> QED BY <2>1 DEF Adds
<1> QED BY <1>1, <1>5

(* A sum is one term and the sum of the others.                            *)
LEMMA SumStep ==
  ASSUME NEW S, IsFiniteSet(S), NEW f
  PROVE  SumFunctionOnSet(f, S) =
           IF S = {} THEN 0
           ELSE f[Pick(S)] + SumFunctionOnSet(f, S \ {Pick(S)})
<1> DEFINE h == CHOOSE k : Adds(k, f, S)
           s == S \ {Pick(S)}
           g == CHOOSE k : Adds(k, f, s)
<1>1. IsFiniteSet(s)
  BY FS_Subset
<1>2. Adds(h, f, S)
  BY AddsExists
<1>3. Adds(g, f, s)
  BY <1>1, AddsExists
<1>4. SumFunctionOnSet(f, S) = h[S] /\ SumFunctionOnSet(f, s) = g[s]
  BY SumIs
<1> HIDE DEF h, g
<1>5. h[s] = g[s]
  <2>1. s \subseteq S /\ s \subseteq s
    OBVIOUS
  <2> HIDE DEF s
  <2> QED BY <1>2, <1>3, <2>1, AddsAgree
<1>6. h[S] = IF S = {} THEN 0 ELSE f[Pick(S)] + h[s]
  BY <1>2 DEF Adds
<1> QED BY <1>4, <1>5, <1>6

(* Sums of integers are integers.                                          *)
LEMMA SumInt ==
  ASSUME NEW S, IsFiniteSet(S), NEW f, \A x \in S : f[x] \in Int
  PROVE  SumFunctionOnSet(f, S) \in Int
<1> DEFINE T == { t \in SUBSET S : SumFunctionOnSet(f, t) \notin Int }
<1> SUFFICES ASSUME T # {} PROVE FALSE
  OBVIOUS
<1>1. PICK t \in T : \A r \in T : ~(r \subseteq t /\ r # t)
  <2>1. T \subseteq SUBSET S
    OBVIOUS
  <2> HIDE DEF T
  <2> QED BY <2>1, LeastSet
<1>2. IsFiniteSet(t)
  BY FS_Subset
<1>3. t # {}
  <2>1. SumFunctionOnSet(f, t) \notin Int
    BY <1>1
  <2>2. t = {} => SumFunctionOnSet(f, t) = 0
    BY <1>2, SumStep
  <2> QED BY <2>1, <2>2
<1>4. Pick(t) \in t
  BY <1>3 DEF Pick
<1>5. SumFunctionOnSet(f, t \ {Pick(t)}) \in Int
  BY <1>1, <1>4
<1>6. SumFunctionOnSet(f, t) = f[Pick(t)] + SumFunctionOnSet(f, t \ {Pick(t)})
  BY <1>2, <1>3, SumStep
<1>7. f[Pick(t)] \in Int
  BY <1>4
<1> QED BY <1>5, <1>6, <1>7

(* The order in which a sum is taken does not matter.                      *)
LEMMA SumWithout ==
  ASSUME NEW S, IsFiniteSet(S), NEW f, \A x \in S : f[x] \in Int, NEW y \in S
  PROVE  SumFunctionOnSet(f, S) = f[y] + SumFunctionOnSet(f, S \ {y})
<1> DEFINE Good(t) == \A x \in t : SumFunctionOnSet(f, t) = f[x] + SumFunctionOnSet(f, t \ {x})
           T == { t \in SUBSET S : ~Good(t) }
<1> SUFFICES ASSUME T # {} PROVE FALSE
  OBVIOUS
<1>1. PICK t \in T : \A r \in T : ~(r \subseteq t /\ r # t)
  <2>1. T \subseteq SUBSET S
    OBVIOUS
  <2> HIDE DEF T
  <2> QED BY <2>1, LeastSet
<1>2. IsFiniteSet(t) /\ t \in SUBSET S
  BY FS_Subset
<1>3. PICK x \in t : SumFunctionOnSet(f, t) # f[x] + SumFunctionOnSet(f, t \ {x})
  BY <1>1
<1> DEFINE p == Pick(t)
<1>4. p \in t /\ SumFunctionOnSet(f, t) = f[p] + SumFunctionOnSet(f, t \ {p})
  BY <1>2, <1>3, SumStep DEF Pick
<1> HIDE DEF p
<1>5. x # p
  BY <1>3, <1>4
<1>6. Good(t \ {p}) /\ Good(t \ {x})
  BY <1>1, <1>2, <1>3, <1>4
<1> DEFINE d == SumFunctionOnSet(f, (t \ {x}) \ {p})
<1>7. SumFunctionOnSet(f, t \ {p}) = f[x] + d
  <2>1. (t \ {p}) \ {x} = (t \ {x}) \ {p}
    OBVIOUS
  <2>2. SumFunctionOnSet(f, t \ {p}) = f[x] + SumFunctionOnSet(f, (t \ {p}) \ {x})
    BY <1>3, <1>5, <1>6
  <2> QED BY <2>1, <2>2
<1>8. SumFunctionOnSet(f, t \ {x}) = f[p] + d
  BY <1>4, <1>5, <1>6
<1>9. d \in Int
  <2>1. IsFiniteSet((t \ {x}) \ {p}) /\ \A z \in (t \ {x}) \ {p} : f[z] \in Int
    BY <1>2, FS_Subset
  <2> QED BY <2>1, SumInt
<1>10. f[p] \in Int /\ f[x] \in Int
  BY <1>2, <1>4
<1> HIDE DEF d
<1>11. f[x] + SumFunctionOnSet(f, t \ {x}) = f[p] + SumFunctionOnSet(f, t \ {p})
  BY <1>7, <1>8, <1>9, <1>10
<1> QED BY <1>3, <1>4, <1>11

-----------------------------------------------------------------------------
(* The accounting of the entries.                                          *)

Typed ==
  /\ calltodo \in Seq(Slots)
  /\ callfree \subseteq Slots
  /\ c_func \in [Slots -> Fns \cup {NONE}]

Inv == Typed /\ Accounted

(* Accounted in terms of Elements and NoRepeats.                           *)
LEMMA AccountedFacts ==
  ASSUME Typed
  PROVE  Accounted <=> /\ NoRepeats(calltodo)
                       /\ callfree = Slots \ Elements(calltodo)
                       /\ \A s \in Elements(calltodo) : c_func[s] \in Fns
BY Zenon DEF Accounted, NoRepeats, Elements

(* The same for the next state.                                            *)
LEMMA AccountedNext ==
  ASSUME NoRepeats(calltodo'), callfree' = Slots \ Elements(calltodo'),
         \A s \in Elements(calltodo') : c_func'[s] \in Fns
  PROVE  Accounted'
BY Zenon DEF Accounted, NoRepeats, Elements

LEMMA InitInv == Init => Inv
<1> SUFFICES ASSUME Init PROVE Inv
  OBVIOUS
<1>1. /\ calltodo = <<>> /\ callfree = Slots
      /\ c_func = [s \in Slots |-> NONE]
  BY DEF Init
<1>2. Typed
  BY <1>1 DEF Typed
<1>3. Len(calltodo) = 0 /\ 1..0 = {}
  BY <1>1
<1> QED BY <1>1, <1>2, <1>3 DEF Inv, Accounted

(* timeout puts a free entry on the queue, once.                           *)
LEMMA TimeoutInv ==
  ASSUME Inv, NEW f \in Fns, NEW tim \in Ticks, Timeout(f, tim)
  PROVE  Inv'
<1>1. CASE UNCHANGED <<calltodo, callfree, c_func>>
  BY <1>1 DEF Inv, Typed, Accounted
<1>2. ASSUME NEW s \in callfree, NEW k \in 0..Len(calltodo),
             callfree' = callfree \ {s},
             calltodo' = InsertAt(calltodo, k + 1, s),
             c_func' = [c_func EXCEPT ![s] = f]
      PROVE  Inv'
  <2>1. /\ calltodo \in Seq(Slots) /\ callfree \subseteq Slots
        /\ c_func \in [Slots -> Fns \cup {NONE}] /\ s \in Slots
    BY DEF Inv, Typed
  <2>2. /\ NoRepeats(calltodo) /\ callfree = Slots \ Elements(calltodo)
        /\ \A r \in Elements(calltodo) : c_func[r] \in Fns
    BY AccountedFacts DEF Inv
  <2>3. s \notin Elements(calltodo)
    BY <2>2
  <2>4. /\ NoRepeats(calltodo')
        /\ Elements(calltodo') = Elements(calltodo) \cup {s}
    BY <1>2, <2>1, <2>2, <2>3, InsertAtElements
  <2>5. calltodo' \in Seq(Slots)
    BY <1>2, <2>1, InsertAtSeq
  <2>6. c_func' \in [Slots -> Fns \cup {NONE}]
    BY <1>2, <2>1
  <2>7. callfree' = Slots \ Elements(calltodo') /\ callfree' \subseteq Slots
    BY <1>2, <2>2, <2>4, Zenon
  <2>8. \A r \in Elements(calltodo') : c_func'[r] \in Fns
    <3> SUFFICES ASSUME NEW r \in Elements(calltodo') PROVE c_func'[r] \in Fns
      OBVIOUS
    <3>1. CASE r = s
      BY <1>2, <2>1, <3>1
    <3>2. CASE r # s
      <4>1. r \in Elements(calltodo)
        BY <2>4, <3>2
      <4>2. c_func'[r] = c_func[r]
        BY <1>2, <2>1, <3>2
      <4> QED BY <2>2, <4>1, <4>2
    <3> QED BY <3>1, <3>2
  <2> QED BY <2>4, <2>5, <2>6, <2>7, <2>8, AccountedNext DEF Inv, Typed
<1> QED BY <1>1, <1>2 DEF Timeout

(* untimeout takes an entry off the queue and frees it.                    *)
LEMMA UntimeoutInv ==
  ASSUME Inv, NEW f \in Fns, Untimeout(f)
  PROVE  Inv'
<1>1. PICK i \in 1..Len(calltodo) :
        /\ calltodo' = RemoveAt(calltodo, i)
        /\ callfree' = callfree \cup {calltodo[i]}
  BY DEF Untimeout
<1>2. c_func' = c_func
  BY DEF Untimeout
<1>3. /\ calltodo \in Seq(Slots) /\ callfree \subseteq Slots
      /\ c_func \in [Slots -> Fns \cup {NONE}] /\ calltodo[i] \in Slots
  BY ElementOfSeq DEF Inv, Typed
<1>4. /\ NoRepeats(calltodo) /\ callfree = Slots \ Elements(calltodo)
      /\ \A r \in Elements(calltodo) : c_func[r] \in Fns
  BY AccountedFacts DEF Inv
<1>5. /\ NoRepeats(calltodo')
      /\ Elements(calltodo') = Elements(calltodo) \ {calltodo[i]}
  BY <1>1, <1>3, <1>4, RemoveAtElements
<1>6. calltodo' \in Seq(Slots)
  BY <1>1, <1>3, RemoveAtSeq
<1>7. callfree' = Slots \ Elements(calltodo') /\ callfree' \subseteq Slots
  BY <1>1, <1>3, <1>4, <1>5, Zenon
<1>8. \A r \in Elements(calltodo') : c_func'[r] \in Fns
  BY <1>2, <1>4, <1>5, Zenon
<1> QED BY <1>2, <1>3, <1>5, <1>6, <1>7, <1>8, AccountedNext DEF Inv, Typed

(* softclock takes the first entry off the queue and frees it.             *)
LEMMA SoftclockCallInv ==
  ASSUME Inv, SoftclockCall
  PROVE  Inv'
<1>1. /\ calltodo # <<>> /\ calltodo' = Tail(calltodo)
      /\ callfree' = callfree \cup {Head(calltodo)}
      /\ c_func' = c_func
  BY DEF SoftclockCall, Due, Freed
<1>2. /\ calltodo \in Seq(Slots) /\ callfree \subseteq Slots
      /\ c_func \in [Slots -> Fns \cup {NONE}]
  BY DEF Inv, Typed
<1>3. /\ NoRepeats(calltodo) /\ callfree = Slots \ Elements(calltodo)
      /\ \A r \in Elements(calltodo) : c_func[r] \in Fns
  BY AccountedFacts DEF Inv
<1>4. /\ calltodo' \in Seq(Slots) /\ Head(calltodo) \in Slots
      /\ NoRepeats(calltodo')
      /\ Elements(calltodo') = Elements(calltodo) \ {Head(calltodo)}
  BY <1>1, <1>2, <1>3, TailElements
<1>5. callfree' = Slots \ Elements(calltodo') /\ callfree' \subseteq Slots
  BY <1>1, <1>2, <1>3, <1>4, Zenon
<1>6. \A r \in Elements(calltodo') : c_func'[r] \in Fns
  BY <1>1, <1>3, <1>4, Zenon
<1> QED BY <1>1, <1>2, <1>4, <1>5, <1>6, AccountedNext DEF Inv, Typed

(* A step that leaves the queue and the functions alone.                   *)
LEMMA QuietInv ==
  ASSUME Inv, UNCHANGED <<calltodo, callfree, c_func>>
  PROVE  Inv'
BY DEF Inv, Typed, Accounted

LEMMA NextInv == Inv /\ [Next]_vars => Inv'
<1> SUFFICES ASSUME Inv, [Next]_vars PROVE Inv'
  OBVIOUS
<1>1. ASSUME NEW f \in Fns, NEW tim \in Ticks, Timeout(f, tim) PROVE Inv'
  BY <1>1, TimeoutInv
<1>2. ASSUME NEW f \in Fns, Untimeout(f) PROVE Inv'
  BY <1>2, UntimeoutInv
<1>3. CASE Hardclock
  BY <1>3, QuietInv DEF Hardclock
<1>4. CASE SoftclockEnter
  BY <1>4, QuietInv DEF SoftclockEnter
<1>5. CASE SoftclockCall
  BY <1>5, SoftclockCallInv
<1>6. CASE SoftclockReturn
  BY <1>6, QuietInv DEF SoftclockReturn
<1>7. CASE SoftclockLeave
  BY <1>7, QuietInv DEF SoftclockLeave
<1>8. CASE UNCHANGED vars
  BY <1>8, QuietInv DEF vars
<1> QED BY <1>1, <1>2, <1>3, <1>4, <1>5, <1>6, <1>7, <1>8 DEF Next, Softclock

(* No entry of the table is lost or linked twice, whatever the order of    *)
(* timeout, untimeout, ticks and calls (kern_clock.c, timeout, untimeout   *)
(* and softclock).                                                         *)
THEOREM AlwaysAccounted == Spec => []Accounted
<1>1. Init => Inv
  BY InitInv
<1>2. Inv /\ [Next]_vars => Inv'
  BY NextInv
<1>3. Inv => Accounted
  BY DEF Inv
<1> QED BY <1>1, <1>2, <1>3, PTL DEF Spec

-----------------------------------------------------------------------------
(* The table does not overflow, if no function may be queued twice.        *)

Unique ==
  \A s, r \in Elements(calltodo) : c_func[s] = c_func[r] => s = r

UInv == Inv /\ Unique /\ NoPanic

(* The queue is finite, so a function with no entry can be recognised.     *)
LEMMA NotQueued ==
  ASSUME Typed, NEW f \in Fns, Cardinality(Queued(f)) < 1
  PROVE  Queued(f) = {}
<1>1. Len(calltodo) \in Nat
  BY DEF Typed
<1>2. IsFiniteSet(1..Len(calltodo))
  BY <1>1, FS_Interval
<1>3. IsFiniteSet(Queued(f))
  BY <1>2, FS_Subset DEF Queued
<1>4. Cardinality(Queued(f)) \in Nat
  BY <1>3, FS_CardinalityType
<1>5. Cardinality(Queued(f)) = 0
  BY <1>4
<1> QED BY <1>3, <1>5, FS_EmptySet

(* A full table has an entry for every function, f too.                    *)
LEMMA Room ==
  ASSUME Cardinality(Fns) <= Cardinality(Slots), Inv, Unique,
         NEW f \in Fns, Queued(f) = {}
  PROVE  callfree # {}
<1> SUFFICES ASSUME callfree = {} PROVE FALSE
  OBVIOUS
<1>1. /\ callfree = Slots \ Elements(calltodo)
      /\ \A s \in Elements(calltodo) : c_func[s] \in Fns
      /\ c_func \in [Slots -> Fns \cup {NONE}]
  BY AccountedFacts DEF Inv, Typed
<1>2. \A s \in Slots : s \in Elements(calltodo)
  BY <1>1
<1>3. \A s \in Elements(calltodo) : c_func[s] # f
  BY Zenon DEF Queued, Elements
<1>4. c_func \in [Slots -> Fns \ {f}]
  BY <1>1, <1>2, <1>3
<1>5. /\ IsFiniteSet(Slots) /\ IsFiniteSet(Fns)
      /\ Cardinality(Slots) \in Nat /\ Cardinality(Fns) \in Nat
  BY CalloutAssumption, FS_CardinalityType
<1>6. /\ IsFiniteSet(Fns \ {f})
      /\ Cardinality(Fns \ {f}) = Cardinality(Fns) - 1
  BY <1>5, FS_RemoveElement
<1>7. Cardinality(Fns \ {f}) < Cardinality(Slots)
  BY <1>5, <1>6
<1>8. \E s, r \in Slots : s # r /\ c_func[s] = c_func[r]
  BY <1>4, <1>5, <1>6, <1>7, FS_PigeonHole
<1> QED BY <1>2, <1>8 DEF Unique

(* A step after which fewer entries are queued, for the same functions.    *)
LEMMA FewerUnique ==
  ASSUME Unique, Elements(calltodo') \subseteq Elements(calltodo), c_func' = c_func
  PROVE  Unique'
BY DEF Unique

LEMMA TimeoutUnique ==
  ASSUME \A g \in Fns : Most[g] = 1, Cardinality(Fns) <= Cardinality(Slots), UInv,
         NEW f \in Fns, NEW tim \in Ticks, Timeout(f, tim)
  PROVE  Unique' /\ NoPanic'
<1>1. Queued(f) = {}
  BY NotQueued DEF Timeout, UInv, Inv
<1>2. callfree # {}
  BY <1>1, Room DEF UInv
<1>3. PICK s \in callfree, k \in 0..Len(calltodo) :
        /\ calltodo' = InsertAt(calltodo, k + 1, s)
        /\ c_func' = [c_func EXCEPT ![s] = f]
        /\ panicked' = panicked
  BY <1>2 DEF Timeout
<1>4. /\ calltodo \in Seq(Slots) /\ s \in Slots /\ c_func \in [Slots -> Fns \cup {NONE}]
  BY DEF UInv, Inv, Typed
<1>5. NoRepeats(calltodo) /\ s \notin Elements(calltodo)
  BY AccountedFacts DEF UInv, Inv
<1>6. Elements(calltodo') = Elements(calltodo) \cup {s}
  BY <1>3, <1>4, <1>5, InsertAtElements
<1>7. \A r \in Elements(calltodo) : c_func'[r] = c_func[r] /\ c_func[r] # f
  <2>1. \A r \in Elements(calltodo) : c_func[r] # f
    BY <1>1, Zenon DEF Queued, Elements
  <2> QED BY <1>3, <1>4, <1>5, <2>1
<1>8. c_func'[s] = f
  BY <1>3, <1>4
<1>9. Unique
  BY DEF UInv
<1>10. Unique'
  BY <1>6, <1>7, <1>8, <1>9, Zenon DEF Unique
<1> QED BY <1>3, <1>10 DEF UInv, NoPanic

LEMMA NextUInv ==
  ASSUME \A f \in Fns : Most[f] = 1, Cardinality(Fns) <= Cardinality(Slots)
  PROVE  UInv /\ [Next]_vars => UInv'
<1> SUFFICES ASSUME UInv, [Next]_vars PROVE Unique' /\ NoPanic'
  BY NextInv DEF UInv
<1>1. ASSUME NEW f \in Fns, NEW tim \in Ticks, Timeout(f, tim)
      PROVE  Unique' /\ NoPanic'
  BY <1>1, TimeoutUnique
<1>2. ASSUME NEW f \in Fns, Untimeout(f) PROVE Unique' /\ NoPanic'
  <2>1. PICK i \in 1..Len(calltodo) : calltodo' = RemoveAt(calltodo, i)
    BY <1>2 DEF Untimeout
  <2>2. c_func' = c_func /\ panicked' = panicked
    BY <1>2 DEF Untimeout
  <2>3. calltodo \in Seq(Slots) /\ NoRepeats(calltodo)
    BY AccountedFacts DEF UInv, Inv, Typed
  <2>4. Elements(calltodo') \subseteq Elements(calltodo)
    BY <2>1, <2>3, RemoveAtElements
  <2> QED BY <2>2, <2>4, FewerUnique DEF UInv, NoPanic
<1>3. CASE SoftclockCall
  <2>1. /\ calltodo # <<>> /\ calltodo' = Tail(calltodo)
        /\ c_func' = c_func /\ panicked' = panicked
    BY <1>3 DEF SoftclockCall, Due
  <2>2. calltodo \in Seq(Slots) /\ NoRepeats(calltodo)
    BY AccountedFacts DEF UInv, Inv, Typed
  <2>3. Elements(calltodo') \subseteq Elements(calltodo)
    BY <2>1, <2>2, TailElements
  <2> QED BY <2>1, <2>3, FewerUnique DEF UInv, NoPanic
<1>4. CASE UNCHANGED <<calltodo, c_func, panicked>>
  BY <1>4 DEF UInv, Unique, NoPanic
<1> QED BY <1>1, <1>2, <1>3, <1>4
        DEF Next, Hardclock, Softclock, SoftclockEnter, SoftclockReturn, SoftclockLeave, vars

(* A table with as many entries as there are functions never overflows,    *)
(* if nobody asks for a function that is on the queue, as drivers that     *)
(* restart their own timers do (kern_clock.c, timeout).                    *)
THEOREM NeverOverflows ==
  ASSUME \A f \in Fns : Most[f] = 1, Cardinality(Fns) <= Cardinality(Slots)
  PROVE  Spec => []NoPanic
<1>1. Init => UInv
  <2> SUFFICES ASSUME Init PROVE UInv
    OBVIOUS
  <2>1. Inv
    BY InitInv
  <2>2. Len(calltodo) = 0 /\ 1..0 = {} /\ panicked = FALSE
    BY DEF Init
  <2> QED BY <2>1, <2>2 DEF UInv, Unique, Elements, NoPanic
<1>2. UInv /\ [Next]_vars => UInv'
  BY NextUInv
<1>3. UInv => NoPanic
  BY DEF UInv
<1> QED BY <1>1, <1>2, <1>3, PTL DEF Spec

-----------------------------------------------------------------------------
(* The queue as a list of times.  Waited, Left and Ordered for any list q  *)
(* of entries with differences c.                                          *)

Reached(q, c, k)   == { q[i] : i \in { j \in 1..k : c[q[j]] > 0 } }
WaitedIn(q, c, k)  == SumFunctionOnSet(c, Reached(q, c, k))
DueIn(q, c, k)     == \A j \in 1..k : c[q[j]] <= 0
LeftIn(q, c, k)    == IF DueIn(q, c, k) THEN c[q[k]] ELSE WaitedIn(q, c, k)
OrderedIn(q, c)    ==
  \A i \in 1..(Len(q) - 1) :
    IF DueIn(q, c, i + 1) THEN c[q[i]] <= c[q[i + 1]] ELSE c[q[i + 1]] >= 0

(* L is the list of the times at which the entries come due: in order, and *)
(* c the differences, counted from now if the time before is past.         *)
Over(n)      == IF n > 0 THEN n ELSE 0
Before(L, i) == IF i = 1 THEN 0 ELSE Over(L[i - 1])
Times(q, c, L) ==
  /\ L \in [1..Len(q) -> Int]
  /\ \A i \in 1..Len(q) : /\ c[q[i]] = L[i] - Before(L, i)
                          /\ \A j \in 1..i : L[j] <= L[i]

(* A list of n times with t in place k; without the one in place k; a tick *)
(* later.                                                                  *)
WithTime(L, n, k, t) == [i \in 1..(n + 1) |-> IF i < k THEN L[i]
                                             ELSE IF i = k THEN t ELSE L[i - 1]]
WithoutTime(L, n, k) == [i \in 1..(n - 1) |-> IF i < k THEN L[i] ELSE L[i + 1]]
Nearer(L, n)         == [i \in 1..n |-> L[i] - 1]

(* The ticks before entry k and its own, and those before the first.       *)
LEMMA WaitedStep ==
  ASSUME NEW S, IsFiniteSet(S), NEW q \in Seq(S), NoRepeats(q), NEW c \in [S -> Int], NEW k \in 1..Len(q)
  PROVE  WaitedIn(q, c, k) = WaitedIn(q, c, k - 1) + Over(c[q[k]])
<1> DEFINE P == Reached(q, c, k)
           Q == Reached(q, c, k - 1)
<1>1. /\ Len(q) \in Nat /\ k \in Nat \ {0} /\ k <= Len(q)
      /\ \A i \in 1..k : q[i] \in S /\ c[q[i]] \in Int
  <2>1. Len(q) \in Nat /\ k \in Nat \ {0} /\ k <= Len(q)
    OBVIOUS
  <2>2. \A i \in 1..k : q[i] \in S
    BY <2>1, ElementOfSeq
  <2> QED BY <2>1, <2>2
<1>2. IsFiniteSet(P) /\ IsFiniteSet(Q) /\ Q \subseteq S /\ P \subseteq S
  <2>1. Q \subseteq S /\ P \subseteq S
    BY <1>1 DEF Reached
  <2> HIDE DEF P, Q
  <2> QED BY <2>1, FS_Subset
<1>3. WaitedIn(q, c, k - 1) \in Int
  BY <1>2, SumInt DEF WaitedIn
<1>4. CASE c[q[k]] > 0
  <2>1. P \ {q[k]} = Q /\ q[k] \in P
    <3>1. ASSUME NEW x \in P \ {q[k]} PROVE x \in Q
      <4>1. PICK i \in 1..k : x = q[i] /\ c[q[i]] > 0
        BY <3>1 DEF Reached
      <4>2. i # k
        BY <3>1, <4>1
      <4> QED BY <1>1, <4>1, <4>2 DEF Reached
    <3>2. ASSUME NEW x \in Q PROVE x \in P /\ x # q[k]
      <4>1. PICK i \in 1..(k - 1) : x = q[i] /\ c[q[i]] > 0
        BY <3>2 DEF Reached
      <4>2. i \in 1..k /\ i # k /\ i \in 1..Len(q) /\ k \in 1..Len(q)
        BY <1>1, <4>1
      <4> QED BY <4>1, <4>2 DEF Reached, NoRepeats
    <3>3. q[k] \in P
      BY <1>1, <1>4 DEF Reached
    <3> HIDE DEF P, Q
    <3> QED BY <3>1, <3>2, <3>3
  <2>2. SumFunctionOnSet(c, P) = c[q[k]] + SumFunctionOnSet(c, P \ {q[k]})
    <3>1. \A x \in P : c[x] \in Int
      BY <1>2
    <3> HIDE DEF P
    <3> QED BY <1>2, <2>1, <3>1, SumWithout
  <2>3. WaitedIn(q, c, k) = c[q[k]] + WaitedIn(q, c, k - 1)
    BY <2>1, <2>2 DEF WaitedIn
  <2>4. c[q[k]] \in Int
    BY <1>1
  <2> QED BY <1>3, <1>4, <2>3, <2>4 DEF Over
<1>5. CASE ~(c[q[k]] > 0)
  <2>1. P = Q
    BY <1>1, <1>5 DEF Reached
  <2> QED BY <1>3, <1>5, <2>1 DEF WaitedIn, Over
<1> QED BY <1>4, <1>5

LEMMA WaitedZero ==
  ASSUME NEW q, NEW c
  PROVE  WaitedIn(q, c, 0) = 0
<1>1. Reached(q, c, 0) = {} /\ IsFiniteSet({})
  BY FS_EmptySet DEF Reached
<1> QED BY <1>1, SumStep DEF WaitedIn
(* What timeout computes of a list of times: how long until the last.      *)
LEMMA TimesWaited ==
  ASSUME NEW S, IsFiniteSet(S), NEW q \in Seq(S), NoRepeats(q), NEW c \in [S -> Int],
         NEW L, Times(q, c, L), NEW k \in 1..Len(q)
  PROVE  WaitedIn(q, c, k) = Over(L[k]) /\ (DueIn(q, c, k) <=> L[k] <= 0)
<1> DEFINE Good(i) == WaitedIn(q, c, i) = Over(L[i]) /\ (DueIn(q, c, i) <=> L[i] <= 0)
           T == { i \in 1..Len(q) : ~Good(i) }
<1> SUFFICES ASSUME T # {} PROVE FALSE
  BY Zenon
<1>1. Len(q) \in Nat /\ T \subseteq 1..Len(q)
  OBVIOUS
<1>2. PICK i \in T : \A j \in 1..(i - 1) : j \notin T
  <2> HIDE DEF T
  <2> QED BY <1>1, LeastOf
<1>3. i \in 1..Len(q) /\ ~Good(i)
  BY <1>2
<1>4. L[i] \in Int /\ c[q[i]] = L[i] - Before(L, i)
  BY <1>3 DEF Times
<1>5. WaitedIn(q, c, i) = WaitedIn(q, c, i - 1) + Over(c[q[i]])
  BY <1>3, WaitedStep
<1>6. DueIn(q, c, i) <=> DueIn(q, c, i - 1) /\ c[q[i]] <= 0
  BY <1>3 DEF DueIn
<1>7. CASE i = 1
  <2>1. c[q[i]] = L[i]
    BY <1>4, <1>7 DEF Before
  <2>2. WaitedIn(q, c, i - 1) = 0 /\ DueIn(q, c, i - 1)
    BY <1>7, WaitedZero DEF DueIn
  <2>3. Good(i)
    BY <1>4, <1>5, <1>6, <2>1, <2>2 DEF Over
  <2> QED BY <1>3, <2>3
<1>8. CASE i # 1
  <2>1. i - 1 \in 1..Len(q) /\ i - 1 \in 1..(i - 1) /\ i - 1 \in 1..i /\ i # 1
    BY <1>3, <1>8
  <2>2. Good(i - 1)
    BY <1>2, <2>1
  <2>3. L[i - 1] \in Int /\ L[i - 1] <= L[i] /\ c[q[i]] = L[i] - Over(L[i - 1])
    <3>1. L[i - 1] \in Int /\ L[i - 1] <= L[i]
      BY <1>3, <2>1 DEF Times
    <3> QED BY <1>4, <2>1, <3>1 DEF Before
  <2>4. Good(i)
    BY <1>4, <1>5, <1>6, <2>2, <2>3 DEF Over
  <2> QED BY <1>3, <2>4
<1> QED BY <1>7, <1>8

(* A list of times in order is what hardclock's comment says.              *)
LEMMA TimesOrdered ==
  ASSUME NEW S, IsFiniteSet(S), NEW q \in Seq(S), NoRepeats(q), NEW c \in [S -> Int],
         NEW L, Times(q, c, L)
  PROVE  OrderedIn(q, c) /\ \A k \in 1..Len(q) : LeftIn(q, c, k) = L[k]
<1>1. ASSUME NEW k \in 1..Len(q) PROVE LeftIn(q, c, k) = L[k]
  <2>1. WaitedIn(q, c, k) = Over(L[k]) /\ (DueIn(q, c, k) <=> L[k] <= 0)
    BY TimesWaited
  <2>2. L[k] \in Int /\ c[q[k]] = L[k] - Before(L, k)
    BY DEF Times
  <2>3. CASE DueIn(q, c, k)
    <3>1. ASSUME k # 1 PROVE L[k - 1] \in Int /\ L[k - 1] <= L[k]
      BY <3>1 DEF Times
    <3>2. Before(L, k) = 0
      BY <2>1, <2>2, <2>3, <3>1 DEF Before, Over
    <3> QED BY <2>2, <2>3, <3>2 DEF LeftIn
  <2>4. CASE ~DueIn(q, c, k)
    BY <2>1, <2>2, <2>4 DEF LeftIn, Over
  <2> QED BY <2>3, <2>4
<1>2. ASSUME NEW i \in 1..(Len(q) - 1)
      PROVE  IF DueIn(q, c, i + 1) THEN c[q[i]] <= c[q[i + 1]] ELSE c[q[i + 1]] >= 0
  <2>1. /\ i \in 1..Len(q) /\ i + 1 \in 1..Len(q) /\ i \in 1..(i + 1)
        /\ i + 1 # 1 /\ (i + 1) - 1 = i
    OBVIOUS
  <2>2. /\ DueIn(q, c, i + 1) <=> L[i + 1] <= 0
        /\ DueIn(q, c, i + 1) => c[q[i]] = L[i] /\ c[q[i + 1]] = L[i + 1]
    <3>1. DueIn(q, c, i + 1) => DueIn(q, c, i)
      BY <2>1 DEF DueIn
    <3>2. DueIn(q, c, i + 1) <=> L[i + 1] <= 0
      BY <2>1, TimesWaited
    <3>3. LeftIn(q, c, i) = L[i] /\ LeftIn(q, c, i + 1) = L[i + 1]
      BY <1>1, <2>1
    <3> QED BY <3>1, <3>2, <3>3 DEF LeftIn
  <2>3. /\ L[i] \in Int /\ L[i + 1] \in Int /\ L[i] <= L[i + 1]
        /\ c[q[i + 1]] = L[i + 1] - Over(L[i])
    <3>1. L[i] \in Int /\ L[i + 1] \in Int /\ L[i] <= L[i + 1]
      BY <2>1 DEF Times
    <3>2. c[q[i + 1]] = L[i + 1] - Before(L, i + 1)
      BY <2>1 DEF Times
    <3> QED BY <2>1, <3>1, <3>2 DEF Before
  <2> QED BY <2>2, <2>3 DEF Over
<1> QED BY <1>1, <1>2 DEF OrderedIn

(* timeout's entry goes between the times before and those behind its own. *)
LEMMA InsertTimes ==
  ASSUME NEW S, NEW q \in Seq(S), NoRepeats(q), NEW c, NEW L, Times(q, c, L),
         NEW n \in 1..(Len(q) + 1), NEW s \in S, s \notin Elements(q), NEW t \in Nat, NEW d,
         \A i \in 1..(n - 1) : L[i] <= t,
         \A i \in n..Len(q) : t <= L[i],
         d[s] = t - Before(L, n),
         n <= Len(q) => d[q[n]] = c[q[n]] - (t - Before(L, n)),
         \A i \in 1..Len(q) : i # n => d[q[i]] = c[q[i]]
  PROVE  Times(InsertAt(q, n, s), d, WithTime(L, Len(q), n, t))
<1> DEFINE r == InsertAt(q, n, s)
           M == WithTime(L, Len(q), n, t)
<1>1. /\ Len(r) = Len(q) + 1
      /\ \A i \in 1..(Len(q) + 1) : r[i] = IF i < n THEN q[i] ELSE IF i = n THEN s ELSE q[i - 1]
  BY InsertAtIs
<1>2. Len(q) \in Nat /\ n \in Nat \ {0} /\ n <= Len(q) + 1
  OBVIOUS
<1>3. L \in [1..Len(q) -> Int]
  BY DEF Times
<1>4. \A i \in 1..Len(q) : c[q[i]] = L[i] - Before(L, i) /\ \A j \in 1..i : L[j] <= L[i]
  BY DEF Times
<1>5. M \in [1..Len(r) -> Int]
  BY <1>1, <1>2, <1>3 DEF WithTime
<1>6. \A i \in 1..(Len(q) + 1) :
        M[i] = IF i < n THEN L[i] ELSE IF i = n THEN t ELSE L[i - 1]
  BY DEF WithTime
<1> HIDE DEF M, r
<1>7. ASSUME NEW i \in 1..Len(r) PROVE d[r[i]] = M[i] - Before(M, i)
  <2>1. i \in Nat \ {0} /\ i <= Len(q) + 1 /\ i \in 1..(Len(q) + 1)
    BY <1>1, <1>2
  <2>2. CASE i < n
    <3>1. i \in 1..Len(q) /\ i # n /\ r[i] = q[i] /\ M[i] = L[i]
      BY <1>1, <1>2, <1>6, <2>1, <2>2
    <3>2. i # 1 => M[i - 1] = L[i - 1]
      BY <1>2, <1>6, <2>1, <2>2
    <3>3. Before(M, i) = Before(L, i)
      BY <3>2 DEF Before
    <3> QED BY <1>4, <3>1, <3>3
  <2>3. CASE i = n
    <3>1. r[i] = s /\ M[i] = t
      BY <1>1, <1>2, <1>6, <2>1, <2>3
    <3>2. i # 1 => M[i - 1] = L[i - 1]
      BY <1>2, <1>6, <2>1, <2>3
    <3>3. Before(M, i) = Before(L, n)
      BY <2>3, <3>2 DEF Before
    <3> QED BY <3>1, <3>3
  <2>4. CASE i = n + 1
    <3>1. /\ r[i] = q[n] /\ M[i] = L[n] /\ i # 1 /\ M[i - 1] = t /\ n <= Len(q)
          /\ n \in 1..Len(q)
      BY <1>1, <1>2, <1>6, <2>1, <2>4
    <3>2. Before(M, i) = t
      BY <3>1 DEF Before, Over
    <3>3. c[q[n]] = L[n] - Before(L, n) /\ L[n] \in Int
      BY <1>3, <1>4, <3>1
    <3>4. Before(L, n) \in Int
      BY <1>2, <1>3 DEF Before, Over
    <3> QED BY <3>1, <3>2, <3>3, <3>4
  <2>5. CASE i > n + 1
    <3>1. /\ r[i] = q[i - 1] /\ M[i] = L[i - 1] /\ i # 1 /\ M[i - 1] = L[i - 2]
          /\ i - 1 \in 1..Len(q) /\ i - 1 # n /\ i - 1 # 1 /\ (i - 1) - 1 = i - 2
      BY <1>1, <1>2, <1>6, <2>1, <2>5
    <3>2. Before(M, i) = Before(L, i - 1)
      BY <3>1 DEF Before
    <3> QED BY <1>4, <3>1, <3>2
  <2> QED BY <1>2, <2>1, <2>2, <2>3, <2>4, <2>5
<1>8. ASSUME NEW i \in 1..Len(r), NEW j \in 1..i PROVE M[j] <= M[i]
  <2>1. /\ i \in 1..(Len(q) + 1) /\ j \in 1..(Len(q) + 1)
        /\ i \in Nat \ {0} /\ j \in Nat \ {0} /\ j <= i /\ i <= Len(q) + 1
    BY <1>1, <1>2
  <2>2. CASE i < n
    <3>1. i \in 1..Len(q) /\ M[i] = L[i] /\ M[j] = L[j]
      BY <1>2, <1>6, <2>1, <2>2
    <3> QED BY <1>4, <3>1
  <2>3. CASE i = n
    BY <1>2, <1>6, <2>1, <2>3
  <2>4. CASE i > n
    <3>1. M[i] = L[i - 1] /\ i - 1 \in 1..Len(q) /\ i - 1 \in n..Len(q)
      BY <1>2, <1>6, <2>1, <2>4
    <3>2. CASE j < n
      BY <1>2, <1>4, <1>6, <2>1, <2>4, <3>1, <3>2
    <3>3. CASE j = n
      BY <1>6, <2>1, <2>4, <3>1, <3>3
    <3>4. CASE j > n
      <4>1. M[j] = L[j - 1] /\ j - 1 \in 1..(i - 1)
        BY <1>2, <1>6, <2>1, <3>4
      <4> QED BY <1>4, <3>1, <4>1
    <3> QED BY <1>2, <2>1, <3>2, <3>3, <3>4
  <2> QED BY <1>2, <2>1, <2>2, <2>3, <2>4
<1>9. Times(r, d, M)
  BY <1>5, <1>7, <1>8 DEF Times
<1> QED BY <1>9 DEF M, r

(* untimeout takes a time out of the list.                                 *)
LEMMA RemoveTimes ==
  ASSUME NEW S, NEW q \in Seq(S), NoRepeats(q), NEW c, NEW L, Times(q, c, L),
         NEW k \in 1..Len(q), NEW d,
         k < Len(q) => d[q[k + 1]] = c[q[k + 1]] + Over(c[q[k]]),
         \A i \in 1..Len(q) : i # k + 1 => d[q[i]] = c[q[i]]
  PROVE  Times(RemoveAt(q, k), d,
               WithoutTime(L, Len(q), k))
<1> DEFINE r == RemoveAt(q, k)
           M == WithoutTime(L, Len(q), k)
<1>1. /\ Len(r) = Len(q) - 1
      /\ \A i \in 1..(Len(q) - 1) : r[i] = IF i < k THEN q[i] ELSE q[i + 1]
  BY RemoveAtSeq
<1>2. Len(q) \in Nat /\ k \in Nat \ {0} /\ k <= Len(q)
  OBVIOUS
<1>3. L \in [1..Len(q) -> Int]
  BY DEF Times
<1>4. \A i \in 1..Len(q) : c[q[i]] = L[i] - Before(L, i) /\ \A j \in 1..i : L[j] <= L[i]
  BY DEF Times
<1>5. M \in [1..Len(r) -> Int]
  BY <1>1, <1>2, <1>3 DEF WithoutTime
<1>6. \A i \in 1..(Len(q) - 1) : M[i] = IF i < k THEN L[i] ELSE L[i + 1]
  BY DEF WithoutTime
<1> HIDE DEF M, r
<1>7. ASSUME NEW i \in 1..Len(r) PROVE d[r[i]] = M[i] - Before(M, i)
  <2>1. i \in Nat \ {0} /\ i <= Len(q) - 1 /\ i \in 1..(Len(q) - 1)
    BY <1>1, <1>2
  <2>2. CASE i < k
    <3>1. i \in 1..Len(q) /\ i # k + 1 /\ r[i] = q[i] /\ M[i] = L[i]
      BY <1>1, <1>2, <1>6, <2>1, <2>2
    <3>2. i # 1 => M[i - 1] = L[i - 1]
      BY <1>2, <1>6, <2>1, <2>2
    <3>3. Before(M, i) = Before(L, i)
      BY <3>2 DEF Before
    <3> QED BY <1>4, <3>1, <3>3
  <2>3. CASE i = k
    <3>1. /\ r[i] = q[k + 1] /\ M[i] = L[k + 1] /\ k + 1 \in 1..Len(q) /\ k < Len(q)
          /\ k \in 1..(k + 1) /\ k + 1 # 1 /\ (k + 1) - 1 = k
      BY <1>1, <1>2, <1>6, <2>1, <2>3
    <3>2. c[q[k + 1]] = L[k + 1] - Over(L[k])
      BY <1>4, <3>1 DEF Before
    <3>3. /\ L[k + 1] \in Int /\ L[k] \in Int
          /\ c[q[k]] = L[k] - Before(L, k)
      BY <1>2, <1>3, <1>4, <3>1
    <3>4. /\ Before(M, i) = Before(L, k) /\ Before(L, k) \in Int /\ Before(L, k) >= 0
          /\ L[k] > 0 => Before(L, k) <= L[k]
          /\ L[k] <= 0 => Before(L, k) = 0
      <4>1. CASE k = 1
        BY <2>3, <3>3, <4>1 DEF Before
      <4>2. CASE k # 1
        <5>1. k - 1 \in 1..Len(q) /\ k - 1 \in 1..k /\ k - 1 < k /\ k - 1 \in 1..(Len(q) - 1)
          BY <1>2, <3>1, <4>2
        <5>2. L[k - 1] \in Int /\ L[k - 1] <= L[k] /\ M[i - 1] = L[k - 1]
          BY <1>3, <1>4, <1>6, <2>3, <5>1
        <5> QED BY <2>3, <3>3, <4>2, <5>2 DEF Before, Over
      <4> QED BY <4>1, <4>2
    <3>5. Over(c[q[k]]) = Over(L[k]) - Before(L, k)
      BY <3>3, <3>4 DEF Over
    <3>6. Over(L[k]) \in Int
      BY <3>3 DEF Over
    <3> QED BY <3>1, <3>2, <3>3, <3>4, <3>5, <3>6
  <2>4. CASE i > k
    <3>1. /\ r[i] = q[i + 1] /\ M[i] = L[i + 1] /\ i # 1 /\ M[i - 1] = L[i]
          /\ i + 1 \in 1..Len(q) /\ i + 1 # k + 1 /\ i + 1 # 1 /\ (i + 1) - 1 = i
      BY <1>1, <1>2, <1>6, <2>1, <2>4
    <3>2. Before(M, i) = Before(L, i + 1)
      BY <3>1 DEF Before
    <3> QED BY <1>4, <3>1, <3>2
  <2> QED BY <1>2, <2>1, <2>2, <2>3, <2>4
<1>8. ASSUME NEW i \in 1..Len(r), NEW j \in 1..i PROVE M[j] <= M[i]
  <2>1. /\ i \in 1..(Len(q) - 1) /\ j \in 1..(Len(q) - 1)
        /\ i \in Nat \ {0} /\ j \in Nat \ {0} /\ j <= i
    BY <1>1, <1>2
  <2>2. PICK a \in 1..Len(q), b \in 1..Len(q) :
                b \in 1..a /\ M[i] = L[a] /\ M[j] = L[b]
    <3>1. CASE i < k
      <4>1. i \in 1..Len(q) /\ j \in 1..i /\ j \in 1..Len(q) /\ M[i] = L[i] /\ M[j] = L[j]
        BY <1>2, <1>6, <2>1, <3>1
      <4> QED BY <4>1
    <3>2. CASE i >= k /\ j < k
      <4>1. /\ i + 1 \in 1..Len(q) /\ j \in 1..(i + 1) /\ j \in 1..Len(q)
              /\ M[i] = L[i + 1] /\ M[j] = L[j]
        BY <1>2, <1>6, <2>1, <3>2
      <4> QED BY <4>1
    <3>3. CASE i >= k /\ j >= k
      <4>1. /\ i + 1 \in 1..Len(q) /\ j + 1 \in 1..(i + 1) /\ j + 1 \in 1..Len(q)
              /\ M[i] = L[i + 1] /\ M[j] = L[j + 1]
        BY <1>2, <1>6, <2>1, <3>3
      <4> QED BY <4>1
    <3> QED BY <1>2, <2>1, <3>1, <3>2, <3>3
  <2> QED BY <1>4, <2>2
<1>9. Times(r, d, M)
  BY <1>5, <1>7, <1>8 DEF Times
<1> QED BY <1>9 DEF M, r

(* A tick brings every time nearer, by counting what is due and one more.  *)
LEMMA TickTimes ==
  ASSUME NEW S, IsFiniteSet(S), NEW q \in Seq(S), NoRepeats(q), NEW c \in [S -> Int],
         NEW L, Times(q, c, L), NEW d,
         \A i \in 1..Len(q) : d[q[i]] = IF DueIn(q, c, i - 1) THEN c[q[i]] - 1 ELSE c[q[i]]
  PROVE  Times(q, d, Nearer(L, Len(q)))
<1> DEFINE M == Nearer(L, Len(q))
<1>1. L \in [1..Len(q) -> Int] /\ Len(q) \in Nat
  BY DEF Times
<1>2. \A i \in 1..Len(q) : c[q[i]] = L[i] - Before(L, i) /\ \A j \in 1..i : L[j] <= L[i]
  BY DEF Times
<1>3. M \in [1..Len(q) -> Int] /\ \A i \in 1..Len(q) : M[i] = L[i] - 1
  BY <1>1 DEF Nearer
<1> HIDE DEF M
<1>4. ASSUME NEW i \in 1..Len(q) PROVE d[q[i]] = M[i] - Before(M, i)
  <2>1. CASE i = 1
    <3>1. DueIn(q, c, i - 1)
      BY <2>1 DEF DueIn
    <3>2. Before(M, i) = 0 /\ Before(L, i) = 0
      BY <2>1 DEF Before
    <3>3. /\ d[q[i]] = c[q[i]] - 1 /\ c[q[i]] = L[i] - 0 /\ M[i] = L[i] - 1
          /\ L[i] \in Int
      BY <1>1, <1>2, <1>3, <3>1, <3>2
    <3> QED BY <3>2, <3>3
  <2>2. CASE i # 1
    <3>1. i - 1 \in 1..Len(q)
      BY <1>1, <2>2
    <3>2. DueIn(q, c, i - 1) <=> L[i - 1] <= 0
      BY <3>1, TimesWaited
    <3>3. /\ L[i - 1] \in Int /\ L[i] \in Int /\ M[i - 1] = L[i - 1] - 1 /\ M[i] = L[i] - 1
          /\ c[q[i]] = L[i] - Over(L[i - 1])
      BY <1>1, <1>2, <1>3, <2>2, <3>1 DEF Before
    <3>4. Before(M, i) = Over(L[i - 1] - 1)
      BY <2>2, <3>3 DEF Before
    <3>5. d[q[i]] = IF L[i - 1] <= 0 THEN c[q[i]] - 1 ELSE c[q[i]]
      BY <3>2
    <3> QED BY <3>3, <3>4, <3>5 DEF Over
  <2> QED BY <2>1, <2>2
<1>5. ASSUME NEW i \in 1..Len(q), NEW j \in 1..i PROVE M[j] <= M[i]
  <2>1. j \in 1..Len(q)
    BY <1>1
  <2>2. L[i] \in Int /\ L[j] \in Int /\ M[i] = L[i] - 1 /\ M[j] = L[j] - 1 /\ L[j] <= L[i]
    BY <1>1, <1>2, <1>3, <2>1
  <2> QED BY <2>2
<1>6. Times(q, d, M)
  BY <1>3, <1>4, <1>5 DEF Times
<1> QED BY <1>6 DEF M

(* softclock takes off a first entry that is due.                          *)
LEMMA TailTimes ==
  ASSUME NEW S, NEW q \in Seq(S), q # <<>>, NEW c, NEW L, Times(q, c, L), L[1] <= 0
  PROVE  Times(Tail(q), c, WithoutTime(L, Len(q), 1))
<1> DEFINE r == Tail(q)
           M == WithoutTime(L, Len(q), 1)
<1>1. /\ Len(q) \in Nat \ {0} /\ Len(r) = Len(q) - 1
      /\ \A i \in 1..(Len(q) - 1) : r[i] = q[i + 1]
  OBVIOUS
<1>2. \A i \in 1..Len(q) : c[q[i]] = L[i] - Before(L, i) /\ \A j \in 1..i : L[j] <= L[i]
  BY DEF Times
<1>3. /\ L \in [1..Len(q) -> Int] /\ M \in [1..Len(r) -> Int]
      /\ \A i \in 1..(Len(q) - 1) : M[i] = L[i + 1]
  BY <1>1 DEF Times, WithoutTime
<1> HIDE DEF M, r
<1>4. ASSUME NEW i \in 1..Len(r) PROVE c[r[i]] = M[i] - Before(M, i)
  <2>1. /\ r[i] = q[i + 1] /\ M[i] = L[i + 1] /\ i + 1 \in 1..Len(q) /\ i + 1 # 1
        /\ (i + 1) - 1 = i
    BY <1>1, <1>3
  <2>2. Before(M, i) = Over(L[i])
    <3>1. CASE i = 1
      <4>1. L[1] \in Int
        BY <1>1, <1>3
      <4> QED BY <3>1, <4>1 DEF Before, Over
    <3>2. CASE i # 1
      <4>1. M[i - 1] = L[i]
        BY <1>1, <1>3, <3>2
      <4> QED BY <3>2, <4>1 DEF Before
    <3> QED BY <3>1, <3>2
  <2>3. Before(L, i + 1) = Over(L[i])
    BY <2>1 DEF Before
  <2> QED BY <1>2, <2>1, <2>2, <2>3
<1>5. ASSUME NEW i \in 1..Len(r), NEW j \in 1..i PROVE M[j] <= M[i]
  <2>1. /\ i + 1 \in 1..Len(q) /\ j + 1 \in 1..(i + 1)
        /\ M[i] = L[i + 1] /\ M[j] = L[j + 1]
    BY <1>1, <1>3
  <2> QED BY <1>2, <2>1
<1>6. Times(r, c, M)
  BY <1>3, <1>4, <1>5 DEF Times
<1> QED BY <1>6 DEF M, r

(* The difference is no more than the time, and the same if that is past.  *)
LEMMA TimesLate ==
  ASSUME NEW q, Len(q) \in Nat, NEW c, NEW L, Times(q, c, L), NEW i \in 1..Len(q)
  PROVE  /\ L[i] \in Int /\ c[q[i]] \in Int /\ c[q[i]] <= L[i]
         /\ L[i] >= 0 => c[q[i]] >= 0
         /\ L[i] <= 0 => c[q[i]] = L[i]
<1>1. L[i] \in Int /\ c[q[i]] = L[i] - Before(L, i)
  BY DEF Times
<1>2. CASE i = 1
  BY <1>1, <1>2 DEF Before
<1>3. CASE i # 1
  <2>1. i - 1 \in 1..Len(q) /\ i - 1 \in 1..i
    BY <1>3
  <2>2. L[i - 1] \in Int /\ L[i - 1] <= L[i]
    BY <2>1 DEF Times
  <2> QED BY <1>1, <1>3, <2>2 DEF Before, Over
<1> QED BY <1>2, <1>3

-----------------------------------------------------------------------------
(* The times of the queue, and what the steps do to them.                  *)

Lefts == [i \in 1..Len(calltodo) |-> Left(i)]

(* The differences are those of the times left, and no time is past by     *)
(* more than softclock may be held off.                                    *)
TimesInv ==
  /\ c_time \in [Slots -> Int]
  /\ soft \in BOOLEAN /\ panicked \in BOOLEAN
  /\ running \in {NONE, SCAN} \cup [fn : Fns, late : 0..MaxLate]
  /\ Times(calltodo, c_time, Lefts)
  /\ \A i \in 1..Len(calltodo) : Left(i) >= -MaxLate

WInv == Inv /\ TimesInv

(* What a list of times says of the queue, now and in the next state.      *)
LEMMA LeftsAre ==
  ASSUME calltodo \in Seq(Slots), NoRepeats(calltodo), c_time \in [Slots -> Int],
         NEW L, Times(calltodo, c_time, L)
  PROVE  Lefts = L /\ Ordered
<1>1. IsFiniteSet(Slots)
  BY CalloutAssumption
<1>2. OrderedIn(calltodo, c_time) /\ \A k \in 1..Len(calltodo) : LeftIn(calltodo, c_time, k) = L[k]
  BY <1>1, TimesOrdered
<1>3. \A k \in 1..Len(calltodo) : Left(k) = LeftIn(calltodo, c_time, k)
  BY Zenon DEF Left, LeftIn, DueIn, Waited, WaitedIn, Reached, Time
<1>4. L \in [1..Len(calltodo) -> Int]
  BY DEF Times
<1>5. Ordered
  BY <1>2 DEF Ordered, OrderedIn, DueIn, Time
<1> QED BY <1>2, <1>3, <1>4, <1>5 DEF Lefts

LEMMA LeftsNext ==
  ASSUME calltodo' \in Seq(Slots), NoRepeats(calltodo'), c_time' \in [Slots -> Int],
         NEW L, Times(calltodo', c_time', L)
  PROVE  Lefts' = L
<1>1. IsFiniteSet(Slots)
  BY CalloutAssumption
<1>2. \A k \in 1..Len(calltodo') : LeftIn(calltodo', c_time', k) = L[k]
  BY <1>1, TimesOrdered
<1>3. \A k \in 1..Len(calltodo') : Left(k)' = LeftIn(calltodo', c_time', k)
  BY Zenon DEF Left, LeftIn, DueIn, Waited, WaitedIn, Reached, Time
<1>4. L \in [1..Len(calltodo') -> Int]
  BY DEF Times
<1> QED BY <1>2, <1>3, <1>4 DEF Lefts

(* What the invariant says, in one place.                                  *)
LEMMA QueueFacts ==
  ASSUME WInv
  PROVE  /\ calltodo \in Seq(Slots) /\ Len(calltodo) \in Nat /\ NoRepeats(calltodo)
         /\ callfree = Slots \ Elements(calltodo)
         /\ c_time \in [Slots -> Int] /\ c_func \in [Slots -> Fns \cup {NONE}]
         /\ \A s \in Elements(calltodo) : c_func[s] \in Fns
         /\ Times(calltodo, c_time, Lefts) /\ Lefts \in [1..Len(calltodo) -> Int]
         /\ \A i \in 1..Len(calltodo) : Lefts[i] >= -MaxLate
         /\ \A i \in 1..Len(calltodo) : calltodo[i] \in Slots /\ calltodo[i] \in Elements(calltodo)
<1>1. Typed /\ Accounted /\ TimesInv
  BY DEF WInv, Inv
<1>2. /\ NoRepeats(calltodo) /\ callfree = Slots \ Elements(calltodo)
      /\ \A s \in Elements(calltodo) : c_func[s] \in Fns
  BY <1>1, AccountedFacts
<1>3. calltodo \in Seq(Slots) /\ c_func \in [Slots -> Fns \cup {NONE}]
  BY <1>1 DEF Typed
<1>4. /\ c_time \in [Slots -> Int] /\ Times(calltodo, c_time, Lefts)
      /\ \A i \in 1..Len(calltodo) : Left(i) >= -MaxLate
  BY <1>1 DEF TimesInv
<1>5. \A i \in 1..Len(calltodo) : Lefts[i] = Left(i)
  BY DEF Lefts
<1>6. Lefts \in [1..Len(calltodo) -> Int]
  BY <1>4 DEF Times
<1>7. \A i \in 1..Len(calltodo) : calltodo[i] \in Slots /\ calltodo[i] \in Elements(calltodo)
  BY <1>3, ElementOfSeq DEF Elements
<1>8. Len(calltodo) \in Nat
  BY <1>3
<1> QED BY <1>2, <1>3, <1>4, <1>5, <1>6, <1>7, <1>8

(* The ticks that timeout counts off before entry k + 1.                   *)
LEMMA RestIs ==
  ASSUME WInv, NEW k \in 0..Len(calltodo), NEW t
  PROVE  Rest(t, k) = t - Before(Lefts, k + 1)
<1>1. Waited(k) = WaitedIn(calltodo, c_time, k)
  BY Zenon DEF Waited, WaitedIn, Reached, Time
<1>2. CASE k = 0
  BY <1>1, <1>2, WaitedZero DEF Rest, Before
<1>3. CASE k # 0
  <2>1. k \in 1..Len(calltodo) /\ k + 1 # 1 /\ (k + 1) - 1 = k
    BY <1>3, QueueFacts
  <2>2. WaitedIn(calltodo, c_time, k) = Over(Lefts[k])
    BY <2>1, QueueFacts, TimesWaited, CalloutAssumption
  <2> QED BY <1>1, <2>1, <2>2 DEF Rest, Before
<1> QED BY <1>2, <1>3

(* What each step does to the times of the queue.                          *)
LEMMA TimeoutTimes ==
  ASSUME WInv, NEW f \in Fns, NEW t \in Ticks, NEW s \in callfree, NEW k \in 0..Len(calltodo),
         \A i \in 1..k : Time(i) < Rest(t, i - 1),
         k < Len(calltodo) => Time(k + 1) >= Rest(t, k),
         calltodo' = InsertAt(calltodo, k + 1, s),
         c_time' = [Behind(k, Rest(t, k)) EXCEPT ![s] = Rest(t, k)]
  PROVE  /\ c_time' \in [Slots -> Int]
         /\ Times(calltodo', c_time',
                  WithTime(Lefts, Len(calltodo), k + 1, t))
<1> DEFINE L == Lefts
<1>1. /\ calltodo \in Seq(Slots) /\ Len(calltodo) \in Nat /\ NoRepeats(calltodo)
      /\ c_time \in [Slots -> Int] /\ s \in Slots /\ s \notin Elements(calltodo)
      /\ Times(calltodo, c_time, L) /\ L \in [1..Len(calltodo) -> Int]
      /\ k \in Nat /\ k <= Len(calltodo)
      /\ \A i \in 1..Len(calltodo) : calltodo[i] \in Slots /\ calltodo[i] \in Elements(calltodo)
  BY QueueFacts
<1>2. t \in Nat
  BY CalloutAssumption
<1>3. \A i \in 1..Len(calltodo) : /\ Time(i) = L[i] - Before(L, i) /\ Before(L, i) \in Int
                                  /\ L[i] \in Int /\ \A j \in 1..i : L[j] <= L[i]
  <2>1. ASSUME NEW i \in 1..Len(calltodo) PROVE Before(L, i) \in Int
    <3>1. i # 1 => i - 1 \in 1..Len(calltodo)
      BY <1>1
    <3>2. i # 1 => L[i - 1] \in Int
      BY <1>1, <3>1
    <3> QED BY <3>2 DEF Before, Over
  <2> QED BY <1>1, <2>1 DEF Times, Time
<1>4. Before(L, k + 1) \in Int
  <2>1. k # 0 => k \in 1..Len(calltodo) /\ k + 1 # 1 /\ (k + 1) - 1 = k
    BY <1>1
  <2>2. k # 0 => L[k] \in Int
    BY <1>3, <2>1
  <2>3. k = 0 => k + 1 = 1
    OBVIOUS
  <2> QED BY <2>1, <2>2, <2>3 DEF Before, Over
<1>5. Rest(t, k) = t - Before(L, k + 1) /\ Rest(t, k) \in Int
  <2>1. Rest(t, k) = t - Before(L, k + 1)
    BY RestIs
  <2> QED BY <1>2, <1>4, <2>1
<1>6. \A i \in 1..k : L[i] <= t
  <2> SUFFICES ASSUME NEW i \in 1..k PROVE L[i] <= t
    OBVIOUS
  <2>1. i \in 1..Len(calltodo) /\ i - 1 \in 0..Len(calltodo) /\ (i - 1) + 1 = i
    BY <1>1
  <2>2. Rest(t, i - 1) = t - Before(L, i)
    BY <2>1, RestIs
  <2>3. Time(i) < t - Before(L, i)
    BY <2>2
  <2>4. L[i] \in Int /\ Before(L, i) \in Int /\ Time(i) = L[i] - Before(L, i)
    BY <1>3, <2>1
  <2> HIDE DEF L
  <2> QED BY <1>2, <2>3, <2>4
<1>7. \A i \in (k + 1)..Len(calltodo) : t <= L[i]
  <2> SUFFICES ASSUME NEW i \in (k + 1)..Len(calltodo) PROVE t <= L[i]
    OBVIOUS
  <2>1. /\ k + 1 \in 1..Len(calltodo) /\ k + 1 \in 1..i /\ k < Len(calltodo)
        /\ i \in 1..Len(calltodo)
    BY <1>1
  <2>2. /\ Time(k + 1) = L[k + 1] - Before(L, k + 1) /\ L[k + 1] \in Int /\ L[i] \in Int
        /\ L[k + 1] <= L[i]
    BY <1>3, <2>1
  <2>3. Time(k + 1) >= t - Before(L, k + 1)
    BY <1>5, <2>1
  <2> HIDE DEF L
  <2> QED BY <1>2, <1>4, <2>2, <2>3
<1>8. Behind(k, Rest(t, k)) \in [Slots -> Int]
  <2>1. CASE k < Len(calltodo)
    <3>1. c_time[calltodo[k + 1]] - Rest(t, k) \in Int
      BY <1>1, <1>5, <2>1
    <3> QED BY <1>1, <2>1, <3>1 DEF Behind
  <2> QED BY <1>1, <2>1 DEF Behind
<1>9. /\ c_time' \in [Slots -> Int] /\ c_time'[s] = Rest(t, k)
      /\ \A r \in Slots : r # s => c_time'[r] = Behind(k, Rest(t, k))[r]
  BY <1>1, <1>5, <1>8
<1>10. \A i \in 1..Len(calltodo) : c_time'[calltodo[i]] = Behind(k, Rest(t, k))[calltodo[i]]
  BY <1>1, <1>9
<1>11. k < Len(calltodo) => c_time'[calltodo[k + 1]] = c_time[calltodo[k + 1]] - Rest(t, k)
  <2> SUFFICES ASSUME k < Len(calltodo)
               PROVE c_time'[calltodo[k + 1]] = c_time[calltodo[k + 1]] - Rest(t, k)
    OBVIOUS
  <2>1. k + 1 \in 1..Len(calltodo) /\ calltodo[k + 1] \in Slots
    BY <1>1
  <2>2. Behind(k, Rest(t, k))[calltodo[k + 1]] = c_time[calltodo[k + 1]] - Rest(t, k)
    BY <1>1, <2>1 DEF Behind
  <2> QED BY <1>10, <2>1, <2>2
<1>12. \A i \in 1..Len(calltodo) : i # k + 1 => c_time'[calltodo[i]] = c_time[calltodo[i]]
  <2> SUFFICES ASSUME NEW i \in 1..Len(calltodo), i # k + 1
               PROVE c_time'[calltodo[i]] = c_time[calltodo[i]]
    OBVIOUS
  <2>1. k < Len(calltodo) => calltodo[i] # calltodo[k + 1]
    <3>1. k < Len(calltodo) => k + 1 \in 1..Len(calltodo)
      BY <1>1
    <3> QED BY <1>1, <3>1 DEF NoRepeats
  <2>2. Behind(k, Rest(t, k))[calltodo[i]] = c_time[calltodo[i]]
    BY <1>1, <2>1 DEF Behind
  <2> QED BY <1>10, <2>2
<1>13. Times(calltodo', c_time', WithTime(L, Len(calltodo), k + 1, t))
  <2> DEFINE n == k + 1
             d == c_time'
  <2>1. n \in 1..(Len(calltodo) + 1)
    BY <1>1
  <2>2. \A i \in 1..(n - 1) : L[i] <= t
    BY <1>1, <1>6
  <2>3. \A i \in n..Len(calltodo) : t <= L[i]
    BY <1>7
  <2>4. d[s] = t - Before(L, n)
    BY <1>5, <1>9
  <2>5. n <= Len(calltodo) => d[calltodo[n]] = c_time[calltodo[n]] - (t - Before(L, n))
    BY <1>1, <1>5, <1>11
  <2>6. \A i \in 1..Len(calltodo) : i # n => d[calltodo[i]] = c_time[calltodo[i]]
    BY <1>12
  <2>7. calltodo' = InsertAt(calltodo, n, s)
    OBVIOUS
  <2>8. Times(InsertAt(calltodo, n, s), d, WithTime(L, Len(calltodo), n, t))
    <3> HIDE DEF n, d, L
    <3> QED BY <1>1, <1>2, <2>1, <2>2, <2>3, <2>4, <2>5, <2>6, InsertTimes
  <2> QED BY <2>7, <2>8
<1> QED BY <1>9, <1>13

LEMMA UntimeoutTimes ==
  ASSUME WInv, NEW k \in 1..Len(calltodo),
         calltodo' = RemoveAt(calltodo, k), c_time' = Carried(k)
  PROVE  /\ c_time' \in [Slots -> Int]
         /\ Times(calltodo', c_time',
                  WithoutTime(Lefts, Len(calltodo), k))
<1>1. /\ calltodo \in Seq(Slots) /\ Len(calltodo) \in Nat /\ NoRepeats(calltodo)
      /\ c_time \in [Slots -> Int] /\ Times(calltodo, c_time, Lefts)
      /\ \A i \in 1..Len(calltodo) : calltodo[i] \in Slots
  BY QueueFacts
<1>2. Time(k) = c_time[calltodo[k]] /\ Time(k) \in Int
  BY <1>1 DEF Time
<1>3. k < Len(calltodo) => k + 1 \in 1..Len(calltodo)
  BY <1>1
<1>4. c_time' \in [Slots -> Int]
  <2>1. CASE k < Len(calltodo) /\ Time(k) > 0
    <3>1. calltodo[k + 1] \in Slots /\ c_time[calltodo[k + 1]] + Time(k) \in Int
      BY <1>1, <1>2, <1>3, <2>1
    <3> QED BY <1>1, <2>1, <3>1 DEF Carried
  <2> QED BY <1>1, <2>1 DEF Carried
<1>5. k < Len(calltodo) =>
        c_time'[calltodo[k + 1]] = c_time[calltodo[k + 1]] + Over(c_time[calltodo[k]])
  <2> SUFFICES ASSUME k < Len(calltodo)
               PROVE c_time'[calltodo[k + 1]] = c_time[calltodo[k + 1]] + Over(c_time[calltodo[k]])
    OBVIOUS
  <2>1. calltodo[k + 1] \in Slots /\ c_time[calltodo[k + 1]] \in Int
    BY <1>1, <1>3
  <2>2. CASE Time(k) > 0
    <3>1. c_time' = [c_time EXCEPT ![calltodo[k + 1]] = @ + Time(k)]
      BY <2>2 DEF Carried
    <3>2. c_time'[calltodo[k + 1]] = c_time[calltodo[k + 1]] + Time(k)
      BY <1>1, <2>1, <3>1
    <3> QED BY <1>2, <2>2, <3>2 DEF Over
  <2>3. CASE ~(Time(k) > 0)
    BY <1>2, <2>1, <2>3 DEF Carried, Over
  <2> QED BY <2>2, <2>3
<1>6. \A i \in 1..Len(calltodo) : i # k + 1 => c_time'[calltodo[i]] = c_time[calltodo[i]]
  <2> SUFFICES ASSUME NEW i \in 1..Len(calltodo), i # k + 1
               PROVE c_time'[calltodo[i]] = c_time[calltodo[i]]
    OBVIOUS
  <2>1. k < Len(calltodo) => calltodo[i] # calltodo[k + 1]
    BY <1>1, <1>3 DEF NoRepeats
  <2> QED BY <1>1, <2>1 DEF Carried
<1> QED BY <1>1, <1>4, <1>5, <1>6, RemoveTimes

LEMMA HardclockTimes ==
  ASSUME WInv, Hardclock
  PROVE  /\ c_time' \in [Slots -> Int]
         /\ Times(calltodo', c_time', Nearer(Lefts, Len(calltodo)))
<1>1. /\ calltodo \in Seq(Slots) /\ Len(calltodo) \in Nat /\ NoRepeats(calltodo)
      /\ c_time \in [Slots -> Int] /\ Times(calltodo, c_time, Lefts)
      /\ \A i \in 1..Len(calltodo) : calltodo[i] \in Slots
  BY QueueFacts
<1>2. /\ calltodo' = calltodo
      /\ c_time' = [s \in Slots |-> IF s \in Counted THEN c_time[s] - 1 ELSE c_time[s]]
  BY DEF Hardclock
<1>3. c_time' \in [Slots -> Int]
  BY <1>1, <1>2
<1>4. \A i \in 1..Len(calltodo) : calltodo[i] \in Counted <=> DueIn(calltodo, c_time, i - 1)
  BY <1>1 DEF Counted, DueIn, Time, NoRepeats
<1>5. \A i \in 1..Len(calltodo) :
        c_time'[calltodo[i]] = IF DueIn(calltodo, c_time, i - 1) THEN c_time[calltodo[i]] - 1
                               ELSE c_time[calltodo[i]]
  BY <1>1, <1>2, <1>4
<1>6. IsFiniteSet(Slots)
  BY CalloutAssumption
<1> QED BY <1>1, <1>2, <1>3, <1>5, <1>6, TickTimes

LEMMA CallTimes ==
  ASSUME WInv, SoftclockCall
  PROVE  /\ Lefts[1] = Time(1) /\ Time(1) <= 0 /\ 1 \in 1..Len(calltodo)
         /\ c_time' = c_time /\ calltodo' = Tail(calltodo)
         /\ Times(calltodo', c_time', WithoutTime(Lefts, Len(calltodo), 1))
<1>1. /\ calltodo \in Seq(Slots) /\ Len(calltodo) \in Nat /\ NoRepeats(calltodo)
      /\ c_time \in [Slots -> Int] /\ Times(calltodo, c_time, Lefts)
  BY QueueFacts
<1>2. /\ calltodo' = Tail(calltodo) /\ c_time' = c_time /\ calltodo # <<>> /\ Time(1) <= 0
  BY DEF SoftclockCall, Due
<1>3. 1 \in 1..Len(calltodo)
  BY <1>1, <1>2
<1>4. Lefts[1] \in Int /\ c_time[calltodo[1]] = Lefts[1] - Before(Lefts, 1)
  BY <1>1, <1>3 DEF Times
<1>5. Lefts[1] = Time(1)
  BY <1>4 DEF Before, Time
<1> QED BY <1>1, <1>2, <1>3, <1>5, TailTimes

(* A step after which the queue is a list of times, none too late.         *)
LEMMA TimesNext ==
  ASSUME Inv', c_time' \in [Slots -> Int], NEW L, Times(calltodo', c_time', L),
         \A i \in 1..Len(calltodo') : L[i] >= -MaxLate,
         soft' \in BOOLEAN, panicked' \in BOOLEAN,
         running' \in {NONE, SCAN} \cup [fn : Fns, late : 0..MaxLate]
  PROVE  WInv'
<1>1. calltodo' \in Seq(Slots) /\ NoRepeats(calltodo')
  BY Zenon DEF Inv, Typed, Accounted, NoRepeats
<1>2. Lefts' = L
  BY <1>1, LeftsNext
<1>3. \A i \in 1..Len(calltodo') : Left(i)' = Lefts'[i]
  BY Zenon DEF Lefts
<1>4. \A i \in 1..Len(calltodo') : Left(i)' >= -MaxLate
  BY <1>2, <1>3
<1> QED BY <1>2, <1>4 DEF WInv, TimesInv

(* A step that leaves the queue and its times alone.                       *)
LEMMA QuietTimes ==
  ASSUME WInv, Inv', UNCHANGED <<calltodo, c_time>>,
         soft' \in BOOLEAN, panicked' \in BOOLEAN,
         running' \in {NONE, SCAN} \cup [fn : Fns, late : 0..MaxLate]
  PROVE  WInv'
<1>1. c_time' \in [Slots -> Int] /\ Times(calltodo', c_time', Lefts)
  BY QueueFacts
<1>2. \A i \in 1..Len(calltodo') : Lefts[i] >= -MaxLate
  BY QueueFacts
<1> QED BY <1>1, <1>2, TimesNext

LEMMA RunningType ==
  ASSUME WInv
  PROVE  /\ soft \in BOOLEAN /\ panicked \in BOOLEAN
         /\ running \in {NONE, SCAN} \cup [fn : Fns, late : 0..MaxLate]
BY DEF WInv, TimesInv

(* The queue is a list of times, at first and after every step.            *)
LEMMA InitWInv == Init => WInv
<1> SUFFICES ASSUME Init PROVE WInv
  OBVIOUS
<1>1. calltodo = <<>> /\ Len(calltodo) = 0 /\ 1..0 = {}
  BY DEF Init
<1>2. c_time \in [Slots -> Int]
  BY DEF Init
<1>4. soft \in BOOLEAN /\ panicked \in BOOLEAN /\ running = NONE
  BY DEF Init
<1>3. Times(calltodo, c_time, Lefts)
  BY <1>1 DEF Times, Lefts
<1> QED BY <1>1, <1>2, <1>3, <1>4, InitInv DEF WInv, TimesInv

LEMMA TimeoutWInv ==
  ASSUME WInv, NEW f \in Fns, NEW t \in Ticks, Timeout(f, t)
  PROVE  WInv'
<1>1. Inv'
  BY TimeoutInv DEF WInv
<1>2. /\ soft' \in BOOLEAN
      /\ running' \in {NONE, SCAN} \cup [fn : Fns, late : 0..MaxLate]
  BY RunningType DEF Timeout
<1>3. CASE panicked' = TRUE /\ UNCHANGED <<calltodo, callfree, c_time, c_func>>
  BY <1>1, <1>2, <1>3, QuietTimes
<1>4. ASSUME NEW s \in callfree, NEW k \in 0..Len(calltodo),
             \A i \in 1..k : Time(i) < Rest(t, i - 1),
             k < Len(calltodo) => Time(k + 1) >= Rest(t, k),
             calltodo' = InsertAt(calltodo, k + 1, s),
             c_time' = [Behind(k, Rest(t, k)) EXCEPT ![s] = Rest(t, k)],
             UNCHANGED panicked
      PROVE  WInv'
  <2>1. /\ c_time' \in [Slots -> Int]
        /\ Times(calltodo', c_time', WithTime(Lefts, Len(calltodo), k + 1, t))
    BY <1>4, TimeoutTimes
  <2>2. \A i \in 1..Len(calltodo') : WithTime(Lefts, Len(calltodo), k + 1, t)[i] >= -MaxLate
    <3>1. /\ Lefts \in [1..Len(calltodo) -> Int] /\ Len(calltodo) \in Nat
          /\ \A i \in 1..Len(calltodo) : Lefts[i] >= -MaxLate
          /\ k \in Nat /\ k <= Len(calltodo)
      BY QueueFacts
    <3>2. Len(calltodo') = Len(calltodo) + 1
      <4>1. calltodo \in Seq(Slots) /\ s \in Slots
        BY QueueFacts
      <4>2. Len(InsertAt(calltodo, k + 1, s)) = Len(calltodo) + 1
        BY <4>1, InsertAtSeq
      <4> QED BY <1>4, <4>2
    <3>3. t \in Nat /\ MaxLate \in Nat
      BY CalloutAssumption
    <3> SUFFICES ASSUME NEW i \in 1..(Len(calltodo) + 1)
                 PROVE  WithTime(Lefts, Len(calltodo), k + 1, t)[i] >= -MaxLate
      BY <3>2
    <3>4. /\ i \in Nat \ {0} /\ i <= Len(calltodo) + 1
      BY <3>1
    <3>5. WithTime(Lefts, Len(calltodo), k + 1, t)[i] =
            IF i < k + 1 THEN Lefts[i] ELSE IF i = k + 1 THEN t ELSE Lefts[i - 1]
      BY DEF WithTime
    <3> QED BY <3>1, <3>3, <3>4, <3>5
  <2>3. panicked' \in BOOLEAN
    BY <1>4, RunningType
  <2> HIDE DEF WInv
  <2> QED BY <1>1, <1>2, <2>1, <2>2, <2>3, TimesNext
<1> QED BY <1>3, <1>4 DEF Timeout

LEMMA UntimeoutWInv ==
  ASSUME WInv, NEW f \in Fns, Untimeout(f)
  PROVE  WInv'
<1>1. Inv'
  BY UntimeoutInv DEF WInv
<1>2. /\ soft' \in BOOLEAN /\ panicked' \in BOOLEAN
      /\ running' \in {NONE, SCAN} \cup [fn : Fns, late : 0..MaxLate]
  BY RunningType DEF Untimeout
<1>3. PICK k \in 1..Len(calltodo) : calltodo' = RemoveAt(calltodo, k) /\ c_time' = Carried(k)
  BY DEF Untimeout
<1>4. /\ c_time' \in [Slots -> Int]
      /\ Times(calltodo', c_time', WithoutTime(Lefts, Len(calltodo), k))
  BY <1>3, UntimeoutTimes
<1>5. \A i \in 1..Len(calltodo') : WithoutTime(Lefts, Len(calltodo), k)[i] >= -MaxLate
  <2>1. /\ calltodo \in Seq(Slots) /\ Len(calltodo) \in Nat
        /\ \A i \in 1..Len(calltodo) : Lefts[i] >= -MaxLate
    BY QueueFacts
  <2>2. Len(calltodo') = Len(calltodo) - 1
    BY <1>3, <2>1, RemoveAtSeq
  <2> QED BY <2>1, <2>2 DEF WithoutTime
<1> QED BY <1>1, <1>2, <1>4, <1>5, TimesNext

LEMMA HardclockWInv ==
  ASSUME WInv, Hardclock
  PROVE  WInv'
<1>1. Inv'
  BY QuietInv DEF WInv, Hardclock
<1>2. /\ soft' \in BOOLEAN /\ panicked' \in BOOLEAN
      /\ running' \in {NONE, SCAN} \cup [fn : Fns, late : 0..MaxLate]
  BY RunningType DEF Hardclock
<1>3. /\ c_time' \in [Slots -> Int]
      /\ Times(calltodo', c_time', Nearer(Lefts, Len(calltodo)))
  BY HardclockTimes
<1>4. \A i \in 1..Len(calltodo') : Nearer(Lefts, Len(calltodo))[i] >= -MaxLate
  <2> SUFFICES ASSUME NEW i \in 1..Len(calltodo)
               PROVE  Nearer(Lefts, Len(calltodo))[i] >= -MaxLate
    BY DEF Hardclock
  <2>1. c_time[calltodo[i]] > -MaxLate
    BY DEF Hardclock, Time
  <2>2. /\ Lefts[i] \in Int /\ c_time[calltodo[i]] \in Int /\ c_time[calltodo[i]] <= Lefts[i]
    BY QueueFacts, TimesLate
  <2>3. MaxLate \in Nat
    BY CalloutAssumption
  <2>4. Nearer(Lefts, Len(calltodo))[i] = Lefts[i] - 1
    BY DEF Nearer
  <2> QED BY <2>1, <2>2, <2>3, <2>4
<1> QED BY <1>1, <1>2, <1>3, <1>4, TimesNext

LEMMA CallWInv ==
  ASSUME WInv, SoftclockCall
  PROVE  WInv'
<1>1. Inv'
  BY SoftclockCallInv DEF WInv
<1>2. /\ calltodo \in Seq(Slots) /\ Len(calltodo) \in Nat /\ calltodo # <<>>
      /\ \A i \in 1..Len(calltodo) : Lefts[i] >= -MaxLate /\ Lefts[i] \in Int
      /\ \A s \in Elements(calltodo) : c_func[s] \in Fns
      /\ \A i \in 1..Len(calltodo) : calltodo[i] \in Elements(calltodo)
  BY QueueFacts DEF SoftclockCall, Due
<1>3. /\ Lefts[1] = Time(1) /\ Time(1) <= 0 /\ 1 \in 1..Len(calltodo)
      /\ c_time' = c_time /\ calltodo' = Tail(calltodo)
      /\ Times(calltodo', c_time', WithoutTime(Lefts, Len(calltodo), 1))
  BY CallTimes
<1>4. soft' \in BOOLEAN /\ panicked' \in BOOLEAN
  BY RunningType DEF SoftclockCall
<1>5. running' \in [fn : Fns, late : 0..MaxLate]
  <2>1. Head(calltodo) = calltodo[1]
    BY <1>2
  <2>2. c_func[Head(calltodo)] \in Fns
    BY <1>2, <1>3, <2>1
  <2>3. -Time(1) \in 0..MaxLate
    <3>1. Time(1) \in Int /\ Time(1) >= -MaxLate /\ MaxLate \in Nat
      BY <1>2, <1>3, CalloutAssumption
    <3> QED BY <1>3, <3>1
  <2>4. running' = [fn |-> c_func[Head(calltodo)], late |-> -Time(1)]
    BY DEF SoftclockCall
  <2> QED BY <2>2, <2>3, <2>4
<1>6. \A i \in 1..Len(calltodo') : WithoutTime(Lefts, Len(calltodo), 1)[i] >= -MaxLate
  <2>1. Len(calltodo') = Len(calltodo) - 1
    BY <1>2, <1>3
  <2> QED BY <1>2, <2>1 DEF WithoutTime
<1>7. c_time' \in [Slots -> Int]
  BY <1>3, QueueFacts
<1> QED BY <1>1, <1>3, <1>4, <1>5, <1>6, <1>7, TimesNext

LEMMA NextWInv == WInv /\ [Next]_vars => WInv'
<1> SUFFICES ASSUME WInv, [Next]_vars PROVE WInv'
  OBVIOUS
<1>1. Inv'
  BY NextInv DEF WInv
<1>2. /\ soft \in BOOLEAN /\ panicked \in BOOLEAN
      /\ running \in {NONE, SCAN} \cup [fn : Fns, late : 0..MaxLate]
  BY RunningType
<1>3. CASE SoftclockEnter
  BY <1>1, <1>2, <1>3, QuietTimes DEF SoftclockEnter
<1>4. CASE SoftclockReturn
  BY <1>1, <1>2, <1>4, QuietTimes DEF SoftclockReturn
<1>5. CASE SoftclockLeave
  BY <1>1, <1>2, <1>5, QuietTimes DEF SoftclockLeave
<1>6. CASE UNCHANGED vars
  BY <1>1, <1>2, <1>6, QuietTimes DEF vars
<1>7. ASSUME NEW f \in Fns, NEW t \in Ticks, Timeout(f, t) PROVE WInv'
  BY <1>7, TimeoutWInv
<1>8. ASSUME NEW f \in Fns, Untimeout(f) PROVE WInv'
  BY <1>8, UntimeoutWInv
<1>9. CASE Hardclock
  BY <1>9, HardclockWInv
<1>10. CASE SoftclockCall
  BY <1>10, CallWInv
<1> QED BY <1>3, <1>4, <1>5, <1>6, <1>7, <1>8, <1>9, <1>10 DEF Next, Softclock

LEMMA WInvWellFormed == WInv => WellFormed
<1> SUFFICES ASSUME WInv PROVE WellFormed
  OBVIOUS
<1>1. TypeOK
  BY DEF WInv, Inv, Typed, TimesInv, TypeOK
<1>2. Ordered
  BY QueueFacts, LeftsAre
<1> QED BY <1>1, <1>2 DEF WellFormed

(* The queue is what hardclock's comment says: the entries that are due    *)
(* first, the longest overdue at the head, then differences that are never *)
(* negative; and nothing is later than the clock was held off, whatever    *)
(* the order of timeout, untimeout, ticks and calls (kern_clock.c).        *)
THEOREM AlwaysWellFormed == Spec => []WellFormed
<1>1. Init => WInv
  BY InitWInv
<1>2. WInv /\ [Next]_vars => WInv'
  BY NextWInv
<1>3. WInv => WellFormed
  BY WInvWellFormed
<1> QED BY <1>1, <1>2, <1>3, PTL DEF Spec

-----------------------------------------------------------------------------
(* The queue as a set of requests.                                         *)

(* Requests of any queue q with differences c and functions g.             *)
RequestsIn(q, c, g) ==
  [s \in Slots |->
     IF s \notin Range(q) THEN NONE
     ELSE [fn |-> g[s], left |-> LeftIn(q, c, CHOOSE i \in 1..Len(q) : q[i] = s)]]

(* Requests is that of the queue, in this state and the next.              *)
LEMMA RequestsAre ==
  /\ Requests = RequestsIn(calltodo, c_time, c_func)
  /\ Requests' = RequestsIn(calltodo', c_time', c_func')
<1>1. Requests = RequestsIn(calltodo, c_time, c_func)
  BY Zenon DEF Requests, RequestsIn, Left, LeftIn, DueIn, Waited, WaitedIn, Reached, Time
<1>2. Requests' = RequestsIn(calltodo', c_time', c_func')
  BY Zenon DEF Requests, RequestsIn, Left, LeftIn, DueIn, Waited, WaitedIn, Reached, Time
<1> QED BY <1>1, <1>2

(* A request, which is none of the marks.                                  *)
Req(f, n) == [fn |-> f, left |-> n]

LEMMA ReqIs ==
  ASSUME NEW f \in Fns, NEW n \in Int
  PROVE  Req(f, n) # NONE /\ Req(f, n).fn = f /\ Req(f, n).left = n
BY CalloutAssumption DEF Req

LEMMA RequestsOf ==
  ASSUME NEW q \in Seq(Slots), NoRepeats(q), NEW c \in [Slots -> Int], NEW g,
         NEW L, Times(q, c, L)
  PROVE  /\ \A s \in Slots : s \notin Elements(q) => RequestsIn(q, c, g)[s] = NONE
         /\ \A i \in 1..Len(q) : RequestsIn(q, c, g)[q[i]] = Req(g[q[i]], L[i])
<1>1. Range(q) = Elements(q)
  BY DEF Range, Elements
<1>2. IsFiniteSet(Slots)
  BY CalloutAssumption
<1>3. ASSUME NEW i \in 1..Len(q)
      PROVE  RequestsIn(q, c, g)[q[i]] = Req(g[q[i]], L[i])
  <2>1. q[i] \in Slots /\ q[i] \in Elements(q)
    BY ElementOfSeq DEF Elements
  <2>2. (CHOOSE j \in 1..Len(q) : q[j] = q[i]) = i
    BY DEF NoRepeats
  <2>3. LeftIn(q, c, i) = L[i]
    BY <1>2, TimesOrdered
  <2> QED BY <1>1, <2>1, <2>2, <2>3, Zenon DEF RequestsIn, Req
<1>4. \A s \in Slots : s \notin Elements(q) => RequestsIn(q, c, g)[s] = NONE
  BY <1>1, Zenon DEF RequestsIn
<1> QED BY <1>3, <1>4

(* What is on the queue is pending, and nothing else.                      *)
LEMMA RequestsNow ==
  ASSUME WInv
  PROVE  /\ Requests = [s \in Slots |-> Requests[s]]
         /\ \A s \in Slots : s \notin Elements(calltodo) => Requests[s] = NONE
         /\ \A i \in 1..Len(calltodo) : Requests[calltodo[i]] = Req(c_func[calltodo[i]], Lefts[i])
         /\ Clock!Pending = Elements(calltodo)
<1>1. /\ calltodo \in Seq(Slots) /\ NoRepeats(calltodo) /\ c_time \in [Slots -> Int]
      /\ Times(calltodo, c_time, Lefts) /\ Lefts \in [1..Len(calltodo) -> Int]
      /\ \A s \in Elements(calltodo) : c_func[s] \in Fns
      /\ \A i \in 1..Len(calltodo) : calltodo[i] \in Slots /\ calltodo[i] \in Elements(calltodo)
  BY QueueFacts
<1>2. Requests = RequestsIn(calltodo, c_time, c_func)
  BY RequestsAre
<1>3. /\ \A s \in Slots : s \notin Elements(calltodo) => Requests[s] = NONE
      /\ \A i \in 1..Len(calltodo) : Requests[calltodo[i]] = Req(c_func[calltodo[i]], Lefts[i])
  BY <1>1, <1>2, RequestsOf
<1>4. \A i \in 1..Len(calltodo) : Requests[calltodo[i]] # NONE
  BY <1>1, <1>3, ReqIs
<1>5. Clock!Pending = Elements(calltodo)
  <2>1. Clock!Pending = { s \in Slots : Requests[s] # NONE }
    BY DEF Clock!Pending
  <2>2. ASSUME NEW s \in Elements(calltodo) PROVE s \in Slots /\ Requests[s] # NONE
    BY <1>1, <1>4 DEF Elements
  <2> QED BY <1>3, <2>1, <2>2, Zenon
<1>6. Requests = [s \in Slots |-> Requests[s]]
  BY DEF Requests
<1> QED BY <1>3, <1>5, <1>6, Zenon

LEMMA RequestsNext ==
  ASSUME WInv', NEW L, Times(calltodo', c_time', L)
  PROVE  /\ Requests' = [s \in Slots |-> Requests'[s]]
         /\ \A s \in Slots : s \notin Elements(calltodo') => Requests'[s] = NONE
         /\ \A i \in 1..Len(calltodo') : Requests'[calltodo'[i]] = Req(c_func'[calltodo'[i]], L[i])
<1>1. calltodo' \in Seq(Slots) /\ NoRepeats(calltodo') /\ c_time' \in [Slots -> Int]
  BY Zenon DEF WInv, Inv, Typed, Accounted, NoRepeats, TimesInv
<1>2. Requests' = RequestsIn(calltodo', c_time', c_func')
  BY RequestsAre
<1>3. /\ \A s \in Slots : s \notin Elements(calltodo') => Requests'[s] = NONE
      /\ \A i \in 1..Len(calltodo') : Requests'[calltodo'[i]] = Req(c_func'[calltodo'[i]], L[i])
  <2> DEFINE q == calltodo'
             c == c_time'
             g == c_func'
  <2>1. q \in Seq(Slots) /\ NoRepeats(q) /\ c \in [Slots -> Int] /\ Times(q, c, L)
    BY <1>1
  <2>2. /\ \A s \in Slots : s \notin Elements(q) => RequestsIn(q, c, g)[s] = NONE
        /\ \A i \in 1..Len(q) : RequestsIn(q, c, g)[q[i]] = Req(g[q[i]], L[i])
    <3> HIDE DEF q, c, g
    <3> QED BY <2>1, RequestsOf
  <2> QED BY <1>2, <2>2
<1>4. Requests' = [s \in Slots |-> Requests'[s]]
  BY DEF Requests
<1> QED BY <1>3, <1>4, Zenon

(* Each step of the queue is a step of Timers, or none.                    *)
LEMMA QuietRequests ==
  ASSUME UNCHANGED <<calltodo, c_time, c_func>>
  PROVE  UNCHANGED Requests
BY RequestsAre, Zenon

LEMMA ChangedAt ==
  ASSUME NEW F, F = [s \in Slots |-> F[s]], NEW G, G = [s \in Slots |-> G[s]],
         NEW x \in Slots, NEW v, \A r \in Slots : G[r] = IF r = x THEN v ELSE F[r]
  PROVE  G = [F EXCEPT ![x] = v]
OBVIOUS

LEMMA TimeoutClock ==
  ASSUME WInv, WInv', NEW f \in Fns, NEW t \in Ticks, Timeout(f, t)
  PROVE  Clock!Set \/ UNCHANGED <<Requests, Calling>>
<1>1. UNCHANGED Calling
  BY DEF Timeout, Calling
<1>2. CASE UNCHANGED <<calltodo, callfree, c_time, c_func>>
  BY <1>1, <1>2, QuietRequests
<1>3. ASSUME NEW s \in callfree, NEW k \in 0..Len(calltodo),
             \A i \in 1..k : Time(i) < Rest(t, i - 1),
             k < Len(calltodo) => Time(k + 1) >= Rest(t, k),
             calltodo' = InsertAt(calltodo, k + 1, s),
             c_time' = [Behind(k, Rest(t, k)) EXCEPT ![s] = Rest(t, k)],
             c_func' = [c_func EXCEPT ![s] = f]
      PROVE  Clock!Set
  <2> DEFINE n == k + 1
             q == calltodo'
             M == WithTime(Lefts, Len(calltodo), n, t)
  <2>1. /\ calltodo \in Seq(Slots) /\ Len(calltodo) \in Nat /\ NoRepeats(calltodo)
        /\ s \in Slots /\ s \notin Elements(calltodo)
        /\ c_func \in [Slots -> Fns \cup {NONE}]
    BY QueueFacts
  <2>2. n \in 1..(Len(calltodo) + 1)
    BY <2>1
  <2>3. Times(q, c_time', M)
    BY <1>3, TimeoutTimes
  <2>4. /\ Len(q) = Len(calltodo) + 1
        /\ \A i \in 1..(Len(calltodo) + 1) :
             q[i] = IF i < n THEN calltodo[i] ELSE IF i = n THEN s ELSE calltodo[i - 1]
    <3>1. q = InsertAt(calltodo, n, s)
      BY <1>3
    <3>2. /\ Len(InsertAt(calltodo, n, s)) = Len(calltodo) + 1
          /\ \A i \in 1..(Len(calltodo) + 1) :
               InsertAt(calltodo, n, s)[i] =
                 IF i < n THEN calltodo[i] ELSE IF i = n THEN s ELSE calltodo[i - 1]
      <4> HIDE DEF n
      <4> QED BY <2>1, <2>2, InsertAtIs
    <3> HIDE DEF n, q
    <3> QED BY <3>1, <3>2
  <2>5. \A i \in 1..(Len(calltodo) + 1) :
          M[i] = IF i < n THEN Lefts[i] ELSE IF i = n THEN t ELSE Lefts[i - 1]
    BY DEF WithTime
  <2>6. /\ Requests' = [r \in Slots |-> Requests'[r]]
        /\ \A r \in Slots : r \notin Elements(q) => Requests'[r] = NONE
        /\ \A i \in 1..Len(q) : Requests'[q[i]] = Req(c_func'[q[i]], M[i])
    <3> HIDE DEF M
    <3> QED BY <2>3, RequestsNext
  <2>7. /\ Requests = [r \in Slots |-> Requests[r]]
        /\ \A r \in Slots : r \notin Elements(calltodo) => Requests[r] = NONE
        /\ \A i \in 1..Len(calltodo) : Requests[calltodo[i]] = Req(c_func[calltodo[i]], Lefts[i])
        /\ Clock!Pending = Elements(calltodo)
    BY RequestsNow
  <2>8. /\ c_func'[s] = f /\ \A r \in Slots : r # s => c_func'[r] = c_func[r]
    BY <1>3, <2>1
  <2>9. Elements(q) = Elements(calltodo) \cup {s}
    <3>1. q = InsertAt(calltodo, k + 1, s)
      BY <1>3
    <3> HIDE DEF q
    <3> QED BY <2>1, <3>1, InsertAtElements
  <2> HIDE DEF n, q, M
  <2>10. Requests'[s] = Req(f, t)
    <3>1. n \in 1..Len(q) /\ n \in 1..(Len(calltodo) + 1) /\ ~(n < n)
      BY <2>1, <2>2, <2>4
    <3>2. q[n] = s /\ M[n] = t
      BY <2>4, <2>5, <3>1
    <3> QED BY <2>6, <2>8, <3>1, <3>2
  <2>11. ASSUME NEW r \in Elements(calltodo) PROVE Requests'[r] = Requests[r]
    <3>1. PICK i \in 1..Len(calltodo) : r = calltodo[i]
      BY DEF Elements
    <3>2. PICK j \in 1..Len(q) : q[j] = r /\ M[j] = Lefts[i]
      <4>1. CASE i < n
        <5>1. i \in 1..Len(q) /\ i \in 1..(Len(calltodo) + 1)
          BY <2>1, <2>4
        <5>2. q[i] = r /\ M[i] = Lefts[i]
          BY <2>4, <2>5, <3>1, <4>1, <5>1
        <5> QED BY <5>1, <5>2
      <4>2. CASE ~(i < n)
        <5>1. /\ i + 1 \in 1..Len(q) /\ i + 1 \in 1..(Len(calltodo) + 1)
              /\ ~(i + 1 < n) /\ i + 1 # n /\ (i + 1) - 1 = i
          BY <2>1, <2>2, <2>4, <4>2
        <5>2. q[i + 1] = r /\ M[i + 1] = Lefts[i]
          BY <2>4, <2>5, <3>1, <5>1
        <5> QED BY <5>1, <5>2
      <4> QED BY <4>1, <4>2
    <3>3. r \in Slots /\ r # s
      BY <2>1, <3>1, ElementOfSeq
    <3> QED BY <2>6, <2>7, <2>8, <3>1, <3>2, <3>3
  <2>12. ASSUME NEW r \in Slots PROVE Requests'[r] = IF r = s THEN Req(f, t) ELSE Requests[r]
    BY <2>6, <2>7, <2>9, <2>10, <2>11, Zenon
  <2>13. Requests' = [Requests EXCEPT ![s] = Req(f, t)]
    BY <2>1, <2>6, <2>7, <2>12, ChangedAt
  <2>14. s \in Slots \ Clock!Pending
    BY <2>1, <2>7
  <2> QED BY <1>1, <2>13, <2>14, Zenon DEF Clock!Set, Req
<1> QED BY <1>2, <1>3 DEF Timeout

LEMMA UntimeoutClock ==
  ASSUME WInv, WInv', NEW f \in Fns, Untimeout(f)
  PROVE  Clock!Cancel
<1>1. UNCHANGED Calling /\ c_func' = c_func
  BY DEF Untimeout, Calling
<1>2. PICK k \in 1..Len(calltodo) :
        /\ c_func[calltodo[k]] = f
        /\ \A j \in 1..(k - 1) : c_func[calltodo[j]] # f
        /\ calltodo' = RemoveAt(calltodo, k) /\ c_time' = Carried(k)
  BY DEF Untimeout
<1> DEFINE q == calltodo'
           s == calltodo[k]
           M == WithoutTime(Lefts, Len(calltodo), k)
<1>3. /\ calltodo \in Seq(Slots) /\ Len(calltodo) \in Nat /\ NoRepeats(calltodo)
      /\ \A r \in Elements(calltodo) : c_func[r] \in Fns
      /\ \A i \in 1..Len(calltodo) : calltodo[i] \in Slots /\ calltodo[i] \in Elements(calltodo)
      /\ Lefts \in [1..Len(calltodo) -> Int]
      /\ Times(calltodo, c_time, Lefts)
  BY QueueFacts
<1>4. Times(q, c_time', M)
  BY <1>2, UntimeoutTimes
<1>5. /\ Len(q) = Len(calltodo) - 1
      /\ \A i \in 1..(Len(calltodo) - 1) : q[i] = IF i < k THEN calltodo[i] ELSE calltodo[i + 1]
  BY <1>2, <1>3, RemoveAtSeq
<1>6. \A i \in 1..(Len(calltodo) - 1) : M[i] = IF i < k THEN Lefts[i] ELSE Lefts[i + 1]
  BY DEF WithoutTime
<1>7. /\ Requests' = [r \in Slots |-> Requests'[r]]
      /\ \A r \in Slots : r \notin Elements(q) => Requests'[r] = NONE
      /\ \A i \in 1..Len(q) : Requests'[q[i]] = Req(c_func[q[i]], M[i])
  <2> HIDE DEF M
  <2> QED BY <1>1, <1>4, RequestsNext
<1>8. /\ Requests = [r \in Slots |-> Requests[r]]
      /\ \A r \in Slots : r \notin Elements(calltodo) => Requests[r] = NONE
      /\ \A i \in 1..Len(calltodo) : Requests[calltodo[i]] = Req(c_func[calltodo[i]], Lefts[i])
      /\ Clock!Pending = Elements(calltodo)
  BY RequestsNow
<1>9. Elements(q) = Elements(calltodo) \ {s}
  BY <1>2, <1>3, RemoveAtElements
<1>10. s \in Slots /\ s \in Elements(calltodo)
  BY <1>3
<1>11. ASSUME NEW i \in 1..Len(calltodo), NEW j \in 1..i PROVE Lefts[j] <= Lefts[i]
  BY <1>3 DEF Times
<1> HIDE DEF q, M
<1>12. ASSUME NEW r \in Elements(calltodo), r # s PROVE Requests'[r] = Requests[r]
  <2>1. PICK i \in 1..Len(calltodo) : r = calltodo[i]
    BY DEF Elements
  <2>2. i # k
    BY <1>12, <2>1
  <2>3. PICK j \in 1..Len(q) : q[j] = r /\ M[j] = Lefts[i]
    <3>1. CASE i < k
      <4>1. i \in 1..Len(q) /\ i \in 1..(Len(calltodo) - 1)
        BY <1>3, <1>5, <3>1
      <4>2. q[i] = r /\ M[i] = Lefts[i]
        BY <1>5, <1>6, <2>1, <3>1, <4>1
      <4> QED BY <4>1, <4>2
    <3>2. CASE i > k
      <4>1. /\ i - 1 \in 1..Len(q) /\ i - 1 \in 1..(Len(calltodo) - 1)
            /\ ~(i - 1 < k) /\ (i - 1) + 1 = i
        BY <1>3, <1>5, <3>2
      <4>2. q[i - 1] = r /\ M[i - 1] = Lefts[i]
        BY <1>5, <1>6, <2>1, <4>1
      <4> QED BY <4>1, <4>2
    <3> QED BY <2>2, <3>1, <3>2
  <2> QED BY <1>7, <1>8, <2>1, <2>3
<1>13. ASSUME NEW r \in Slots PROVE Requests'[r] = IF r = s THEN NONE ELSE Requests[r]
  BY <1>7, <1>8, <1>9, <1>12, Zenon
<1>14. Requests' = [Requests EXCEPT ![s] = NONE]
  <2> HIDE DEF s
  <2> QED BY <1>7, <1>8, <1>10, <1>13, ChangedAt
<1>15. s \in Clock!Soonest({ r \in Clock!Pending : Requests[r].fn = f })
  <2>1. \A i \in 1..Len(calltodo) : /\ Requests[calltodo[i]].fn = c_func[calltodo[i]]
                                    /\ Requests[calltodo[i]].left = Lefts[i]
    BY <1>3, <1>8, ReqIs
  <2>2. s \in { r \in Clock!Pending : Requests[r].fn = f }
    BY <1>2, <1>8, <1>10, <2>1
  <2>3. ASSUME NEW r \in { x \in Clock!Pending : Requests[x].fn = f }
        PROVE  Requests[s].left <= Requests[r].left
    <3>1. PICK i \in 1..Len(calltodo) : r = calltodo[i]
      BY <1>8 DEF Elements
    <3>2. c_func[calltodo[i]] = f
      BY <2>1, <3>1
    <3>3. k \in 1..i
      BY <1>2, <1>3, <3>2
    <3>4. Lefts[k] <= Lefts[i]
      BY <1>11, <3>3
    <3> QED BY <2>1, <3>1, <3>4
  <2> QED BY <2>2, <2>3, Zenon DEF Clock!Soonest
<1> QED BY <1>1, <1>14, <1>15, Zenon DEF Clock!Cancel

LEMMA HardclockClock ==
  ASSUME WInv, WInv', Hardclock
  PROVE  Clock!Tick
<1>1. UNCHANGED Calling /\ c_func' = c_func /\ calltodo' = calltodo
  BY DEF Hardclock, Calling
<1> DEFINE M == Nearer(Lefts, Len(calltodo))
<1>3. Times(calltodo', c_time', M)
  BY HardclockTimes
<1>4. \A i \in 1..Len(calltodo) : M[i] = Lefts[i] - 1
  BY DEF Nearer
<1>5. /\ Requests' = [r \in Slots |-> Requests'[r]]
      /\ \A r \in Slots : r \notin Elements(calltodo) => Requests'[r] = NONE
      /\ \A i \in 1..Len(calltodo) : Requests'[calltodo[i]] = Req(c_func[calltodo[i]], M[i])
  <2> HIDE DEF M
  <2> QED BY <1>1, <1>3, RequestsNext
<1>6. /\ \A i \in 1..Len(calltodo) : Requests[calltodo[i]] = Req(c_func[calltodo[i]], Lefts[i])
      /\ Clock!Pending = Elements(calltodo)
  BY RequestsNow
<1>7. ASSUME NEW r \in Slots
      PROVE  Requests'[r] = IF r \in Clock!Pending THEN [Requests[r] EXCEPT !.left = @ - 1]
                            ELSE NONE
  <2>1. CASE r \in Elements(calltodo)
    <3>1. PICK i \in 1..Len(calltodo) : r = calltodo[i]
      BY <2>1 DEF Elements
    <3>2. Requests'[r] = Req(c_func[r], Lefts[i] - 1) /\ Requests[r] = Req(c_func[r], Lefts[i])
      BY <1>4, <1>5, <1>6, <3>1
    <3>3. [Req(c_func[r], Lefts[i]) EXCEPT !.left = @ - 1] = Req(c_func[r], Lefts[i] - 1)
      BY DEF Req
    <3> QED BY <1>6, <2>1, <3>2, <3>3
  <2>2. CASE r \notin Elements(calltodo)
    BY <1>5, <1>6, <2>2
  <2> QED BY <2>1, <2>2
<1> QED BY <1>1, <1>5, <1>7, Zenon DEF Clock!Tick

LEMMA CallClock ==
  ASSUME WInv, WInv', SoftclockCall
  PROVE  Clock!Call
<1>1. /\ Lefts[1] = Time(1) /\ Time(1) <= 0 /\ 1 \in 1..Len(calltodo)
      /\ c_time' = c_time /\ calltodo' = Tail(calltodo)
      /\ Times(calltodo', c_time', WithoutTime(Lefts, Len(calltodo), 1))
  BY CallTimes
<1>2. /\ c_func' = c_func /\ running = SCAN /\ calltodo # <<>>
      /\ running' = [fn |-> c_func[Head(calltodo)], late |-> -Time(1)]
  BY DEF SoftclockCall, Due
<1> DEFINE q == calltodo'
           s == calltodo[1]
           M == WithoutTime(Lefts, Len(calltodo), 1)
<1>3. /\ calltodo \in Seq(Slots) /\ Len(calltodo) \in Nat /\ NoRepeats(calltodo)
      /\ \A r \in Elements(calltodo) : c_func[r] \in Fns
      /\ \A i \in 1..Len(calltodo) : calltodo[i] \in Slots /\ calltodo[i] \in Elements(calltodo)
      /\ Lefts \in [1..Len(calltodo) -> Int]
      /\ Times(calltodo, c_time, Lefts)
  BY QueueFacts
<1>4. Times(q, c_time', M)
  BY <1>1
<1>5. /\ Len(q) = Len(calltodo) - 1 /\ Head(calltodo) = s
      /\ \A i \in 1..(Len(calltodo) - 1) : q[i] = calltodo[i + 1]
  BY <1>1, <1>3
<1>6. \A i \in 1..(Len(calltodo) - 1) : M[i] = Lefts[i + 1]
  BY DEF WithoutTime
<1>7. /\ Requests' = [r \in Slots |-> Requests'[r]]
      /\ \A r \in Slots : r \notin Elements(q) => Requests'[r] = NONE
      /\ \A i \in 1..Len(q) : Requests'[q[i]] = Req(c_func[q[i]], M[i])
  <2> HIDE DEF M
  <2> QED BY <1>2, <1>4, RequestsNext
<1>8. /\ Requests = [r \in Slots |-> Requests[r]]
      /\ \A r \in Slots : r \notin Elements(calltodo) => Requests[r] = NONE
      /\ \A i \in 1..Len(calltodo) : Requests[calltodo[i]] = Req(c_func[calltodo[i]], Lefts[i])
      /\ Clock!Pending = Elements(calltodo)
  BY RequestsNow
<1>9. Elements(q) = Elements(calltodo) \ {s}
  BY <1>1, <1>2, <1>3, <1>5, TailElements
<1>10. s \in Slots /\ s \in Elements(calltodo) /\ Requests[s] = Req(c_func[s], Lefts[1])
  BY <1>1, <1>3, <1>8
<1>11. ASSUME NEW i \in 1..Len(calltodo) PROVE Lefts[1] <= Lefts[i]
  <2>1. 1 \in 1..i
    OBVIOUS
  <2> QED BY <1>3, <2>1 DEF Times
<1> HIDE DEF q, M
<1>12. ASSUME NEW r \in Elements(calltodo), r # s PROVE Requests'[r] = Requests[r]
  <2>1. PICK i \in 1..Len(calltodo) : r = calltodo[i]
    BY DEF Elements
  <2>2. /\ i - 1 \in 1..Len(q) /\ i - 1 \in 1..(Len(calltodo) - 1) /\ (i - 1) + 1 = i
    <3>1. i # 1
      BY <1>12, <2>1
    <3> QED BY <1>3, <1>5, <3>1
  <2>3. q[i - 1] = r /\ M[i - 1] = Lefts[i]
    BY <1>5, <1>6, <2>1, <2>2
  <2> QED BY <1>7, <1>8, <2>1, <2>2, <2>3
<1>13. ASSUME NEW r \in Slots PROVE Requests'[r] = IF r = s THEN NONE ELSE Requests[r]
  BY <1>7, <1>8, <1>9, <1>12, Zenon
<1>14. Requests' = [Requests EXCEPT ![s] = NONE]
  <2> HIDE DEF s
  <2> QED BY <1>7, <1>8, <1>10, <1>13, ChangedAt
<1>15. \A i \in 1..Len(calltodo) : Requests[calltodo[i]].left = Lefts[i]
  BY <1>3, <1>8, ReqIs
<1>16. s \in Clock!Soonest(Clock!Pending)
  <2>1. ASSUME NEW r \in Clock!Pending PROVE Requests[s].left <= Requests[r].left
    <3>1. PICK i \in 1..Len(calltodo) : r = calltodo[i]
      BY <1>8 DEF Elements
    <3> QED BY <1>1, <1>11, <1>15, <3>1
  <2> QED BY <1>8, <1>10, <2>1, Zenon DEF Clock!Soonest
<1>17. /\ Requests[s].left <= 0
       /\ Calling = NONE /\ Calling' = [fn |-> Requests[s].fn, late |-> -Requests[s].left]
  <2>1. Requests[s].left = Time(1) /\ Requests[s].fn = c_func[s] /\ Time(1) \in Int
    BY <1>1, <1>3, <1>10, ReqIs
  <2>2. running' = [fn |-> c_func[s], late |-> -Time(1)] /\ running' # SCAN
    <3>1. c_func[s] \in Fns /\ -Time(1) \in Int
      BY <1>3, <1>10, <2>1
    <3> QED BY <1>2, <1>5, <3>1, CalloutAssumption
  <2> QED BY <1>1, <1>2, <2>1, <2>2 DEF Calling
<1> QED BY <1>14, <1>16, <1>17, Zenon DEF Clock!Call

(* The queue of differences behaves as a set of requests with the ticks    *)
(* each has left: timeout adds one, untimeout withdraws one, a tick brings *)
(* all nearer, and softclock meets the one that is longest overdue         *)
(* (kern_clock.c, timeout, untimeout, hardclock and softclock).            *)
THEOREM QueueIsClock == Spec => TimersSpec
<1>1. Init => Clock!Init
  <2> SUFFICES ASSUME Init PROVE Clock!Init
    OBVIOUS
  <2>1. Range(calltodo) = {} /\ Calling = NONE
    BY CalloutAssumption DEF Init, Range, Calling
  <2>2. Requests = [s \in Slots |-> NONE]
    BY <2>1 DEF Requests
  <2> QED BY <2>1, <2>2 DEF Clock!Init
<1>2. WInv /\ WInv' /\ [Next]_vars => [Clock!Next]_<<Requests, Calling>>
  <2> SUFFICES ASSUME WInv, WInv', [Next]_vars
               PROVE  Clock!Next \/ UNCHANGED <<Requests, Calling>>
    OBVIOUS
  <2>1. ASSUME NEW f \in Fns, NEW t \in Ticks, Timeout(f, t)
        PROVE  Clock!Set \/ UNCHANGED <<Requests, Calling>>
    BY <2>1, TimeoutClock
  <2>2. ASSUME NEW f \in Fns, Untimeout(f) PROVE Clock!Cancel
    BY <2>2, UntimeoutClock
  <2>3. CASE Hardclock
    BY <2>3, HardclockClock DEF Clock!Next
  <2>4. CASE SoftclockCall
    BY <2>4, CallClock DEF Clock!Next
  <2>5. CASE SoftclockReturn
    <3>1. UNCHANGED Requests
      BY <2>5, QuietRequests DEF SoftclockReturn
    <3>2. Calling # NONE /\ Calling' = NONE
      BY <2>5 DEF SoftclockReturn, Calling
    <3> QED BY <3>1, <3>2 DEF Clock!Next, Clock!Return
  <2>6. CASE SoftclockEnter \/ SoftclockLeave
    <3>1. UNCHANGED Requests
      BY <2>6, QuietRequests DEF SoftclockEnter, SoftclockLeave
    <3>2. UNCHANGED Calling
      BY <2>6 DEF SoftclockEnter, SoftclockLeave, Calling
    <3> QED BY <3>1, <3>2
  <2>7. CASE UNCHANGED vars
    <3>1. UNCHANGED Requests
      BY <2>7, QuietRequests DEF vars
    <3>2. UNCHANGED Calling
      BY <2>7 DEF vars, Calling
    <3> QED BY <3>1, <3>2
  <2> QED BY <2>1, <2>2, <2>3, <2>4, <2>5, <2>6, <2>7 DEF Next, Softclock, Clock!Next
<1>3. WInv /\ [Next]_vars => WInv'
  BY NextWInv
<1> QED BY <1>1, <1>2, <1>3, InitWInv, PTL DEF Spec, TimersSpec, Clock!Spec

=============================================================================
