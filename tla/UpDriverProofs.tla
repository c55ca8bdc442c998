--------------------------- MODULE UpDriverProofs ---------------------------
(***************************************************************************)
(* Theorems about the disk driver, for any number of drives, requests and  *)
(* retries.                                                                *)
(***************************************************************************)
EXTENDS UpDriverProps, SequenceTheorems, WellFoundedInduction, TLAPS

-----------------------------------------------------------------------------
(* Lists, numbers and sums.                                                *)

Elements(s)  == { s[i] : i \in 1..Len(s) }

NoRepeats(s) == \A i, j \in 1..Len(s) : s[i] = s[j] => i = j

(* What the operators of Sequences do, a fact each.                        *)
LEMMA Cat ==
  ASSUME NEW S, NEW c \in Seq(S), NEW d \in Seq(S)
  PROVE  c \o d \in Seq(S)
OBVIOUS

LEMMA CatLen ==
  ASSUME NEW S, NEW c \in Seq(S), NEW d \in Seq(S)
  PROVE  Len(c \o d) = Len(c) + Len(d)
OBVIOUS

LEMMA CatElement ==
  ASSUME NEW S, NEW c \in Seq(S), NEW d \in Seq(S), NEW i \in 1..(Len(c) + Len(d))
  PROVE  (c \o d)[i] = IF i <= Len(c) THEN c[i] ELSE d[i - Len(c)]
OBVIOUS

LEMMA Sub ==
  ASSUME NEW S, NEW s \in Seq(S), NEW a \in 1..(Len(s) + 1), NEW b \in 0..Len(s)
  PROVE  SubSeq(s, a, b) \in Seq(S)
OBVIOUS

LEMMA SubLen ==
  ASSUME NEW S, NEW s \in Seq(S), NEW a \in 1..(Len(s) + 1), NEW b \in 0..Len(s), a <= b + 1
  PROVE  Len(SubSeq(s, a, b)) = b + 1 - a
OBVIOUS

LEMMA SubElement ==
  ASSUME NEW S, NEW s \in Seq(S), NEW a \in 1..(Len(s) + 1), NEW b \in 0..Len(s), a <= b + 1,
         NEW i \in 1..(b + 1 - a)
  PROVE  SubSeq(s, a, b)[i] = s[a + i - 1]
OBVIOUS

LEMMA Single ==
  ASSUME NEW S, NEW e \in S
  PROVE  <<e>> \in Seq(S) /\ Len(<<e>>) = 1 /\ <<e>>[1] = e
OBVIOUS

(* Three lists in a row.                                                   *)
LEMMA CatThree ==
  ASSUME NEW S, NEW c \in Seq(S), NEW e \in S, NEW d \in Seq(S)
  PROVE  /\ c \o <<e>> \o d \in Seq(S)
         /\ Len(c \o <<e>> \o d) = Len(c) + Len(d) + 1
         /\ \A i \in 1..(Len(c) + Len(d) + 1) :
              (c \o <<e>> \o d)[i] = IF i <= Len(c) THEN c[i]
                                     ELSE IF i = Len(c) + 1 THEN e
                                     ELSE d[i - (Len(c) + 1)]
<1> DEFINE m == c \o <<e>>
<1>1. Len(c) \in Nat /\ Len(d) \in Nat
  OBVIOUS
<1>2. m \in Seq(S)
  BY Single, Cat
<1>3. Len(m) = Len(c) + 1
  BY Single, CatLen
<1>4. ASSUME NEW i \in 1..(Len(c) + 1) PROVE m[i] = IF i <= Len(c) THEN c[i] ELSE e
  <2>1. /\ <<e>> \in Seq(S) /\ Len(<<e>>) = 1 /\ <<e>>[1] = e
    BY Single
  <2>2. m[i] = IF i <= Len(c) THEN c[i] ELSE <<e>>[i - Len(c)]
    BY <2>1, CatElement
  <2>3. i > Len(c) => i - Len(c) = 1
    BY <1>1
  <2> QED BY <1>1, <2>1, <2>2, <2>3
<1> HIDE DEF m
<1>5. m \o d \in Seq(S)
  BY <1>2, Cat
<1>6. Len(m \o d) = Len(c) + 1 + Len(d)
  BY <1>2, <1>3, CatLen
<1>7. ASSUME NEW i \in 1..(Len(c) + Len(d) + 1)
      PROVE  (m \o d)[i] = IF i <= Len(c) THEN c[i] ELSE IF i = Len(c) + 1 THEN e
                           ELSE d[i - (Len(c) + 1)]
  <2>1. i \in 1..(Len(m) + Len(d))
    BY <1>1, <1>3
  <2>2. (m \o d)[i] = IF i <= Len(c) + 1 THEN m[i] ELSE d[i - (Len(c) + 1)]
    BY <1>2, <1>3, <2>1, CatElement
  <2>3. i <= Len(c) + 1 => m[i] = IF i <= Len(c) THEN c[i] ELSE e
    BY <1>1, <1>4
  <2> QED BY <1>1, <2>2, <2>3
<1>8. Len(m \o d) = Len(c) + Len(d) + 1
  BY <1>1, <1>6
<1> QED BY <1>5, <1>7, <1>8 DEF m

(* A list with e put in place n.                                           *)
LEMMA InsertAtIs ==
  ASSUME NEW S, NEW s \in Seq(S), NEW n \in 1..(Len(s) + 1), NEW e \in S
  PROVE  /\ Len(InsertAt(s, n, e)) = Len(s) + 1
         /\ \A i \in 1..(Len(s) + 1) :
              InsertAt(s, n, e)[i] = IF i < n THEN s[i] ELSE IF i = n THEN e ELSE s[i - 1]
<1> DEFINE k == n - 1
           c == SubSeq(s, 1, k)
           d == SubSeq(s, n, Len(s))
<1>1. Len(s) \in Nat /\ n \in Nat /\ k \in Nat /\ k <= Len(s) /\ n = k + 1 /\ n - 1 = k
  OBVIOUS
<1> HIDE DEF k
<1>2. c \in Seq(S) /\ d \in Seq(S)
  BY <1>1, Sub
<1>3. Len(c) = k /\ Len(d) = Len(s) - k
  <2>1. Len(c) = k + 1 - 1
    BY <1>1, SubLen
  <2>2. Len(d) = Len(s) + 1 - n
    BY <1>1, SubLen
  <2> QED BY <1>1, <2>1, <2>2
<1>4. ASSUME NEW i \in 1..k PROVE c[i] = s[i]
  <2>1. c[i] = s[1 + i - 1]
    BY <1>1, SubElement
  <2> QED BY <1>1, <2>1
<1>5. ASSUME NEW i \in 1..(Len(s) - k) PROVE d[i] = s[k + i]
  <2>1. i \in 1..(Len(s) + 1 - n) /\ n + i - 1 = k + i
    BY <1>1
  <2>2. d[i] = s[n + i - 1]
    BY <1>1, <2>1, SubElement
  <2> QED BY <2>1, <2>2
<1>6. InsertAt(s, n, e) = c \o <<e>> \o d
  BY <1>1, Zenon DEF InsertAt
<1> HIDE DEF c, d
<1>7. /\ Len(c \o <<e>> \o d) = Len(c) + Len(d) + 1
      /\ \A i \in 1..(Len(c) + Len(d) + 1) :
           (c \o <<e>> \o d)[i] = IF i <= Len(c) THEN c[i]
                                  ELSE IF i = Len(c) + 1 THEN e
                                  ELSE d[i - (Len(c) + 1)]
  BY <1>2, CatThree
<1>8. Len(c) + Len(d) + 1 = Len(s) + 1
  BY <1>1, <1>3
<1>9. ASSUME NEW i \in 1..(Len(s) + 1)
      PROVE  InsertAt(s, n, e)[i] = IF i < n THEN s[i] ELSE IF i = n THEN e ELSE s[i - 1]
  <2>1. InsertAt(s, n, e)[i] = IF i <= k THEN c[i] ELSE IF i = k + 1 THEN e
                               ELSE d[i - (k + 1)]
    BY <1>3, <1>6, <1>7, <1>8, Zenon
  <2>2. i <= k => c[i] = s[i]
    BY <1>1, <1>4
  <2>3. i > k + 1 => d[i - (k + 1)] = s[k + (i - (k + 1))]
    BY <1>1, <1>5
  <2>4. /\ k + (i - (k + 1)) = i - 1 /\ (i <= k <=> i < n) /\ (i = k + 1 <=> i = n)
        /\ (~(i <= k) /\ i # k + 1 => i > k + 1)
    BY <1>1
  <2> QED BY <2>1, <2>2, <2>3, <2>4, Zenon
<1> QED BY <1>6, <1>7, <1>8, <1>9, Zenon

(* The same for a list with e put after its first k elements.              *)
LEMMA InsertAtSeq ==
  ASSUME NEW S, NEW s \in Seq(S), NEW k \in 0..Len(s), NEW e \in S
  PROVE  /\ InsertAt(s, k + 1, e) \in Seq(S)
         /\ Len(InsertAt(s, k + 1, e)) = Len(s) + 1
         /\ \A i \in 1..(Len(s) + 1) :
              InsertAt(s, k + 1, e)[i] = IF i <= k THEN s[i]
                                         ELSE IF i = k + 1 THEN e ELSE s[i - 1]
<1> DEFINE n == k + 1
           c == SubSeq(s, 1, k)
           d == SubSeq(s, n, Len(s))
<1>1. Len(s) \in Nat /\ n \in 1..(Len(s) + 1) /\ n - 1 = k /\ \A i \in Nat : i < n <=> i <= k
  OBVIOUS
<1>2. c \in Seq(S) /\ d \in Seq(S)
  BY <1>1, Sub
<1>3. n = k + 1
  OBVIOUS
<1> HIDE DEF n
<1>4. InsertAt(s, n, e) = c \o <<e>> \o d
  BY <1>1, Zenon DEF InsertAt
<1>5. InsertAt(s, n, e) \in Seq(S)
  <2> HIDE DEF c, d
  <2> QED BY <1>2, <1>4, CatThree
<1>6. /\ Len(InsertAt(s, n, e)) = Len(s) + 1
      /\ \A i \in 1..(Len(s) + 1) :
           InsertAt(s, n, e)[i] = IF i < n THEN s[i] ELSE IF i = n THEN e ELSE s[i - 1]
  BY <1>1, InsertAtIs
<1>7. \A i \in 1..(Len(s) + 1) :
        InsertAt(s, n, e)[i] = IF i <= k THEN s[i] ELSE IF i = n THEN e ELSE s[i - 1]
  BY <1>1, <1>6
<1> QED BY <1>3, <1>5, <1>6, <1>7, Zenon

LEMMA TailElements ==
  ASSUME NEW S, NEW s \in Seq(S), s # <<>>, NoRepeats(s)
  PROVE  /\ Tail(s) \in Seq(S) /\ Head(s) \in S
         /\ NoRepeats(Tail(s))
         /\ Elements(Tail(s)) = Elements(s) \ {Head(s)}
<1>1. /\ Len(s) \in Nat \ {0} /\ Tail(s) \in Seq(S) /\ Len(Tail(s)) = Len(s) - 1
      /\ \A i \in 1..(Len(s) - 1) : Tail(s)[i] = s[i + 1]
      /\ Head(s) = s[1] /\ Head(s) \in S
  OBVIOUS
<1>2. NoRepeats(Tail(s))
  BY <1>1 DEF NoRepeats
<1>3. ASSUME NEW i \in 1..Len(Tail(s)) PROVE Tail(s)[i] \in Elements(s) \ {Head(s)}
  <2>1. i + 1 \in 1..Len(s) /\ 1 \in 1..Len(s) /\ i + 1 # 1 /\ Tail(s)[i] = s[i + 1]
    BY <1>1
  <2> QED BY <1>1, <2>1 DEF Elements, NoRepeats
<1>4. ASSUME NEW i \in 1..Len(s), s[i] # Head(s) PROVE s[i] \in Elements(Tail(s))
  <2>1. i - 1 \in 1..Len(Tail(s)) /\ Tail(s)[i - 1] = s[i]
    BY <1>1, <1>4
  <2> QED BY <2>1 DEF Elements
<1>5. ASSUME NEW x \in Elements(Tail(s)) PROVE x \in Elements(s) \ {Head(s)}
  BY <1>3, <1>5, Zenon DEF Elements
<1>6. ASSUME NEW x \in Elements(s) \ {Head(s)} PROVE x \in Elements(Tail(s))
  BY <1>4, <1>6, Zenon DEF Elements
<1>7. Elements(Tail(s)) = Elements(s) \ {Head(s)}
  BY <1>5, <1>6, Zenon
<1> QED BY <1>1, <1>2, <1>7

(* A set of numbers has a least one.                                       *)
LEMMA NatLeast ==
  ASSUME NEW T, T \subseteq Nat, T # {}
  PROVE  \E x \in T : \A y \in T : x <= y
<1> DEFINE R == OpToRel(<, Nat)
<1>1. IsWellFoundedOn(R, Nat)
  BY NatLessThanWellFounded, Zenon
<1>2. \A x, y \in Nat : y < x => <<y, x>> \in R
  BY DEF OpToRel
<1> HIDE DEF R
<1>3. PICK x \in T : \A y \in T : ~ (<<y, x>> \in R)
  BY <1>1, WFMin, Zenon
<1>4. ASSUME NEW y \in T PROVE x <= y
  <2>1. x \in Nat /\ y \in Nat
    OBVIOUS
  <2>2. ~ (y < x)
    BY <1>2, <1>3, <2>1, Zenon
  <2> QED BY <2>1, <2>2
<1> QED BY <1>4, Zenon

LEMMA NatMin ==
  ASSUME NEW T, T \subseteq Nat, T # {}
  PROVE  Min(T) \in T
BY NatLeast, Zenon DEF Min

(* The least place of a list that has a property.                          *)
LEMMA LeastOf ==
  ASSUME NEW n \in Nat, NEW T, T \subseteq 1..n, T # {}
  PROVE  \E i \in T : \A j \in 1..(i - 1) : j \notin T
<1>1. T \subseteq Nat
  OBVIOUS
<1>2. PICK i \in T : \A j \in T : i <= j
  BY <1>1, NatLeast
<1>3. \A j \in 1..(i - 1) : j \notin T
  BY <1>2
<1> QED BY <1>3

-----------------------------------------------------------------------------
(* disksort: the request at work stays at the head.                        *)

LEMMA DisksortSeq ==
  ASSUME NEW q \in Seq(Requests), NEW bp \in Requests
  PROVE  /\ Disksort(q, bp) \in Seq(Requests)
         /\ Disksort(q, bp) # <<>>
         /\ q # <<>> => Head(Disksort(q, bp)) = Head(q)
<1>1. CASE q = <<>>
  <2>1. Disksort(q, bp) = <<bp>>
    BY <1>1 DEF Disksort
  <2>2. <<bp>> \in Seq(Requests) /\ <<bp>> # <<>>
    OBVIOUS
  <2> QED BY <1>1, <2>1, <2>2, Zenon
<1>2. CASE q # <<>>
  <2> DEFINE S == IF b_cylin[bp] < b_cylin[Head(q)] THEN NextSweep(q, bp)
                                                    ELSE ThisSweep(q, bp)
  <2>1. Len(q) \in 1..Len(q)
    BY <1>2
  <2>2. S \subseteq 1..Len(q) /\ Len(q) \in S
    BY <2>1, Zenon DEF NextSweep, ThisSweep
  <2>3. Disksort(q, bp) = InsertAt(q, Min(S) + 1, bp)
    BY <1>2, Zenon DEF Disksort, Behind
  <2> HIDE DEF S
  <2>4. Min(S) \in S
    <3>1. S \subseteq Nat /\ S # {}
      BY <2>2
    <3> QED BY <3>1, NatMin, Zenon
  <2> DEFINE k == Min(S)
  <2>5. k \in 1..Len(q) /\ k \in 0..Len(q)
    <3>1. k \in 1..Len(q)
      BY <2>2, <2>4, Zenon
    <3> HIDE DEF k
    <3> QED BY <3>1
  <2>6. Disksort(q, bp) = InsertAt(q, k + 1, bp)
    BY <2>3
  <2> HIDE DEF k
  <2>7. /\ InsertAt(q, k + 1, bp) \in Seq(Requests)
        /\ Len(InsertAt(q, k + 1, bp)) = Len(q) + 1
        /\ \A i \in 1..(Len(q) + 1) :
             InsertAt(q, k + 1, bp)[i] = IF i <= k THEN q[i]
                                         ELSE IF i = k + 1 THEN bp ELSE q[i - 1]
    BY <2>5, InsertAtSeq
  <2> DEFINE r == InsertAt(q, k + 1, bp)
  <2>8. r[1] = q[1]
    <3>1. 1 \in 1..(Len(q) + 1) /\ 1 <= k
      BY <2>5
    <3> QED BY <2>7, <3>1
  <2>9. Len(r) # 0 /\ r \in Seq(Requests)
    BY <2>7
  <2> HIDE DEF r
  <2>10. r # <<>> /\ Head(r) = Head(q)
    BY <1>2, <2>8, <2>9
  <2> QED BY <2>6, <2>9, <2>10 DEF r
<1> QED BY <1>1, <1>2

-----------------------------------------------------------------------------
(* What Among gathers.  Its recursion has one solution, which is found by  *)
(* giving it: for the list that results from a step, from the one for the  *)
(* list before.                                                            *)

Step(h, q, S, i) ==
  IF i = 0 THEN <<>>
  ELSE IF q[i] \in S THEN Append(h[i - 1], q[i]) ELSE h[i - 1]
Gathers(h, q, S, n) == h = [i \in 0..n |-> Step(h, q, S, i)]

LEMMA AmongIs ==
  ASSUME NEW q, NEW S
  PROVE  Among(q, S) = (CHOOSE h : Gathers(h, q, S, Len(q)))[Len(q)]
BY DEF Among, Gathers, Step

LEMMA GathersAgree ==
  ASSUME NEW q, NEW S, NEW n \in Nat, NEW h, NEW g, Gathers(h, q, S, n), Gathers(g, q, S, n)
  PROVE  h = g
<1> DEFINE T == { i \in 0..n : h[i] # g[i] }
<1>1. T = {}
  <2> SUFFICES ASSUME T # {} PROVE FALSE
    OBVIOUS
  <2>1. PICK i \in T : \A j \in T : i <= j
    <3>1. T \subseteq Nat
      OBVIOUS
    <3> HIDE DEF T
    <3> QED BY <3>1, NatLeast
  <2>2. i # 0 /\ i - 1 \in 0..n
    BY <2>1 DEF Gathers, Step
  <2>3. h[i - 1] = g[i - 1]
    BY <2>1, <2>2
  <2> QED BY <2>1, <2>2, <2>3 DEF Gathers, Step
<1> QED BY <1>1 DEF Gathers

(* By the shortest beginning of q for which there would be none.           *)
LEMMA GathersExists ==
  ASSUME NEW q, NEW S, NEW m \in Nat
  PROVE  \E h : Gathers(h, q, S, m)
<1> DEFINE T == { n \in 0..m : ~\E h : Gathers(h, q, S, n) }
<1>1. T = {}
  <2> SUFFICES ASSUME T # {} PROVE FALSE
    OBVIOUS
  <2>1. PICK n \in T : \A j \in T : n <= j
    <3>1. T \subseteq Nat
      OBVIOUS
    <3> HIDE DEF T
    <3> QED BY <3>1, NatLeast
  <2>2. n # 0
    <3> DEFINE g == [i \in 0..0 |-> <<>>]
    <3>1. g = [i \in 0..0 |-> Step(g, q, S, i)]
      BY DEF Step
    <3>2. Gathers(g, q, S, 0)
      BY <3>1 DEF Gathers
    <3> QED BY <2>1, <3>2
  <2>3. n - 1 \in 0..m /\ n - 1 \notin T
    BY <2>1, <2>2
  <2>4. PICK h : Gathers(h, q, S, n - 1)
    BY <2>3
  <2> DEFINE g == [i \in 0..n |-> IF i < n THEN h[i] ELSE Step(h, q, S, i)]
             r == [i \in 0..n |-> Step(g, q, S, i)]
  <2>5. ASSUME NEW i \in 0..n PROVE g[i] = r[i]
    <3>1. n \in Nat
      BY <2>1
    <3>2. i # 0 => g[i - 1] = h[i - 1]
      BY <2>2, <3>1
    <3>3. Step(g, q, S, i) = Step(h, q, S, i)
      <4> HIDE DEF g
      <4> QED BY <3>2 DEF Step
    <3>4. i < n => h[i] = Step(h, q, S, i)
      BY <2>4, <3>1 DEF Gathers
    <3> QED BY <3>1, <3>3, <3>4
  <2>6. g = r
    BY <2>5
  <2> HIDE DEF g
  <2>7. Gathers(g, q, S, n)
    BY <2>6 DEF Gathers
  <2> QED BY <2>1, <2>7
<1> QED BY <1>1

LEMMA AmongBy ==
  ASSUME NEW q, NEW S, Len(q) \in Nat, NEW h, Gathers(h, q, S, Len(q))
  PROVE  Among(q, S) = h[Len(q)]
<1>1. Gathers(CHOOSE g : Gathers(g, q, S, Len(q)), q, S, Len(q))
  OBVIOUS
<1>2. h = CHOOSE g : Gathers(g, q, S, Len(q))
  BY <1>1, GathersAgree
<1> QED BY <1>2, AmongIs

(* What is gathered is of what was there, as far as one has come.           *)
LEMMA GathersSeq ==
  ASSUME NEW R, NEW q \in Seq(R), NEW S, NEW h, Gathers(h, q, S, Len(q))
  PROVE  \A i \in 0..Len(q) : h[i] \in Seq(Elements(q) \cap S)
<1> DEFINE T == { i \in 0..Len(q) : h[i] \notin Seq(Elements(q) \cap S) }
<1>1. T = {}
  <2> SUFFICES ASSUME T # {} PROVE FALSE
    OBVIOUS
  <2>0. Len(q) \in Nat
    OBVIOUS
  <2>1. PICK i \in T : \A j \in T : i <= j
    <3>1. T \subseteq Nat
      BY <2>0
    <3> HIDE DEF T
    <3> QED BY <3>1, NatLeast
  <2>2. h[i] = Step(h, q, S, i)
    BY <2>1 DEF Gathers
  <2>3. i # 0 /\ i - 1 \in 0..Len(q) /\ i \in 1..Len(q)
    <3>1. i # 0
      <4>1. i = 0 => h[i] = <<>>
        BY <2>2 DEF Step
      <4>2. <<>> \in Seq(Elements(q) \cap S)
        OBVIOUS
      <4> QED BY <2>1, <4>1, <4>2
    <3> QED BY <2>0, <2>1, <3>1
  <2>4. h[i - 1] \in Seq(Elements(q) \cap S)
    BY <2>1, <2>3
  <2>5. q[i] \in Elements(q)
    BY <2>3 DEF Elements
  <2>6. h[i] \in Seq(Elements(q) \cap S)
    BY <2>2, <2>3, <2>4, <2>5 DEF Step
  <2> QED BY <2>1, <2>6
<1> QED BY <1>1

LEMMA AmongElements ==
  ASSUME NEW R, NEW q \in Seq(R), NEW S
  PROVE  Among(q, S) \in Seq(Elements(q) \cap S)
<1>1. Len(q) \in Nat
  OBVIOUS
<1>2. PICK h : Gathers(h, q, S, Len(q))
  BY <1>1, GathersExists
<1>3. Among(q, S) = h[Len(q)]
  BY <1>1, <1>2, AmongBy
<1> QED BY <1>1, <1>2, <1>3, GathersSeq

(* r is q with e in place n.                                               *)
Placed(q, n, e, r) ==
  /\ Len(r) = Len(q) + 1
  /\ \A i \in 1..(Len(q) + 1) :
       r[i] = IF i < n THEN q[i] ELSE IF i = n THEN e ELSE q[i - 1]

(* An element that is not in S does not count; one that is comes last, if  *)
(* nothing behind it is; the first is the first of what is gathered.       *)
LEMMA AmongOther ==
  ASSUME NEW R, NEW q \in Seq(R), NEW n \in 1..(Len(q) + 1), NEW e, NEW r, Placed(q, n, e, r),
         NEW S, e \notin S
  PROVE  Among(r, S) = Among(q, S)
<1>1. Len(q) \in Nat /\ n \in Nat /\ n >= 1 /\ n <= Len(q) + 1
  OBVIOUS
<1>2. PICK h : Gathers(h, q, S, Len(q))
  BY <1>1, GathersExists
<1> DEFINE g == [i \in 0..Len(r) |-> IF i < n THEN h[i] ELSE h[i - 1]]
<1>3. Len(r) = Len(q) + 1 /\ Len(r) \in Nat
  BY <1>1 DEF Placed
<1>4. ASSUME NEW i \in 0..Len(r) PROVE g[i] = Step(g, r, S, i)
  <2>1. CASE i < n
    <3>1. g[i] = h[i] /\ (i # 0 => g[i - 1] = h[i - 1])
      BY <1>1, <1>3, <2>1
    <3>2. i # 0 => r[i] = q[i]
      BY <1>1, <1>3, <2>1 DEF Placed
    <3>3. h[i] = Step(h, q, S, i)
      BY <1>1, <1>2, <1>3, <2>1 DEF Gathers
    <3> HIDE DEF g
    <3> QED BY <3>1, <3>2, <3>3 DEF Step
  <2>2. CASE i = n
    <3>1. g[i] = h[n - 1] /\ g[i - 1] = h[n - 1] /\ i # 0
      BY <1>1, <1>3, <2>2
    <3>2. r[i] = e
      BY <1>1, <1>3, <2>2 DEF Placed
    <3> HIDE DEF g
    <3> QED BY <3>1, <3>2 DEF Step
  <2>3. CASE i > n
    <3>1. g[i] = h[i - 1] /\ g[i - 1] = h[i - 1 - 1] /\ i # 0 /\ i - 1 # 0
      BY <1>1, <1>3, <2>3
    <3>2. r[i] = q[i - 1]
      BY <1>1, <1>3, <2>3 DEF Placed
    <3>3. h[i - 1] = Step(h, q, S, i - 1)
      BY <1>1, <1>2, <1>3, <2>3 DEF Gathers
    <3> HIDE DEF g
    <3> QED BY <3>1, <3>2, <3>3 DEF Step
  <2> QED BY <1>1, <1>3, <2>1, <2>2, <2>3
<1>5. Gathers(g, r, S, Len(r))
  <2>1. g = [i \in 0..Len(r) |-> g[i]]
    OBVIOUS
  <2> HIDE DEF g
  <2> QED BY <1>4, <2>1 DEF Gathers
<1>6. g[Len(r)] = h[Len(q)]
  BY <1>1, <1>3
<1>7. Among(r, S) = g[Len(r)] /\ Among(q, S) = h[Len(q)]
  <2> HIDE DEF g
  <2> QED BY <1>1, <1>2, <1>3, <1>5, AmongBy
<1> QED BY <1>6, <1>7

LEMMA AmongLast ==
  ASSUME NEW R, NEW q \in Seq(R), NEW n \in 1..(Len(q) + 1), NEW e, NEW r, Placed(q, n, e, r),
         NEW S, e \in S, \A i \in n..Len(q) : q[i] \notin S
  PROVE  Among(r, S) = Append(Among(q, S), e)
<1>1. Len(q) \in Nat /\ n \in Nat /\ n >= 1 /\ n <= Len(q) + 1
  OBVIOUS
<1>2. PICK h : Gathers(h, q, S, Len(q))
  BY <1>1, GathersExists
<1> DEFINE m == n - 1
           T == { i \in m..Len(q) : h[i] # h[m] }
<1>3. T = {}
  <2> SUFFICES ASSUME T # {} PROVE FALSE
    OBVIOUS
  <2>1. PICK i \in T : \A j \in T : i <= j
    <3>1. T \subseteq Nat
      BY <1>1
    <3> HIDE DEF T
    <3> QED BY <3>1, NatLeast
  <2>2. i # m /\ i - 1 \in m..Len(q) /\ i \in n..Len(q) /\ i \in 0..Len(q) /\ i # 0
    BY <1>1, <2>1
  <2>3. h[i - 1] = h[m]
    BY <1>1, <2>1, <2>2
  <2>4. h[i] = Step(h, q, S, i)
    BY <1>2, <2>2 DEF Gathers
  <2> QED BY <2>1, <2>2, <2>3, <2>4 DEF Step
<1> DEFINE g == [i \in 0..Len(r) |-> IF i < n THEN h[i] ELSE Append(h[m], e)]
<1>4. Len(r) = Len(q) + 1 /\ Len(r) \in Nat
  BY <1>1 DEF Placed
<1>5. ASSUME NEW i \in 0..Len(r) PROVE g[i] = Step(g, r, S, i)
  <2>1. CASE i < n
    <3>1. g[i] = h[i] /\ (i # 0 => g[i - 1] = h[i - 1])
      BY <1>1, <1>4, <2>1
    <3>2. i # 0 => r[i] = q[i]
      BY <1>1, <1>4, <2>1 DEF Placed
    <3>3. h[i] = Step(h, q, S, i)
      BY <1>1, <1>2, <1>4, <2>1 DEF Gathers
    <3> HIDE DEF g
    <3> QED BY <3>1, <3>2, <3>3 DEF Step
  <2>2. CASE i = n
    <3>1. g[i] = Append(h[m], e) /\ g[i - 1] = h[m] /\ i # 0
      BY <1>1, <1>4, <2>2
    <3>2. r[i] = e
      BY <1>1, <1>4, <2>2 DEF Placed
    <3> HIDE DEF g
    <3> QED BY <3>1, <3>2 DEF Step
  <2>3. CASE i > n
    <3>1. g[i] = Append(h[m], e) /\ g[i - 1] = Append(h[m], e) /\ i # 0
      BY <1>1, <1>4, <2>3
    <3>2. r[i] = q[i - 1] /\ i - 1 \in n..Len(q)
      BY <1>1, <1>4, <2>3 DEF Placed
    <3> HIDE DEF g
    <3> QED BY <3>1, <3>2 DEF Step
  <2> QED BY <1>1, <1>4, <2>1, <2>2, <2>3
<1>6. Gathers(g, r, S, Len(r))
  <2>1. g = [i \in 0..Len(r) |-> g[i]]
    OBVIOUS
  <2> HIDE DEF g
  <2> QED BY <1>5, <2>1 DEF Gathers
<1>7. g[Len(r)] = Append(h[Len(q)], e)
  <2>1. Len(q) \in m..Len(q) /\ Len(r) \in 0..Len(r) /\ ~(Len(r) < n)
    BY <1>1, <1>4
  <2>2. h[Len(q)] = h[m]
    BY <1>3, <2>1
  <2> QED BY <2>1, <2>2
<1>8. Among(r, S) = g[Len(r)] /\ Among(q, S) = h[Len(q)]
  <2> HIDE DEF g
  <2> QED BY <1>1, <1>2, <1>4, <1>6, AmongBy
<1> QED BY <1>7, <1>8

LEMMA AmongTail ==
  ASSUME NEW R, NEW q \in Seq(R), q # <<>>, NEW S
  PROVE  /\ Head(q) \notin S => Among(Tail(q), S) = Among(q, S)
         /\ Head(q) \in S => /\ Among(q, S) # <<>>
                             /\ Among(Tail(q), S) = Tail(Among(q, S))
<1> DEFINE t == Tail(q)
<1>1. /\ Len(q) \in Nat /\ Len(q) >= 1 /\ Head(q) = q[1]
      /\ t \in Seq(R) /\ Len(t) = Len(q) - 1 /\ \A i \in 1..Len(t) : t[i] = q[i + 1]
  OBVIOUS
<1> HIDE DEF t
<1>2. PICK h : Gathers(h, q, S, Len(q))
  BY <1>1, GathersExists
<1>3. \A i \in 0..Len(q) : h[i] = Step(h, q, S, i)
  BY <1>2 DEF Gathers
<1>4. \A i \in 0..Len(q) : h[i] \in Seq(Elements(q) \cap S)
  BY <1>2, GathersSeq
<1>5. h[0] = <<>> /\ h[1] = IF q[1] \in S THEN <<q[1]>> ELSE <<>>
  <2>1. 0 \in 0..Len(q) /\ 1 \in 0..Len(q) /\ 1 - 1 = 0
    BY <1>1
  <2>2. h[0] = <<>>
    BY <1>3, <2>1 DEF Step
  <2>3. h[1] = IF q[1] \in S THEN Append(h[0], q[1]) ELSE h[0]
    <3>1. h[1] = Step(h, q, S, 1)
      BY <1>3, <2>1
    <3> QED BY <2>1, <3>1 DEF Step
  <2>4. Append(<<>>, q[1]) = <<q[1]>>
    OBVIOUS
  <2> QED BY <2>2, <2>3, <2>4
<1>6. Among(q, S) = h[Len(q)]
  BY <1>1, <1>2, AmongBy
<1>7. CASE q[1] \notin S
  <2> DEFINE g == [i \in 0..Len(t) |-> h[i + 1]]
  <2>1. ASSUME NEW i \in 0..Len(t) PROVE g[i] = Step(g, t, S, i)
    <3>1. CASE i = 0
      BY <1>5, <1>7, <3>1 DEF Step
    <3>2. CASE i # 0
      <4>1. g[i] = h[i + 1] /\ g[i - 1] = h[i] /\ t[i] = q[i + 1]
        BY <1>1, <3>2
      <4>2. h[i + 1] = Step(h, q, S, i + 1) /\ i + 1 - 1 = i /\ i + 1 # 0
        BY <1>1, <1>3
      <4> HIDE DEF g
      <4> QED BY <3>2, <4>1, <4>2 DEF Step
    <3> QED BY <3>1, <3>2
  <2>2. Gathers(g, t, S, Len(t))
    <3>1. g = [i \in 0..Len(t) |-> g[i]]
      OBVIOUS
    <3> HIDE DEF g
    <3> QED BY <2>1, <3>1 DEF Gathers
  <2>3. g[Len(t)] = h[Len(q)]
    BY <1>1
  <2>4. Among(t, S) = g[Len(t)]
    <3> HIDE DEF g
    <3> QED BY <1>1, <2>2, AmongBy
  <2> QED BY <1>1, <1>6, <1>7, <2>3, <2>4 DEF t
<1>8. CASE q[1] \in S
  <2> DEFINE T == { i \in 1..Len(q) : h[i] = <<>> }
  <2>1. T = {}
    <3> SUFFICES ASSUME T # {} PROVE FALSE
      OBVIOUS
    <3>1. PICK i \in T : \A j \in T : i <= j
      <4>1. T \subseteq Nat
        OBVIOUS
      <4> HIDE DEF T
      <4> QED BY <4>1, NatLeast
    <3>2. i # 1
      <4>1. h[1] = <<q[1]>> /\ <<q[1]>> # <<>>
        BY <1>5, <1>8
      <4> QED BY <3>1, <4>1
    <3>3. i - 1 \in 1..Len(q) /\ i # 0
      BY <1>1, <3>1, <3>2
    <3>4. h[i - 1] # <<>>
      BY <3>1, <3>3
    <3>5. h[i] = Step(h, q, S, i)
      BY <1>3, <3>1
    <3>6. h[i - 1] \in Seq(Elements(q) \cap S)
      BY <1>4, <3>3
    <3>7. q[i] \in Elements(q)
      BY <3>1 DEF Elements
    <3>8. CASE q[i] \in S
      <4> DEFINE a == h[i - 1]
      <4>1. h[i] = Append(a, q[i])
        BY <3>3, <3>5, <3>8 DEF Step
      <4>2. a \in Seq(Elements(q) \cap S) /\ q[i] \in Elements(q) \cap S
        BY <3>6, <3>7, <3>8
      <4> HIDE DEF a
      <4>3. Append(a, q[i]) # <<>>
        BY <4>2
      <4> QED BY <3>1, <4>1, <4>3
    <3>9. CASE q[i] \notin S
      BY <3>1, <3>3, <3>4, <3>5, <3>9 DEF Step
    <3> QED BY <3>8, <3>9
  <2> DEFINE g == [i \in 0..Len(t) |-> Tail(h[i + 1])]
  <2>2. ASSUME NEW i \in 0..Len(t) PROVE g[i] = Step(g, t, S, i)
    <3>1. CASE i = 0
      <4>1. g[i] = Tail(h[1])
        BY <1>1, <3>1
      <4>2. Tail(h[1]) = <<>>
        BY <1>5, <1>8
      <4> HIDE DEF g
      <4> QED BY <3>1, <4>1, <4>2 DEF Step
    <3>2. CASE i # 0
      <4>1. g[i] = Tail(h[i + 1]) /\ g[i - 1] = Tail(h[i]) /\ t[i] = q[i + 1] /\ i \in 1..Len(q)
        BY <1>1, <3>2
      <4>2. h[i + 1] = Step(h, q, S, i + 1) /\ i + 1 - 1 = i /\ i + 1 # 0
        BY <1>1, <1>3
      <4>3. h[i] # <<>> /\ h[i] \in Seq(Elements(q) \cap S)
        <5>1. i \in 0..Len(q) /\ i \notin T
          BY <1>1, <2>1, <4>1
        <5> QED BY <1>4, <4>1, <5>1
      <4> HIDE DEF g, T
      <4>4. CASE t[i] \notin S
        BY <3>2, <4>1, <4>2, <4>4 DEF Step
      <4>5. CASE t[i] \in S
        <5>1. h[i + 1] = Append(h[i], t[i])
          BY <4>1, <4>2, <4>5 DEF Step
        <5>2. Tail(Append(h[i], t[i])) = Append(Tail(h[i]), t[i])
          <6> HIDE <4>2
          <6> QED BY <4>3
        <5> QED BY <3>2, <4>1, <4>5, <5>1, <5>2 DEF Step
      <4> QED BY <4>4, <4>5
    <3> QED BY <3>1, <3>2
  <2>3. Gathers(g, t, S, Len(t))
    <3>1. g = [i \in 0..Len(t) |-> g[i]]
      OBVIOUS
    <3> HIDE DEF g
    <3> QED BY <2>2, <3>1 DEF Gathers
  <2>4. g[Len(t)] = Tail(h[Len(q)]) /\ h[Len(q)] # <<>>
    BY <1>1, <2>1
  <2>5. Among(t, S) = g[Len(t)]
    <3> HIDE DEF g
    <3> QED BY <1>1, <2>3, AmongBy
  <2> QED BY <1>1, <1>6, <1>8, <2>4, <2>5 DEF t
<1> QED BY <1>1, <1>7, <1>8

-----------------------------------------------------------------------------
(* disksort.                                                               *)

(* One sweep upwards from the request at work, and behind it the next, of  *)
(* requests whose cylinder it had passed.                                  *)
Cyl(q, i) == b_cylin[q[i]]
Sweeps(q) ==
  \A i, j \in 1..Len(q) : i < j =>
    \/ Cyl(q, i) <= Cyl(q, j) /\ (Cyl(q, i) < Cyl(q, 1) => Cyl(q, j) < Cyl(q, 1))
    \/ Cyl(q, 1) <= Cyl(q, i) /\ Cyl(q, j) < Cyl(q, 1)

(* Behind the first, all are for cylinder c.                               *)
Level(q, c) == \A i \in 2..Len(q) : Cyl(q, i) = c

LEMMA CylType ==
  ASSUME NEW q \in Seq(Requests)
  PROVE  \A i \in 1..Len(q) : Cyl(q, i) \in Nat
BY DiskSortAssumption, ElementOfSeq DEF Cyl

LEMMA DisksortFirst ==
  ASSUME NEW q \in Seq(Requests), q # <<>>, NEW bp \in Requests,
         NEW T, T \subseteq 1..Len(q), Len(q) \in T
  PROVE  \E k \in T : /\ \A j \in 1..(k - 1) : j \notin T
                      /\ k = Min(T)
<1>1. T \subseteq Nat
  OBVIOUS
<1>2. \E k \in T : \A j \in T : k <= j
  BY <1>1, NatLeast
<1>3. /\ Min(T) \in T /\ \A j \in T : Min(T) <= j
  BY <1>2, Zenon DEF Min
<1>4. \A j \in 1..(Min(T) - 1) : j \notin T
  <2> DEFINE m == Min(T)
  <2>1. m \in Nat /\ \A j \in T : m <= j
    BY <1>1, <1>3
  <2> HIDE DEF m
  <2>2. \A j \in 1..(m - 1) : j \notin T
    BY <1>1, <2>1
  <2> QED BY <2>2 DEF m
<1> QED BY <1>3, <1>4, Zenon

(* Where disksort puts a request: behind those for its cylinder, whichever *)
(* sweep it is put into.                                                   *)
LEMMA DisksortPlace ==
  ASSUME NEW q \in Seq(Requests), NEW bp \in Requests
  PROVE  \E n \in 1..(Len(q) + 1) :
           /\ Placed(q, n, bp, Disksort(q, bp))
           /\ q # <<>> => n # 1
           /\ Sweeps(q) => /\ \A i \in n..Len(q) : Cyl(q, i) # b_cylin[bp]
                           /\ \A i \in 1..(n - 1) : \/ Cyl(q, i) <= b_cylin[bp]
                                                    \/ b_cylin[bp] < Cyl(q, 1) /\ Cyl(q, 1) <= Cyl(q, i)
                           /\ \A i \in n..Len(q) : \/ b_cylin[bp] < Cyl(q, i)
                                                   \/ Cyl(q, i) < Cyl(q, 1) /\ Cyl(q, 1) <= b_cylin[bp]
                           /\ b_cylin[bp] < Cyl(q, 1) => \A i \in n..Len(q) : Cyl(q, i) < Cyl(q, 1)
                           /\ Cyl(q, 1) <= b_cylin[bp] => \A i \in 1..(n - 1) : Cyl(q, 1) <= Cyl(q, i)
           /\ Level(q, b_cylin[bp]) => n = Len(q) + 1
<1>1. CASE q = <<>>
  <2>1. Disksort(q, bp) = <<bp>> /\ Len(q) = 0
    BY <1>1 DEF Disksort
  <2>2. Placed(q, 1, bp, <<bp>>)
    BY <2>1 DEF Placed
  <2>3. 1 \in 1..(Len(q) + 1) /\ 1..Len(q) = {} /\ 1..(1 - 1) = {} /\ 1 = Len(q) + 1
    BY <2>1
  <2> QED BY <1>1, <2>1, <2>2, <2>3
<1>2. CASE q # <<>>
  <2> DEFINE c == b_cylin[bp]
             S == IF b_cylin[bp] < b_cylin[Head(q)] THEN NextSweep(q, bp)
                                                    ELSE ThisSweep(q, bp)
             C(i) == Cyl(q, i)
  <2>1. Len(q) \in Nat /\ Len(q) \in 1..Len(q) /\ Head(q) = q[1] /\ 1 \in 1..Len(q)
    BY <1>2
  <2>2. S \subseteq 1..Len(q) /\ Len(q) \in S
    BY <2>1, Zenon DEF NextSweep, ThisSweep
  <2>3. Disksort(q, bp) = InsertAt(q, Min(S) + 1, bp)
    BY <1>2, Zenon DEF Disksort, Behind
  <2> HIDE DEF S
  <2>4. PICK k \in S : (\A j \in 1..(k - 1) : j \notin S) /\ k = Min(S)
    BY <1>2, <2>2, DisksortFirst
  <2>5. k \in 1..Len(q) /\ k \in Nat /\ k <= Len(q) /\ k >= 1 /\ k \in 0..Len(q)
    <3>1. k \in 1..Len(q)
      BY <2>2
    <3> HIDE DEF S
    <3> QED BY <2>1, <3>1
  <2> DEFINE n == k + 1
  <2>6. Disksort(q, bp) = InsertAt(q, n, bp)
    BY <2>3, <2>4
  <2>7. n \in 1..(Len(q) + 1) /\ n # 1
    BY <2>1, <2>5
  <2>8. Placed(q, n, bp, Disksort(q, bp))
    <3> HIDE DEF n
    <3> QED BY <2>6, <2>7, InsertAtIs DEF Placed
  <2>9. c \in Nat /\ \A i \in 1..Len(q) : C(i) \in Nat
    BY CylType, DiskSortAssumption
  <2>10. /\ C(1) <= c => /\ \A i \in 1..(k - 1) : C(i + 1) <= c /\ C(i) <= C(i + 1)
                         /\ k = Len(q) \/ C(k + 1) < C(k) \/ c < C(k + 1)
    <3> SUFFICES ASSUME C(1) <= c PROVE
                         /\ \A i \in 1..(k - 1) : C(i + 1) <= c /\ C(i) <= C(i + 1)
                         /\ k = Len(q) \/ C(k + 1) < C(k) \/ c < C(k + 1)
      OBVIOUS
    <3>1. S = ThisSweep(q, bp)
      <4>1. ~(c < C(1))
        BY <2>1, <2>9
      <4> QED BY <2>1, <4>1 DEF S, Cyl
    <3>2. \A i \in 1..Len(q) :
            i \in S <=> (i = Len(q) \/ (i < Len(q) /\ C(i + 1) < C(i)) \/ (i < Len(q) /\ c < C(i + 1)))
      BY <3>1, Zenon DEF ThisSweep, Inversion, Sooner, Cyl
    <3>3. ASSUME NEW i \in 1..(k - 1) PROVE C(i + 1) <= c /\ C(i) <= C(i + 1)
      <4>1. i \in 1..Len(q) /\ i + 1 \in 1..Len(q) /\ i < Len(q) /\ i \notin S
        BY <2>4, <2>5
      <4>2. ~(C(i + 1) < C(i)) /\ ~(c < C(i + 1))
        BY <3>2, <4>1
      <4> QED BY <2>9, <4>1, <4>2
    <3> QED BY <2>4, <2>5, <3>2, <3>3
  <2>11. c < C(1) => /\ \A i \in 1..(k - 1) : \A f \in 1..i : C(f + 1) < C(f) => C(i + 1) <= c
                     /\ k = Len(q) \/ (c < C(k + 1) /\ \E f \in 1..k : C(f + 1) < C(f))
    <3> SUFFICES ASSUME c < C(1) PROVE
                     /\ \A i \in 1..(k - 1) : \A f \in 1..i : C(f + 1) < C(f) => C(i + 1) <= c
                     /\ k = Len(q) \/ (c < C(k + 1) /\ \E f \in 1..k : C(f + 1) < C(f))
      OBVIOUS
    <3>1. S = NextSweep(q, bp)
      BY <2>1 DEF S, Cyl
    <3>2. \A i \in 1..Len(q) :
            i \in S <=> (i = Len(q) \/ (/\ i < Len(q) /\ c < C(i + 1)
                                        /\ \E f \in 1..i : f < Len(q) /\ C(f + 1) < C(f)))
      BY <3>1, Zenon DEF NextSweep, Inversion, Sooner, Cyl
    <3>3. ASSUME NEW i \in 1..(k - 1), NEW f \in 1..i, C(f + 1) < C(f) PROVE C(i + 1) <= c
      <4>1. i \in 1..Len(q) /\ i + 1 \in 1..Len(q) /\ i < Len(q) /\ i \notin S /\ f < Len(q)
        BY <2>4, <2>5
      <4>2. ~(c < C(i + 1))
        BY <3>2, <3>3, <4>1
      <4> QED BY <2>9, <4>1, <4>2
    <3> QED BY <2>4, <2>5, <3>2, <3>3
  <2>12. Level(q, c) => k = Len(q)
    <3> SUFFICES ASSUME Level(q, c), k # Len(q) PROVE FALSE
      OBVIOUS
    <3>1. k + 1 \in 2..Len(q)
      BY <2>5
    <3>2. C(k + 1) = c
      BY <3>1 DEF Level
    <3>3. k # 1 => C(k) = c
      BY <2>5 DEF Level
    <3> QED BY <2>1, <2>5, <2>9, <2>10, <2>11, <3>2, <3>3
  <2>13. ASSUME Sweeps(q)
         PROVE  /\ \A i \in n..Len(q) : C(i) # c
                /\ \A i \in 1..k : C(i) <= c \/ (c < C(1) /\ C(1) <= C(i))
                /\ \A i \in n..Len(q) : c < C(i) \/ (C(i) < C(1) /\ C(1) <= c)
                /\ c < C(1) => \A i \in n..Len(q) : C(i) < C(1)
                /\ C(1) <= c => \A i \in 1..k : C(1) <= C(i)
    <3>1. \A i, j \in 1..Len(q) : i < j =>
            \/ C(i) <= C(j) /\ (C(i) < C(1) => C(j) < C(1))
            \/ C(1) <= C(i) /\ C(j) < C(1)
      BY <2>13 DEF Sweeps
    <3> HIDE DEF C, c
    <3>2. CASE C(1) <= c
      <4>1. ASSUME NEW i \in 1..k PROVE C(i) <= c
        <5>1. CASE i = 1
          BY <3>2, <5>1
        <5>2. CASE i # 1
          <6>1. i - 1 \in 1..(k - 1) /\ i - 1 + 1 = i
            BY <2>5, <5>2
          <6> QED BY <2>10, <3>2, <6>1
        <5> QED BY <5>1, <5>2
      <4>2. ASSUME NEW i \in n..Len(q) PROVE c < C(i) \/ C(i) < C(1)
        <5>1. n \in 1..Len(q) /\ i \in 1..Len(q) /\ k < Len(q) /\ (i = n \/ n < i) /\ k < n
          BY <2>5
        <5>2. C(n) < C(k) \/ c < C(n)
          BY <2>5, <2>10, <3>2, <5>1
        <5>3. CASE C(n) < C(k)
          <6>1. C(n) < C(1)
            BY <2>1, <2>5, <2>9, <3>1, <5>1, <5>3
          <6> QED BY <2>1, <2>9, <3>1, <5>1, <6>1
        <5>4. CASE c < C(n)
          BY <2>1, <2>9, <3>1, <5>1, <5>4
        <5> QED BY <5>2, <5>3, <5>4
      <4>3. ASSUME NEW i \in 1..k PROVE C(1) <= C(i)
        <5> DEFINE T == { j \in 1..k : C(j) < C(1) }
        <5>1. T = {}
          <6> SUFFICES ASSUME T # {} PROVE FALSE
            OBVIOUS
          <6>1. PICK j \in T : \A m \in 1..(j - 1) : m \notin T
            <7>1. T \subseteq 1..k
              OBVIOUS
            <7> HIDE DEF T
            <7> QED BY <2>5, <7>1, LeastOf
          <6>2. j \in 1..k /\ C(j) < C(1) /\ j # 1
            <7>1. j \in 1..k /\ C(j) < C(1)
              OBVIOUS
            <7> QED BY <2>1, <2>9, <7>1
          <6>3. j - 1 \in 1..(k - 1) /\ j - 1 \in 1..k /\ j - 1 \in 1..(j - 1) /\ j - 1 + 1 = j
            BY <2>5, <6>2
          <6>4. C(j - 1) <= C(j) /\ ~(C(j - 1) < C(1))
            BY <2>10, <3>2, <6>1, <6>3
          <6>5. C(j) \in Nat /\ C(1) \in Nat /\ C(j - 1) \in Nat
            BY <2>1, <2>5, <2>9, <6>2, <6>3
          <6> QED BY <6>2, <6>4, <6>5
        <5>2. ~(C(i) < C(1)) /\ C(i) \in Nat /\ C(1) \in Nat
          BY <2>1, <2>5, <2>9, <5>1
        <5> QED BY <5>2
      <4>4. \A i \in n..Len(q) : c < C(i) \/ (C(i) < C(1) /\ C(1) <= c)
        BY <3>2, <4>2
      <4>5. \A i \in n..Len(q) : C(i) # c
        <5>1. \A i \in n..Len(q) : C(i) \in Nat
          BY <2>5, <2>9
        <5> QED BY <2>1, <2>9, <3>2, <4>2, <5>1
      <4>6. ~(c < C(1))
        BY <2>1, <2>9, <3>2
      <4> QED BY <4>1, <4>3, <4>4, <4>5, <4>6
    <3>3. CASE c < C(1)
      <4>1. ASSUME NEW i \in 1..k, C(i) < C(1) PROVE C(i) <= c
        <5> DEFINE T == { j \in 1..Len(q) : C(j) < C(1) }
        <5>1. i \in T
          BY <2>5, <4>1
        <5>2. PICK j \in T : \A m \in 1..(j - 1) : m \notin T
          <6>1. T \subseteq 1..Len(q) /\ T # {}
            BY <5>1
          <6> HIDE DEF T
          <6> QED BY <2>1, <6>1, LeastOf
        <5>3. j <= i /\ j \in 1..Len(q) /\ C(j) < C(1) /\ j # 1
          <6>1. j \in 1..Len(q) /\ C(j) < C(1)
            OBVIOUS
          <6>2. ~(i < j)
            BY <5>1, <5>2, <6>1
          <6> QED BY <2>1, <2>9, <6>1, <6>2
        <5>4. j - 1 \in 1..Len(q) /\ j - 1 \in 1..(j - 1)
          BY <5>3
        <5>5. C(1) <= C(j - 1)
          <6>1. ~(C(j - 1) < C(1))
            BY <5>2, <5>4
          <6> QED BY <2>1, <2>9, <5>4, <6>1
        <5>6. C(j - 1 + 1) < C(j - 1)
          <6>1. j - 1 + 1 = j
            BY <5>3
          <6> QED BY <2>1, <2>9, <5>3, <5>4, <5>5, <6>1
        <5>7. i - 1 \in 1..(k - 1) /\ j - 1 \in 1..(i - 1) /\ i - 1 + 1 = i
          BY <2>5, <5>3
        <5> QED BY <2>11, <3>3, <5>6, <5>7
      <4>2. ASSUME NEW i \in n..Len(q) PROVE c < C(i) /\ C(i) < C(1)
        <5>1. n \in 1..Len(q) /\ i \in 1..Len(q) /\ k < Len(q) /\ (i = n \/ n < i) /\ k < n
          BY <2>5
        <5>2. c < C(n) /\ \E f \in 1..k : C(f + 1) < C(f)
          BY <2>5, <2>11, <3>3, <5>1
        <5>3. PICK f \in 1..k : C(f + 1) < C(f)
          BY <5>2
        <5>4. f \in 1..Len(q) /\ f + 1 \in 1..Len(q) /\ f < f + 1 /\ (f + 1 = n \/ f + 1 < n)
          BY <2>5, <5>1
        <5>5. C(f + 1) < C(1)
          BY <2>1, <2>9, <3>1, <5>3, <5>4
        <5>6. C(n) < C(1)
          BY <2>1, <2>9, <3>1, <5>1, <5>4, <5>5
        <5> QED BY <2>1, <2>9, <3>1, <5>1, <5>2, <5>6
      <4>3. \A i \in 1..k : C(i) <= c \/ C(1) <= C(i)
        BY <2>1, <2>5, <2>9, <4>1
      <4> QED BY <2>1, <2>5, <2>9, <3>3, <4>2, <4>3
    <3> QED BY <2>1, <2>9, <3>2, <3>3
  <2>14. n - 1 = k
    BY <2>5
  <2> QED BY <2>7, <2>8, <2>12, <2>13, <2>14
<1> QED BY <1>1, <1>2

(* The two sweeps remain two sweeps.                                       *)
LEMMA DisksortSweeps ==
  ASSUME NEW q \in Seq(Requests), NEW bp \in Requests, Sweeps(q)
  PROVE  Sweeps(Disksort(q, bp))
<1> DEFINE r == Disksort(q, bp)
           c == b_cylin[bp]
           C(i) == Cyl(q, i)
           D(i) == Cyl(r, i)
<1>1. PICK n \in 1..(Len(q) + 1) :
        /\ Placed(q, n, bp, r)
        /\ q # <<>> => n # 1
        /\ \A i \in 1..(n - 1) : C(i) <= c \/ (c < C(1) /\ C(1) <= C(i))
        /\ \A i \in n..Len(q) : c < C(i) \/ (C(i) < C(1) /\ C(1) <= c)
        /\ c < C(1) => \A i \in n..Len(q) : C(i) < C(1)
        /\ C(1) <= c => \A i \in 1..(n - 1) : C(1) <= C(i)
  BY DisksortPlace
<1>2. Len(q) \in Nat /\ Len(r) = Len(q) + 1 /\ n \in Nat /\ 1 <= n /\ n <= Len(q) + 1
  BY <1>1 DEF Placed
<1>3. c \in Nat /\ \A i \in 1..Len(q) : C(i) \in Nat
  BY CylType, DiskSortAssumption
<1>4. /\ \A i \in 1..(Len(q) + 1) : i < n => D(i) = C(i)
      /\ D(n) = c
      /\ \A i \in 1..(Len(q) + 1) : n < i => D(i) = C(i - 1)
  <2> HIDE DEF r
  <2> QED BY <1>1, <1>2 DEF Placed, Cyl
<1>5. \A i, j \in 1..Len(q) : i < j =>
        \/ C(i) <= C(j) /\ (C(i) < C(1) => C(j) < C(1))
        \/ C(1) <= C(i) /\ C(j) < C(1)
  BY DEF Sweeps
<1>6. n = 1 => Len(q) = 0
  BY <1>1
<1> HIDE DEF C, D, c, r
<1>7. n # 1 => D(1) = C(1) /\ 1 \in 1..Len(q)
  BY <1>2, <1>4
<1>8. ASSUME NEW i \in 1..(Len(q) + 1), NEW j \in 1..(Len(q) + 1), i < j
      PROVE  \/ D(i) <= D(j) /\ (D(i) < D(1) => D(j) < D(1))
             \/ D(1) <= D(i) /\ D(j) < D(1)
  <2>1. n # 1
    BY <1>2, <1>6, <1>8
  <2>2. CASE j < n
    BY <1>2, <1>4, <1>5, <1>7, <1>8, <2>1, <2>2
  <2>3. CASE j = n
    <3>1. i \in 1..(n - 1) /\ i \in 1..Len(q) /\ D(i) = C(i) /\ D(j) = c
      BY <1>2, <1>4, <1>8, <2>3
    <3> QED BY <1>1, <1>3, <1>7, <2>1, <3>1
  <2>4. CASE i = n
    <3>1. j - 1 \in n..Len(q) /\ j - 1 \in 1..Len(q) /\ D(j) = C(j - 1) /\ D(i) = c
      BY <1>2, <1>4, <1>8, <2>4
    <3> QED BY <1>1, <1>3, <1>7, <2>1, <3>1
  <2>5. CASE i < n /\ n < j
    <3>1. j - 1 \in 1..Len(q) /\ i \in 1..Len(q) /\ i < j - 1 /\ D(j) = C(j - 1) /\ D(i) = C(i)
      BY <1>2, <1>4, <1>8, <2>5
    <3> QED BY <1>5, <1>7, <2>1, <3>1
  <2>6. CASE n < i
    <3>1. /\ j - 1 \in 1..Len(q) /\ i - 1 \in 1..Len(q) /\ i - 1 < j - 1
          /\ D(j) = C(j - 1) /\ D(i) = C(i - 1)
      BY <1>2, <1>4, <1>8, <2>6
    <3> QED BY <1>5, <1>7, <2>1, <3>1
  <2> QED BY <1>2, <1>8, <2>2, <2>3, <2>4, <2>5, <2>6
<1>9. Sweeps(r)
  BY <1>2, <1>8 DEF Sweeps, D
<1> QED BY <1>9 DEF r

(* When the first request is done the second leads.                        *)
LEMMA TailSweeps ==
  ASSUME NEW q \in Seq(Requests), q # <<>>
  PROVE  /\ Sweeps(q) => Sweeps(Tail(q))
         /\ \A c : Level(q, c) => Level(Tail(q), c)
<1> DEFINE t == Tail(q)
           C(i) == Cyl(q, i)
           D(i) == Cyl(t, i)
<1>1. Len(q) \in Nat /\ Len(t) = Len(q) - 1 /\ \A i \in 1..Len(t) : t[i] = q[i + 1]
  OBVIOUS
<1> HIDE DEF t
<1>2. \A i \in 1..Len(t) : D(i) = C(i + 1) /\ i + 1 \in 2..Len(q)
  BY <1>1 DEF Cyl
<1>3. \A c : Level(q, c) => Level(t, c)
  <2> SUFFICES ASSUME NEW c, Level(q, c) PROVE Level(t, c)
    OBVIOUS
  <2>1. \A i \in 2..Len(t) : i \in 1..Len(t)
    BY <1>1
  <2> QED BY <1>2, <2>1 DEF Level
<1>4. Sweeps(q) => Sweeps(t)
  <2> SUFFICES ASSUME Sweeps(q), NEW i \in 1..Len(t), NEW j \in 1..Len(t), i < j
               PROVE  \/ D(i) <= D(j) /\ (D(i) < D(1) => D(j) < D(1))
                      \/ D(1) <= D(i) /\ D(j) < D(1)
    BY DEF Sweeps
  <2>1. \A m, n \in 1..Len(q) : m < n =>
          \/ C(m) <= C(n) /\ (C(m) < C(1) => C(n) < C(1))
          \/ C(1) <= C(m) /\ C(n) < C(1)
    BY DEF Sweeps
  <2>2. \A m \in 1..Len(q) : C(m) \in Nat
    BY CylType
  <2> HIDE DEF C, D
  <2>3. /\ i + 1 \in 1..Len(q) /\ j + 1 \in 1..Len(q) /\ i + 1 < j + 1
        /\ 1 \in 1..Len(q) /\ 2 \in 1..Len(q) /\ (i + 1 = 2 \/ 2 < i + 1) /\ 2 < j + 1 /\ 1 < 2
        /\ D(i) = C(i + 1) /\ D(j) = C(j + 1) /\ D(1) = C(2)
    <3>1. 1 \in 1..Len(t) /\ 1 + 1 = 2
      BY <1>1
    <3> QED BY <1>1, <1>2, <3>1
  <2> DEFINE R(x, y) == \/ x <= y /\ (x < C(1) => y < C(1))
                        \/ C(1) <= x /\ y < C(1)
  <2>4. /\ R(C(1), C(2)) /\ R(C(i + 1), C(j + 1)) /\ R(C(2), C(j + 1))
        /\ C(i + 1) = C(2) \/ R(C(2), C(i + 1))
    BY <2>1, <2>3
  <2>5. C(1) \in Nat /\ C(2) \in Nat /\ C(i + 1) \in Nat /\ C(j + 1) \in Nat
    BY <2>2, <2>3
  <2>6. \/ C(i + 1) <= C(j + 1) /\ (C(i + 1) < C(2) => C(j + 1) < C(2))
        \/ C(2) <= C(i + 1) /\ C(j + 1) < C(2)
    BY <2>4, <2>5
  <2> QED BY <2>3, <2>6
<1> QED BY <1>3, <1>4 DEF t

-----------------------------------------------------------------------------

-----------------------------------------------------------------------------
(* The invariant.                                                          *)

(* While the controller is active, or waits for the UNIBUS, the drive and  *)
(* the request it works for are in their places; it is started only when   *)
(* it is not active.                                                       *)
Held ==
  /\ HasWork
  /\ uba.wait => um_active = 1 /\ recal = 0
  /\ recal # 0 => um_active = 1
  /\ pc = "upstart" => um_active = 0

Inv == TypeOK /\ Held /\ EndsWhatRuns

USE UpDriverAssumption, DiskSortAssumption DEF HasWork

LEMMA Bounds == Retries \in Nat /\ OffsetAt \in Nat /\ MaxParts \in Nat /\ MaxLosses \in Nat
OBVIOUS

LEMMA InitInv == Init => Inv
<1> SUFFICES ASSUME Init PROVE Inv
  OBVIOUS
<1>1. TypeOK
  BY DEF Init, TypeOK
<1>2. Held /\ EndsWhatRuns
  BY DEF Init, Held, EndsWhatRuns
<1> QED BY <1>1, <1>2 DEF Inv

(* upstrategy does not change what the controller works for.               *)
LEMMA UpstrategyInv ==
  ASSUME Inv, NEW bp \in Buffers, Upstrategy(bp)
  PROVE  Inv'
<1> DEFINE d == unit[bp]
<1>1. d \in Drives /\ bp \in Requests /\ queue \in [Drives -> Seq(Requests)]
  BY DEF Inv, TypeOK
<1>2. queue[d] \in Seq(Requests)
  BY <1>1
<1>3. /\ Disksort(queue[d], bp) \in Seq(Requests)
      /\ Disksort(queue[d], bp) # <<>>
      /\ queue[d] # <<>> => Head(Disksort(queue[d], bp)) = Head(queue[d])
  BY <1>1, <1>2, DisksortSeq, Zenon
<1>4. queue' = [queue EXCEPT ![d] = Disksort(queue[d], bp)]
  BY DEF Upstrategy
<1>5. queue' \in [Drives -> Seq(Requests)]
  BY <1>1, <1>3, <1>4
<1>6. /\ UNCHANGED <<again, active, ready, um_active, errcnt, softas, recal, fresh, uba,
                     hw, moving, parts, losses>>
      /\ pc = "out"
      /\ \/ pc' = "upustart" /\ caller' = "upstrategy" /\ todo' = {d}
         \/ UNCHANGED <<pc, caller, todo>>
  BY DEF Upstrategy
<1> HIDE DEF d
<1>7. TypeOK'
  BY <1>1, <1>5, <1>6 DEF Inv, TypeOK
<1>8. ASSUME um_active # 0
      PROVE  ready' # <<>> /\ queue'[Dp'] # <<>> /\ Bp' = Bp
  <2>1. ready # <<>> /\ ready \in Seq(Drives) /\ queue[Dp] # <<>>
    BY <1>8 DEF Inv, Held, TypeOK
  <2>2. Dp \in Drives /\ Dp' = Dp
    BY <1>6, <2>1 DEF Dp
  <2>3. queue'[Dp] = IF Dp = d THEN Disksort(queue[d], bp) ELSE queue[Dp]
    BY <1>1, <1>4, <2>2
  <2> QED BY <1>3, <1>6, <2>1, <2>2, <2>3, Zenon DEF Bp
<1>9. Held' /\ EndsWhatRuns'
  BY <1>6, <1>8 DEF Inv, Held, EndsWhatRuns
<1> QED BY <1>7, <1>9 DEF Inv

(* upustart leaves the queues of an active controller alone.               *)
LEMMA UpustartKeeps ==
  ASSUME Inv, NEW d \in Drives, NEW h, Upustart(d, h),
         h \in [as : SUBSET Drives, pos : SUBSET Drives, busy : BOOLEAN, irq : BOOLEAN,
                ie : BOOLEAN]
  PROVE  /\ queue' \in [Drives -> Seq(Requests)]
         /\ active' \in [Drives -> 0..2]
         /\ ready' \in Seq(Drives)
         /\ softas' \subseteq Drives /\ fresh' \subseteq Drives
         /\ hw' \in [as : SUBSET Drives, pos : SUBSET Drives, busy : BOOLEAN,
                     irq : BOOLEAN, ie : BOOLEAN]
         /\ um_active # 0 => UNCHANGED <<queue, ready>>
<1>1. /\ queue \in [Drives -> Seq(Requests)] /\ active \in [Drives -> 0..2]
      /\ ready \in Seq(Drives) /\ softas \subseteq Drives /\ fresh \subseteq Drives
  BY DEF Inv, TypeOK
<1>2. Append(ready, d) \in Seq(Drives)
  BY <1>1
<1>3. <<bupbuf[d]>> \o queue[d] \in Seq(Requests)
  <2>1. bupbuf[d] \in Requests /\ queue[d] \in Seq(Requests)
    BY <1>1
  <2>2. <<bupbuf[d]>> \in Seq(Requests)
    BY <2>1, Single
  <2> QED BY <2>1, <2>2, Cat, Zenon
<1>4. Ready(d) => ready' \in Seq(Drives) /\ active' \in [Drives -> 0..2]
  BY <1>1, <1>2 DEF Ready
<1>5. Setup(d) => queue' \in [Drives -> Seq(Requests)] /\ fresh' \subseteq Drives
  <2>1. [queue EXCEPT ![d] = <<bupbuf[d]>> \o queue[d]] \in [Drives -> Seq(Requests)]
    BY <1>1, <1>3
  <2> QED BY <1>1, <2>1, Zenon DEF Setup
<1>6. /\ [active EXCEPT ![d] = 0] \in [Drives -> 0..2]
      /\ [active EXCEPT ![d] = 1] \in [Drives -> 0..2]
      /\ [active EXCEPT ![d] = IF Inactive(d) THEN 0 ELSE active[d]] \in [Drives -> 0..2]
  BY <1>1
<1>7. /\ Command(h, d) \in [as : SUBSET Drives, pos : SUBSET Drives, busy : BOOLEAN,
                            irq : BOOLEAN, ie : BOOLEAN]
      /\ [h EXCEPT !.ie = TRUE] \in [as : SUBSET Drives, pos : SUBSET Drives,
                                     busy : BOOLEAN, irq : BOOLEAN, ie : BOOLEAN]
  BY DEF Command
<1>8. CASE queue[d] = <<>>
  BY <1>1, <1>6, <1>8 DEF Upustart
<1>9. CASE queue[d] # <<>> /\ um_active # 0
  BY <1>1, <1>9 DEF Upustart, Remember
<1>10. CASE queue[d] # <<>> /\ um_active = 0
  <2>1. CASE ~ Inactive(d)
    BY <1>1, <1>4, <1>10, <2>1 DEF Upustart
  <2>2. CASE /\ Setup(d) /\ Ready(d) /\ UNCHANGED softas
             /\ hw' = IF d \in fresh THEN [h EXCEPT !.ie = TRUE] ELSE h
    BY <1>1, <1>4, <1>5, <1>7, <1>10, <2>2
  <2>3. CASE /\ Setup(d) /\ UNCHANGED <<ready, softas>>
             /\ active' = [active EXCEPT ![d] = 1] /\ hw' = Command(h, d)
    BY <1>1, <1>5, <1>6, <1>7, <1>10, <2>3
  <2> QED BY <1>10, <2>1, <2>2, <2>3, Zenon DEF Upustart
<1> QED BY <1>8, <1>9, <1>10

(* The drive whose turn it is in the loops.                                *)
Bits(d) == IF caller = "doattn" /\ again = NONE THEN [hw EXCEPT !.as = @ \ {d}] ELSE hw

LEMMA UpustartTurn ==
  ASSUME Inv, UpustartNext
  PROVE  \E d \in Drives :
           /\ pc = "upustart" /\ Upustart(d, Bits(d))
           /\ IF again # NONE THEN d = again /\ todo' = todo
                              ELSE d \in todo /\ todo' = todo \ {d}
           /\ again' = NONE
           /\ UNCHANGED <<um_active, errcnt, recal, uba, pc, caller, moving, parts, losses>>
<1> DEFINE d == IF again # NONE THEN again ELSE Min(todo)
<1>1. again \in Drives \cup {NONE} /\ todo \subseteq Drives
  BY DEF Inv, TypeOK
<1>2. /\ pc = "upustart" /\ (again # NONE \/ todo # {})
      /\ Upustart(d, Bits(d))
      /\ again' = NONE
      /\ todo' = IF again # NONE THEN todo ELSE todo \ {d}
      /\ UNCHANGED <<um_active, errcnt, recal, uba, pc, caller, moving, parts, losses>>
  BY DEF UpustartNext, Bits
<1>3. d \in Drives /\ (again = NONE => d \in todo)
  <2>1. CASE again # NONE
    BY <1>1, <2>1
  <2>2. CASE again = NONE
    <3>1. todo \subseteq Nat /\ todo # {}
      BY <1>1, <1>2, <2>2
    <3>2. Min(todo) \in todo
      BY <3>1, NatMin, Zenon
    <3> QED BY <1>1, <2>2, <3>2
  <2> QED BY <2>1, <2>2
<1>4. again # NONE => d = again
  OBVIOUS
<1> HIDE DEF d
<1> QED BY <1>2, <1>3, <1>4

LEMMA UpustartNextInv == Inv /\ UpustartNext => Inv'
<1> SUFFICES ASSUME Inv, UpustartNext PROVE Inv'
  OBVIOUS
<1>1. /\ again \in Drives \cup {NONE} /\ todo \subseteq Drives
      /\ hw \in [as : SUBSET Drives, pos : SUBSET Drives, busy : BOOLEAN, irq : BOOLEAN,
                 ie : BOOLEAN]
  BY DEF Inv, TypeOK
<1>2. PICK d \in Drives :
           /\ pc = "upustart" /\ Upustart(d, Bits(d))
           /\ IF again # NONE THEN d = again /\ todo' = todo
                              ELSE d \in todo /\ todo' = todo \ {d}
           /\ again' = NONE
           /\ UNCHANGED <<um_active, errcnt, recal, uba, pc, caller, moving, parts, losses>>
  BY UpustartTurn
<1>3. Bits(d) \in [as : SUBSET Drives, pos : SUBSET Drives, busy : BOOLEAN, irq : BOOLEAN,
                   ie : BOOLEAN]
  BY <1>1 DEF Bits
<1>4. todo' \subseteq Drives /\ again' \in Drives \cup {NONE}
  BY <1>1, <1>2
<1>5. /\ queue' \in [Drives -> Seq(Requests)]
      /\ active' \in [Drives -> 0..2]
      /\ ready' \in Seq(Drives)
      /\ softas' \subseteq Drives /\ fresh' \subseteq Drives
      /\ hw' \in [as : SUBSET Drives, pos : SUBSET Drives, busy : BOOLEAN,
                  irq : BOOLEAN, ie : BOOLEAN]
      /\ um_active # 0 => UNCHANGED <<queue, ready>>
  BY <1>2, <1>3, UpustartKeeps, Zenon
<1>6. TypeOK'
  BY <1>2, <1>4, <1>5 DEF Inv, TypeOK
<1>7. um_active # 0 => UNCHANGED <<Dp, Bp>>
  BY <1>5 DEF Dp, Bp
<1>8. Held' /\ EndsWhatRuns'
  BY <1>2, <1>5, <1>7 DEF Inv, Held, EndsWhatRuns
<1> QED BY <1>6, <1>8 DEF Inv

(* Steps that leave the queues and the controller's state alone.           *)
LEMMA QuietInv ==
  ASSUME Inv, TypeOK', UNCHANGED <<queue, ready, um_active, recal, moving>>,
         uba'.wait => uba.wait, pc' = "upstart" => um_active = 0
  PROVE  Inv'
<1>1. UNCHANGED <<Dp, Bp>>
  BY DEF Dp, Bp
<1> QED BY <1>1 DEF Inv, Held, EndsWhatRuns

LEMMA UpustartDoneInv == Inv /\ UpustartDone => Inv'
<1> SUFFICES ASSUME Inv, UpustartDone PROVE Inv'
  OBVIOUS
<1>1. TypeOK'
  BY DEF Inv, TypeOK, UpustartDone, Leave, sw
<1>2. pc' = "upstart" => um_active = 0
  BY DEF UpustartDone, Leave, Startable
<1>3. UNCHANGED <<queue, ready, um_active, recal, moving, uba>>
  BY DEF UpustartDone, sw
<1> QED BY <1>1, <1>2, <1>3, QuietInv

LEMMA UpstartEmptyInv == Inv /\ UpstartEmpty => Inv'
<1> SUFFICES ASSUME Inv, UpstartEmpty PROVE Inv'
  OBVIOUS
<1>1. TypeOK'
  BY DEF Inv, TypeOK, UpstartEmpty, Leave, sw
<1>2. UNCHANGED <<queue, ready, um_active, recal, moving, uba>> /\ pc' = "out"
  BY DEF UpstartEmpty, Leave, sw
<1> QED BY <1>1, <1>2, QuietInv

(* The drive and the request at work, and what remains without them.       *)
LEMMA AtWork ==
  ASSUME Inv, ready # <<>>
  PROVE  /\ Dp \in Drives /\ Tail(ready) \in Seq(Drives) /\ queue[Dp] \in Seq(Requests)
         /\ queue[Dp] # <<>> =>
              /\ Bp \in Requests
              /\ [queue EXCEPT ![Dp] = Tail(queue[Dp])] \in [Drives -> Seq(Requests)]
<1>1. ready \in Seq(Drives) /\ queue \in [Drives -> Seq(Requests)]
  BY DEF Inv, TypeOK
<1>2. Dp \in Drives /\ Tail(ready) \in Seq(Drives)
  BY <1>1 DEF Dp
<1>3. queue[Dp] \in Seq(Requests)
  BY <1>1, <1>2
<1>4. queue[Dp] # <<>> => Head(queue[Dp]) \in Requests /\ Tail(queue[Dp]) \in Seq(Requests)
  BY <1>3
<1> QED BY <1>1, <1>2, <1>3, <1>4 DEF Bp

LEMMA UpstartSkipInv == Inv /\ UpstartSkip => Inv'
<1> SUFFICES ASSUME Inv, UpstartSkip PROVE Inv'
  OBVIOUS
<1>1. ready' \in Seq(Drives) /\ um_active = 0
  BY AtWork DEF UpstartSkip, Inv, Held
<1>2. TypeOK'
  BY <1>1 DEF Inv, TypeOK, UpstartSkip
<1>3. Held' /\ EndsWhatRuns'
  BY <1>1 DEF Inv, Held, EndsWhatRuns, UpstartSkip
<1> QED BY <1>2, <1>3 DEF Inv

LEMMA UpstartNotReadyInv == Inv /\ UpstartNotReady => Inv'
<1> SUFFICES ASSUME Inv, UpstartNotReady PROVE Inv'
  OBVIOUS
<1>1. queue' \in [Drives -> Seq(Requests)]
  BY AtWork DEF UpstartNotReady
<1>2. um_active = 0 /\ um_active' = 0
  BY DEF UpstartNotReady, Inv, Held
<1>3. active' \in [Drives -> 0..2]
  BY AtWork DEF UpstartNotReady, Inv, TypeOK
<1>4. TypeOK'
  <2>1. errcnt' \in 0..(Retries + 1) /\ um_active' \in 0..2
    BY <1>2, Bounds DEF UpstartNotReady
  <2> QED BY <1>1, <1>3, <2>1 DEF Inv, TypeOK, UpstartNotReady
<1>5. Held' /\ EndsWhatRuns'
  BY <1>2 DEF Inv, Held, EndsWhatRuns, UpstartNotReady
<1> QED BY <1>4, <1>5 DEF Inv

(* updgo, from wherever it is called.                                      *)
LEMMA UpdgoKeeps ==
  ASSUME Inv, ready # <<>>, queue[Dp] # <<>>, Updgo, UNCHANGED <<queue, ready>>
  PROVE  /\ moving' \in Requests /\ moving' = Bp' /\ um_active' = 2
         /\ hw' \in [as : SUBSET Drives, pos : SUBSET Drives, busy : BOOLEAN,
                     irq : BOOLEAN, ie : BOOLEAN]
         /\ ready' # <<>> /\ queue'[Dp'] # <<>>
<1>1. Dp' = Dp /\ Bp' = Bp
  BY DEF Dp, Bp
<1>2. moving' \in Requests /\ moving' = Bp' /\ um_active' = 2
  BY <1>1, AtWork DEF Updgo
<1>3. hw' \in [as : SUBSET Drives, pos : SUBSET Drives, busy : BOOLEAN,
               irq : BOOLEAN, ie : BOOLEAN]
  BY DEF Updgo, Inv, TypeOK
<1> QED BY <1>1, <1>2, <1>3

LEMMA UpstartGoInv == Inv /\ UpstartGo => Inv'
<1> SUFFICES ASSUME Inv, UpstartGo PROVE Inv'
  OBVIOUS
<1>1. ready # <<>> /\ queue[Dp] # <<>> /\ Updgo /\ UNCHANGED <<queue, ready>>
  BY DEF UpstartGo
<1>2. /\ moving' \in Requests /\ moving' = Bp' /\ um_active' = 2
      /\ hw' \in [as : SUBSET Drives, pos : SUBSET Drives, busy : BOOLEAN,
                  irq : BOOLEAN, ie : BOOLEAN]
      /\ ready' # <<>> /\ queue'[Dp'] # <<>>
  BY <1>1, UpdgoKeeps, Zenon
<1>3. um_active = 0 /\ recal = 0 /\ ~ uba.wait
  BY DEF UpstartGo, Inv, Held
<1>4. TypeOK'
  BY <1>2, SMTT(30) DEF Inv, TypeOK, UpstartGo
<1>5. Held' /\ EndsWhatRuns'
  BY <1>2, <1>3 DEF Held, EndsWhatRuns, UpstartGo
<1> QED BY <1>4, <1>5 DEF Inv

LEMMA UpstartWaitInv == Inv /\ UpstartWait => Inv'
<1> SUFFICES ASSUME Inv, UpstartWait PROVE Inv'
  OBVIOUS
<1>1. um_active = 0 /\ recal = 0
  BY DEF UpstartWait, Inv, Held
<1>2. TypeOK'
  <2>1. uba' \in [wait : BOOLEAN, others : BOOLEAN]
    <3>1. uba \in [wait : BOOLEAN, others : BOOLEAN]
      BY DEF Inv, TypeOK
    <3>2. uba' = [uba EXCEPT !.wait = TRUE]
      BY DEF UpstartWait
    <3> QED BY <3>1, <3>2
  <2>2. um_active' = 1 /\ um_active' \in 0..2
    BY DEF UpstartWait
  <2> QED BY <2>1, <2>2 DEF Inv, TypeOK, UpstartWait
<1>3. Dp' = Dp
  BY DEF Dp, UpstartWait
<1>4. Held' /\ EndsWhatRuns'
  BY <1>1, <1>3 DEF Held, EndsWhatRuns, UpstartWait
<1> QED BY <1>2, <1>4 DEF Inv

LEMMA OthersTakeInv == Inv /\ OthersTake => Inv'
<1> SUFFICES ASSUME Inv, OthersTake PROVE Inv'
  OBVIOUS
<1>1. TypeOK'
  BY DEF Inv, TypeOK, OthersTake
<1>2. uba'.wait = uba.wait
  BY DEF Inv, TypeOK, OthersTake
<1>3. UNCHANGED <<queue, ready, um_active, recal, moving, pc>> /\ pc = "out"
  BY DEF OthersTake
<1> QED BY <1>1, <1>2, <1>3, QuietInv

(* Only a controller that waits is started by others.                      *)
LEMMA UbarelseInv == Inv /\ Ubarelse => Inv'
<1> SUFFICES ASSUME Inv, Ubarelse PROVE Inv'
  OBVIOUS
<1>1. /\ uba' = [wait |-> FALSE, others |-> FALSE]
      /\ UNCHANGED <<queue, active, ready, errcnt, softas, recal, fresh, pc, caller,
                     again, todo, parts, losses>>
      /\ pc = "out"
  BY DEF Ubarelse
<1>2. CASE uba.wait
  <2>1. um_active = 1 /\ recal = 0 /\ ready # <<>> /\ queue[Dp] # <<>>
    BY <1>2 DEF Inv, Held
  <2>2. Updgo
    BY <1>2 DEF Ubarelse
  <2>3. /\ moving' \in Requests /\ moving' = Bp' /\ um_active' = 2
        /\ hw' \in [as : SUBSET Drives, pos : SUBSET Drives, busy : BOOLEAN,
                    irq : BOOLEAN, ie : BOOLEAN]
        /\ ready' # <<>> /\ queue'[Dp'] # <<>>
    BY <1>1, <2>1, <2>2, UpdgoKeeps, Zenon
  <2>4. TypeOK'
    BY <1>1, <2>3, SMTT(30) DEF Inv, TypeOK
  <2>5. Held' /\ EndsWhatRuns'
    BY <1>1, <2>1, <2>3 DEF Held, EndsWhatRuns
  <2> QED BY <2>4, <2>5 DEF Inv
<1>3. CASE ~ uba.wait
  <2>1. UNCHANGED <<um_active, hw, moving>>
    BY <1>3 DEF Ubarelse
  <2>2. TypeOK'
    BY <1>1, <2>1 DEF Inv, TypeOK
  <2> QED BY <1>1, <2>1, <2>2, QuietInv
<1> QED BY <1>2, <1>3

(* The hardware changes nothing but hw.                                    *)
LEMMA HardwareInv == Inv /\ Hardware => Inv'
<1> SUFFICES ASSUME Inv, Hardware PROVE Inv'
  OBVIOUS
<1>1. CASE Transferred
  <2>1. TypeOK'
    <3>1. hw' \in [as : SUBSET Drives, pos : SUBSET Drives, busy : BOOLEAN,
                   irq : BOOLEAN, ie : BOOLEAN]
      BY <1>1 DEF Inv, TypeOK, Transferred
    <3>2. losses' \in 0..MaxLosses
      BY <1>1, Bounds DEF Inv, TypeOK, Transferred, Loses
    <3> QED BY <1>1, <3>1, <3>2 DEF Inv, TypeOK, Transferred, sw
  <2>2. UNCHANGED <<queue, ready, um_active, recal, moving, uba, pc>>
    BY <1>1 DEF Transferred, sw
  <2> QED BY <2>1, <2>2, QuietInv DEF Inv, Held
<1>2. ASSUME NEW d \in Drives, Positioned(d) PROVE Inv'
  <2>1. TypeOK'
    <3>1. hw' \in [as : SUBSET Drives, pos : SUBSET Drives, busy : BOOLEAN,
                   irq : BOOLEAN, ie : BOOLEAN]
      <4>1. hw \in [as : SUBSET Drives, pos : SUBSET Drives, busy : BOOLEAN,
                    irq : BOOLEAN, ie : BOOLEAN]
        BY DEF Inv, TypeOK
      <4>2. \/ hw' = [hw EXCEPT !.pos = hw.pos \ {d}, !.as = hw.as \cup {d}]
            \/ hw' = [hw EXCEPT !.pos = hw.pos \ {d}]
        BY <1>2 DEF Positioned
      <4>3. hw.pos \ {d} \in SUBSET Drives /\ hw.as \cup {d} \in SUBSET Drives
        BY <4>1
      <4> DEFINE p == hw.pos \ {d}
                 a == hw.as \cup {d}
      <4>4. p \in SUBSET Drives /\ a \in SUBSET Drives
        BY <4>3
      <4>5. hw' = [hw EXCEPT !.pos = p, !.as = a] \/ hw' = [hw EXCEPT !.pos = p]
        BY <4>2
      <4> HIDE DEF p, a
      <4> QED BY <4>1, <4>4, <4>5
    <3>2. losses' \in 0..MaxLosses
      BY <1>2, Bounds DEF Inv, TypeOK, Positioned, Loses
    <3> QED BY <1>2, <3>1, <3>2 DEF Inv, TypeOK, Positioned, sw
  <2>2. UNCHANGED <<queue, ready, um_active, recal, moving, uba, pc>>
    BY <1>2 DEF Positioned, sw
  <2> QED BY <2>1, <2>2, QuietInv DEF Inv, Held
<1> QED BY <1>1, <1>2 DEF Hardware

-----------------------------------------------------------------------------
(* upintr.                                                                 *)

HwType == [as : SUBSET Drives, pos : SUBSET Drives, busy : BOOLEAN, irq : BOOLEAN,
           ie : BOOLEAN]

(* What every path finds.                                                  *)
LEMMA UpintrFacts ==
  ASSUME Inv, Interrupt
  PROVE  /\ pc = "out" /\ Taken \in HwType /\ As \subseteq Drives /\ hw.as \subseteq Drives
         /\ UpintrTransfer =>
              /\ um_active # 0 /\ ~ uba.wait /\ softas' = {}
              /\ ready # <<>> /\ queue[Dp] # <<>> /\ Dp \in Drives
              /\ Command(Taken, Dp) \in HwType
<1>1. hw \in HwType /\ softas \subseteq Drives
  BY DEF Inv, TypeOK, HwType
<1>2. pc = "out"
  BY DEF Interrupt
<1>3. Taken \in HwType
  BY <1>1 DEF Taken, HwType
<1>4. As \subseteq Drives /\ hw.as \subseteq Drives
  BY <1>1 DEF As, HwType
<1>5. ASSUME UpintrTransfer
      PROVE  /\ um_active # 0 /\ ~ uba.wait /\ softas' = {}
             /\ ready # <<>> /\ queue[Dp] # <<>> /\ Dp \in Drives
             /\ Command(Taken, Dp) \in HwType
  <2>1. um_active # 0 /\ ~ uba.wait /\ softas' = {}
    BY <1>5 DEF UpintrTransfer, Inv, Held, TypeOK
  <2>2. ready # <<>> /\ queue[Dp] # <<>>
    BY <2>1 DEF Inv, Held
  <2>3. Dp \in Drives
    BY <2>2, AtWork
  <2>4. Command(Taken, Dp) \in HwType
    BY <1>3, <2>3 DEF Command, HwType
  <2> QED BY <2>1, <2>2, <2>3, <2>4
<1> QED BY <1>2, <1>3, <1>4, <1>5

LEMMA ErrcntType == Inv => Errcnt \subseteq 0..(Retries + 1)
<1> SUFFICES ASSUME Inv PROVE Errcnt \subseteq 0..(Retries + 1)
  OBVIOUS
<1>1. errcnt \in 0..(Retries + 1) /\ Retries \in Nat
  BY Bounds DEF Inv, TypeOK
<1>2. Min({errcnt + 1, Retries + 1}) \in {errcnt + 1, Retries + 1}
  <2>1. {errcnt + 1, Retries + 1} \subseteq Nat /\ {errcnt + 1, Retries + 1} # {}
    BY <1>1
  <2> QED BY <2>1, NatMin, Zenon
<1>3. Min({errcnt + 1, Retries + 1}) <= Retries + 1
  <2>1. CASE errcnt + 1 <= Retries + 1
    BY <1>1, <1>2, <2>1
  <2>2. CASE errcnt = Retries + 1
    BY <1>1, <1>2, <2>2 DEF Min
  <2> QED BY <1>1, <2>1, <2>2
<1>4. Min({errcnt + 1, Retries + 1}) \in 0..(Retries + 1)
  BY <1>1, <1>2, <1>3
<1> QED BY <1>1, <1>4 DEF Errcnt

LEMMA UpintrAttentionInv == Inv /\ UpintrAttention => Inv'
<1> SUFFICES ASSUME Inv, UpintrAttention PROVE Inv'
  OBVIOUS
<1>1. Interrupt
  BY DEF UpintrAttention
<1>2. Taken \in HwType /\ As \subseteq Drives
  BY <1>1, UpintrFacts
<1>3. TypeOK'
  BY <1>2 DEF Inv, TypeOK, UpintrAttention, HwType
<1>4. UNCHANGED <<queue, ready, um_active, recal, moving, uba>> /\ pc' = "upustart"
  BY DEF UpintrAttention
<1> QED BY <1>3, <1>4, QuietInv

(* A transfer that is continued is the one that ran.                       *)
LEMMA UpintrContinueInv == Inv /\ UpintrContinue => Inv'
<1> SUFFICES ASSUME Inv, UpintrContinue PROVE Inv'
  OBVIOUS
<1>1. Interrupt /\ UpintrTransfer
  BY DEF UpintrContinue, UpintrTransfer
<1>2. /\ Taken \in HwType /\ ~ uba.wait /\ softas' = {} /\ pc = "out"
      /\ ready # <<>> /\ queue[Dp] # <<>> /\ Dp \in Drives
  BY <1>1, UpintrFacts
<1>3. um_active = 2 /\ recal = 0
  BY DEF UpintrContinue, UpintrTransfer
<1>4. hw' \in HwType
  <2>1. hw' = [Taken EXCEPT !.as = Taken.as \ {Dp}, !.busy = TRUE, !.ie = TRUE]
    BY DEF UpintrContinue
  <2> QED BY <1>2, <2>1 DEF HwType
<1>5. parts' \in 0..MaxParts /\ errcnt' = 0 /\ um_active' = 2
  BY Bounds, SMTT(30) DEF UpintrContinue, Inv, TypeOK
<1>6. errcnt' \in 0..(Retries + 1) /\ um_active' \in 0..2
  BY <1>5, Bounds
<1>7. TypeOK'
  BY <1>2, <1>4, <1>5, <1>6 DEF Inv, TypeOK, UpintrContinue, HwType
<1>8. UNCHANGED <<Dp, Bp>>
  BY DEF Dp, Bp, UpintrContinue
<1>9. Held' /\ EndsWhatRuns'
  BY <1>2, <1>3, <1>5, <1>8 DEF Inv, Held, EndsWhatRuns, UpintrContinue
<1> QED BY <1>7, <1>9 DEF Inv

(* A step of a recalibration.                                              *)
LEMMA NextrecalInv ==
  ASSUME Inv, UpintrTransfer, NEW n \in 1..3, Nextrecal(n), errcnt' \in 0..(Retries + 1)
  PROVE  Inv'
<1>1. Interrupt
  BY DEF UpintrTransfer
<1>2. /\ Command(Taken, Dp) \in HwType /\ ~ uba.wait /\ softas' = {} /\ pc = "out"
      /\ ready # <<>> /\ queue[Dp] # <<>>
  BY <1>1, UpintrFacts
<1>3. recal' \in 0..3 /\ um_active' = 1 /\ um_active' \in 0..2
  BY DEF Nextrecal
<1>4. TypeOK'
  BY <1>2, <1>3 DEF Inv, TypeOK, Nextrecal, HwType
<1>5. Dp' = Dp
  BY DEF Dp, Nextrecal
<1>6. Held' /\ EndsWhatRuns'
  BY <1>2, <1>3, <1>5 DEF Held, EndsWhatRuns, Nextrecal
<1> QED BY <1>4, <1>6 DEF Inv

LEMMA UpintrRecalInv == Inv /\ UpintrRecal => Inv'
<1> SUFFICES ASSUME Inv, UpintrRecal PROVE Inv'
  OBVIOUS
<1>1. errcnt' \in 0..(Retries + 1)
  BY Bounds DEF UpintrRecal, Inv, TypeOK
<1>2. UpintrTransfer /\ Nextrecal(1) /\ 1 \in 1..3
  BY DEF UpintrRecal
<1> QED BY <1>1, <1>2, NextrecalInv

LEMMA UpintrSeekInv == Inv /\ UpintrSeek => Inv'
<1> SUFFICES ASSUME Inv, UpintrSeek PROVE Inv'
  OBVIOUS
<1>1. errcnt' \in 0..(Retries + 1)
  BY ErrcntType DEF UpintrSeek
<1>2. UpintrTransfer /\ Nextrecal(recal + 1)
  BY DEF UpintrSeek
<1>3. recal + 1 \in 1..3
  BY DEF UpintrSeek, Moves
<1> QED BY <1>1, <1>2, <1>3, NextrecalInv

(* The end of a request leaves the controller idle.                        *)
LEMMA UpintrDoneInv == Inv /\ UpintrDone => Inv'
<1> SUFFICES ASSUME Inv, UpintrDone PROVE Inv'
  OBVIOUS
<1>1. /\ UpintrTransfer /\ recal = 0 /\ Iodone /\ recal' = 0 /\ moving' = NONE
      /\ pc' = "upustart" /\ UNCHANGED <<fresh, uba, losses>>
      /\ \/ hw' = [Taken EXCEPT !.ie = TRUE, !.as = Taken.as \cup {Dp}]
         \/ hw' = [Taken EXCEPT !.ie = TRUE]
         \/ hw' = [Taken EXCEPT !.ie = FALSE]
  BY Zenon DEF UpintrDone
<1>2. Interrupt
  BY <1>1 DEF UpintrTransfer
<1>3. /\ Taken \in HwType /\ ~ uba.wait /\ softas' = {} /\ As \subseteq Drives
      /\ ready # <<>> /\ queue[Dp] # <<>> /\ Dp \in Drives
  BY <1>1, <1>2, UpintrFacts
<1>4. hw' \in HwType
  <2> DEFINE a == Taken.as \cup {Dp}
  <2>1. a \in SUBSET Drives
    BY <1>3 DEF HwType
  <2>2. \/ hw' = [Taken EXCEPT !.ie = TRUE, !.as = a]
        \/ hw' = [Taken EXCEPT !.ie = TRUE]
        \/ hw' = [Taken EXCEPT !.ie = FALSE]
    BY <1>1, Zenon
  <2> HIDE DEF a
  <2> QED BY <1>3, <2>1, <2>2 DEF HwType
<1>5. queue' \in [Drives -> Seq(Requests)] /\ ready' \in Seq(Drives)
  BY <1>1, <1>3, AtWork DEF Iodone, ReadyAfter
<1>6. /\ um_active' = 0 /\ errcnt' = 0 /\ parts' = 0 /\ caller' = "doattn"
      /\ todo' \subseteq Drives /\ again' \in Drives \cup {NONE}
      /\ active' = [active EXCEPT ![Dp] = 0]
  BY <1>1, <1>3 DEF Iodone
<1>7. active' \in [Drives -> 0..2]
  <2>1. active \in [Drives -> 0..2]
    BY DEF Inv, TypeOK
  <2> QED BY <1>3, <1>6, <2>1
<1>8. errcnt' \in 0..(Retries + 1) /\ parts' \in 0..MaxParts /\ um_active' \in 0..2
  BY <1>6, Bounds
<1>9. TypeOK'
  BY <1>1, <1>3, <1>4, <1>5, <1>6, <1>7, <1>8 DEF Inv, TypeOK, HwType
<1>10. Held' /\ EndsWhatRuns'
  BY <1>1, <1>3, <1>6 DEF Held, EndsWhatRuns
<1> QED BY <1>9, <1>10 DEF Inv

LEMMA UpintrRetryInv == Inv /\ UpintrRetry => Inv'
<1> SUFFICES ASSUME Inv, UpintrRetry PROVE Inv'
  OBVIOUS
<1>1. /\ UpintrTransfer /\ errcnt' \in Errcnt
      /\ um_active' = 0 /\ recal' = 0 /\ moving' = NONE
      /\ \/ hw' = [Taken EXCEPT !.ie = TRUE]
         \/ hw' = [Taken EXCEPT !.ie = FALSE]
      /\ pc' = "upustart" /\ caller' = "doattn" /\ todo' = As \ {Dp}
      /\ UNCHANGED <<again, queue, active, ready, fresh, uba, parts, losses>>
  BY Zenon DEF UpintrRetry
<1>2. Interrupt
  BY <1>1 DEF UpintrTransfer
<1>3. Taken \in HwType /\ ~ uba.wait /\ softas' = {} /\ As \subseteq Drives
  BY <1>1, <1>2, UpintrFacts
<1>4. hw' \in HwType
  BY <1>1, <1>3 DEF HwType
<1>5. errcnt' \in 0..(Retries + 1)
  BY <1>1, ErrcntType
<1>6. TypeOK'
  BY <1>1, <1>3, <1>4, <1>5, SMTT(30) DEF Inv, TypeOK, HwType
<1>7. Held' /\ EndsWhatRuns'
  BY <1>1, <1>3 DEF Held, EndsWhatRuns
<1> QED BY <1>6, <1>7 DEF Inv

LEMMA UpwatchInv == Inv /\ Upwatch => Inv'
<1> SUFFICES ASSUME Inv, Upwatch PROVE Inv'
  OBVIOUS
<1>1. losses' \in 0..MaxLosses
  BY Bounds DEF Upwatch, Loses, Inv, TypeOK
<1>2. /\ um_active' = 0 /\ ready' = <<>> /\ recal' = 0 /\ moving' = NONE
      /\ uba' = [wait |-> FALSE, others |-> FALSE]
      /\ hw' = [as |-> {}, pos |-> {}, busy |-> FALSE, irq |-> FALSE, ie |-> FALSE]
      /\ pc' = "upustart" /\ caller' = "upreset" /\ todo' = Drives
      /\ UNCHANGED <<again, queue, active, errcnt, softas, fresh, parts>>
  BY DEF Upwatch
<1>3. TypeOK'
  BY <1>1, <1>2, SMTT(30) DEF Inv, TypeOK
<1>4. Held' /\ EndsWhatRuns'
  BY <1>2 DEF Held, EndsWhatRuns
<1> QED BY <1>3, <1>4 DEF Inv

-----------------------------------------------------------------------------
LEMMA NextInv == Inv /\ [Next]_vars => Inv'
<1> SUFFICES ASSUME Inv, [Next]_vars PROVE Inv'
  OBVIOUS
<1>1. ASSUME NEW bp \in Buffers, Upstrategy(bp) PROVE Inv'
  BY <1>1, UpstrategyInv
<1>2. CASE Driver
  BY <1>2, UpustartNextInv, UpustartDoneInv, UpstartEmptyInv, UpstartSkipInv,
     UpstartNotReadyInv, UpstartGoInv, UpstartWaitInv, Zenon DEF Driver
<1>3. CASE Upintr
  BY <1>3, UpintrAttentionInv, UpintrContinueInv, UpintrRecalInv, UpintrSeekInv,
     UpintrDoneInv, UpintrRetryInv, Zenon DEF Upintr
<1>4. CASE Hardware
  BY <1>4, HardwareInv, Zenon
<1>5. CASE Upwatch \/ OthersTake \/ Ubarelse
  BY <1>5, UpwatchInv, OthersTakeInv, UbarelseInv, Zenon
<1>6. CASE UNCHANGED vars
  BY <1>6, SMTT(30) DEF Inv, TypeOK, Held, EndsWhatRuns, vars, sw, Dp, Bp
<1> QED BY <1>1, <1>2, <1>3, <1>4, <1>5, <1>6, Zenon DEF Next

LEMMA AlwaysInv == Spec => []Inv
<1>1. Init => Inv
  BY InitInv
<1>2. Inv /\ [Next]_vars => Inv'
  BY NextInv
<1> QED BY <1>1, <1>2, PTL DEF Spec

(* The variables of the driver have their types in every state: no error   *)
(* count, recalibration state or list gets out of its range.               *)
THEOREM TypeCorrect == Spec => []TypeOK
<1>1. Inv => TypeOK
  BY DEF Inv
<1> QED BY <1>1, AlwaysInv, PTL

(* Whatever upstrategy, the bad-sector tables, retries, recalibrations,    *)
(* waits for the UNIBUS and resets do to the queues, the request upintr    *)
(* ends is the one the controller was working for.                         *)
THEOREM AlwaysEndsWhatRuns == Spec => []EndsWhatRuns
<1>1. Inv => EndsWhatRuns
  BY DEF Inv
<1> QED BY <1>1, AlwaysInv, PTL

(* upintr and ubago always find a drive and a request at the heads of the  *)
(* queues they follow without a check.                                     *)
THEOREM AlwaysHasWork == Spec => []HasWork
<1>1. Inv => HasWork
  BY DEF Inv, Held
<1> QED BY <1>1, AlwaysInv, PTL


-----------------------------------------------------------------------------
(* The ready queue.  A drive that says it is there has a request, and is   *)
(* there unless upreset, which empties the queue, has yet to get to it; of *)
(* the drives there only the first can say that it is not, for upstart may *)
(* have dropped its request.                                               *)
Lined ==
  /\ NoRepeats(ready)
  /\ \A d \in Drives : active[d] = 2 =>
       queue[d] # <<>> /\ (d \in Elements(ready) \/ (Resetting /\ d \in todo))
  /\ \A d \in Elements(ready) : active[d] = 2 \/ (d = Dp /\ ~Resetting)

(* Whose turn it is: the loops over drives get to a drive that is on the   *)
(* ready queue only while the controller is active, or it knows.           *)
Turns ==
  /\ pc # "upustart" => again = NONE
  /\ pc = "out" => (um_active = 0 => ready = <<>>)
  /\ Resetting => /\ um_active = 0 /\ again = NONE
                  /\ \A d \in Elements(ready) : d \notin todo
  /\ pc = "upustart" /\ um_active = 0 =>
       \A d \in Elements(ready) : d = again \/ d \in todo => active[d] = 2

RInv == Lined /\ Turns

LEMMA AppendElements ==
  ASSUME NEW S, NEW s \in Seq(S), NEW e \in S, NoRepeats(s), e \notin Elements(s)
  PROVE  /\ NoRepeats(Append(s, e))
         /\ Elements(Append(s, e)) = Elements(s) \cup {e}
         /\ Head(Append(s, e)) = IF s = <<>> THEN e ELSE Head(s)
<1> DEFINE r == Append(s, e)
<1>1. /\ Len(s) \in Nat /\ Len(r) = Len(s) + 1 /\ r \in Seq(S)
      /\ \A i \in 1..Len(s) : r[i] = s[i]
      /\ r[Len(s) + 1] = e
  OBVIOUS
<1>2. Head(r) = IF s = <<>> THEN e ELSE Head(s)
  OBVIOUS
<1> HIDE DEF r
<1>3. NoRepeats(r)
  <2> SUFFICES ASSUME NEW i \in 1..Len(r), NEW j \in 1..Len(r), r[i] = r[j]
               PROVE  i = j
    BY DEF NoRepeats
  <2>1. \A k \in 1..Len(s) : s[k] # e
    BY DEF Elements
  <2>2. CASE i \in 1..Len(s) /\ j \in 1..Len(s)
    BY <1>1, <2>2 DEF NoRepeats
  <2>3. CASE i \in 1..Len(s) /\ j = Len(s) + 1
    BY <1>1, <2>1, <2>3
  <2>4. CASE i = Len(s) + 1 /\ j \in 1..Len(s)
    BY <1>1, <2>1, <2>4
  <2>5. CASE i = Len(s) + 1 /\ j = Len(s) + 1
    BY <2>5
  <2> QED BY <1>1, <2>2, <2>3, <2>4, <2>5
<1>4. Elements(r) = Elements(s) \cup {e}
  <2>1. ASSUME NEW x \in Elements(r) PROVE x \in Elements(s) \cup {e}
    <3>1. PICK i \in 1..Len(r) : x = r[i]
      BY <2>1 DEF Elements
    <3>2. CASE i \in 1..Len(s)
      BY <1>1, <3>1, <3>2 DEF Elements
    <3>3. CASE i = Len(s) + 1
      BY <1>1, <3>1, <3>3
    <3> QED BY <1>1, <3>2, <3>3
  <2>2. ASSUME NEW x \in Elements(s) PROVE x \in Elements(r)
    <3>1. PICK i \in 1..Len(s) : x = s[i]
      BY <2>2 DEF Elements
    <3>2. i \in 1..Len(r) /\ x = r[i]
      BY <1>1, <3>1
    <3> QED BY <3>2 DEF Elements
  <2>3. e \in Elements(r)
    <3>1. Len(s) + 1 \in 1..Len(r) /\ e = r[Len(s) + 1]
      BY <1>1
    <3> QED BY <3>1 DEF Elements
  <2> QED BY <2>1, <2>2, <2>3
<1> QED BY <1>2, <1>3, <1>4 DEF r

(* What upustart does to the ready queue when the controller is idle.      *)
LEMMA UpustartLines ==
  ASSUME Inv, RInv, pc = "upustart", um_active = 0,
         NEW d \in Drives, d = again \/ d \in todo, NEW h, Upustart(d, h)
  PROVE  /\ \A e \in Drives : e # d => queue'[e] = queue[e]
         /\ \/ UNCHANGED <<queue, active, ready>> /\ active[d] = 2 /\ ~Resetting
            \/ /\ d \notin Elements(ready) /\ ready' = ready
               /\ \E n \in {0, 1} : active' = [active EXCEPT ![d] = n]
            \/ /\ d \notin Elements(ready) /\ ready' = Append(ready, d)
               /\ active' = [active EXCEPT ![d] = 2]
               /\ queue'[d] # <<>>
<1>1. /\ queue \in [Drives -> Seq(Requests)] /\ active \in [Drives -> 0..2]
      /\ queue[d] \in Seq(Requests) /\ active[d] \in 0..2 /\ bupbuf[d] \in Requests
      /\ d # NONE
  BY DEF Inv, TypeOK
<1>2. d \in Elements(ready) => active[d] = 2 /\ ~Resetting
  BY <1>1 DEF RInv, Turns
<1>3. Setup(d) => /\ \A e \in Drives : e # d => queue'[e] = queue[e]
                  /\ queue[d] # <<>> => queue'[d] # <<>>
  <2> SUFFICES ASSUME Setup(d)
               PROVE  /\ \A e \in Drives : e # d => queue'[e] = queue[e]
                      /\ queue[d] # <<>> => queue'[d] # <<>>
    OBVIOUS
  <2>1. CASE d \in fresh
    <3>1. queue' = [queue EXCEPT ![d] = <<bupbuf[d]>> \o queue[d]]
      BY <2>1 DEF Setup
    <3>2. /\ queue'[d] = <<bupbuf[d]>> \o queue[d]
          /\ \A e \in Drives : e # d => queue'[e] = queue[e]
      BY <1>1, <3>1
    <3>3. Len(<<bupbuf[d]>> \o queue[d]) = 1 + Len(queue[d])
      BY <1>1, CatLen, Single
    <3>4. <<bupbuf[d]>> \o queue[d] # <<>>
      BY <1>1, <3>3
    <3> QED BY <3>2, <3>4
  <2>2. CASE d \notin fresh
    BY <2>2 DEF Setup
  <2> QED BY <2>1, <2>2
<1>4. CASE queue[d] = <<>>
  <2>1. active[d] # 2
    BY <1>4 DEF RInv, Lined
  <2>2. d \notin Elements(ready)
    BY <1>2, <2>1
  <2>3. UNCHANGED <<queue, ready>>
    BY <1>4 DEF Upustart
  <2>4. active' = [active EXCEPT ![d] = IF Inactive(d) THEN 0 ELSE active[d]]
    BY <1>4 DEF Upustart
  <2>5. (IF Inactive(d) THEN 0 ELSE active[d]) \in {0, 1}
    BY <1>1, <2>1
  <2> QED BY <2>2, <2>3, <2>4, <2>5
<1>5. CASE queue[d] # <<>> /\ ~Inactive(d)
  <2>1. Ready(d) /\ UNCHANGED queue /\ caller # "upreset" /\ active[d] # 0
    BY <1>5 DEF Upustart, Inactive
  <2>2. CASE active[d] = 2
    <3>1. active' = active /\ ready' = ready
      BY <1>1, <2>1, <2>2 DEF Ready
    <3> QED BY <2>1, <2>2, <3>1 DEF Resetting
  <2>3. CASE active[d] # 2
    <3>1. ready' = Append(ready, d) /\ active' = [active EXCEPT ![d] = 2]
      BY <2>1, <2>3 DEF Ready
    <3> QED BY <1>2, <1>5, <2>1, <2>3, <3>1
  <2> QED BY <2>2, <2>3
<1>6. CASE queue[d] # <<>> /\ Inactive(d)
  <2>1. d \notin Elements(ready)
    BY <1>2, <1>6 DEF Inactive, Resetting
  <2>2. CASE Setup(d) /\ Ready(d)
    <3>1. ready' = Append(ready, d) /\ active' = [active EXCEPT ![d] = 2]
      BY <1>6, <2>2 DEF Ready, Inactive
    <3> QED BY <1>3, <1>6, <2>1, <2>2, <3>1
  <2>3. CASE Setup(d) /\ active' = [active EXCEPT ![d] = 1] /\ ready' = ready
    BY <1>3, <2>1, <2>3
  <2> QED BY <1>6, <2>2, <2>3 DEF Upustart
<1> QED BY <1>4, <1>5, <1>6

(* What is known of the ready queue.                                       *)
LEMMA ReadyFacts ==
  ASSUME Inv
  PROVE  /\ ready \in Seq(Drives) /\ Elements(ready) \subseteq Drives
         /\ active \in [Drives -> 0..2] /\ queue \in [Drives -> Seq(Requests)]
         /\ ready = <<>> => Elements(ready) = {}
         /\ ready # <<>> => Dp \in Elements(ready)
         /\ NONE \notin Drives
<1>1. /\ ready \in Seq(Drives) /\ active \in [Drives -> 0..2]
      /\ queue \in [Drives -> Seq(Requests)]
  BY DEF Inv, TypeOK
<1>2. Elements(ready) \subseteq Drives
  BY <1>1 DEF Elements
<1>3. ready = <<>> => Elements(ready) = {}
  BY DEF Elements
<1>4. ASSUME ready # <<>> PROVE Dp \in Elements(ready)
  <2>1. 1 \in 1..Len(ready) /\ Head(ready) = ready[1]
    BY <1>1, <1>4
  <2> QED BY <2>1 DEF Elements, Dp
<1> QED BY <1>1, <1>2, <1>3, <1>4

(* A step that leaves the ready queue alone and takes no drive its last    *)
(* request, after upreset's loop.                                          *)
LEMMA SameLines ==
  ASSUME RInv, UNCHANGED <<ready, active>>, ~Resetting', Resetting => todo = {},
         \A d \in Drives : queue[d] # <<>> => queue'[d] # <<>>
  PROVE  Lined'
<1>1. Dp' = Dp
  BY DEF Dp
<1>2. NoRepeats(ready')
  BY DEF RInv, Lined
<1>3. \A d \in Drives : active'[d] = 2 => queue'[d] # <<>> /\ d \in Elements(ready')
  BY DEF RInv, Lined
<1>4. \A d \in Elements(ready') : active'[d] = 2 \/ d = Dp'
  BY <1>1 DEF RInv, Lined
<1> QED BY <1>2, <1>3, <1>4 DEF Lined

LEMMA UpstrategyRInv ==
  ASSUME Inv, RInv, NEW bp \in Buffers, Upstrategy(bp)
  PROVE  RInv'
<1> DEFINE d == unit[bp]
<1>1. d \in Drives /\ bp \in Requests /\ queue[d] \in Seq(Requests)
  BY DEF Inv, TypeOK
<1>2. Disksort(queue[d], bp) # <<>>
  BY <1>1, DisksortSeq, Zenon
<1>3. /\ queue' = [queue EXCEPT ![d] = Disksort(queue[d], bp)]
      /\ UNCHANGED <<ready, active, again, um_active>> /\ pc = "out"
      /\ \/ pc' = "upustart" /\ caller' = "upstrategy" /\ todo' = {d}
         \/ UNCHANGED <<pc, caller, todo>>
  BY DEF Upstrategy
<1> HIDE DEF d
<1>4. \A e \in Drives : queue[e] # <<>> => queue'[e] # <<>>
  BY <1>1, <1>2, <1>3, ReadyFacts
<1>5. ~Resetting /\ ~Resetting'
  BY <1>3 DEF Resetting
<1>6. Lined'
  BY <1>3, <1>4, <1>5, SameLines
<1>7. um_active = 0 => Elements(ready) = {}
  BY <1>3, ReadyFacts DEF RInv, Turns
<1>8. Turns'
  BY <1>3, <1>5, <1>7 DEF RInv, Turns
<1> QED BY <1>6, <1>8 DEF RInv

LEMMA UpustartNextRInv ==
  ASSUME Inv, RInv, UpustartNext
  PROVE  RInv'
<1>1. PICK d \in Drives :
           /\ pc = "upustart" /\ Upustart(d, Bits(d))
           /\ IF again # NONE THEN d = again /\ todo' = todo
                              ELSE d \in todo /\ todo' = todo \ {d}
           /\ again' = NONE
           /\ UNCHANGED <<um_active, errcnt, recal, uba, pc, caller, moving, parts, losses>>
  BY UpustartTurn
<1>2. /\ ready \in Seq(Drives) /\ Elements(ready) \subseteq Drives
      /\ active \in [Drives -> 0..2] /\ queue \in [Drives -> Seq(Requests)]
      /\ ready = <<>> => Elements(ready) = {}
      /\ ready # <<>> => Dp \in Elements(ready)
      /\ NONE \notin Drives
  BY ReadyFacts
<1>3. /\ Resetting' = Resetting
      /\ Resetting => um_active = 0 /\ todo' = todo \ {d}
      /\ todo' \subseteq todo
  <2>1. Resetting' = Resetting
    BY <1>1 DEF Resetting
  <2>2. Resetting => um_active = 0 /\ again = NONE
    BY DEF RInv, Turns
  <2> QED BY <1>1, <2>1, <2>2
<1>4. CASE um_active # 0
  <2>1. ~Resetting
    BY <1>3, <1>4
  <2>2. active' = active
    <3>1. active' = active \/ active' = [active EXCEPT ![d] = IF Inactive(d) THEN 0
                                                              ELSE active[d]]
      BY <1>1, <1>4 DEF Upustart
    <3>2. Inactive(d) => active[d] = 0
      BY <1>1, <2>1 DEF Inactive, Resetting
    <3> QED BY <1>2, <3>1, <3>2
  <2>3. UNCHANGED <<queue, ready>>
    BY <1>1, <1>4 DEF Upustart
  <2>4. Lined'
    BY <1>3, <2>1, <2>2, <2>3, SameLines
  <2>5. Turns'
    BY <1>1, <1>3, <1>4, <2>1 DEF Turns
  <2> QED BY <2>4, <2>5 DEF RInv
<1>5. CASE um_active = 0
  <2>1. d = again \/ d \in todo
    BY <1>1
  <2>2. /\ \A e \in Drives : e # d => queue'[e] = queue[e]
        /\ \/ UNCHANGED <<queue, active, ready>> /\ active[d] = 2 /\ ~Resetting
           \/ /\ d \notin Elements(ready) /\ ready' = ready
              /\ \E n \in {0, 1} : active' = [active EXCEPT ![d] = n]
           \/ /\ d \notin Elements(ready) /\ ready' = Append(ready, d)
              /\ active' = [active EXCEPT ![d] = 2]
              /\ queue'[d] # <<>>
    BY <1>1, <1>5, <2>1, UpustartLines
  <2>3. /\ NoRepeats(ready)
        /\ \A e \in Drives : active[e] = 2 =>
             queue[e] # <<>> /\ (e \in Elements(ready) \/ (Resetting /\ e \in todo))
        /\ \A e \in Elements(ready) : active[e] = 2 \/ (e = Dp /\ ~Resetting)
        /\ Resetting => \A e \in Elements(ready) : e \notin todo
        /\ \A e \in Elements(ready) : e = again \/ e \in todo => active[e] = 2
    BY <1>1, <1>5 DEF RInv, Lined, Turns
  <2>4. CASE UNCHANGED <<queue, active, ready>> /\ active[d] = 2 /\ ~Resetting
    <3>1. Lined'
      BY <1>3, <2>4, SameLines
    <3>2. Turns'
      BY <1>1, <1>2, <1>3, <1>5, <2>3, <2>4 DEF Turns
    <3> QED BY <3>1, <3>2 DEF RInv
  <2>5. ASSUME d \notin Elements(ready), ready' = ready,
               NEW n \in {0, 1}, active' = [active EXCEPT ![d] = n]
        PROVE  RInv'
    <3>1. active'[d] # 2 /\ \A e \in Drives : e # d => active'[e] = active[e]
      BY <1>2, <2>5
    <3>2. Dp' = Dp
      BY <2>5 DEF Dp
    <3>3. \A e \in Drives : active'[e] = 2 =>
             queue'[e] # <<>> /\ (e \in Elements(ready') \/ (Resetting' /\ e \in todo'))
      BY <1>3, <2>2, <2>3, <2>5, <3>1
    <3>4. \A e \in Elements(ready') : active'[e] = active[e]
      BY <1>2, <2>5, <3>1
    <3>5. \A e \in Elements(ready') : active'[e] = 2 \/ (e = Dp' /\ ~Resetting')
      BY <1>3, <2>3, <2>5, <3>2, <3>4
    <3>6. Lined'
      BY <2>3, <2>5, <3>3, <3>5 DEF Lined
    <3>7. Turns'
      BY <1>1, <1>2, <1>3, <1>5, <2>3, <2>5, <3>4 DEF Turns
    <3> QED BY <3>6, <3>7 DEF RInv
  <2>6. CASE /\ d \notin Elements(ready) /\ ready' = Append(ready, d)
             /\ active' = [active EXCEPT ![d] = 2]
             /\ queue'[d] # <<>>
    <3>1. active'[d] = 2 /\ \A e \in Drives : e # d => active'[e] = active[e]
      BY <1>2, <2>6
    <3>2. /\ NoRepeats(ready') /\ Elements(ready') = Elements(ready) \cup {d}
          /\ Head(ready') = IF ready = <<>> THEN d ELSE Head(ready)
      BY <1>2, <2>3, <2>6, AppendElements
    <3>3. \A e \in Drives : active'[e] = 2 =>
             queue'[e] # <<>> /\ (e \in Elements(ready') \/ (Resetting' /\ e \in todo'))
      BY <1>3, <2>2, <2>3, <2>6, <3>1, <3>2
    <3>4. \A e \in Elements(ready) : Dp' = Dp
      BY <1>2, <3>2 DEF Dp, Elements
    <3>5. \A e \in Elements(ready) : active'[e] = active[e]
      BY <1>2, <2>6, <3>1
    <3>6. \A e \in Elements(ready') : active'[e] = 2 \/ (e = Dp' /\ ~Resetting')
      BY <1>3, <2>3, <3>1, <3>2, <3>4, <3>5
    <3>7. Lined'
      BY <3>2, <3>3, <3>6 DEF Lined
    <3>8. Resetting' => \A e \in Elements(ready') : e \notin todo'
      BY <1>3, <2>3, <3>2
    <3>9. \A e \in Elements(ready') : e = again' \/ e \in todo' => active'[e] = 2
      BY <1>1, <1>2, <1>3, <2>3, <3>1, <3>2, <3>5
    <3>10. Turns'
      BY <1>1, <1>3, <1>5, <3>8, <3>9 DEF Turns
    <3> QED BY <3>7, <3>10 DEF RInv
  <2> QED BY <2>2, <2>4, <2>5, <2>6
<1> QED BY <1>4, <1>5

(* The loops end; upstart has nothing to do.                               *)
LEMMA UpustartDoneRInv ==
  ASSUME Inv, RInv, UpustartDone \/ UpstartEmpty
  PROVE  RInv'
<1>1. UNCHANGED <<queue, active, ready, again, um_active>>
  BY DEF UpustartDone, UpstartEmpty, sw
<1>2. /\ again' = NONE
      /\ pc' = "upstart" \/ (pc' = "out" /\ (um_active = 0 => ready = <<>>))
  BY <1>1 DEF UpustartDone, UpstartEmpty, Startable, Leave, RInv, Turns
<1>3. ~Resetting' /\ (Resetting => todo = {})
  BY <1>2 DEF Resetting, UpustartDone, UpstartEmpty
<1>4. Lined'
  BY <1>1, <1>3, SameLines
<1>5. Turns'
  BY <1>1, <1>2, <1>3 DEF Turns
<1> QED BY <1>4, <1>5 DEF RInv

(* The first drive leaves the ready queue; it does not say it is there.    *)
LEMMA FirstLeaves ==
  ASSUME Inv, RInv, ready # <<>>, ready' = Tail(ready), ~Resetting, ~Resetting',
         active'[Dp] # 2,
         \A e \in Drives : e # Dp => active'[e] = active[e] /\ queue'[e] = queue[e]
  PROVE  /\ Lined' /\ \A e \in Elements(ready') : active'[e] = 2
<1>1. /\ NoRepeats(ready') /\ Elements(ready') = Elements(ready) \ {Dp}
      /\ Elements(ready) \subseteq Drives
  BY ReadyFacts, TailElements DEF RInv, Lined, Dp
<1>2. /\ \A e \in Drives : active[e] = 2 => queue[e] # <<>> /\ e \in Elements(ready)
      /\ \A e \in Elements(ready) : active[e] = 2 \/ e = Dp
  BY DEF RInv, Lined
<1>3. \A e \in Drives : active'[e] = 2 => queue'[e] # <<>> /\ e \in Elements(ready')
  BY <1>1, <1>2
<1>4. \A e \in Elements(ready') : active'[e] = 2
  BY <1>1, <1>2
<1> QED BY <1>1, <1>3, <1>4 DEF Lined

LEMMA UpstartSkipRInv ==
  ASSUME Inv, RInv, UpstartSkip
  PROVE  RInv'
<1>1. /\ ready # <<>> /\ ready' = Tail(ready) /\ queue[Dp] = <<>>
      /\ UNCHANGED <<queue, active, pc, again, caller>> /\ pc = "upstart"
  BY DEF UpstartSkip
<1>2. ~Resetting /\ ~Resetting'
  BY <1>1 DEF Resetting
<1>3. Dp \in Drives /\ active[Dp] # 2
  BY <1>1, ReadyFacts DEF RInv, Lined
<1>4. Lined'
  BY <1>1, <1>2, <1>3, FirstLeaves
<1>5. Turns'
  BY <1>1, <1>2 DEF RInv, Turns
<1> QED BY <1>4, <1>5 DEF RInv

LEMMA UpstartNotReadyRInv ==
  ASSUME Inv, RInv, UpstartNotReady
  PROVE  RInv'
<1>1. /\ ready # <<>> /\ pc = "upstart"
      /\ queue' = [queue EXCEPT ![Dp] = Tail(queue[Dp])]
      /\ active' = [active EXCEPT ![Dp] = 0]
      /\ UNCHANGED <<ready, pc, again, caller>>
  BY DEF UpstartNotReady
<1>2. ~Resetting /\ ~Resetting'
  BY <1>1 DEF Resetting
<1>3. /\ Dp \in Drives /\ Elements(ready) \subseteq Drives
      /\ active \in [Drives -> 0..2] /\ queue \in [Drives -> Seq(Requests)]
  BY <1>1, ReadyFacts
<1>4. /\ active'[Dp] = 0
      /\ \A e \in Drives : e # Dp => active'[e] = active[e] /\ queue'[e] = queue[e]
  BY <1>1, <1>3
<1>5. Dp' = Dp
  BY <1>1 DEF Dp
<1>6. /\ NoRepeats(ready)
      /\ \A e \in Drives : active[e] = 2 => queue[e] # <<>> /\ e \in Elements(ready)
      /\ \A e \in Elements(ready) : active[e] = 2 \/ e = Dp
  BY <1>2 DEF RInv, Lined
<1>7. \A e \in Drives : active'[e] = 2 => queue'[e] # <<>> /\ e \in Elements(ready')
  BY <1>1, <1>4, <1>6
<1>8. \A e \in Elements(ready') : active'[e] = 2 \/ e = Dp'
  BY <1>1, <1>3, <1>4, <1>5, <1>6
<1>9. Lined'
  BY <1>1, <1>2, <1>6, <1>7, <1>8 DEF Lined
<1>10. Turns'
  BY <1>1, <1>2 DEF RInv, Turns
<1> QED BY <1>9, <1>10 DEF RInv

(* The controller works, or waits: with the queues as they are.            *)
LEMMA WorkingRInv ==
  ASSUME Inv, RInv, UNCHANGED <<queue, active, ready, again>>,
         pc # "upustart", pc' = "out", um_active' # 0
  PROVE  RInv'
<1>1. ~Resetting /\ ~Resetting'
  BY DEF Resetting
<1>2. Lined'
  BY <1>1, SameLines
<1>3. Turns'
  BY <1>1 DEF RInv, Turns
<1> QED BY <1>2, <1>3 DEF RInv

(* Steps that are none of the ready queue's business.                      *)
LEMMA AloneRInv ==
  ASSUME Inv, RInv,
         UNCHANGED <<queue, active, ready, again, um_active, pc, caller, todo>>
  PROVE  RInv'
<1>1. Dp' = Dp /\ Resetting' = Resetting
  BY DEF Dp, Resetting
<1>2. Lined'
  BY <1>1 DEF RInv, Lined
<1>3. Turns'
  BY <1>1 DEF RInv, Turns
<1> QED BY <1>2, <1>3 DEF RInv

LEMMA UbarelseRInv ==
  ASSUME Inv, RInv, Ubarelse
  PROVE  RInv'
<1>1. UNCHANGED <<queue, active, ready, again, pc, caller, todo>> /\ pc = "out"
  BY DEF Ubarelse
<1>2. CASE um_active' = um_active
  BY <1>1, <1>2, AloneRInv
<1>3. CASE um_active' = 2
  BY <1>1, <1>3, WorkingRInv
<1> QED BY <1>2, <1>3 DEF Ubarelse, Updgo

LEMMA UpintrAttentionRInv ==
  ASSUME Inv, RInv, UpintrAttention
  PROVE  RInv'
<1>1. /\ UNCHANGED <<queue, active, ready, again, um_active>> /\ pc = "out"
      /\ pc' = "upustart" /\ caller' = "doattn"
  BY DEF UpintrAttention, Interrupt
<1>2. ~Resetting /\ ~Resetting'
  BY <1>1 DEF Resetting
<1>3. Lined'
  BY <1>1, <1>2, SameLines
<1>4. um_active = 0 => Elements(ready) = {}
  BY <1>1, ReadyFacts DEF RInv, Turns
<1>5. Turns'
  BY <1>1, <1>2, <1>4 DEF Turns
<1> QED BY <1>3, <1>5 DEF RInv

(* The drive whose request has ended leaves the ready queue.               *)
LEMMA UpintrDoneRInv ==
  ASSUME Inv, RInv, UpintrDone
  PROVE  RInv'
<1>1. UpintrTransfer /\ Iodone /\ pc' = "upustart"
  BY Zenon DEF UpintrDone
<1>2. Interrupt
  BY <1>1 DEF UpintrTransfer
<1>3. /\ ready # <<>> /\ Dp \in Drives /\ pc = "out"
  BY <1>1, <1>2, UpintrFacts
<1>4. /\ ready' = Tail(ready) /\ um_active' = 0 /\ caller' = "doattn"
      /\ active' = [active EXCEPT ![Dp] = 0]
      /\ queue' = [queue EXCEPT ![Dp] = Tail(queue[Dp])]
  BY <1>1 DEF Iodone, ReadyAfter
<1>5. ~Resetting /\ ~Resetting'
  BY <1>3, <1>4 DEF Resetting
<1>6. /\ active'[Dp] # 2
      /\ \A e \in Drives : e # Dp => active'[e] = active[e] /\ queue'[e] = queue[e]
  BY <1>3, <1>4, ReadyFacts
<1>7. Lined' /\ \A e \in Elements(ready') : active'[e] = 2
  BY <1>3, <1>4, <1>5, <1>6, FirstLeaves
<1>8. Turns'
  BY <1>1, <1>5, <1>7 DEF Turns
<1> QED BY <1>7, <1>8 DEF RInv

LEMMA UpintrRetryRInv ==
  ASSUME Inv, RInv, UpintrRetry
  PROVE  RInv'
<1>1. /\ UpintrTransfer /\ um_active' = 0
      /\ pc' = "upustart" /\ caller' = "doattn" /\ todo' = As \ {Dp}
      /\ UNCHANGED <<again, queue, active, ready>>
  BY Zenon DEF UpintrRetry
<1>2. Interrupt
  BY <1>1 DEF UpintrTransfer
<1>3. /\ ready # <<>> /\ pc = "out"
  BY <1>1, <1>2, UpintrFacts
<1>4. ~Resetting /\ ~Resetting'
  BY <1>1, <1>3 DEF Resetting
<1>5. Lined'
  BY <1>1, <1>4, SameLines
<1>6. again' = NONE /\ Elements(ready) \subseteq Drives /\ NONE \notin Drives
  BY <1>1, <1>3, ReadyFacts DEF RInv, Turns
<1>7. \A e \in Elements(ready') : e # Dp => active'[e] = 2
  BY <1>1 DEF RInv, Lined
<1>8. \A e \in Elements(ready') : e = again' \/ e \in todo' => active'[e] = 2
  BY <1>1, <1>6, <1>7
<1>9. Turns'
  BY <1>1, <1>4, <1>8 DEF Turns
<1> QED BY <1>5, <1>9 DEF RInv

LEMMA UpwatchRInv ==
  ASSUME Inv, RInv, Upwatch
  PROVE  RInv'
<1>1. /\ um_active' = 0 /\ ready' = <<>> /\ pc = "out"
      /\ pc' = "upustart" /\ caller' = "upreset" /\ todo' = Drives
      /\ UNCHANGED <<again, queue, active>>
  BY DEF Upwatch
<1>2. Elements(ready') = {} /\ NoRepeats(ready')
  BY <1>1 DEF Elements, NoRepeats
<1>3. Resetting' /\ again' = NONE
  BY <1>1 DEF Resetting, RInv, Turns
<1>4. ~Resetting
  BY <1>1 DEF Resetting
<1>5. Lined'
  BY <1>1, <1>2, <1>3, <1>4 DEF RInv, Lined
<1>6. Turns'
  BY <1>1, <1>2, <1>3 DEF Turns
<1> QED BY <1>5, <1>6 DEF RInv

LEMMA NextRInv == Inv /\ RInv /\ [Next]_vars => RInv'
<1> SUFFICES ASSUME Inv, RInv, [Next]_vars PROVE RInv'
  OBVIOUS
<1>1. ASSUME NEW bp \in Buffers, Upstrategy(bp) PROVE RInv'
  BY <1>1, UpstrategyRInv
<1>2. CASE UpstartGo \/ UpstartWait
  <2>1. /\ UNCHANGED <<queue, active, ready, again>> /\ pc = "upstart" /\ pc' = "out"
        /\ um_active' # 0
    BY <1>2 DEF UpstartGo, UpstartWait, Updgo
  <2> QED BY <2>1, WorkingRInv
<1>3. CASE Driver
  BY <1>2, <1>3, UpustartNextRInv, UpustartDoneRInv, UpstartSkipRInv,
     UpstartNotReadyRInv, Zenon DEF Driver
<1>4. CASE UpintrContinue \/ UpintrRecal \/ UpintrSeek
  <2>1. UNCHANGED <<queue, active, ready, again, pc>> /\ um_active' # 0
    BY <1>4 DEF UpintrContinue, UpintrRecal, UpintrSeek, Nextrecal
  <2>2. pc = "out"
    BY <1>4 DEF UpintrContinue, UpintrRecal, UpintrSeek, UpintrTransfer, Interrupt
  <2> QED BY <2>1, <2>2, WorkingRInv
<1>5. CASE Upintr
  BY <1>4, <1>5, UpintrAttentionRInv, UpintrDoneRInv, UpintrRetryRInv, Zenon DEF Upintr
<1>6. CASE Hardware
  <2>1. UNCHANGED <<queue, active, ready, again, um_active, pc, caller, todo>>
    BY <1>6, Zenon DEF Hardware, Transferred, Positioned, sw
  <2> QED BY <2>1, AloneRInv
<1>7. CASE OthersTake
  BY <1>7, AloneRInv DEF OthersTake
<1>8. CASE UNCHANGED vars
  BY <1>8, AloneRInv DEF vars, sw
<1> QED BY <1>1, <1>3, <1>5, <1>6, <1>7, <1>8, UpwatchRInv, UbarelseRInv, Zenon DEF Next

LEMMA AlwaysRInv == Spec => [](Inv /\ RInv)
<1>1. Init => Inv /\ RInv
  <2> SUFFICES ASSUME Init PROVE RInv
    BY InitInv
  <2>1. /\ ready = <<>> /\ pc = "out" /\ again = NONE
        /\ \A d \in Drives : active[d] # 2
    BY DEF Init
  <2>2. Elements(ready) = {} /\ NoRepeats(ready)
    BY <2>1 DEF Elements, NoRepeats
  <2> QED BY <2>1, <2>2 DEF RInv, Lined, Turns, Resetting
<1>2. (Inv /\ RInv) /\ [Next]_vars => (Inv /\ RInv)'
  BY NextInv, NextRInv
<1> QED BY <1>1, <1>2, PTL DEF Spec

(* The loops of upstart and upintr find a drive on the ready queue once,   *)
(* and every drive that says so, whatever arrives, fails, is retried or is *)
(* reset in between; and what they follow unchecked is there.              *)
THEOREM AlwaysReadySound == Spec => []ReadySound
<1>1. Inv /\ RInv => ReadySound
  <2> SUFFICES ASSUME Inv, RInv PROVE ReadySound
    OBVIOUS
  <2>1. ready \in Seq(Drives)
    BY ReadyFacts
  <2>2. IsInjective(ready)
    <3>1. DOMAIN ready = 1..Len(ready)
      BY <2>1
    <3> QED BY <3>1 DEF IsInjective, RInv, Lined, NoRepeats
  <2>3. \A d \in Drives : active[d] = 2 /\ ~Resetting => Contains(ready, d)
    BY DEF RInv, Lined, Elements, Contains
  <2> QED BY <2>2, <2>3 DEF ReadySound, Inv, Held
<1> QED BY <1>1, AlwaysRInv, PTL

-----------------------------------------------------------------------------
(* The driver is never deaf: but for upintr, which enables interrupts when *)
(* it leaves, they are enabled whenever one may come.                      *)
Pending == hw.pos # {} \/ hw.as # {} \/ hw.busy \/ hw.irq

HInv ==
  /\ pc = "out" => caller = NONE
  /\ caller # "doattn" => (Pending => hw.ie \/ uba.wait)

LEMMA HwFacts ==
  ASSUME Inv
  PROVE  hw \in HwType /\ uba \in [wait : BOOLEAN, others : BOOLEAN] /\ NONE # "doattn"
BY DEF Inv, TypeOK, HwType

(* A step that leaves interrupts enabled, or waits for the UNIBUS.         *)
LEMMA Hears ==
  ASSUME HInv, hw'.ie \/ uba'.wait, pc' = "out" => caller' = NONE
  PROVE  HInv'
BY DEF HInv

(* A step of upintr with interrupts disabled.                              *)
LEMMA Deaf ==
  ASSUME caller' = "doattn", pc' # "out"
  PROVE  HInv'
BY DEF HInv

(* A step that makes nothing pending.                                      *)
LEMMA SameHw ==
  ASSUME HInv, UNCHANGED <<hw, uba>>, pc' = "out" => caller' = NONE, caller # "doattn"
  PROVE  HInv'
BY DEF HInv, Pending

LEMMA AloneHInv ==
  ASSUME HInv, UNCHANGED <<hw, pc, caller>>, uba'.wait = uba.wait
  PROVE  HInv'
BY DEF HInv, Pending

LEMMA UpustartNextHInv ==
  ASSUME Inv, HInv, UpustartNext
  PROVE  HInv'
<1>1. PICK d \in Drives :
           /\ pc = "upustart" /\ Upustart(d, Bits(d))
           /\ UNCHANGED <<uba, pc, caller>>
  BY UpustartTurn
<1>2. hw \in HwType
  BY HwFacts
<1>3. CASE caller = "doattn"
  BY <1>1, <1>3, Deaf
<1>4. CASE caller # "doattn"
  <2>1. Bits(d) = hw
    BY <1>4 DEF Bits
  <2>2. \/ hw' = hw
        \/ hw' = [hw EXCEPT !.ie = TRUE]
        \/ hw' = [hw EXCEPT !.as = hw.as \ {d}, !.pos = hw.pos \cup {d}, !.ie = TRUE]
    BY <1>1, <2>1, Zenon DEF Upustart, Command
  <2>3. hw' = hw \/ hw'.ie
    BY <1>2, <2>2 DEF HwType
  <2>4. CASE hw' = hw
    BY <1>1, <1>4, <2>4, SameHw
  <2>5. CASE hw'.ie
    BY <1>1, <2>5, Hears
  <2> QED BY <2>3, <2>4, <2>5
<1> QED BY <1>3, <1>4

(* upintr enables interrupts when it leaves.                               *)
LEMMA LeaveHInv ==
  ASSUME Inv, HInv, Leave, uba' = uba
  PROVE  HInv'
<1>1. pc' = "out" /\ caller' = NONE /\ hw \in HwType
  BY HwFacts DEF Leave
<1>2. CASE caller = "doattn"
  <2>1. hw' = [hw EXCEPT !.ie = TRUE]
    BY <1>2 DEF Leave
  <2>2. hw'.ie
    BY <1>1, <2>1 DEF HwType
  <2> QED BY <1>1, <2>2, Hears
<1>3. CASE caller # "doattn"
  <2>1. hw' = hw
    BY <1>3 DEF Leave
  <2> QED BY <1>1, <1>3, <2>1, SameHw
<1> QED BY <1>2, <1>3

LEMMA UpustartDoneHInv ==
  ASSUME Inv, HInv, UpustartDone \/ UpstartEmpty
  PROVE  HInv'
<1>1. uba' = uba
  BY DEF UpustartDone, UpstartEmpty, sw
<1>2. CASE Leave
  BY <1>1, <1>2, LeaveHInv
<1>3. CASE UNCHANGED <<hw, caller>> /\ pc' = "upstart"
  BY <1>1, <1>3 DEF HInv, Pending
<1> QED BY <1>2, <1>3 DEF UpustartDone, UpstartEmpty

(* updgo enables them.                                                     *)
LEMMA UpdgoHears == Inv /\ Updgo => hw'.ie
<1> SUFFICES ASSUME Inv, Updgo PROVE hw'.ie
  OBVIOUS
<1>1. hw \in HwType /\ hw' = [hw EXCEPT !.as = hw.as \ {Dp}, !.busy = TRUE, !.ie = TRUE]
  BY HwFacts DEF Updgo
<1> QED BY <1>1 DEF HwType

LEMMA UpstartHInv ==
  ASSUME Inv, HInv, UpstartGo \/ UpstartWait
  PROVE  HInv'
<1>1. pc' = "out" /\ caller' = NONE
  BY DEF UpstartGo, UpstartWait
<1>2. CASE UpstartGo
  BY <1>1, <1>2, UpdgoHears, Hears DEF UpstartGo
<1>3. CASE UpstartWait
  <2>1. uba' = [uba EXCEPT !.wait = TRUE]
    BY <1>3 DEF UpstartWait
  <2>2. uba'.wait
    BY <2>1, HwFacts
  <2> QED BY <1>1, <2>2, Hears
<1> QED BY <1>2, <1>3

LEMMA UbarelseHInv ==
  ASSUME Inv, HInv, Ubarelse
  PROVE  HInv'
<1>1. UNCHANGED <<pc, caller>> /\ pc = "out" /\ caller = NONE
  BY DEF Ubarelse, HInv
<1>2. CASE uba.wait
  BY <1>1, <1>2, UpdgoHears, Hears DEF Ubarelse
<1>3. CASE ~uba.wait
  <2>1. hw' = hw /\ uba' = [wait |-> FALSE, others |-> FALSE]
    BY <1>3 DEF Ubarelse
  <2>2. uba'.wait = uba.wait
    BY <1>3, <2>1, HwFacts
  <2> QED BY <1>1, <2>1, <2>2, AloneHInv
<1> QED BY <1>2, <1>3

(* The hardware raises nothing out of the blue.                            *)
LEMMA HardwareHInv ==
  ASSUME Inv, HInv, Hardware
  PROVE  HInv'
<1>1. hw \in HwType
  BY HwFacts
<1>2. /\ UNCHANGED <<uba, pc, caller>>
      /\ hw'.ie = hw.ie /\ (Pending' => Pending)
  <2>1. CASE Transferred
    <3>1. /\ UNCHANGED <<uba, pc, caller>> /\ hw.busy
          /\ \/ hw' = [hw EXCEPT !.busy = FALSE, !.irq = TRUE]
             \/ hw' = [hw EXCEPT !.busy = FALSE]
      BY <2>1, Zenon DEF Transferred, sw
    <3>2. hw'.ie = hw.ie
      BY <1>1, <3>1 DEF HwType
    <3> QED BY <3>1, <3>2 DEF Pending
  <2>2. ASSUME NEW d \in Drives, Positioned(d)
        PROVE  /\ UNCHANGED <<uba, pc, caller>>
               /\ hw'.ie = hw.ie /\ (Pending' => Pending)
    <3>1. /\ UNCHANGED <<uba, pc, caller>> /\ d \in hw.pos
          /\ \/ hw' = [hw EXCEPT !.pos = hw.pos \ {d}, !.as = hw.as \cup {d}]
             \/ hw' = [hw EXCEPT !.pos = hw.pos \ {d}]
      BY <2>2, Zenon DEF Positioned, sw
    <3>2. hw'.ie = hw.ie
      BY <1>1, <3>1 DEF HwType
    <3>3. Pending
      BY <3>1 DEF Pending
    <3> QED BY <3>1, <3>2, <3>3
  <2> QED BY <2>1, <2>2 DEF Hardware
<1> QED BY <1>2 DEF HInv

(* A transfer goes on, or the drive is recalibrated.                       *)
LEMMA UpintrGoesOnHInv ==
  ASSUME Inv, HInv, UpintrContinue \/ UpintrRecal \/ UpintrSeek
  PROVE  HInv'
<1>1. Interrupt /\ UNCHANGED <<pc, caller>>
  BY DEF UpintrContinue, UpintrRecal, UpintrSeek, UpintrTransfer, Nextrecal
<1>2. Taken \in HwType
  BY <1>1, UpintrFacts
<1>3. \/ hw' = [Taken EXCEPT !.as = Taken.as \ {Dp}, !.busy = TRUE, !.ie = TRUE]
      \/ hw' = [Taken EXCEPT !.as = Taken.as \ {Dp}, !.pos = Taken.pos \cup {Dp},
                             !.ie = TRUE]
  BY Zenon DEF UpintrContinue, UpintrRecal, UpintrSeek, Nextrecal, Command
<1>4. hw'.ie
  BY <1>2, <1>3 DEF HwType
<1> QED BY <1>1, <1>4, Hears DEF HInv

LEMMA UpwatchHInv ==
  ASSUME Upwatch
  PROVE  HInv'
<1>1. /\ hw' = [as |-> {}, pos |-> {}, busy |-> FALSE, irq |-> FALSE, ie |-> FALSE]
      /\ pc' = "upustart"
  BY DEF Upwatch
<1>2. ~Pending'
  BY <1>1 DEF Pending
<1> QED BY <1>1, <1>2 DEF HInv

LEMMA NextHInv == Inv /\ HInv /\ [Next]_vars => HInv'
<1> SUFFICES ASSUME Inv, HInv, [Next]_vars PROVE HInv'
  OBVIOUS
<1>1. ASSUME NEW bp \in Buffers, Upstrategy(bp) PROVE HInv'
  <2>1. /\ UNCHANGED <<hw, uba>> /\ caller = NONE
        /\ pc' = "upustart" \/ UNCHANGED <<pc, caller>>
    BY <1>1 DEF Upstrategy, HInv
  <2> QED BY <2>1, HwFacts, SameHw
<1>2. CASE UpstartSkip \/ UpstartNotReady
  BY <1>2, AloneHInv DEF UpstartSkip, UpstartNotReady
<1>3. CASE Driver
  BY <1>2, <1>3, UpustartNextHInv, UpustartDoneHInv, UpstartHInv, Zenon DEF Driver
<1>4. CASE UpintrAttention \/ UpintrRetry
  BY <1>4, Deaf, Zenon DEF UpintrAttention, UpintrRetry
<1>5. CASE UpintrDone
  <2>1. caller' = "doattn" /\ pc' = "upustart"
    BY <1>5, Zenon DEF UpintrDone, Iodone
  <2> QED BY <2>1, Deaf
<1>6. CASE Upintr
  BY <1>4, <1>5, <1>6, UpintrGoesOnHInv, Zenon DEF Upintr
<1>7. CASE OthersTake
  <2>1. UNCHANGED <<hw, pc, caller>> /\ uba' = [uba EXCEPT !.others = TRUE]
    BY <1>7 DEF OthersTake
  <2>2. uba'.wait = uba.wait
    BY <2>1, HwFacts
  <2> QED BY <2>1, <2>2, AloneHInv
<1>8. CASE UNCHANGED vars
  BY <1>8, AloneHInv DEF vars, sw
<1> QED BY <1>1, <1>3, <1>6, <1>7, <1>8, HardwareHInv, UpwatchHInv, UbarelseHInv, Zenon
        DEF Next

(* Between its routines the driver has the controller working whenever a   *)
(* drive is ready, and hears of whatever the hardware may be doing: no     *)
(* path of upstrategy, upintr, ubago or upreset leaves it waiting for an   *)
(* interrupt that is disabled.                                             *)
THEOREM AlwaysNeverIdle == Spec => []NeverIdle
<1>1. Init => HInv
  <2> SUFFICES ASSUME Init PROVE HInv
    OBVIOUS
  <2>1. /\ hw = [as |-> {}, pos |-> {}, busy |-> FALSE, irq |-> FALSE, ie |-> FALSE]
        /\ caller = NONE
    BY DEF Init
  <2>2. ~Pending
    BY <2>1 DEF Pending
  <2> QED BY <2>1, <2>2 DEF HInv
<1>2. Inv /\ HInv /\ [Next]_vars => HInv'
  BY NextHInv
<1>3. Inv /\ RInv /\ HInv => NeverIdle
  BY HwFacts DEF HInv, RInv, Turns, NeverIdle, Pending
<1> QED BY <1>1, <1>2, <1>3, AlwaysRInv, PTL DEF Spec

-----------------------------------------------------------------------------
(* A drive that is set up late has only one cylinder asked for.            *)
OneCylinder ==
  \A a, b \in Buffers : unit[a] = unit[b] /\ unit[a] \in Fresh => b_cylin[a] = b_cylin[b]

(* On the queue of a drive are its requests, and at the head of it perhaps *)
(* the one for its bad-sector table.                                       *)
Own(d, q, f) ==
  \A i \in 1..Len(q) : \/ q[i] \in Buffers /\ unit[q[i]] = d
                       \/ i = 1 /\ q[i] = bupbuf[d] /\ d \in Fresh \ f
Queued == fresh \subseteq Fresh /\ \A d \in Drives : Own(d, queue[d], fresh)

OrderInv == Queued /\ \A d \in Drives \ Fresh : Sweeps(queue[d])

(* What a step does to the queues.                                         *)
LEMMA QueueStep ==
  ASSUME Inv, [Next]_vars
  PROVE  \/ UNCHANGED <<queue, fresh>>
         \/ \E bp \in Buffers : Upstrategy(bp)
         \/ \E d \in Drives : /\ d \in fresh /\ fresh' = fresh \ {d}
                              /\ queue' = [queue EXCEPT ![d] = <<bupbuf[d]>> \o queue[d]]
         \/ \E d \in Drives : /\ queue[d] # <<>> /\ UNCHANGED fresh
                              /\ queue' = [queue EXCEPT ![d] = Tail(queue[d])]
<1> DEFINE Gone == \E d \in Drives : /\ queue[d] # <<>> /\ UNCHANGED fresh
                              /\ queue' = [queue EXCEPT ![d] = Tail(queue[d])]
           Sets == \E d \in Drives : /\ d \in fresh /\ fresh' = fresh \ {d}
                              /\ queue' = [queue EXCEPT ![d] = <<bupbuf[d]>> \o queue[d]]
<1>1. UpustartNext => UNCHANGED <<queue, fresh>> \/ Sets
  <2> SUFFICES ASSUME UpustartNext PROVE UNCHANGED <<queue, fresh>> \/ Sets
    OBVIOUS
  <2>1. PICK d \in Drives : Upustart(d, Bits(d))
    BY UpustartTurn
  <2>2. Setup(d) \/ UNCHANGED <<queue, fresh>>
    BY <2>1, Zenon DEF Upustart
  <2>3. Setup(d) => UNCHANGED <<queue, fresh>> \/ (/\ d \in fresh /\ fresh' = fresh \ {d}
                              /\ queue' = [queue EXCEPT ![d] = <<bupbuf[d]>> \o queue[d]])
    BY DEF Setup
  <2> QED BY <2>2, <2>3, Zenon
<1>2. UpstartNotReady => Gone
  BY AtWork, Zenon DEF UpstartNotReady
<1>3. UpintrDone => Gone
  <2> SUFFICES ASSUME UpintrDone PROVE Gone
    OBVIOUS
  <2>1. UpintrTransfer /\ Iodone /\ UNCHANGED fresh
    BY Zenon DEF UpintrDone
  <2>2. ready # <<>> /\ queue[Dp] # <<>> /\ Dp \in Drives
    BY <2>1, UpintrFacts, Zenon DEF UpintrTransfer
  <2> QED BY <2>1, <2>2, Zenon DEF Iodone
<1>4. Driver => UNCHANGED <<queue, fresh>> \/ Sets \/ Gone
  BY <1>1, <1>2, Zenon DEF Driver, UpustartDone, UpstartEmpty, UpstartSkip, UpstartGo, UpstartWait, sw
<1>5. Upintr => UNCHANGED <<queue, fresh>> \/ Gone
  BY <1>3, Zenon DEF Upintr, UpintrAttention, UpintrContinue, UpintrRecal, UpintrSeek, Nextrecal,
                     UpintrRetry
<1>6. Hardware \/ Upwatch \/ OthersTake \/ Ubarelse => UNCHANGED <<queue, fresh>>
  BY Zenon DEF Hardware, Transferred, Positioned, sw, Upwatch, OthersTake, Ubarelse
<1>7. UNCHANGED vars => UNCHANGED <<queue, fresh>>
  BY Zenon DEF vars, sw
<1> QED BY <1>4, <1>5, <1>6, <1>7, Zenon DEF Next

LEMMA QueueType ==
  ASSUME Inv
  PROVE  queue \in [Drives -> Seq(Requests)] /\ \A d \in Drives : queue[d] \in Seq(Requests)
<1>1. queue \in [Drives -> Seq(Requests)]
  BY DEF Inv, TypeOK
<1> QED BY <1>1

(* Where a late drive's requests are all for one cylinder, the queue is    *)
(* level.                                                                  *)
LEMMA LateLevel ==
  ASSUME Inv, Queued, OneCylinder, NEW bp \in Buffers, unit[bp] \in Fresh
  PROVE  Level(queue[unit[bp]], b_cylin[bp])
<1> DEFINE d == unit[bp]
<1> SUFFICES ASSUME NEW i \in 2..Len(queue[d]) PROVE Cyl(queue[d], i) = b_cylin[bp]
  BY DEF Level
<1>1. d \in Drives /\ queue[d] \in Seq(Requests)
  BY QueueType
<1>2. Len(queue[d]) \in Nat
  BY <1>1
<1>3. i \in 1..Len(queue[d]) /\ i # 1
  BY <1>2
<1>4. queue[d][i] \in Buffers /\ unit[queue[d][i]] = d
  BY <1>1, <1>3 DEF Queued, Own
<1> QED BY <1>4 DEF OneCylinder, Cyl

(* Where upstrategy puts a request.                                        *)
LEMMA UpstrategyPlace ==
  ASSUME Inv, OrderInv, OneCylinder, NEW bp \in Buffers
  PROVE  LET q == queue[unit[bp]] IN
         \E n \in 1..(Len(q) + 1) :
           /\ Placed(q, n, bp, Disksort(q, bp))
           /\ q # <<>> => n # 1
           /\ \A i \in n..Len(q) : Cyl(q, i) # b_cylin[bp]
<1> DEFINE d == unit[bp]
           q == queue[d]
<1>1. d \in Drives /\ q \in Seq(Requests) /\ bp \in Requests
  BY QueueType
<1>2. Len(q) \in Nat
  BY <1>1
<1>3. Sweeps(q) \/ Level(q, b_cylin[bp])
  BY <1>1, LateLevel, Zenon DEF OrderInv
<1> HIDE DEF q
<1>4. PICK n \in 1..(Len(q) + 1) :
           /\ Placed(q, n, bp, Disksort(q, bp))
           /\ q # <<>> => n # 1
           /\ Sweeps(q) => \A i \in n..Len(q) : Cyl(q, i) # b_cylin[bp]
           /\ Level(q, b_cylin[bp]) => n = Len(q) + 1
  BY <1>1, DisksortPlace
<1>5. n = Len(q) + 1 => n..Len(q) = {}
  BY <1>2
<1> QED BY <1>3, <1>4, <1>5 DEF q

-----------------------------------------------------------------------------
(* The invariant is kept.                                                  *)

LEMMA UpstrategyOrder ==
  ASSUME Inv, OrderInv, OneCylinder, NEW bp \in Buffers, Upstrategy(bp)
  PROVE  OrderInv'
<1> DEFINE b == unit[bp]
           q == queue[b]
           r == Disksort(q, bp)
<1>1. /\ queue' = [queue EXCEPT ![b] = r] /\ UNCHANGED fresh
      /\ b \in Drives /\ q \in Seq(Requests) /\ bp \in Requests
      /\ queue \in [Drives -> Seq(Requests)]
  BY QueueType DEF Upstrategy
<1>2. PICK n \in 1..(Len(q) + 1) : Placed(q, n, bp, r) /\ (q # <<>> => n # 1)
  BY UpstrategyPlace
<1>3. b \notin Fresh => Sweeps(r)
  BY <1>1, DisksortSweeps DEF OrderInv
<1>4. Len(q) \in Nat
  BY <1>1
<1>5. \A d \in Drives : queue'[d] = IF d = b THEN r ELSE queue[d]
  BY <1>1
<1> HIDE DEF r
<1>6. ASSUME NEW i \in 1..Len(r)
      PROVE  \/ r[i] \in Buffers /\ unit[r[i]] = b
             \/ i = 1 /\ r[i] = bupbuf[b] /\ b \in Fresh \ fresh
  <2>1. i \in 1..(Len(q) + 1) /\ r[i] = IF i < n THEN q[i] ELSE IF i = n THEN bp ELSE q[i - 1]
    BY <1>2 DEF Placed
  <2>2. CASE i < n
    <3>1. i \in 1..Len(q)
      BY <1>4, <2>1, <2>2
    <3> QED BY <1>1, <2>1, <2>2, <3>1 DEF OrderInv, Queued, Own
  <2>3. CASE i = n
    BY <2>1, <2>3
  <2>4. CASE n < i
    <3>1. i - 1 \in 1..Len(q) /\ q # <<>> /\ r[i] = q[i - 1]
      BY <1>1, <1>4, <2>1, <2>4
    <3>2. i - 1 # 1
      BY <1>2, <2>1, <2>4, <3>1
    <3>3. q[i - 1] \in Buffers /\ unit[q[i - 1]] = b
      BY <1>1, <3>1, <3>2 DEF OrderInv, Queued, Own
    <3> QED BY <3>1, <3>3
  <2> QED BY <1>4, <2>1, <2>2, <2>3, <2>4
<1> HIDE DEF b, q
<1>7. Queued'
  <2>1. Own(b, r, fresh)
    BY <1>6, Zenon DEF Own
  <2> QED BY <1>1, <1>5, <2>1, Zenon DEF OrderInv, Queued
<1> QED BY <1>1, <1>3, <1>5, <1>7, Zenon DEF OrderInv

LEMMA SetupOrder ==
  ASSUME Inv, OrderInv, NEW b \in Drives, b \in fresh, fresh' = fresh \ {b},
         queue' = [queue EXCEPT ![b] = <<bupbuf[b]>> \o queue[b]]
  PROVE  OrderInv'
<1> DEFINE q == queue[b]
           r == <<bupbuf[b]>> \o q
<1>1. q \in Seq(Requests) /\ queue \in [Drives -> Seq(Requests)] /\ Len(q) \in Nat
  BY QueueType
<1>2. Placed(q, 1, bupbuf[b], r)
  BY <1>1 DEF Placed
<1>3. Len(r) = Len(q) + 1 /\ \A i \in 1..(Len(q) + 1) : r[i] = IF i = 1 THEN bupbuf[b] ELSE q[i - 1]
  BY <1>1, <1>2 DEF Placed
<1>4. \A d \in Drives : queue'[d] = IF d = b THEN r ELSE queue[d]
  BY <1>1
<1>5. b \in Fresh /\ b \notin fresh' /\ fresh' \subseteq Fresh
  BY DEF OrderInv, Queued, Own
<1> HIDE DEF r
<1>6. ASSUME NEW i \in 1..Len(r)
      PROVE  \/ r[i] \in Buffers /\ unit[r[i]] = b
             \/ i = 1 /\ r[i] = bupbuf[b] /\ b \in Fresh \ fresh'
  <2>1. CASE i = 1
    BY <1>3, <1>5, <2>1
  <2>2. CASE i # 1
    <3>1. i - 1 \in 1..Len(q) /\ r[i] = q[i - 1]
      BY <1>1, <1>3, <2>2
    <3>2. q[i - 1] \in Buffers /\ unit[q[i - 1]] = b
      BY <3>1 DEF OrderInv, Queued, Own
    <3> QED BY <3>1, <3>2
  <2> QED BY <2>1, <2>2
<1>7. Queued'
  <2>1. \A d \in Drives : d # b => Own(d, queue[d], fresh')
    BY DEF OrderInv, Queued, Own
  <2>2. Own(b, r, fresh')
    BY <1>6, Zenon DEF Own
  <2> QED BY <1>4, <1>5, <2>1, <2>2, Zenon DEF Queued
<1>8. \A d \in Drives \ Fresh : queue'[d] = queue[d]
  BY <1>4, <1>5
<1> QED BY <1>7, <1>8, Zenon DEF OrderInv

LEMMA GoneOrder ==
  ASSUME Inv, OrderInv, NEW b \in Drives, queue[b] # <<>>, UNCHANGED fresh,
         queue' = [queue EXCEPT ![b] = Tail(queue[b])]
  PROVE  OrderInv'
<1> DEFINE q == queue[b]
           r == Tail(q)
<1>1. q \in Seq(Requests) /\ queue \in [Drives -> Seq(Requests)] /\ Len(q) \in Nat
  BY QueueType
<1>2. Len(r) = Len(q) - 1 /\ \A i \in 1..Len(r) : r[i] = q[i + 1]
  BY <1>1
<1>3. Sweeps(q) => Sweeps(r)
  BY <1>1, TailSweeps
<1>4. \A d \in Drives : queue'[d] = IF d = b THEN r ELSE queue[d]
  BY <1>1
<1> HIDE DEF r
<1>5. ASSUME NEW i \in 1..Len(r) PROVE r[i] \in Buffers /\ unit[r[i]] = b
  <2>1. i + 1 \in 1..Len(q) /\ i + 1 # 1 /\ r[i] = q[i + 1]
    BY <1>1, <1>2
  <2>2. q[i + 1] \in Buffers /\ unit[q[i + 1]] = b
    BY <2>1 DEF OrderInv, Queued, Own
  <2> QED BY <2>1, <2>2
<1> HIDE DEF q
<1>6. Queued'
  <2>1. Own(b, r, fresh)
    BY <1>5, Zenon DEF Own
  <2> QED BY <1>4, <2>1, Zenon DEF OrderInv, Queued
<1>7. \A d \in Drives \ Fresh : Sweeps(queue'[d])
  BY <1>3, <1>4, Zenon DEF OrderInv, q
<1> QED BY <1>6, <1>7, Zenon DEF OrderInv

LEMMA NextOrder ==
  ASSUME OneCylinder, Inv, OrderInv, [Next]_vars
  PROVE  OrderInv'
<1>1. UNCHANGED <<queue, fresh>> => OrderInv'
  BY DEF OrderInv, Queued, Own
<1> QED BY <1>1, QueueStep, UpstrategyOrder, SetupOrder, GoneOrder, Zenon

-----------------------------------------------------------------------------
(* The steps of the queues as steps of lines.                              *)

LEMMA UpstrategyLine ==
  ASSUME Inv, OrderInv, OneCylinder, NEW bp \in Buffers, Upstrategy(bp)
  PROVE  Order!Strategy(bp)
<1> DEFINE b == unit[bp]
           c == b_cylin[bp]
           q == queue[b]
           r == Disksort(q, bp)
           x == <<b, c>>
           line == Among(q, For(c))
<1>1. /\ queue' = [queue EXCEPT ![b] = r] /\ ~Contains(q, bp)
      /\ b \in Drives /\ q \in Seq(Requests) /\ bp \in Requests
      /\ queue \in [Drives -> Seq(Requests)] /\ Len(q) \in Nat
  <2>1. /\ queue' = [queue EXCEPT ![b] = r] /\ ~Contains(q, bp)
    BY DEF Upstrategy
  <2>2. /\ b \in Drives /\ q \in Seq(Requests) /\ bp \in Requests
        /\ queue \in [Drives -> Seq(Requests)]
    BY QueueType
  <2> HIDE DEF q
  <2>3. Len(q) \in Nat
    BY <2>2
  <2> QED BY <2>1, <2>2, <2>3
<1>2. PICK n \in 1..(Len(q) + 1) :
        Placed(q, n, bp, r) /\ \A i \in n..Len(q) : Cyl(q, i) # b_cylin[bp]
  BY UpstrategyPlace
<1>3. \A d \in Drives : queue'[d] = IF d = b THEN r ELSE queue[d]
  BY <1>1
<1>4. Among(r, For(c)) = Append(line, bp)
  <2>1. bp \in For(c)
    BY DEF For
  <2>2. \A i \in n..Len(q) : q[i] \notin For(c)
    BY <1>2 DEF For, Cyl
  <2> HIDE DEF r, c, q
  <2> QED BY <1>1, <1>2, <2>1, <2>2, AmongLast
<1>5. ASSUME NEW e, e # c PROVE Among(r, For(e)) = Among(q, For(e))
  <2>1. bp \notin For(e)
    BY <1>5 DEF For
  <2> HIDE DEF r, q
  <2> QED BY <1>1, <1>2, <2>1, AmongOther
<1>6. ~Contains(line, bp)
  <2>1. line \in Seq(Elements(q) \cap For(c))
    BY <1>1, AmongElements
  <2>2. bp \notin Elements(q)
    BY <1>1 DEF Contains, Elements
  <2> HIDE DEF line, q
  <2>3. \A i \in 1..Len(line) : line[i] \in Elements(q)
    BY <2>1, ElementOfSeq
  <2> QED BY <2>2, <2>3 DEF Contains
<1> HIDE DEF r, line
<1>7. x \in Places /\ \A y \in Places : y[1] \in Drives /\ y = <<y[1], y[2]>>
  BY DEF Places, Place
<1>8. Lines[x] = line /\ Lines \in [Places -> Range(Lines)]
  BY <1>7 DEF Lines, line, Range
<1>9. \A y \in Places : Lines'[y] = IF y = x THEN Append(Lines[x], bp) ELSE Lines[y]
  <2> SUFFICES ASSUME NEW y \in Places
               PROVE  Lines'[y] = IF y = x THEN Append(Lines[x], bp) ELSE Lines[y]
    OBVIOUS
  <2>1. Lines'[y] = Among(queue'[y[1]], For(y[2])) /\ Lines[y] = Among(queue[y[1]], For(y[2]))
    BY DEF Lines
  <2>2. CASE y[1] # b
    BY <1>3, <1>7, <2>1, <2>2
  <2>3. CASE y[1] = b /\ y[2] # c
    BY <1>3, <1>5, <1>7, <2>1, <2>3
  <2>4. CASE y[1] = b /\ y[2] = c
    BY <1>3, <1>4, <1>7, <1>8, <2>1, <2>4
  <2> QED BY <2>2, <2>3, <2>4
<1>10. Lines' = [Lines EXCEPT ![x] = Append(Lines[x], bp)]
  BY <1>9 DEF Lines
<1>11. Place[bp] = x
  BY DEF Place
<1> HIDE DEF x
<1>12. ~Contains(Lines[Place[bp]], bp)
  BY <1>6, <1>8, <1>11, Zenon
<1>13. Lines' = [Lines EXCEPT ![Place[bp]] = Append(Lines[Place[bp]], bp)]
  BY <1>10, <1>11, Zenon
<1> QED BY <1>12, <1>13, Zenon DEF Order!Strategy, Order!Contains, Contains

LEMMA SetupLine ==
  ASSUME Inv, NEW b \in Drives, queue' = [queue EXCEPT ![b] = <<bupbuf[b]>> \o queue[b]]
  PROVE  Lines' = Lines
<1> DEFINE q == queue[b]
           r == <<bupbuf[b]>> \o q
<1>1. q \in Seq(Requests) /\ queue \in [Drives -> Seq(Requests)] /\ Len(q) \in Nat
  BY QueueType
<1>2. Placed(q, 1, bupbuf[b], r) /\ 1 \in 1..(Len(q) + 1)
  BY <1>1 DEF Placed
<1>3. \A d \in Drives : queue'[d] = IF d = b THEN r ELSE queue[d]
  BY <1>1
<1>4. ASSUME NEW e PROVE Among(r, For(e)) = Among(q, For(e))
  <2>1. bupbuf[b] \notin For(e)
    BY DEF For
  <2> HIDE DEF r, q
  <2> QED BY <1>1, <1>2, <2>1, AmongOther
<1> HIDE DEF r
<1>5. \A y \in Places : Lines'[y] = Lines[y]
  <2> SUFFICES ASSUME NEW y \in Places PROVE Lines'[y] = Lines[y]
    OBVIOUS
  <2>1. Lines'[y] = Among(queue'[y[1]], For(y[2])) /\ Lines[y] = Among(queue[y[1]], For(y[2]))
    BY DEF Lines
  <2>2. y[1] \in Drives
    BY DEF Places, Place
  <2> QED BY <1>3, <1>4, <2>1, <2>2
<1> QED BY <1>5 DEF Lines

LEMMA GoneLine ==
  ASSUME Inv, OrderInv, NEW b \in Drives, queue[b] # <<>>,
         queue' = [queue EXCEPT ![b] = Tail(queue[b])]
  PROVE  Lines' = Lines \/ \E x \in Places : Order!Iodone(x)
<1> DEFINE q == queue[b]
           r == Tail(q)
           bp == Head(q)
           c == b_cylin[bp]
           x == <<b, c>>
<1>1. /\ q \in Seq(Requests) /\ queue \in [Drives -> Seq(Requests)] /\ Len(q) \in Nat
      /\ bp = q[1] /\ 1 \in 1..Len(q)
  BY QueueType
<1>2. \A d \in Drives : queue'[d] = IF d = b THEN r ELSE queue[d]
  BY <1>1
<1>3. ASSUME NEW e, bp \notin For(e) PROVE Among(r, For(e)) = Among(q, For(e))
  BY <1>1, <1>3, AmongTail
<1>4. \A y \in Places : /\ y[1] \in Drives /\ y = <<y[1], y[2]>>
                        /\ Lines'[y] = Among(queue'[y[1]], For(y[2]))
                        /\ Lines[y] = Among(queue[y[1]], For(y[2]))
  BY DEF Places, Place, Lines
<1>5. CASE bp \notin Buffers
  <2>1. \A e : bp \notin For(e)
    BY <1>5 DEF For
  <2> HIDE DEF r, bp
  <2>2. \A y \in Places : Lines'[y] = Lines[y]
    BY <1>2, <1>3, <1>4, <2>1
  <2> QED BY <2>2 DEF Lines
<1>6. CASE bp \in Buffers
  <2>1. unit[bp] = b
    BY <1>1, <1>6 DEF OrderInv, Queued, Own
  <2>2. x \in Places /\ bp \in For(c) /\ \A e : e # c => bp \notin For(e)
    BY <1>6, <2>1 DEF Places, Place, For
  <2>3. Among(q, For(c)) # <<>> /\ Among(r, For(c)) = Tail(Among(q, For(c)))
    BY <1>1, <2>2, AmongTail
  <2>4. Lines[x] = Among(q, For(c))
    BY <2>2 DEF Lines
  <2> HIDE DEF r, bp
  <2>5. \A y \in Places : Lines'[y] = IF y = x THEN Tail(Lines[x]) ELSE Lines[y]
    <3> SUFFICES ASSUME NEW y \in Places
                 PROVE  Lines'[y] = IF y = x THEN Tail(Lines[x]) ELSE Lines[y]
      OBVIOUS
    <3>2. CASE y[1] # b
      BY <1>2, <1>4, <3>2
    <3>3. CASE y[1] = b /\ y[2] # c
      BY <1>2, <1>3, <1>4, <2>2, <3>3
    <3>4. CASE y[1] = b /\ y[2] = c
      BY <1>2, <1>4, <2>3, <2>4, <3>4
    <3> QED BY <3>2, <3>3, <3>4
  <2>6. Lines' = [Lines EXCEPT ![x] = Tail(Lines[x])]
    BY <2>5 DEF Lines
  <2>7. Order!Iodone(x)
    BY <2>3, <2>4, <2>6 DEF Order!Iodone
  <2> QED BY <2>2, <2>7
<1> QED BY <1>5, <1>6

(* Requests for one cylinder of a drive are done in the order in which     *)
(* they came, each once, whatever disksort puts between them and whatever  *)
(* is retried, continued or reset (ufs_dsort.c, disksort; up.c): unless a  *)
(* drive has requests for several cylinders before it is set up, for the   *)
(* request for its bad-sector table goes in front of both sweeps.          *)
THEOREM RequestsInOrder ==
  ASSUME OneCylinder
  PROVE  Spec => OrderSpec
<1>1. Init => OrderInv /\ Order!Init
  <2> SUFFICES ASSUME Init PROVE OrderInv /\ Order!Init
    OBVIOUS
  <2>1. queue = [d \in Drives |-> <<>>] /\ fresh = Fresh
    BY DEF Init
  <2>2. \A d \in Drives : queue[d] = <<>> /\ Len(queue[d]) = 0
    BY <2>1
  <2>3. OrderInv
    BY <2>1, <2>2 DEF OrderInv, Queued, Own, Sweeps
  <2>4. \A S : Among(<<>>, S) = <<>>
    <3> SUFFICES ASSUME NEW S PROVE Among(<<>>, S) = <<>>
      OBVIOUS
    <3>1. <<>> \in Seq({}) /\ Elements(<<>>) \cap S = {}
      BY DEF Elements
    <3>2. Among(<<>>, S) \in Seq({})
      BY <3>1, AmongElements
    <3> QED BY <3>2
  <2>5. \A x \in Places : Lines[x] = <<>>
    <3>1. \A x \in Places : x[1] \in Drives /\ Lines[x] = Among(queue[x[1]], For(x[2]))
      BY DEF Lines, Places, Place
    <3> QED BY <2>2, <2>4, <3>1
  <2>6. Order!Init
    BY <2>5 DEF Order!Init, Lines
  <2> QED BY <2>3, <2>6
<1>2. Inv /\ OrderInv /\ [Next]_vars => OrderInv'
  BY NextOrder
<1>3. Inv /\ OrderInv /\ [Next]_vars => [Order!Next]_Lines
  <2> SUFFICES ASSUME Inv, OrderInv, [Next]_vars PROVE [Order!Next]_Lines
    OBVIOUS
  <2>1. UNCHANGED <<queue, fresh>> => UNCHANGED Lines
    BY DEF Lines
  <2> QED BY <2>1, QueueStep, UpstrategyLine, SetupLine, GoneLine, Zenon DEF Order!Next
<1> QED BY <1>1, <1>2, <1>3, AlwaysInv, PTL DEF Spec, OrderSpec, Order!Spec

=============================================================================
