------------------------- MODULE BufCacheDataProofs -------------------------
(***************************************************************************)
(* Theorems about what is kept under the lock, for any number of           *)
(* processes, headers, devices and blocks, and any size of clusters: the   *)
(* free lists and the memory of the headers (MemInv); and, where no header *)
(* needs the memory of another (Ample), what the buffers hold (DataInv):   *)
(* a block has one buffer, it is right, and no write is dropped.           *)
(***************************************************************************)
EXTENDS BufCacheProofs, FiniteSetsExt, WellFoundedInduction

-----------------------------------------------------------------------------
(* Lists, numbers and sums.                                                *)

(* Sums over finite sets.  The fold of SumFunctionOnSet takes the terms in *)
(* the order of CHOOSE; what holds of sums is proved from a least set for  *)
(* which it would fail.                                                    *)
Pick(s) == CHOOSE x \in s : TRUE

Adds(h, f, S) ==
  h = [s \in SUBSET S |-> IF s = {} THEN 0 ELSE f[Pick(s)] + h[s \ {Pick(s)}]]

LEMMA SumIs ==
  ASSUME NEW f, NEW S
  PROVE  SumFunctionOnSet(f, S) = (CHOOSE h : Adds(h, f, S))[S]
BY DEF SumFunctionOnSet, FoldFunctionOnSet, MapThenFoldSet, Adds, Pick

(* Of sets of subsets of a finite set one is least.                        *)
LEMMA LeastSet ==
  ASSUME NEW S, IsFiniteSet(S), NEW T, T \subseteq SUBSET S, T # {}
  PROVE  \E t \in T : \A r \in T : ~(r \subseteq t /\ r # t)
<1>1. FiniteSubsetsOf(S) = SUBSET S
  BY FS_FiniteSubsetsOfFinite
<1>2. IsWellFoundedOn(StrictSubsetOrdering(S), SUBSET S)
  BY <1>1, FS_StrictSubsetOrderingWellFounded
<1>3. PICK t \in T : \A r \in T : ~(<<r, t>> \in StrictSubsetOrdering(S))
  BY <1>2, WFMin
<1> QED BY <1>3 DEF StrictSubsetOrdering

(* Two functions that add the terms agree, whatever their domains.         *)
LEMMA AddsAgree ==
  ASSUME NEW S, IsFiniteSet(S), NEW f, NEW h, NEW Q, NEW g,
         Adds(h, f, S), Adds(g, f, Q), NEW s, s \subseteq S, s \subseteq Q
  PROVE  h[s] = g[s]
<1> DEFINE T == { t \in SUBSET s : h[t] # g[t] }
<1> SUFFICES ASSUME T # {} PROVE FALSE
  OBVIOUS
<1>1. IsFiniteSet(s)
  BY FS_Subset
<1>2. PICK t \in T : \A r \in T : ~(r \subseteq t /\ r # t)
  <2>1. T \subseteq SUBSET s
    OBVIOUS
  <2> HIDE DEF T
  <2> QED BY <1>1, <2>1, LeastSet
<1>3. t # {}
  BY <1>2 DEF Adds
<1>4. Pick(t) \in t
  BY <1>3 DEF Pick
<1>5. h[t \ {Pick(t)}] = g[t \ {Pick(t)}]
  BY <1>2, <1>4
<1>6. h[t] = f[Pick(t)] + h[t \ {Pick(t)}] /\ g[t] = f[Pick(t)] + g[t \ {Pick(t)}]
  BY <1>3 DEF Adds
<1> QED BY <1>5, <1>6

LEMMA AddsExists ==
  ASSUME NEW S, IsFiniteSet(S), NEW f
  PROVE  \E h : Adds(h, f, S)
<1> DEFINE T == { t \in SUBSET S : ~\E h : Adds(h, f, t) }
<1> SUFFICES ASSUME T # {} PROVE FALSE
  OBVIOUS
<1>1. PICK t \in T : \A r \in T : ~(r \subseteq t /\ r # t)
  <2>1. T \subseteq SUBSET S
    OBVIOUS
  <2> HIDE DEF T
  <2> QED BY <2>1, LeastSet
<1> DEFINE less(s) == s \ {Pick(s)}
           g(s) == CHOOSE h : Adds(h, f, s)
           H == [s \in SUBSET t |-> IF s = {} THEN 0 ELSE f[Pick(s)] + g(less(s))[less(s)]]
<1>2. ASSUME NEW s \in SUBSET t, s # {} PROVE Pick(s) \in s
  BY <1>2 DEF Pick
<1>3. ASSUME NEW s \in SUBSET t, s # t PROVE Adds(g(s), f, s) /\ IsFiniteSet(s)
  <2>1. s \in SUBSET S /\ s \notin T
    BY <1>1, <1>3
  <2>2. \E h : Adds(h, f, s)
    BY <2>1
  <2>3. IsFiniteSet(s)
    BY <2>1, FS_Subset
  <2> QED BY <2>2, <2>3
<1>4. ASSUME NEW s \in SUBSET t, s # {} PROVE H[less(s)] = g(less(s))[less(s)]
  <2> DEFINE v == less(s)
  <2>1. v \in SUBSET t /\ v # t
    BY <1>2, <1>4
  <2>2. Adds(g(v), f, v) /\ v \in SUBSET v /\ IsFiniteSet(v)
    BY <1>3, <2>1
  <2>3. CASE v = {}
    <3>1. g(v)[v] = 0
      BY <2>2, <2>3 DEF Adds
    <3>2. H[v] = 0
      BY <2>1, <2>3
    <3> QED BY <3>1, <3>2
  <2>4. CASE v # {}
    <3> DEFINE w == less(v)
    <3>1. w \in SUBSET t /\ w # t /\ w \in SUBSET v
      BY <1>2, <2>1, <2>4
    <3>2. Adds(g(w), f, w)
      BY <1>3, <3>1
    <3> HIDE DEF g, less
    <3>3. g(v)[v] = f[Pick(v)] + g(v)[v \ {Pick(v)}]
      BY <2>2, <2>4 DEF Adds
    <3>4. g(v)[w] = g(w)[w]
      BY <2>2, <3>1, <3>2, AddsAgree
    <3>5. w = v \ {Pick(v)}
      BY DEF less
    <3>6. H[v] = f[Pick(v)] + g(w)[w]
      BY <2>1, <2>4
    <3> QED BY <3>3, <3>4, <3>5, <3>6
  <2> QED BY <2>3, <2>4
<1>5. Adds(H, f, t)
  <2> HIDE DEF g
  <2>1. H = [s \in SUBSET t |-> IF s = {} THEN 0 ELSE f[Pick(s)] + H[less(s)]]
    <3> DEFINE G == [s \in SUBSET t |-> IF s = {} THEN 0 ELSE f[Pick(s)] + H[less(s)]]
    <3>1. ASSUME NEW s \in SUBSET t PROVE H[s] = G[s]
      BY <1>4, <3>1
    <3> QED BY <3>1
  <2> HIDE DEF H
  <2> QED BY <2>1 DEF Adds
<1> QED BY <1>1, <1>5

(* A sum is one term and the sum of the others.                            *)
LEMMA SumStep ==
  ASSUME NEW S, IsFiniteSet(S), NEW f
  PROVE  SumFunctionOnSet(f, S) =
           IF S = {} THEN 0
           ELSE f[Pick(S)] + SumFunctionOnSet(f, S \ {Pick(S)})
<1> DEFINE h == CHOOSE k : Adds(k, f, S)
           s == S \ {Pick(S)}
           g == CHOOSE k : Adds(k, f, s)
<1>1. IsFiniteSet(s)
  BY FS_Subset
<1>2. Adds(h, f, S)
  BY AddsExists
<1>3. Adds(g, f, s)
  BY <1>1, AddsExists
<1>4. SumFunctionOnSet(f, S) = h[S] /\ SumFunctionOnSet(f, s) = g[s]
  BY SumIs
<1> HIDE DEF h, g
<1>5. h[s] = g[s]
  <2>1. s \subseteq S /\ s \subseteq s
    OBVIOUS
  <2> HIDE DEF s
  <2> QED BY <1>2, <1>3, <2>1, AddsAgree
<1>6. h[S] = IF S = {} THEN 0 ELSE f[Pick(S)] + h[s]
  BY <1>2 DEF Adds
<1> QED BY <1>4, <1>5, <1>6

(* Sums of integers are integers.                                          *)
LEMMA SumInt ==
  ASSUME NEW S, IsFiniteSet(S), NEW f, \A x \in S : f[x] \in Int
  PROVE  SumFunctionOnSet(f, S) \in Int
<1> DEFINE T == { t \in SUBSET S : SumFunctionOnSet(f, t) \notin Int }
<1> SUFFICES ASSUME T # {} PROVE FALSE
  OBVIOUS
<1>1. PICK t \in T : \A r \in T : ~(r \subseteq t /\ r # t)
  <2>1. T \subseteq SUBSET S
    OBVIOUS
  <2> HIDE DEF T
  <2> QED BY <2>1, LeastSet
<1>2. IsFiniteSet(t)
  BY FS_Subset
<1>3. t # {}
  <2>1. SumFunctionOnSet(f, t) \notin Int
    BY <1>1
  <2>2. t = {} => SumFunctionOnSet(f, t) = 0
    BY <1>2, SumStep
  <2> QED BY <2>1, <2>2
<1>4. Pick(t) \in t
  BY <1>3 DEF Pick
<1>5. SumFunctionOnSet(f, t \ {Pick(t)}) \in Int
  BY <1>1, <1>4
<1>6. SumFunctionOnSet(f, t) = f[Pick(t)] + SumFunctionOnSet(f, t \ {Pick(t)})
  BY <1>2, <1>3, SumStep
<1>7. f[Pick(t)] \in Int
  BY <1>4
<1> QED BY <1>5, <1>6, <1>7

(* The order in which a sum is taken does not matter.                      *)
LEMMA SumWithout ==
  ASSUME NEW S, IsFiniteSet(S), NEW f, \A x \in S : f[x] \in Int, NEW y \in S
  PROVE  SumFunctionOnSet(f, S) = f[y] + SumFunctionOnSet(f, S \ {y})
<1> DEFINE Good(t) == \A x \in t : SumFunctionOnSet(f, t) = f[x] + SumFunctionOnSet(f, t \ {x})
           T == { t \in SUBSET S : ~Good(t) }
<1> SUFFICES ASSUME T # {} PROVE FALSE
  OBVIOUS
<1>1. PICK t \in T : \A r \in T : ~(r \subseteq t /\ r # t)
  <2>1. T \subseteq SUBSET S
    OBVIOUS
  <2> HIDE DEF T
  <2> QED BY <2>1, LeastSet
<1>2. IsFiniteSet(t) /\ t \in SUBSET S
  BY FS_Subset
<1>3. PICK x \in t : SumFunctionOnSet(f, t) # f[x] + SumFunctionOnSet(f, t \ {x})
  BY <1>1
<1> DEFINE p == Pick(t)
<1>4. p \in t /\ SumFunctionOnSet(f, t) = f[p] + SumFunctionOnSet(f, t \ {p})
  BY <1>2, <1>3, SumStep DEF Pick
<1> HIDE DEF p
<1>5. x # p
  BY <1>3, <1>4
<1>6. Good(t \ {p}) /\ Good(t \ {x})
  BY <1>1, <1>2, <1>3, <1>4
<1> DEFINE d == SumFunctionOnSet(f, (t \ {x}) \ {p})
<1>7. SumFunctionOnSet(f, t \ {p}) = f[x] + d
  <2>1. (t \ {p}) \ {x} = (t \ {x}) \ {p}
    OBVIOUS
  <2>2. SumFunctionOnSet(f, t \ {p}) = f[x] + SumFunctionOnSet(f, (t \ {p}) \ {x})
    BY <1>3, <1>5, <1>6
  <2> QED BY <2>1, <2>2
<1>8. SumFunctionOnSet(f, t \ {x}) = f[p] + d
  BY <1>4, <1>5, <1>6
<1>9. d \in Int
  <2>1. IsFiniteSet((t \ {x}) \ {p}) /\ \A z \in (t \ {x}) \ {p} : f[z] \in Int
    BY <1>2, FS_Subset
  <2> QED BY <2>1, SumInt
<1>10. f[p] \in Int /\ f[x] \in Int
  BY <1>2, <1>4
<1> HIDE DEF d
<1>11. f[x] + SumFunctionOnSet(f, t \ {x}) = f[p] + SumFunctionOnSet(f, t \ {p})
  BY <1>7, <1>8, <1>9, <1>10
<1> QED BY <1>3, <1>4, <1>11

(* Equal terms, equal sums.                                                *)
LEMMA SumSame ==
  ASSUME NEW S, IsFiniteSet(S), NEW f, NEW g, \A x \in S : f[x] = g[x]
  PROVE  SumFunctionOnSet(f, S) = SumFunctionOnSet(g, S)
<1> DEFINE T == { t \in SUBSET S : SumFunctionOnSet(f, t) # SumFunctionOnSet(g, t) }
<1> SUFFICES ASSUME T # {} PROVE FALSE
  OBVIOUS
<1>1. PICK t \in T : \A r \in T : ~(r \subseteq t /\ r # t)
  <2>1. T \subseteq SUBSET S
    OBVIOUS
  <2> HIDE DEF T
  <2> QED BY <2>1, LeastSet
<1>2. IsFiniteSet(t) /\ t \in SUBSET S
  BY FS_Subset
<1>3. t # {}
  BY <1>2, SumStep
<1>4. Pick(t) \in t
  BY <1>3 DEF Pick
<1>5. SumFunctionOnSet(f, t \ {Pick(t)}) = SumFunctionOnSet(g, t \ {Pick(t)})
  BY <1>1, <1>4
<1>6. /\ SumFunctionOnSet(f, t) = f[Pick(t)] + SumFunctionOnSet(f, t \ {Pick(t)})
      /\ SumFunctionOnSet(g, t) = g[Pick(t)] + SumFunctionOnSet(g, t \ {Pick(t)})
  BY <1>2, <1>3, SumStep
<1>7. f[Pick(t)] = g[Pick(t)]
  BY <1>2, <1>4
<1> QED BY <1>5, <1>6, <1>7

(* Two sums of functions that differ at most in two places, where what one *)
(* has less the other has more, are equal.                                 *)
LEMMA SumMoved ==
  ASSUME NEW S, IsFiniteSet(S), NEW f \in [S -> Int], NEW g \in [S -> Int],
         NEW x \in S, NEW y \in S, x # y, f[x] + f[y] = g[x] + g[y],
         \A z \in S \ {x, y} : f[z] = g[z]
  PROVE  SumFunctionOnSet(f, S) = SumFunctionOnSet(g, S)
<1> DEFINE R == S \ {x}
           Q == R \ {y}
<1>1. IsFiniteSet(R) /\ IsFiniteSet(Q) /\ y \in R
  <2>1. IsFiniteSet(R)
    BY FS_Subset
  <2> QED BY <2>1, FS_Subset
<1>2. ASSUME NEW h \in [S -> Int]
      PROVE  /\ SumFunctionOnSet(h, S) = h[x] + (h[y] + SumFunctionOnSet(h, Q))
             /\ SumFunctionOnSet(h, Q) \in Int
  <2>1. SumFunctionOnSet(h, S) = h[x] + SumFunctionOnSet(h, R)
    BY SumWithout
  <2>2. SumFunctionOnSet(h, R) = h[y] + SumFunctionOnSet(h, Q)
    <3>1. \A z \in R : h[z] \in Int
      OBVIOUS
    <3> HIDE DEF R
    <3> QED BY <1>1, <3>1, SumWithout
  <2>3. SumFunctionOnSet(h, Q) \in Int
    <3>1. \A z \in Q : h[z] \in Int
      OBVIOUS
    <3> HIDE DEF Q
    <3> QED BY <1>1, <3>1, SumInt
  <2> QED BY <2>1, <2>2, <2>3
<1>3. SumFunctionOnSet(f, Q) = SumFunctionOnSet(g, Q)
  <2>1. \A z \in Q : f[z] = g[z]
    OBVIOUS
  <2> HIDE DEF Q
  <2> QED BY <1>1, <2>1, SumSame
<1> HIDE DEF R, Q
<1> QED BY <1>2, <1>3

-----------------------------------------------------------------------------
(* The free lists and the memory of the headers.                          *)

(* The invariant: no block is longer than the memory behind it, and a free *)
(* header is on the list that its memory says.                             *)

Fitting(B) == B.b_bcount <= B.b_bufsize
Room(b)    == \A c \in Bufs : Fitting(b[c])
Sorted(fl, b) ==
  \A q \in BQ : \A c \in Elems(fl[q]) : b[c].b_bufsize = 0 <=> q = "EMPTY"


(* The memory of all headers; a step leaves it as it is.                   *)
Total(b) == SumFunction([c \in Bufs |-> b[c].b_bufsize])

MemInv ==
  LockInv /\ Room(buf) /\ Sorted(bfreelist, buf) /\ Total(buf) = SumFunction(InitBufsize)
MemNext == Room(buf)' /\ Sorted(bfreelist, buf)' /\ Total(buf)' = Total(buf)

(* A header that keeps its memory, and its contents or none.               *)
Alike(B, C) == B.b_bufsize = C.b_bufsize /\ B.b_bcount \in {0, C.b_bcount}

-----------------------------------------------------------------------------
(* What the helpers do to the numbers of a header.                         *)

LEMMA AlikeFits ==
  ASSUME NEW B \in Buf, NEW C \in Buf, Alike(B, C), Fitting(C)
  PROVE  Fitting(B)
BY DEF Alike, Fitting, Buf

LEMMA FlagsAlike ==
  ASSUME NEW B \in Buf, NEW F
  PROVE  Alike([B EXCEPT !.b_flags = F], B)
BY DEF Alike, Buf

LEMMA BwrittenAlike ==
  ASSUME NEW B \in Buf
  PROVE  Alike(Bwritten(B), B)
BY FlagsAlike DEF Bwritten

LEMMA ReleasedAlike ==
  ASSUME NEW B \in Buf
  PROVE  /\ Released(B).b_bufsize = B.b_bufsize
         /\ Released(B).b_bcount = B.b_bcount
BY DEF Released, Buf

LEMMA TakenAlike ==
  ASSUME buf \in [Bufs -> Buf], NEW bp \in Bufs, NEW fs \in SUBSET Flags, NEW c \in Bufs
  PROVE  /\ Taken(bp, fs)[c].b_bufsize = buf[c].b_bufsize
         /\ Taken(bp, fs)[c].b_bcount = buf[c].b_bcount
<1>1. buf[bp] \in Buf
  OBVIOUS
<1>2. CASE c = bp
  BY <1>1, <1>2 DEF Taken, Buf
<1>3. CASE c # bp
  BY <1>3 DEF Taken
<1> QED BY <1>2, <1>3

(* A block fits into its size rounded up to clusters.                      *)
LEMMA RoundupCovers ==
  ASSUME NEW n \in Nat
  PROVE  n <= Roundup(n)
<1> DEFINE m == n + ClSectors - 1
           d == m \div ClSectors
<1>1. ClSectors \in Nat /\ ClSectors > 0 /\ m \in Nat
  BY BufCacheAssumption
<1>2. d \in Nat /\ m < d * ClSectors + ClSectors
  BY <1>1
<1>3. d * ClSectors \in Nat
  BY <1>1, <1>2
<1> QED BY <1>1, <1>2, <1>3 DEF Roundup

LEMMA TotalSame ==
  ASSUME NEW b, NEW d, \A c \in Bufs : b[c].b_bufsize = d[c].b_bufsize
  PROVE  Total(b) = Total(d)
<1>1. [c \in Bufs |-> b[c].b_bufsize] = [c \in Bufs |-> d[c].b_bufsize]
  OBVIOUS
<1> QED BY <1>1 DEF Total

(* Memory moves from one header to another.                                *)
LEMMA TotalMoved ==
  ASSUME NEW b \in [Bufs -> Buf], NEW d \in [Bufs -> Buf],
         NEW x \in Bufs, NEW y \in Bufs, x # y,
         b[x].b_bufsize + b[y].b_bufsize = d[x].b_bufsize + d[y].b_bufsize,
         \A c \in Bufs \ {x, y} : b[c].b_bufsize = d[c].b_bufsize
  PROVE  Total(b) = Total(d)
<1> DEFINE f == [c \in Bufs |-> b[c].b_bufsize]
           g == [c \in Bufs |-> d[c].b_bufsize]
<1>1. f \in [Bufs -> Int] /\ g \in [Bufs -> Int]
  BY DEF Buf
<1>2. f[x] + f[y] = g[x] + g[y] /\ \A c \in Bufs \ {x, y} : f[c] = g[c]
  OBVIOUS
<1>3. SumFunction(f) = SumFunctionOnSet(f, Bufs) /\ SumFunction(g) = SumFunctionOnSet(g, Bufs)
  BY DEF SumFunction
<1>4. Total(b) = SumFunction(f) /\ Total(d) = SumFunction(g)
  BY DEF Total
<1> HIDE DEF f, g
<1>5. IsFiniteSet(Bufs)
  BY BufCacheAssumption
<1>6. SumFunctionOnSet(f, Bufs) = SumFunctionOnSet(g, Bufs)
  BY <1>1, <1>2, <1>5, SumMoved
<1> QED BY <1>3, <1>4, <1>6

-----------------------------------------------------------------------------
(* The three things a step may do.                                         *)

(* Headers keep their memory; buffers only leave the free lists.           *)
LEMMA MemKeep ==
  ASSUME MemInv, TypeOK', \A c \in Bufs : Alike(buf'[c], buf[c]),
         \A q \in BQ : Elems(bfreelist'[q]) \subseteq Elems(bfreelist[q])
  PROVE  MemNext
<1>1. \A c \in Bufs : buf[c] \in Buf /\ buf'[c] \in Buf
  BY DEF MemInv, LockInv, TypeOK
<1>2. Room(buf)'
  <2> SUFFICES ASSUME NEW c \in Bufs PROVE Fitting(buf'[c])
    BY DEF Room
  <2>1. Fitting(buf[c])
    BY DEF MemInv, Room
  <2> QED BY <1>1, <2>1, AlikeFits
<1>3. Sorted(bfreelist, buf)'
  <2> SUFFICES ASSUME NEW q \in BQ, NEW c \in Elems(bfreelist'[q])
               PROVE  buf'[c].b_bufsize = 0 <=> q = "EMPTY"
    BY DEF Sorted
  <2>1. c \in Bufs
    BY DEF TypeOK, Elems
  <2>2. buf[c].b_bufsize = 0 <=> q = "EMPTY"
    BY DEF MemInv, Sorted
  <2> QED BY <2>1, <2>2 DEF Alike
<1>4. Total(buf)' = Total(buf)
  BY TotalSame DEF Alike
<1> QED BY <1>2, <1>3, <1>4 DEF MemNext

(* The headers and the free lists stay.                                    *)
LEMMA MemSame ==
  ASSUME MemInv, UNCHANGED <<buf, bfreelist>>
  PROVE  MemNext
<1>1. Total(buf)' = Total(buf)
  BY TotalSame
<1> QED BY <1>1 DEF MemInv, MemNext

(* One header changes, but not its memory.                                 *)
LEMMA MemOne ==
  ASSUME MemInv, TypeOK', NEW bp \in Bufs, NEW B, Alike(B, buf[bp]),
         buf' = [buf EXCEPT ![bp] = B],
         bfreelist' = bfreelist \/ bfreelist' = Notavail(bp)
  PROVE  MemNext
<1>1. buf \in [Bufs -> Buf] /\ LockInv
  BY DEF MemInv, LockInv, TypeOK
<1>2. \A c \in Bufs : Alike(buf'[c], buf[c])
  BY <1>1 DEF Alike
<1>3. \A q \in BQ : Elems(bfreelist'[q]) \subseteq Elems(bfreelist[q])
  BY <1>1, TakeFree
<1> QED BY <1>2, <1>3, MemKeep

(* Only flags of one header change.                                        *)
LEMMA MemFlags ==
  ASSUME MemInv, TypeOK', NEW bp \in Bufs, NEW F, buf' = [buf EXCEPT ![bp].b_flags = F],
         bfreelist' = bfreelist
  PROVE  MemNext
<1> DEFINE B == [buf[bp] EXCEPT !.b_flags = F]
<1>1. buf[bp] \in Buf
  BY DEF MemInv, LockInv, TypeOK
<1>2. Alike(B, buf[bp])
  BY <1>1, FlagsAlike
<1>3. buf' = [buf EXCEPT ![bp] = B]
  OBVIOUS
<1> HIDE DEF B
<1> QED BY <1>2, <1>3, MemOne, Zenon

(* A free buffer is written, or one of the process.                        *)
LEMMA MemWrite ==
  ASSUME MemInv, TypeOK', NEW bp \in Bufs, NEW fs \in SUBSET Flags,
         buf' = [buf EXCEPT ![bp] = Bwritten(Taken(bp, fs)[bp])],
         bfreelist' = bfreelist \/ bfreelist' = Notavail(bp)
  PROVE  MemNext
<1>1. buf \in [Bufs -> Buf]
  BY DEF MemInv, LockInv, TypeOK
<1>2. PICK T \in Buf : T = Taken(bp, fs)[bp]
  BY <1>1, TakenType
<1>3. T.b_bufsize = buf[bp].b_bufsize /\ T.b_bcount = buf[bp].b_bcount
  BY <1>1, <1>2, TakenAlike
<1>4. Alike(Bwritten(T), T)
  BY BwrittenAlike
<1>5. Alike(Bwritten(T), buf[bp])
  BY <1>3, <1>4 DEF Alike
<1> QED BY <1>2, <1>5, MemOne, Zenon

(* brelse, for headers b that differ from buf in buffers that are not      *)
(* free.                                                                   *)
LEMMA MemBack ==
  ASSUME MemInv, NEW bp \in Bufs, NEW b \in [Bufs -> Buf], Room(b),
         Total(b) = Total(buf),
         \A c \in Bufs \ {bp} : OnFree(c) => b[c].b_bufsize = buf[c].b_bufsize,
         NEW fl, fl = Notavail(bp) \/ (fl = bfreelist /\ ~OnFree(bp)),
         Brelse(bp, b, fl)
  PROVE  MemNext
<1> DEFINE r == FreeQueue(b[bp])
<1>1. /\ FreeOnce(bfreelist)' /\ r \in BQ /\ bp \in Elems(bfreelist'[r])
      /\ \A q \in BQ : \A c \in Elems(bfreelist'[q]) :
           c \in Elems(bfreelist[q]) \/ (c = bp /\ q = r)
  BY GiveBack, FreeQueueType DEF Brelse, MemInv
<1>2. r = "EMPTY" <=> b[bp].b_bufsize = 0
  BY DEF FreeQueue, NoInfo
<1> HIDE DEF r
<1>3. \A c \in Bufs : /\ buf'[c].b_bufsize = b[c].b_bufsize
                      /\ buf'[c].b_bcount = b[c].b_bcount
  <2>1. buf' = [b EXCEPT ![bp] = Released(b[bp])]
    BY DEF Brelse
  <2>2. b[bp] \in Buf
    OBVIOUS
  <2> QED BY <2>1, <2>2, ReleasedAlike
<1>4. Room(buf)'
  BY <1>3 DEF Room, Fitting
<1>5. Sorted(bfreelist, buf)'
  <2> SUFFICES ASSUME NEW q \in BQ, NEW c \in Elems(bfreelist'[q])
               PROVE  buf'[c].b_bufsize = 0 <=> q = "EMPTY"
    BY DEF Sorted
  <2>1. CASE c = bp
    <3>1. q = r
      BY <1>1, <2>1 DEF FreeOnce
    <3> QED BY <1>2, <1>3, <2>1, <3>1
  <2>2. CASE c # bp
    <3>1. c \in Elems(bfreelist[q])
      BY <1>1, <2>2
    <3>2. c \in Bufs /\ OnFree(c)
      BY <3>1 DEF MemInv, LockInv, TypeOK, Elems, OnFree
    <3>3. buf[c].b_bufsize = 0 <=> q = "EMPTY"
      BY <3>1 DEF MemInv, Sorted
    <3> QED BY <1>3, <2>2, <3>2, <3>3
  <2> QED BY <2>1, <2>2
<1>6. Total(buf)' = Total(buf)
  <2>1. Total(buf)' = Total(b)
    BY <1>3, TotalSame
  <2> QED BY <2>1
<1> QED BY <1>4, <1>5, <1>6 DEF MemNext

(* brelse of a buffer whose header only differs in flags.                  *)
LEMMA MemGive ==
  ASSUME MemInv, NEW bp \in Bufs, NEW fs \in SUBSET Flags,
         NEW b, b = buf \/ b = Taken(bp, fs),
         NEW fl, fl = Notavail(bp) \/ (fl = bfreelist /\ ~OnFree(bp)),
         Brelse(bp, b, fl)
  PROVE  MemNext
<1>1. buf \in [Bufs -> Buf]
  BY DEF MemInv, LockInv, TypeOK
<1>2. b \in [Bufs -> Buf]
  BY <1>1, TakenType
<1>3. \A c \in Bufs : b[c].b_bufsize = buf[c].b_bufsize /\ b[c].b_bcount = buf[c].b_bcount
  BY <1>1, TakenAlike
<1>4. Room(b)
  BY <1>3 DEF MemInv, Room, Fitting
<1>5. Total(b) = Total(buf)
  BY <1>3, TotalSame
<1> QED BY <1>2, <1>3, <1>4, <1>5, MemBack

-----------------------------------------------------------------------------
(* getnewbuf, getblk, and the loop over overlapping blocks.                *)

LEMMA HeldBuf ==
  ASSUME MemInv, NEW p \in Procs, NEW bp \in Held(p)
  PROVE  bp \in Bufs /\ Has(bp, "BUSY") /\ ~OnFree(bp)
<1>1. bp \in Bufs
  BY DEF MemInv, LockInv, TypeOK, Proc, Held
<1> QED BY <1>1, QueuedOwned, LockFacts DEF MemInv

LEMMA MemWanted ==
  ASSUME MemInv, TypeOK', NEW bp \in Bufs, buf' = Wanted(bp), bfreelist' = bfreelist
  PROVE  MemNext
BY MemFlags, Zenon DEF Wanted

LEMMA GetnewbufMem ==
  ASSUME MemInv, TypeOK', NEW p \in Procs, Getnewbuf(p)
  PROVE  MemNext
<1>1. CASE GetnewSleep(p)
  BY <1>1, MemSame DEF GetnewSleep
<1>2. CASE GetnewFlush(p)
  <2>1. Victim \in Bufs
    BY <1>2, VictimFree DEF GetnewFlush, MemInv
  <2>2. {"ASYNC"} \in SUBSET Flags
    BY DEF Flags
  <2> QED BY <1>2, <2>1, <2>2, MemWrite, Zenon DEF GetnewFlush
<1>3. ASSUME NEW fs, NEW d, NEW b, ~NoneFree, buf' = Bound(Victim, fs, d, b),
             bfreelist' = Notavail(Victim)
      PROVE  MemNext
  <2>1. PICK v \in Bufs : v = Victim
    BY <1>3, VictimFree DEF MemInv
  <2> DEFINE B == [buf[v] EXCEPT !.b_flags = fs, !.b_dev = d, !.b_blkno = b,
                                 !.b_bcount = 0]
  <2>2. buf' = [buf EXCEPT ![v] = B] /\ bfreelist' = Notavail(v)
    BY <1>3, <2>1 DEF Bound
  <2>3. Alike(B, buf[v])
    <3>1. buf[v] \in Buf
      BY DEF MemInv, LockInv, TypeOK
    <3> QED BY <3>1 DEF Alike, Buf
  <2> HIDE DEF B
  <2> QED BY <2>2, <2>3, MemOne, Zenon
<1>4. CASE GetblkBind(p)
  BY <1>3, <1>4 DEF GetblkBind
<1>5. CASE GeteblkBind(p)
  BY <1>3, <1>5 DEF GeteblkBind
<1> QED BY <1>1, <1>2, <1>4, <1>5 DEF Getnewbuf

LEMMA GetblkMem ==
  ASSUME MemInv, TypeOK', NEW p \in Procs, Getblk(p)
  PROVE  MemNext
<1>1. CASE GetblkBusy(p)
  <2>1. PICK bp \in Bufs : buf' = Wanted(bp)
    BY <1>1 DEF GetblkBusy, Incore
  <2> QED BY <1>1, <2>1, MemWanted DEF GetblkBusy
<1>2. CASE GetblkMiss(p)
  BY <1>2, MemSame DEF GetblkMiss
<1>3. CASE GetblkHit(p)
  <2>1. PICK bp \in Bufs : /\ bfreelist' = Notavail(bp)
                           /\ Brealloc(p, bp, Taken(bp, {})[bp], u[p].req.size)
    BY <1>3 DEF GetblkHit, Incore
  <2>2. buf \in [Bufs -> Buf]
    BY DEF MemInv, LockInv, TypeOK
  <2>3. PICK T \in Buf : /\ T = Taken(bp, {})[bp]
                         /\ T.b_bufsize = buf[bp].b_bufsize
                         /\ T.b_bcount = buf[bp].b_bcount
    <3> DEFINE fs == {}
    <3>1. fs \in SUBSET Flags
      OBVIOUS
    <3> HIDE DEF fs
    <3>2. /\ Taken(bp, fs)[bp] \in Buf
          /\ Taken(bp, fs)[bp].b_bufsize = buf[bp].b_bufsize
          /\ Taken(bp, fs)[bp].b_bcount = buf[bp].b_bcount
      BY <2>2, <3>1, TakenType, TakenAlike
    <3> QED BY <3>2 DEF fs
  <2> DEFINE U == [T EXCEPT !.b_flags = @ \ {"DONE"}]
  <2>4. Alike(T, T) /\ Alike(Bwritten(T), T) /\ Alike(U, T)
    BY BwrittenAlike, FlagsAlike DEF Alike
  <2>5. \E B : buf' = [buf EXCEPT ![bp] = B] /\ B \in {T, Bwritten(T), U}
    BY <2>1, <2>3 DEF Brealloc
  <2> HIDE DEF U
  <2>6. PICK B \in {T, Bwritten(T), U} : buf' = [buf EXCEPT ![bp] = B]
    BY <2>5, Zenon
  <2>7. Alike(B, T)
    BY <2>4, <2>6
  <2>8. Alike(B, buf[bp])
    BY <2>3, <2>7 DEF Alike
  <2> QED BY <2>1, <2>6, <2>8, MemOne, Zenon
<1> QED BY <1>1, <1>2, <1>3 DEF Getblk

LEMMA OverlapMem ==
  ASSUME MemInv, TypeOK', NEW p \in Procs, Overlap(p)
  PROVE  MemNext
<1>1. Others(p) \subseteq Bufs
  BY DEF Others, Overlapping
<1>2. CASE OverlapBusy(p)
  <2>1. PICK ep \in Others(p) : buf' = Wanted(ep)
    BY <1>2 DEF OverlapBusy
  <2> QED BY <1>1, <1>2, <2>1, MemWanted DEF OverlapBusy
<1>3. CASE OverlapDirty(p)
  <2>1. PICK ep \in Others(p) : /\ buf' = [buf EXCEPT ![ep] = Bwritten(Taken(ep, {})[ep])]
                                /\ bfreelist' = Notavail(ep)
    BY <1>3, Zenon DEF OverlapDirty
  <2> DEFINE fs == {}
  <2>2. fs \in SUBSET Flags /\ buf' = [buf EXCEPT ![ep] = Bwritten(Taken(ep, fs)[ep])]
    BY <2>1
  <2> HIDE DEF fs
  <2> QED BY <1>1, <2>1, <2>2, MemWrite, Zenon
<1>4. CASE OverlapClean(p)
  <2>1. PICK ep \in Others(p) : Brelse(ep, Taken(ep, {"INVAL"}), Notavail(ep))
    BY <1>4 DEF OverlapClean
  <2> DEFINE fs == {"INVAL"}
  <2>2. fs \in SUBSET Flags /\ Brelse(ep, Taken(ep, fs), Notavail(ep))
    BY <2>1 DEF Flags
  <2> HIDE DEF fs
  <2> QED BY <1>1, <2>2, MemGive
<1>5. CASE OverlapNone(p)
  BY <1>5, MemSame DEF OverlapNone
<1> QED BY <1>2, <1>3, <1>4, <1>5 DEF Overlap

-----------------------------------------------------------------------------
(* allocbuf.                                                               *)

LEMMA SetSize ==
  ASSUME NEW b \in [Bufs -> Buf], NEW bp \in Bufs, NEW n \in Nat, NEW c,
         c = [b EXCEPT ![bp].b_bufsize = n]
  PROVE  /\ c \in [Bufs -> Buf]
         /\ c[bp].b_bufsize = n /\ c[bp].b_bcount = b[bp].b_bcount
         /\ \A e \in Bufs \ {bp} : c[e] = b[e]
<1> DEFINE B == [b[bp] EXCEPT !.b_bufsize = n]
<1>1. b[bp] \in Buf
  OBVIOUS
<1>2. B \in Buf /\ B.b_bufsize = n /\ B.b_bcount = b[bp].b_bcount
  BY <1>1 DEF Buf
<1>3. c = [b EXCEPT ![bp] = B]
  OBVIOUS
<1> HIDE DEF B
<1> QED BY <1>2, <1>3

LEMMA SetCount ==
  ASSUME NEW b \in [Bufs -> Buf], NEW bp \in Bufs, NEW n \in Nat, NEW c,
         c = [b EXCEPT ![bp].b_bcount = n]
  PROVE  /\ c \in [Bufs -> Buf]
         /\ c[bp].b_bcount = n /\ c[bp].b_bufsize = b[bp].b_bufsize
         /\ \A e \in Bufs \ {bp} : c[e] = b[e]
<1> DEFINE B == [b[bp] EXCEPT !.b_bcount = n]
<1>1. b[bp] \in Buf
  OBVIOUS
<1>2. B \in Buf /\ B.b_bcount = n /\ B.b_bufsize = b[bp].b_bufsize
  BY <1>1 DEF Buf
<1>3. c = [b EXCEPT ![bp] = B]
  OBVIOUS
<1> HIDE DEF B
<1> QED BY <1>2, <1>3

LEMMA AllocFacts ==
  ASSUME MemInv, NEW p \in Procs, u[p].pc = "alloc"
  PROVE  /\ u[p].tp \in Bufs /\ ~OnFree(u[p].tp)
         /\ u[p].req.size \in Nat
         /\ Roundup(u[p].req.size) \in Nat /\ u[p].req.size <= Roundup(u[p].req.size)
         /\ \A c \in Bufs : /\ buf[c].b_bcount \in Nat /\ buf[c].b_bufsize \in Nat
                            /\ buf[c].b_bcount <= buf[c].b_bufsize
<1>1. u[p] \in Proc
  BY DEF MemInv, LockInv, TypeOK
<1>2. u[p].tp \in Bufs /\ u[p].req.size \in Nat
  BY <1>1, BufCacheAssumption DEF Proc, Request
<1>3. ~OnFree(u[p].tp)
  <2>1. u[p].tp \in Held(p)
    BY <1>2, BufCacheAssumption DEF Held
  <2> QED BY <2>1, HeldBuf
<1>4. \A c \in Bufs : /\ buf[c].b_bcount \in Nat /\ buf[c].b_bufsize \in Nat
                      /\ buf[c].b_bcount <= buf[c].b_bufsize
  BY DEF MemInv, LockInv, TypeOK, Buf, Room, Fitting
<1> QED BY <1>2, <1>3, <1>4, RoundupType, RoundupCovers

LEMMA AllocKeepMem ==
  ASSUME MemInv, TypeOK', NEW p \in Procs, AllocKeep(p)
  PROVE  MemNext
<1> DEFINE tp == u[p].tp
           n  == u[p].req.size
           m  == Roundup(n)
<1>1. /\ buf' = [buf EXCEPT ![tp].b_bcount = n] /\ bfreelist' = bfreelist
      /\ m <= buf[tp].b_bufsize /\ u[p].pc = "alloc"
  <2>1. /\ buf' = [buf EXCEPT ![tp].b_bcount = n] /\ bfreelist' = bfreelist
        /\ m = buf[tp].b_bufsize \/ m < buf[tp].b_bufsize
        /\ u[p].pc = "alloc"
    BY DEF AllocKeep, Sized
  <2>2. m \in Nat /\ tp \in Bufs /\ buf[tp].b_bufsize \in Nat
    BY <2>1, AllocFacts
  <2> QED BY <2>1, <2>2
<1>2. /\ tp \in Bufs /\ ~OnFree(tp) /\ n \in Nat /\ m \in Nat /\ n <= m
      /\ \A c \in Bufs : /\ buf[c].b_bcount \in Nat /\ buf[c].b_bufsize \in Nat
                         /\ buf[c].b_bcount <= buf[c].b_bufsize
  BY <1>1, AllocFacts
<1> HIDE DEF tp, n, m
<1>3. /\ buf'[tp].b_bcount = n /\ buf'[tp].b_bufsize = buf[tp].b_bufsize
      /\ \A e \in Bufs \ {tp} : buf'[e] = buf[e]
  <2>1. buf \in [Bufs -> Buf]
    BY DEF MemInv, LockInv, TypeOK
  <2> QED BY <1>1, <1>2, <2>1, SetCount
<1>4. Room(buf)'
  BY <1>1, <1>2, <1>3 DEF Room, Fitting
<1>5. Sorted(bfreelist, buf)'
  <2>1. \A c \in Bufs : buf'[c].b_bufsize = buf[c].b_bufsize
    BY <1>3
  <2>2. \A q \in BQ : Elems(bfreelist[q]) \subseteq Bufs
    BY DEF MemInv, LockInv, TypeOK, Elems
  <2> QED BY <1>1, <2>1, <2>2 DEF MemInv, Sorted
<1>6. Total(buf)' = Total(buf)
  BY <1>3, TotalSame
<1> QED BY <1>4, <1>5, <1>6 DEF MemNext

LEMMA AllocShrinkMem ==
  ASSUME MemInv, TypeOK', NEW p \in Procs, AllocShrink(p)
  PROVE  MemNext
<1> DEFINE tp == u[p].tp
           n  == u[p].req.size
           m  == Roundup(n)
           e  == Head(bfreelist["EMPTY"])
           x  == Excess(tp, n)
           b0 == Taken(e, {"INVAL"})
           b1 == [b0 EXCEPT ![tp].b_bcount = n]
           b2 == [b1 EXCEPT ![tp].b_bufsize = m]
           b3 == [b2 EXCEPT ![e].b_bufsize = x]
           b4 == [b3 EXCEPT ![e].b_bcount = 0]
<1>1. /\ Brelse(e, b4, Notavail(e))
      /\ m < buf[tp].b_bufsize /\ u[p].pc = "alloc" /\ x = buf[tp].b_bufsize - m
  BY ZenonT(60) DEF AllocShrink, Sized, Excess
<1>2. /\ tp \in Bufs /\ ~OnFree(tp) /\ n \in Nat /\ m \in Nat /\ n <= m
      /\ \A c \in Bufs : /\ buf[c].b_bcount \in Nat /\ buf[c].b_bufsize \in Nat
                         /\ buf[c].b_bcount <= buf[c].b_bufsize
  BY <1>1, AllocFacts, Zenon
<1>3. e \in Bufs /\ OnFree(e) /\ e \in Elems(bfreelist["EMPTY"])
  <2> DEFINE s == bfreelist["EMPTY"]
  <2>1. s \in Seq(Bufs) /\ s # <<>>
    BY Zenon DEF AllocShrink, MemInv, LockInv, TypeOK, BQ
  <2>2. Head(s) = s[1] /\ 1 \in 1..Len(s) /\ Head(s) \in Bufs
    BY <2>1
  <2> QED BY <2>2 DEF OnFree, BQ, Elems
<1> HIDE DEF tp, n, m, e
<1>4. e # tp
  BY <1>2, <1>3
<1>5. x \in Nat
  BY <1>1, <1>2
<1> HIDE DEF x
<1>6. /\ b0 \in [Bufs -> Buf]
      /\ \A c \in Bufs : /\ b0[c].b_bufsize = buf[c].b_bufsize
                         /\ b0[c].b_bcount = buf[c].b_bcount
  <2> DEFINE fs == {"INVAL"}
  <2>1. fs \in SUBSET Flags /\ buf \in [Bufs -> Buf]
    BY DEF Flags, MemInv, LockInv, TypeOK
  <2> HIDE DEF fs
  <2>2. /\ Taken(e, fs) \in [Bufs -> Buf]
        /\ \A c \in Bufs : /\ Taken(e, fs)[c].b_bufsize = buf[c].b_bufsize
                           /\ Taken(e, fs)[c].b_bcount = buf[c].b_bcount
    BY <1>3, <2>1, TakenType, TakenAlike
  <2> QED BY <2>2 DEF fs
<1> HIDE DEF b0
<1>7. /\ b1 \in [Bufs -> Buf] /\ b1[tp].b_bcount = n
      /\ \A c \in Bufs \ {tp} : b1[c] = b0[c]
  <2>1. b1 = [b0 EXCEPT ![tp].b_bcount = n]
    OBVIOUS
  <2> HIDE DEF b1
  <2> QED BY <1>2, <1>6, <2>1, SetCount
<1> HIDE DEF b1
<1>8. /\ b2 \in [Bufs -> Buf] /\ b2[tp].b_bcount = n /\ b2[tp].b_bufsize = m
      /\ \A c \in Bufs \ {tp} : b2[c] = b0[c]
  <2>1. b2 = [b1 EXCEPT ![tp].b_bufsize = m]
    OBVIOUS
  <2> HIDE DEF b2
  <2>2. /\ b2 \in [Bufs -> Buf] /\ b2[tp].b_bufsize = m /\ b2[tp].b_bcount = b1[tp].b_bcount
        /\ \A c \in Bufs \ {tp} : b2[c] = b1[c]
    BY <1>2, <1>7, <2>1, SetSize
  <2> QED BY <1>7, <2>2
<1> HIDE DEF b2
<1>9. /\ b3 \in [Bufs -> Buf] /\ b3[e].b_bufsize = x
      /\ \A c \in Bufs \ {e} : b3[c] = b2[c]
  <2>1. b3 = [b2 EXCEPT ![e].b_bufsize = x]
    OBVIOUS
  <2> HIDE DEF b3
  <2> QED BY <1>3, <1>5, <1>8, <2>1, SetSize
<1> HIDE DEF b3
<1>10. /\ b4 \in [Bufs -> Buf] /\ b4[e].b_bufsize = x /\ b4[e].b_bcount = 0
       /\ \A c \in Bufs \ {e} : b4[c] = b2[c]
  <2>1. PICK k \in Nat : k = 0
    OBVIOUS
  <2>2. b4 = [b3 EXCEPT ![e].b_bcount = k]
    BY <2>1
  <2> HIDE DEF b4
  <2>3. /\ b4 \in [Bufs -> Buf] /\ b4[e].b_bcount = k /\ b4[e].b_bufsize = b3[e].b_bufsize
        /\ \A c \in Bufs \ {e} : b4[c] = b3[c]
    BY <1>3, <1>9, <2>2, SetCount
  <2> QED BY <1>9, <2>1, <2>3
<1> HIDE DEF b4
<1>11. Room(b4)
  <2> SUFFICES ASSUME NEW c \in Bufs PROVE b4[c].b_bcount <= b4[c].b_bufsize
    BY DEF Room, Fitting
  <2>1. CASE c = e
    BY <1>5, <1>10, <2>1
  <2>2. CASE c = tp
    BY <1>2, <1>4, <1>8, <1>10, <2>2
  <2>3. CASE c # e /\ c # tp
    BY <1>2, <1>6, <1>8, <1>10, <2>3
  <2> QED BY <2>1, <2>2, <2>3
<1>12. \A c \in Bufs \ {e} : OnFree(c) => b4[c].b_bufsize = buf[c].b_bufsize
  BY <1>2, <1>6, <1>8, <1>10
<1>13. Total(b4) = Total(buf)
  <2>1. buf \in [Bufs -> Buf] /\ buf[e].b_bufsize = 0
    <3>1. buf \in [Bufs -> Buf]
      BY DEF MemInv, LockInv, TypeOK
    <3> QED BY <1>3, <3>1 DEF MemInv, Sorted, BQ
  <2>2. b4[e].b_bufsize + b4[tp].b_bufsize = buf[e].b_bufsize + buf[tp].b_bufsize
    BY <1>1, <1>2, <1>4, <1>8, <1>10, <2>1
  <2>3. \A c \in Bufs \ {e, tp} : b4[c].b_bufsize = buf[c].b_bufsize
    BY <1>6, <1>8, <1>10
  <2> QED BY <1>2, <1>3, <1>4, <1>10, <2>1, <2>2, <2>3, TotalMoved
<1> QED BY <1>1, <1>3, <1>10, <1>11, <1>12, <1>13, MemBack

LEMMA AllocTakeMem ==
  ASSUME MemInv, TypeOK', NEW p \in Procs, AllocTake(p)
  PROVE  MemNext
<1> DEFINE tp   == u[p].tp
           n    == u[p].req.size
           v    == Victim
           take == Least(Roundup(n) - buf[tp].b_bufsize, buf[v].b_bufsize)
           m    == buf[tp].b_bufsize + take
           b1   == [buf EXCEPT ![tp].b_bufsize = m]
           R    == Robbed(b1[v], b1[v].b_bufsize - take)
           b2   == [b1 EXCEPT ![v] = R]
<1>1. v \in Bufs /\ OnFree(v)
  BY VictimFree, LockFacts DEF AllocTake, MemInv
<1>2. /\ tp \in Bufs /\ ~OnFree(tp) /\ n \in Nat /\ Roundup(n) \in Nat
      /\ \A c \in Bufs : /\ buf[c].b_bcount \in Nat /\ buf[c].b_bufsize \in Nat
                         /\ buf[c].b_bcount <= buf[c].b_bufsize
  BY AllocFacts DEF AllocTake
<1>3. Roundup(n) > buf[tp].b_bufsize
  BY DEF AllocTake, NeedsNew
<1>4. Brelse(v, b2, Notavail(v))
  <2>1. m = buf[tp].b_bufsize + take
    OBVIOUS
  <2> QED BY <1>2 DEF AllocTake, MemInv, LockInv, TypeOK
<1> HIDE DEF tp, n, v
<1>5. v # tp
  BY <1>1, <1>2
<1>6. /\ take \in Nat /\ take <= buf[v].b_bufsize
      /\ m \in Nat /\ m >= buf[tp].b_bufsize /\ m = buf[tp].b_bufsize + take
  <2>1. take \in Nat /\ take <= buf[v].b_bufsize
    BY <1>1, <1>2, <1>3 DEF Least
  <2> HIDE DEF take
  <2> QED BY <1>1, <1>2, <2>1
<1> HIDE DEF take, m
<1>7. /\ b1 \in [Bufs -> Buf] /\ b1[tp].b_bufsize = m /\ b1[tp].b_bcount = buf[tp].b_bcount
      /\ \A c \in Bufs \ {tp} : b1[c] = buf[c]
  <2>1. b1 = [buf EXCEPT ![tp].b_bufsize = m] /\ buf \in [Bufs -> Buf]
    BY DEF MemInv, LockInv, TypeOK
  <2>2. m \in Nat
    BY <1>6
  <2> HIDE DEF b1
  <2> QED BY <1>2, <2>1, <2>2, SetSize
<1> HIDE DEF b1
<1>8. /\ R \in Buf /\ R.b_bcount <= R.b_bufsize
      /\ R.b_bufsize = buf[v].b_bufsize - take
  <2>1. PICK left \in Nat : left = b1[v].b_bufsize - take
    BY <1>1, <1>2, <1>5, <1>6, <1>7
  <2>2. b1[v] \in Buf
    BY <1>1, <1>7
  <2>3. R \in Buf /\ R.b_bcount <= R.b_bufsize /\ R.b_bufsize = left
    BY <2>1, <2>2 DEF Robbed, Least, Buf, Flags
  <2>4. b1[v] = buf[v]
    BY <1>1, <1>5, <1>7
  <2> HIDE DEF R
  <2> QED BY <2>1, <2>3, <2>4
<1> HIDE DEF R
<1>9. /\ b2 \in [Bufs -> Buf] /\ b2[v] = R
      /\ \A c \in Bufs \ {v} : b2[c] = b1[c]
  BY <1>1, <1>7, <1>8
<1> HIDE DEF b2
<1>10. Room(b2)
  <2> SUFFICES ASSUME NEW c \in Bufs PROVE b2[c].b_bcount <= b2[c].b_bufsize
    BY DEF Room, Fitting
  <2>1. CASE c = v
    BY <1>8, <1>9, <2>1
  <2>2. CASE c = tp
    BY <1>2, <1>5, <1>6, <1>7, <1>9, <2>2
  <2>3. CASE c # v /\ c # tp
    BY <1>2, <1>7, <1>9, <2>3
  <2> QED BY <2>1, <2>2, <2>3
<1>11. \A c \in Bufs \ {v} : OnFree(c) => b2[c].b_bufsize = buf[c].b_bufsize
  BY <1>2, <1>7, <1>9
<1>12. Total(b2) = Total(buf)
  <2>1. buf \in [Bufs -> Buf]
    BY DEF MemInv, LockInv, TypeOK
  <2>2. b2[v].b_bufsize + b2[tp].b_bufsize = buf[v].b_bufsize + buf[tp].b_bufsize
    BY <1>1, <1>2, <1>5, <1>6, <1>7, <1>8, <1>9
  <2>3. \A c \in Bufs \ {v, tp} : b2[c].b_bufsize = buf[c].b_bufsize
    BY <1>7, <1>9
  <2> QED BY <1>1, <1>2, <1>5, <1>9, <2>1, <2>2, <2>3, TotalMoved
<1> QED BY <1>1, <1>4, <1>9, <1>10, <1>11, <1>12, MemBack

LEMMA AllocbufMem ==
  ASSUME MemInv, TypeOK', NEW p \in Procs, Allocbuf(p)
  PROVE  MemNext
BY AllocKeepMem, AllocShrinkMem, AllocTakeMem DEF Allocbuf

-----------------------------------------------------------------------------
(* The other routines: they change flags, or release what they have.       *)

LEMMA BiowaitMem ==
  ASSUME MemInv, TypeOK', NEW p \in Procs, Biowait(p)
  PROVE  MemNext
<1>1. CASE BiowaitSleep(p) \/ ReadDone(p)
  BY <1>1, MemSame DEF BiowaitSleep, ReadDone
<1>2. CASE BwriteDone(p)
  <2>1. PICK a : a = Awaited(p) /\ Brelse(a, buf, bfreelist)
    BY <1>2 DEF BwriteDone
  <2>2. a \in Held(p)
    <3>1. u[p] \in Proc
      BY DEF MemInv, LockInv, TypeOK
    <3> QED BY <1>2, <2>1, <3>1, BufCacheAssumption DEF Awaited, BwriteDone, Proc, Held
  <2>3. a \in Bufs /\ ~OnFree(a)
    BY <2>2, HeldBuf
  <2>4. PICK fs \in SUBSET Flags : TRUE
    OBVIOUS
  <2> QED BY <2>1, <2>3, <2>4, MemGive
<1> QED BY <1>1, <1>2 DEF Biowait

(* The buffer in tp of a process that has got one.                         *)
LEMMA MineMem ==
  ASSUME MemInv, NEW p \in Procs, u[p].pc \in {"gotten", "own"}
  PROVE  u[p].tp \in Bufs /\ ~OnFree(u[p].tp)
<1>1. u[p] \in Proc
  BY DEF MemInv, LockInv, TypeOK
<1>2. u[p].tp \in Held(p)
  BY <1>1, BufCacheAssumption DEF Proc, Held
<1> QED BY <1>2, HeldBuf

LEMMA GottenMem ==
  ASSUME MemInv, TypeOK', NEW p \in Procs, Gotten(p)
  PROVE  MemNext
<1>1. PICK tp \in Bufs : tp = u[p].tp /\ ~OnFree(tp)
  BY MineMem DEF Gotten, GottenBread, GottenWrite, GottenExtended, GottenBreada, GottenReadAhead
<1>2. CASE buf' = buf /\ bfreelist' = bfreelist
  BY <1>2, MemSame
<1>3. CASE /\ bfreelist' = bfreelist
           /\ \E F : buf' = [buf EXCEPT ![tp].b_flags = F]
  BY <1>3, MemFlags, Zenon
<1>4. CASE Brelse(tp, buf, bfreelist)
  <2>1. PICK fs \in SUBSET Flags : TRUE
    OBVIOUS
  <2> QED BY <1>1, <1>4, <2>1, MemGive
<1>5. CASE GottenBread(p)
  BY <1>1, <1>2, <1>3, <1>5, Zenon DEF GottenBread
<1>6. CASE GottenWrite(p)
  BY <1>2, <1>6 DEF GottenWrite
<1>7. CASE GottenExtended(p)
  BY <1>1, <1>3, <1>7, Zenon DEF GottenExtended
<1>8. CASE GottenBreada(p)
  BY <1>1, <1>2, <1>3, <1>8 DEF GottenBreada
<1>9. CASE GottenReadAhead(p)
  BY <1>1, <1>3, <1>4, <1>9, Zenon DEF GottenReadAhead
<1> QED BY <1>5, <1>6, <1>7, <1>8, <1>9 DEF Gotten

LEMMA OwnerMem ==
  ASSUME MemInv, TypeOK', NEW p \in Procs, Owner(p)
  PROVE  MemNext
<1>1. PICK tp \in Bufs : tp = u[p].tp /\ ~OnFree(tp)
  BY MineMem DEF Owner, Release, Bdwrite, Bawrite, Bwrite, Extend, Writable, Owns
<1>2. ASSUME NEW fs \in SUBSET {"AGE", "DELWRI", "DONE"},
             Brelse(tp, Taken(tp, fs), bfreelist)
      PROVE  MemNext
  <2>1. fs \in SUBSET Flags
    BY DEF Flags
  <2> QED BY <1>1, <1>2, <2>1, MemGive
<1>3. CASE Release(p)
  <2>1. PICK age \in SUBSET {"AGE"} : Brelse(tp, Taken(tp, age), bfreelist)
    BY <1>1, <1>3 DEF Release
  <2> QED BY <1>2, <2>1
<1>4. CASE Bdwrite(p)
  BY <1>1, <1>2, <1>4 DEF Bdwrite
<1>5. CASE Bawrite(p)
  <2>1. PICK fs \in SUBSET {"ASYNC", "AGE"} :
          buf' = [buf EXCEPT ![tp] = Bwritten(Taken(tp, fs)[tp])]
    BY <1>1, <1>5, Zenon DEF Bawrite
  <2>2. fs \in SUBSET Flags /\ bfreelist' = bfreelist
    BY <1>5 DEF Flags, Bawrite
  <2> QED BY <2>1, <2>2, MemWrite, Zenon
<1>6. CASE Bwrite(p)
  <2>1. PICK B : B = Bwritten(buf[tp]) /\ buf' = [buf EXCEPT ![tp] = B]
    BY <1>1, <1>6, Zenon DEF Bwrite
  <2>2. Alike(B, buf[tp])
    BY <2>1, BwrittenAlike DEF MemInv, LockInv, TypeOK
  <2> QED BY <1>6, <2>1, <2>2, MemOne, Zenon DEF Bwrite
<1>7. CASE Extend(p)
  BY <1>1, <1>7, MemFlags, Zenon DEF Extend
<1> QED BY <1>3, <1>4, <1>5, <1>6, <1>7 DEF Owner

LEMMA FlushMem ==
  ASSUME MemInv, TypeOK', NEW p \in Procs, Flush(p)
  PROVE  MemNext
<1>1. Flushees(p) \subseteq Bufs
  BY DEF Flushees, Overlapping
<1>2. CASE BlkflushBusy(p)
  <2>1. PICK ep \in Flushees(p) : buf' = Wanted(ep)
    BY <1>2 DEF BlkflushBusy
  <2> QED BY <1>1, <1>2, <2>1, MemWanted DEF BlkflushBusy
<1>3. CASE BlkflushDirty(p)
  <2>1. PICK ep \in Flushees(p) : /\ buf' = [buf EXCEPT ![ep] = Bwritten(Taken(ep, {})[ep])]
                                  /\ bfreelist' = Notavail(ep)
    BY <1>3, Zenon DEF BlkflushDirty
  <2> DEFINE fs == {}
  <2>2. fs \in SUBSET Flags /\ buf' = [buf EXCEPT ![ep] = Bwritten(Taken(ep, fs)[ep])]
    BY <2>1
  <2> HIDE DEF fs
  <2> QED BY <1>1, <2>1, <2>2, MemWrite, Zenon
<1>4. CASE BlkflushDone(p) \/ BflushDone(p)
  BY <1>4, MemSame DEF BlkflushDone, BflushDone
<1>5. CASE BflushOne(p)
  <2>1. PICK q \in {"LRU", "AGE"} : \E bp \in First(p, q) :
            /\ buf' = [buf EXCEPT ![bp] = Bwritten(Taken(bp, {"ASYNC"})[bp])]
            /\ bfreelist' = Notavail(bp)
    BY <1>5, Zenon DEF BflushOne
  <2>2. PICK bp \in First(p, q) :
            /\ buf' = [buf EXCEPT ![bp] = Bwritten(Taken(bp, {"ASYNC"})[bp])]
            /\ bfreelist' = Notavail(bp)
    BY <2>1, Zenon
  <2>3. bp \in Bufs
    <3>1. q \in BQ /\ bfreelist[q] \in Seq(Bufs)
      BY DEF BQ, MemInv, LockInv, TypeOK
    <3> QED BY <3>1 DEF First, Dirty
  <2>4. {"ASYNC"} \in SUBSET Flags
    BY DEF Flags
  <2> QED BY <2>2, <2>3, <2>4, MemWrite, Zenon
<1>6. CASE Binval(p)
  <2>1. ASSUME NEW c \in Bufs PROVE Alike(buf'[c], buf[c])
    <3> DEFINE B == [buf[c] EXCEPT !.b_flags = @ \cup {"INVAL"}]
    <3>1. buf[c] \in Buf
      BY DEF MemInv, LockInv, TypeOK
    <3>2. Alike(B, buf[c])
      BY <3>1, FlagsAlike
    <3>3. buf'[c] = buf[c] \/ buf'[c] = B
      BY <1>6 DEF Binval
    <3> HIDE DEF B
    <3> QED BY <3>2, <3>3 DEF Alike
  <2>2. \A q \in BQ : Elems(bfreelist'[q]) \subseteq Elems(bfreelist[q])
    BY <1>6 DEF Binval
  <2> QED BY <2>1, <2>2, MemKeep
<1> QED BY <1>2, <1>3, <1>4, <1>5, <1>6 DEF Flush

LEMMA DiskIntrMem ==
  ASSUME MemInv, TypeOK', NEW bp \in Bufs, DiskIntr(bp)
  PROVE  MemNext
<1>1. PICK F : LET b == [buf EXCEPT ![bp].b_flags = F]
               IN  IF Has(bp, "ASYNC")
                     THEN Brelse(bp, b, bfreelist) /\ F \in SUBSET Flags
                     ELSE /\ buf' = [b EXCEPT ![bp].b_flags = @ \ {"WANTED"}]
                          /\ bfreelist' = bfreelist
  <2>1. PICK ok \in {TRUE, ~IOErrors} :
          LET b == [buf EXCEPT ![bp].b_flags =
                      @ \cup {"DONE"} \cup (IF ok THEN {} ELSE {"ERROR"})]
          IN  IF Has(bp, "ASYNC")
                THEN Brelse(bp, b, bfreelist)
                ELSE /\ buf' = [b EXCEPT ![bp].b_flags = @ \ {"WANTED"}]
                     /\ UNCHANGED <<bfreelist, flwanted>>
    BY Zenon DEF DiskIntr
  <2> DEFINE F == buf[bp].b_flags \cup {"DONE"} \cup (IF ok THEN {} ELSE {"ERROR"})
  <2>2. F \in SUBSET Flags
    BY DEF MemInv, LockInv, TypeOK, Buf, Flags
  <2> QED BY <2>1, <2>2, Zenon
<1> DEFINE B == [buf[bp] EXCEPT !.b_flags = F]
           b == [buf EXCEPT ![bp].b_flags = F]
<1>2. buf \in [Bufs -> Buf] /\ buf[bp] \in Buf
  BY DEF MemInv, LockInv, TypeOK
<1>3. /\ Alike(B, buf[bp]) /\ b = [buf EXCEPT ![bp] = B]
      /\ B.b_bcount = buf[bp].b_bcount
      /\ F \in SUBSET Flags => B \in Buf
  BY <1>2, FlagsAlike, Zenon DEF Buf
<1> HIDE DEF B, b
<1>4. CASE Has(bp, "ASYNC")
  <2>1. Brelse(bp, b, bfreelist) /\ B \in Buf
    BY <1>1, <1>3, <1>4 DEF b
  <2>2. b \in [Bufs -> Buf] /\ b[bp] = B /\ \A c \in Bufs \ {bp} : b[c] = buf[c]
    BY <1>2, <1>3, <2>1
  <2>3. Room(b)
    <3>1. Fitting(B)
      BY <1>2, <1>3, <2>1, AlikeFits DEF MemInv, Room
    <3> QED BY <2>2, <3>1 DEF Room, MemInv
  <2>4. ~OnFree(bp)
    <3>1. Queued(bp)
      BY DEF DiskIntr, MayFinish, Queued
    <3> QED BY <3>1 DEF MemInv, LockInv, Fits
  <2>5. Total(b) = Total(buf)
    <3>1. \A c \in Bufs : b[c].b_bufsize = buf[c].b_bufsize
      BY <1>3, <2>2 DEF Alike
    <3> QED BY <3>1, TotalSame
  <2> QED BY <2>1, <2>2, <2>3, <2>4, <2>5, MemBack
<1>5. CASE ~Has(bp, "ASYNC")
  <2>1. buf' = [b EXCEPT ![bp].b_flags = @ \ {"WANTED"}] /\ bfreelist' = bfreelist
    BY <1>1, <1>5 DEF b
  <2> DEFINE C == [B EXCEPT !.b_flags = @ \ {"WANTED"}]
  <2>2. b[bp] = B /\ \A c \in Bufs \ {bp} : b[c] = buf[c]
    BY <1>2, <1>3
  <2>3. buf' = [buf EXCEPT ![bp] = C]
    BY <1>2, <1>3, <2>1, <2>2, Zenon
  <2>4. Alike(C, buf[bp])
    BY <1>2 DEF Alike, Buf, B
  <2> HIDE DEF C
  <2> QED BY <2>1, <2>3, <2>4, MemOne, Zenon
<1> QED BY <1>4, <1>5

LEMMA BreadaMem ==
  ASSUME MemInv, NEW p \in Procs, Breada(p)
  PROVE  MemNext
<1>1. UNCHANGED <<buf, bfreelist>>
  BY DEF Breada, BreadaStart, ReadAheadStart, ReadAheadNone
<1> QED BY <1>1, MemSame

LEMMA CallMem ==
  ASSUME MemInv, NEW p \in Procs, Call(p)
  PROVE  MemNext
<1>1. UNCHANGED <<buf, bfreelist>>
  BY Zenon DEF Call, CallBread, CallBlkflush, CallGetblk, CallGeteblk, CallSync, CallBreada,
         CallClose, CallExtend, CallAlloc, Free, Begin
<1> QED BY <1>1, MemSame

-----------------------------------------------------------------------------
(* The invariant holds always.                                             *)

LEMMA InitMem ==
  ASSUME Init
  PROVE  MemInv
<1>1. LockInv
  BY InitLock
<1>2. \A c \in Bufs : /\ buf[c].b_bufsize = InitBufsize[c] /\ buf[c].b_bcount = 0
                      /\ InitBufsize[c] \in Nat
  BY BufCacheAssumption DEF Init
<1>3. Room(buf)
  BY <1>2 DEF Room, Fitting
<1>4. Sorted(bfreelist, buf)
  <2>1. /\ Elems(bfreelist["LRU"]) = {}
        /\ Elems(bfreelist["AGE"]) = { bp \in Bufs : InitBufsize[bp] > 0 }
        /\ Elems(bfreelist["EMPTY"]) = { bp \in Bufs : InitBufsize[bp] = 0 }
    <3>1. /\ bfreelist["LRU"] = <<>>
          /\ Elems(bfreelist["AGE"]) = { bp \in Bufs : InitBufsize[bp] > 0 }
          /\ Elems(bfreelist["EMPTY"]) = { bp \in Bufs : InitBufsize[bp] = 0 }
      BY DEF Init
    <3>2. Elems(<<>>) = {}
      BY DEF Elems
    <3> QED BY <3>1, <3>2
  <2> QED BY <1>2, <2>1 DEF Sorted, BQ
<1>5. Total(buf) = SumFunction(InitBufsize)
  <2>1. [c \in Bufs |-> buf[c].b_bufsize] = InitBufsize
    BY <1>2, BufCacheAssumption
  <2> QED BY <2>1 DEF Total
<1> QED BY <1>1, <1>3, <1>4, <1>5 DEF MemInv

LEMMA NextMem ==
  ASSUME MemInv, [Next]_vars
  PROVE  MemInv'
<1>1. LockInv' /\ TypeOK'
  BY NextLock DEF MemInv, LockInv
<1>2. ASSUME NEW p \in Procs, Call(p) PROVE MemNext
  BY <1>2, CallMem
<1>3. ASSUME NEW p \in Procs, Inside(p) PROVE MemNext
  BY <1>1, <1>3, GetnewbufMem, GetblkMem, OverlapMem, AllocbufMem, BiowaitMem, GottenMem,
     BreadaMem, OwnerMem, FlushMem DEF Inside
<1>4. ASSUME NEW bp \in Bufs, DiskIntr(bp) PROVE MemNext
  BY <1>1, <1>4, DiskIntrMem
<1>5. ASSUME UNCHANGED vars PROVE MemNext
  BY <1>5, MemSame DEF vars
<1>6. MemNext
  BY <1>2, <1>3, <1>4, <1>5 DEF Next
<1> QED BY <1>1, <1>6 DEF MemInv, MemNext

(* A list without repetition is no longer than there are headers.          *)
LEMMA NoDupLen ==
  ASSUME NEW s \in Seq(Bufs), NoDup(s)
  PROVE  Len(s) <= Cardinality(Bufs)
<1> DEFINE n == Len(s)
<1>1. n \in Nat /\ Cardinality(1..n) = n
  <2>1. n \in Nat
    OBVIOUS
  <2> HIDE DEF n
  <2>2. ~(1 > n) => n - 1 + 1 = n
    BY <2>1
  <2>3. 1 > n => n = 0
    BY <2>1
  <2> QED BY <2>1, <2>2, <2>3, FS_Interval
<1>2. s \in Injection(1..n, Bufs)
  <2>1. s \in [1..n -> Bufs]
    OBVIOUS
  <2> HIDE DEF n
  <2>2. \A i, j \in 1..n : s[i] = s[j] => i = j
    BY DEF NoDup, n
  <2> QED BY <2>1, <2>2 DEF Injection, IsInjective
<1> HIDE DEF n
<1>3. Cardinality(1..n) <= Cardinality(Bufs)
  BY <1>2, FS_Injection, BufCacheAssumption
<1> QED BY <1>1, <1>3 DEF n

LEMMA MemInvPlaces ==
  ASSUME MemInv, NEW bp \in Bufs
  PROVE  /\ Cardinality(Places(bp)) = IF Has(bp, "BUSY") THEN 0 ELSE 1
         /\ \A pl \in Places(bp) : (buf[bp].b_bufsize = 0) <=> (pl[1] = "EMPTY")
<1>1. /\ \A q \in BQ : bfreelist[q] \in Seq(Bufs)
      /\ FreeOnce(bfreelist) /\ Sorted(bfreelist, buf)
      /\ OnFree(bp) <=> ~Has(bp, "BUSY")
  BY DEF MemInv, LockInv, TypeOK, Fits
<1>2. ASSUME NEW pl \in Places(bp)
      PROVE  /\ pl[1] \in BQ /\ pl[2] \in 1..Len(bfreelist[pl[1]])
             /\ pl = <<pl[1], pl[2]>> /\ bfreelist[pl[1]][pl[2]] = bp
             /\ bp \in Elems(bfreelist[pl[1]])
  <2>1. /\ pl \in BQ \X (1..Cardinality(Bufs)) /\ pl[2] <= Len(bfreelist[pl[1]])
        /\ bfreelist[pl[1]][pl[2]] = bp
    BY DEF Places
  <2>2. pl[1] \in BQ /\ pl[2] \in Nat /\ pl[2] >= 1 /\ pl = <<pl[1], pl[2]>>
    BY <2>1, FS_CardinalityType, BufCacheAssumption
  <2>3. Len(bfreelist[pl[1]]) \in Nat
    BY <1>1, <2>2
  <2>4. pl[2] \in 1..Len(bfreelist[pl[1]])
    BY <2>1, <2>2, <2>3
  <2> QED BY <2>1, <2>2, <2>4 DEF Elems
<1>3. \A pl \in Places(bp) : (buf[bp].b_bufsize = 0) <=> (pl[1] = "EMPTY")
  BY <1>1, <1>2 DEF Sorted
<1>4. CASE Has(bp, "BUSY")
  <2>1. Places(bp) = {}
    BY <1>1, <1>2, <1>4 DEF OnFree
  <2> QED BY <1>3, <1>4, <2>1, FS_EmptySet
<1>5. CASE ~Has(bp, "BUSY")
  <2>1. PICK q \in BQ : bp \in Elems(bfreelist[q])
    BY <1>1, <1>5 DEF OnFree
  <2>2. PICK i \in 1..Len(bfreelist[q]) : bfreelist[q][i] = bp
    BY <2>1 DEF Elems
  <2>3. <<q, i>> \in Places(bp)
    <3>1. Len(bfreelist[q]) <= Cardinality(Bufs) /\ Len(bfreelist[q]) \in Nat
      BY <1>1, NoDupLen DEF FreeOnce
    <3>2. i \in 1..Cardinality(Bufs) /\ i <= Len(bfreelist[q])
      BY <3>1, FS_CardinalityType, BufCacheAssumption
    <3> QED BY <2>2, <3>2 DEF Places
  <2>4. ASSUME NEW pl \in Places(bp) PROVE pl = <<q, i>>
    <3>1. pl[1] = q
      BY <1>1, <1>2, <2>1, Zenon DEF FreeOnce
    <3>2. pl[2] = i
      BY <1>1, <1>2, <2>2, <3>1 DEF FreeOnce, NoDup
    <3> QED BY <1>2, <3>1, <3>2
  <2>5. Places(bp) = {<<q, i>>}
    BY <2>3, <2>4
  <2>6. Cardinality(Places(bp)) = 1
    BY <2>5, FS_Singleton, Zenon
  <2> QED BY <1>3, <1>5, <2>6
<1> QED BY <1>4, <1>5

(* Every header that is not busy is on one free list, once; a busy one is  *)
(* on none; and the headers on the EMPTY list, and only those, are without *)
(* memory: getnewbuf, which takes from AGE and LRU, never offers a buffer  *)
(* that cannot hold a block, whatever allocbuf has taken from whom.        *)
THEOREM AlwaysFreeListsSound == Spec => []FreeListsSound
<1>1. Init => MemInv
  BY InitMem
<1>2. MemInv /\ [Next]_vars => MemInv'
  BY NextMem
<1>3. MemInv => FreeListsSound
  BY MemInvPlaces DEF FreeListsSound
<1> QED BY <1>1, <1>2, <1>3, PTL DEF Spec

(* No memory of the headers is lost or made, by any growing, shrinking and *)
(* stealing in allocbuf, and every header is on the free list that its     *)
(* memory says.                                                            *)
THEOREM AlwaysMemorySound == Spec => []MemorySound
<1>1. Init => MemInv
  BY InitMem
<1>2. MemInv /\ [Next]_vars => MemInv'
  BY NextMem
<1>3. MemInv => MemorySound
  <2>1. MemInv => MemoryConserved
    BY DEF MemInv, MemoryConserved, Total
  <2> QED BY <2>1, MemInvPlaces DEF MemorySound, FreeListsSound
<1> QED BY <1>1, <1>2, <1>3, PTL DEF Spec

(* Neither "dup biodone" nor the panics of bread, breada and bwrite are    *)
(* reached: a buffer with the driver is not done, and its transfer is not  *)
(* longer than the memory behind it, for any sizes of blocks and clusters  *)
(* and any order of growing, shrinking and stealing in allocbuf.           *)
THEOREM AlwaysNoPanic == Spec => []NoPanic
<1>1. Init => MemInv
  BY InitMem
<1>2. MemInv /\ [Next]_vars => MemInv'
  BY NextMem
<1>3. ASSUME MemInv, NEW bp \in Elems(ioq)
      PROVE  ~Has(bp, "DONE") /\ buf[bp].b_bcount <= buf[bp].b_bufsize
  <2>1. bp \in Bufs
    BY <1>3 DEF MemInv, LockInv, TypeOK, Elems
  <2>2. ~Has(bp, "DONE")
    BY <1>3, <2>1 DEF MemInv, LockInv, Fits, Queued
  <2>3. buf[bp].b_bcount <= buf[bp].b_bufsize
    BY <1>3, <2>1 DEF MemInv, Room, Fitting
  <2> QED BY <2>2, <2>3
<1>4. MemInv => NoPanic
  BY <1>3 DEF NoPanic
<1> QED BY <1>1, <1>2, <1>4, PTL DEF Spec

-----------------------------------------------------------------------------
(* What the processes know of the buffers they have.                       *)

(* The memory of each header covers the largest block, so that allocbuf    *)
(* never takes memory from a buffer that has contents.                     *)
Ample == \A bp \in Bufs : \A n \in 0..MaxSize : Roundup(n) <= InitBufsize[bp]
Full  == \A c \in Bufs : buf[c].b_bufsize = InitBufsize[c]

(* A buffer that a process has is in the chain of the block it asked for,  *)
(* and once getblk returns has the size it asked for; that of geteblk is   *)
(* in no chain.                                                            *)
At(c, r) == buf[c].b_dev = r.dev /\ buf[c].b_blkno = r.blkno /\ ~Has(c, "INVAL")
Gained   == {"gotten", "rwait", "own", "wwait"}
TpNamed(P) ==
  /\ P.tp # NONE /\ P.op # "geteblk" =>
       /\ At(P.tp, P.req)
       /\ P.pc \in Gained => buf[P.tp].b_bcount = P.req.size
       /\ P.pc \in {"overlap", "owait"} =>
            ~Has(P.tp, "DONE") /\ buf[P.tp].b_bcount <= P.req.size
  /\ P.tp # NONE /\ P.op = "geteblk" => Has(P.tp, "INVAL") /\ cur[P.tp] = {}
EpNamed(P)   == P.ep # NONE => buf[P.ep].b_dev = P.req.dev
HoldNamed(P) == P.hold # NONE => At(P.hold, P.main) /\ buf[P.hold].b_bcount = P.main.size
Named(P)     == TpNamed(P) /\ EpNamed(P) /\ HoldNamed(P)

(* allocbuf is called without a sleep after brealloc has found nothing     *)
(* else in the place of the block, or to shrink a block that is clean.     *)
AllocOk(p) ==
  u[p].pc = "alloc" =>
    /\ cpu = p
    /\ u[p].op # "geteblk" =>
         \/ u[p].req.size < buf[u[p].tp].b_bcount /\ ~Has(u[p].tp, "DELWRI")
         \/ /\ ~Has(u[p].tp, "DONE") /\ Others(p) = {}
            /\ buf[u[p].tp].b_bcount <= u[p].req.size

(* bflush has left nothing for binval to throw away.                       *)
Clean(p) == u[p].pc = "binval" =>
              \A c \in Bufs : Has(c, "DELWRI") => buf[c].b_dev # u[p].req.dev

DataInv ==
  /\ FsInv /\ Full
  /\ \A p \in Procs : Named(u[p]) /\ AllocOk(p) /\ Clean(p)
  /\ \A c \in Bufs : Delayed(c)
  /\ \A s \in Copies : DataAt(s)

(* A header that is the same but for who waits for it.                     *)
DataFlags == {"READ", "DONE", "ERROR", "DELWRI", "INVAL"}
SameBlock(c) == /\ buf'[c].b_dev = buf[c].b_dev /\ buf'[c].b_blkno = buf[c].b_blkno
                /\ buf'[c].b_bcount = buf[c].b_bcount
Bare(c) == SameBlock(c) /\ \A f \in DataFlags : Has(c, f)' <=> Has(c, f)

LEMMA BlockIn ==
  ASSUME NEW c, SameBlock(c)
  PROVE  \A s : In(c, s)' <=> In(c, s)
BY DEF SameBlock, In, Extent

LEMMA BareSame ==
  ASSUME NEW c, Bare(c)
  PROVE  /\ Live(c)' <=> Live(c)
         /\ \A s : In(c, s)' <=> In(c, s)
         /\ \A f \in {"READ", "DONE", "ERROR", "DELWRI"} : Has(c, f)' <=> Has(c, f)
BY BlockIn DEF Bare, SameBlock, Live, DataFlags

LEMMA KeptBare ==
  ASSUME NEW c, buf'[c] = buf[c]
  PROVE  Bare(c) /\ buf'[c].b_bufsize = buf[c].b_bufsize
BY DEF Bare, SameBlock, Has

(* p alone moves, and ends nothing that headers outside X rely on.         *)
FillSteps == {"overlap", "owait", "alloc", "gotten", "own"}
Moves(p, X) ==
  /\ \A q \in Procs \ {p} : u'[q] = u[q]
  /\ \/ u'[p].op = u[p].op /\ u'[p].req = u[p].req
     \/ u[p].op \notin {"alloc", "extended"}
     \/ u[p].pc \in {"own", "wwait"}
  /\ \/ u[p].tp \in X \cup {NONE}
     \/ /\ u'[p].tp = u[p].tp /\ u'[p].op = u[p].op
        /\ u[p].pc # "own" /\ (u[p].pc \in FillSteps => u'[p].pc \in FillSteps)
     \/ u[p].op \notin {"alloc", "extended"}

LEMMA MovesStay ==
  ASSUME NEW p \in Procs, NEW X, Moves(p, X), NEW c \in Bufs, c \notin X
  PROVE  Stays(c)
<1>1. c # NONE
  BY BufCacheAssumption
<1>2. Fills(c) => Fills(c)'
  <2> SUFFICES ASSUME NEW q \in Procs, u[q].tp = c, u[q].op \in {"alloc", "extended"},
                      u[q].pc \in FillSteps
               PROVE  \E r \in Procs : u'[r].tp = c /\ u'[r].op \in {"alloc", "extended"}
                                       /\ u'[r].pc \in FillSteps
    BY DEF Fills, FillSteps
  <2>1. u'[q].tp = c /\ u'[q].op \in {"alloc", "extended"} /\ u'[q].pc \in FillSteps
    BY <1>1 DEF Moves
  <2> QED BY <2>1
<1>3. Grown(c) => Grown(c)'
  <2> SUFFICES ASSUME NEW q \in Procs, u[q].tp = c, u[q].op = "extended", u[q].pc = "own"
               PROVE  \E r \in Procs : u'[r].tp = c /\ u'[r].op = "extended" /\ u'[r].pc = "own"
    BY DEF Grown
  <2>1. u'[q].tp = c /\ u'[q].op = "extended" /\ u'[q].pc = "own"
    BY <1>1 DEF Moves
  <2> QED BY <2>1
<1> QED BY <1>2, <1>3 DEF Stays

LEMMA HeldBy ==
  ASSUME LockInv, NEW q \in Procs
  PROVE  /\ \A b \in Held(q) : b \in Bufs /\ Has(b, "BUSY")
         /\ u[q].tp # NONE => u[q].tp \in Held(q)
         /\ u[q].ep # NONE => u[q].ep \in Held(q)
         /\ u[q].hold # NONE => u[q].hold \in Held(q)
<1>1. \A b \in Held(q) : b \in Bufs /\ Has(b, "BUSY")
  <2>1. PICK pc, op : \E tp, ep, hold \in MaybeBuf : Checked(q, pc, op, tp, ep, hold)
    BY CheckedOut
  <2> QED BY <2>1 DEF Checked, MaybeBuf
<1> QED BY <1>1 DEF Held

(* What a process knows of its buffers stays so while they do.             *)
SameClaims(p) ==
  /\ u'[p].op = u[p].op /\ u'[p].req = u[p].req
  /\ u'[p].pc \in Gained => u[p].pc \in Gained
  /\ u'[p].pc \in {"overlap", "owait"} => u[p].pc \in {"overlap", "owait"}

LEMMA AtKept ==
  ASSUME NEW c, NEW r, Bare(c), At(c, r)
  PROVE  At(c, r)'
BY DEF At, Bare, SameBlock, DataFlags

LEMMA TpKept ==
  ASSUME NEW p, TpNamed(u[p]), u'[p].tp = u[p].tp, SameClaims(p),
         u[p].tp # NONE => Bare(u[p].tp) /\ cur'[u[p].tp] \subseteq cur[u[p].tp]
  PROVE  TpNamed(u[p])'
<1>1. PICK tp, op, r, pc, npc : /\ tp = u[p].tp /\ op = u[p].op /\ r = u[p].req
                               /\ pc = u[p].pc /\ npc = u'[p].pc
  OBVIOUS
<1>2. tp # NONE => /\ At(tp, r) => At(tp, r)'
                   /\ buf'[tp].b_bcount = buf[tp].b_bcount
                   /\ (Has(tp, "DONE")' <=> Has(tp, "DONE"))
                   /\ (Has(tp, "INVAL")' <=> Has(tp, "INVAL"))
  BY <1>1, AtKept DEF Bare, SameBlock, DataFlags
<1>3. /\ tp # NONE /\ op # "geteblk" =>
           /\ At(tp, r)
           /\ pc \in Gained => buf[tp].b_bcount = r.size
           /\ pc \in {"overlap", "owait"} =>
                ~Has(tp, "DONE") /\ buf[tp].b_bcount <= r.size
      /\ tp # NONE /\ op = "geteblk" => Has(tp, "INVAL") /\ cur[tp] = {}
  BY <1>1 DEF TpNamed
<1>4. /\ tp # NONE /\ op # "geteblk" =>
           /\ At(tp, r)'
           /\ npc \in Gained => buf'[tp].b_bcount = r.size
           /\ npc \in {"overlap", "owait"} =>
                ~Has(tp, "DONE")' /\ buf'[tp].b_bcount <= r.size
      /\ tp # NONE /\ op = "geteblk" => Has(tp, "INVAL")' /\ cur'[tp] = {}
  BY <1>1, <1>2, <1>3 DEF SameClaims
<1> QED BY <1>1, <1>4 DEF TpNamed, SameClaims, At, Has

LEMMA EpKept ==
  ASSUME NEW p, EpNamed(u[p]), u'[p].ep = u[p].ep, u'[p].req = u[p].req,
         u[p].ep # NONE => Bare(u[p].ep)
  PROVE  EpNamed(u[p])'
BY DEF EpNamed, Bare, SameBlock

LEMMA HoldKept ==
  ASSUME NEW p, HoldNamed(u[p]), u'[p].hold = u[p].hold, u'[p].main = u[p].main,
         u[p].hold # NONE => Bare(u[p].hold)
  PROVE  HoldNamed(u[p])'
<1>1. PICK c, r : c = u[p].hold /\ r = u[p].main
  OBVIOUS
<1>2. c # NONE => At(c, r)' /\ buf'[c].b_bcount = r.size
  BY <1>1, AtKept DEF HoldNamed, Bare, SameBlock
<1> QED BY <1>1, <1>2 DEF HoldNamed, At, Has

LEMMA OthersNamed ==
  ASSUME LockInv, NEW p \in Procs, NEW q \in Procs, q # p, u'[q] = u[q], Named(u[q]),
         NEW X, \A b \in X : b \in Held(p) \/ ~Has(b, "BUSY"),
         \A c \in Bufs \ X : Bare(c) /\ cur'[c] \subseteq cur[c]
  PROVE  Named(u[q])'
<1>1. ASSUME NEW b \in Held(q) PROVE Bare(b) /\ cur'[b] \subseteq cur[b]
  <2>1. b \in Bufs /\ Has(b, "BUSY")
    BY HeldBy
  <2>2. b \notin Held(p)
    BY <2>1 DEF LockInv
  <2> QED BY <2>1, <2>2
<1>2. TpNamed(u[q])'
  BY <1>1, HeldBy, TpKept DEF Named, SameClaims
<1>3. EpNamed(u[q])'
  BY <1>1, HeldBy, EpKept DEF Named
<1>4. HoldNamed(u[q])'
  BY <1>1, HeldBy, HoldKept DEF Named
<1> QED BY <1>2, <1>3, <1>4 DEF Named

-----------------------------------------------------------------------------
(* What is kept of DataInv by any step of a process.                       *)

LEMMA OneLive ==
  ASSUME LockInv, DataInv, NEW a \in Bufs, NEW b \in Bufs, Live(a), Live(b),
         NEW s, In(a, s), In(b, s)
  PROVE  a = b
<1>1. s \in Copies
  BY ExtentType DEF LockInv, In
<1>2. DataAt(s)
  BY <1>1 DEF DataInv
<1> QED BY <1>2 DEF DataAt, Agree, Sole

(* A header with a block has the first sector of the block.                *)
LEMMA FirstIn ==
  ASSUME TypeOK, NEW c \in Bufs, buf[c].b_bcount > 0
  PROVE  In(c, <<buf[c].b_dev, buf[c].b_blkno>>)
<1>1. buf[c] \in Buf
  BY DEF TypeOK
<1>2. Sectors \cup {0} \subseteq Nat
  BY BufCacheAssumption
<1>3. buf[c].b_blkno \in Nat /\ buf[c].b_bcount \in Nat
  <2>1. buf[c].b_blkno \in Sectors \cup {0} /\ buf[c].b_bcount \in Nat
    BY <1>1 DEF Buf
  <2> HIDE <1>1
  <2> QED BY <1>2, <2>1
<1>4. PICK d, b, n : d = buf[c].b_dev /\ b = buf[c].b_blkno /\ n = buf[c].b_bcount
  OBVIOUS
<1>5. <<d, b>> \in SectorsOf(d, b, n)
  BY <1>3, <1>4, FirstSector
<1> QED BY <1>4, <1>5 DEF In, Extent

(* The owner of a new block, or of one that has grown, has the size the    *)
(* file system has given it.                                               *)
LEMMA CutEnd ==
  ASSUME LockInv, DataInv, NEW p \in Procs, NEW c \in Bufs, Has(c, "DELWRI"),
         u[p].op \in {"alloc", "extended"}, u[p].pc \in {"own", "wwait"},
         u[p].req.dev = buf[c].b_dev, u[p].req.blkno = buf[c].b_blkno
  PROVE  fsize[<<buf[c].b_dev, buf[c].b_blkno>>] = buf[c].b_bcount
<1>1. PICK tp, r : tp = u[p].tp /\ r = u[p].req
  OBVIOUS
<1>2. Asks(u[p]) /\ Named(u[p]) /\ Delayed(c) /\ TypeOK
  BY AskedFor DEF DataInv, LockInv
<1>3. Exact(r) /\ Real(r)
  BY <1>1, <1>2 DEF Asks, Gets
<1>4. tp \in Bufs /\ r \in Request
  BY <1>1, <1>2, ProcType DEF Proc
<1>5. tp # NONE
  BY <1>4, BufCacheAssumption
<1>6. At(tp, r) /\ buf[tp].b_bcount = r.size
  BY <1>1, <1>2, <1>5 DEF Named, TpNamed, Gained
<1>7. NODEV \notin Devs
  BY BufCacheAssumption
<1>8. Live(tp) /\ Live(c) /\ buf[c].b_bcount > 0 /\ buf[tp].b_bcount > 0
  BY <1>2, <1>3, <1>6, <1>7 DEF Delayed, Live, At, Real
<1>9. In(tp, <<r.dev, r.blkno>>) /\ In(c, <<r.dev, r.blkno>>)
  BY <1>1, <1>2, <1>4, <1>6, <1>8, FirstIn DEF At
<1>10. tp = c
  BY <1>4, <1>8, <1>9, OneLive
<1> QED BY <1>1, <1>3, <1>6, <1>10 DEF Exact

(* How the file system has cut the device changes only for p's own block.  *)
Cut(c)  == fsize[<<buf[c].b_dev, buf[c].b_blkno>>]
Recut(c) == Has(c, "DELWRI") => Cut(c)' \in {0, Cut(c)} \/ Making(c)'

LEMMA CutKept ==
  ASSUME LockInv, DataInv, NEW p \in Procs, NEW X, Moves(p, X), NEW c \in Bufs,
         Has(c, "DELWRI"), SameBlock(c), Recut(c)
  PROVE  Cut(c)' \in {0, buf'[c].b_bcount} \/ Making(c)'
<1>1. Delayed(c)
  BY DEF DataInv
<1>2. Cut(c) \in {0, buf[c].b_bcount} \/ Making(c)'
  <2>1. CASE Making(c)
    <3>1. PICK q \in Procs : /\ u[q].op \in {"alloc", "extended"}
                             /\ u[q].req.dev = buf[c].b_dev /\ u[q].req.blkno = buf[c].b_blkno
      BY <2>1 DEF Making
    <3>2. CASE u'[q].op = u[q].op /\ u'[q].req = u[q].req
      <4>1. u'[q].op \in {"alloc", "extended"} /\ u'[q].req.dev = buf'[c].b_dev
            /\ u'[q].req.blkno = buf'[c].b_blkno
        BY <3>1, <3>2 DEF SameBlock
      <4> QED BY <4>1 DEF Making
    <3>3. CASE u[q].pc \in {"own", "wwait"}
      BY <3>1, <3>3, CutEnd DEF Cut
    <3> QED BY <3>1, <3>2, <3>3 DEF Moves
  <2>2. CASE ~Making(c)
    BY <1>1, <2>2 DEF Delayed, Cut
  <2> QED BY <2>1, <2>2
<1> QED BY <1>2 DEF Recut, SameBlock

LEMMA DelayedKept ==
  ASSUME LockInv, DataInv, NEW p \in Procs, NEW X, Moves(p, X), NEW c \in Bufs, c \notin X,
         Bare(c), Queued(c)' <=> Queued(c), Recut(c)
  PROVE  Delayed(c)'
<1> SUFFICES ASSUME Has(c, "DELWRI")' PROVE Delayed(c)'
  BY DEF Delayed
<1>1. Has(c, "DELWRI") /\ Delayed(c)
  BY BareSame DEF DataInv
<1>2. /\ Live(c)' /\ ~Has(c, "ERROR")' /\ ~Queued(c)' /\ buf'[c].b_bcount > 0
      /\ Has(c, "DONE")' \/ Fills(c)'
  BY <1>1, BareSame, MovesStay DEF Delayed, Stays, Bare, SameBlock
<1>3. Cut(c)' \in {0, buf'[c].b_bcount} \/ Making(c)'
  BY <1>1, CutKept DEF Bare
<1> QED BY <1>2, <1>3 DEF Delayed, Cut, Live, Has, Queued, Fills, Making

LEMMA RestKept ==
  ASSUME LockInv, DataInv, FsInv', NEW p \in Procs, cpu \in {p, NONE}, NEW X,
         \A b \in X : b \in Bufs /\ (b \in Held(p) \/ ~Has(b, "BUSY")),
         Moves(p, X),
         \A c \in Bufs \ X : /\ Bare(c) /\ cur'[c] \subseteq cur[c] /\ Recut(c)
                             /\ Queued(c)' <=> Queued(c),
         \A c \in Bufs : buf'[c].b_bufsize = buf[c].b_bufsize,
         Named(u[p])', AllocOk(p)', Clean(p)',
         \A c \in X : Delayed(c)',
         \A s \in Copies : DataAt(s)'
  PROVE  DataInv'
<1>1. Full'
  BY DEF DataInv, Full
<1>2. \A c \in Bufs : Delayed(c)'
  BY DelayedKept
<1>3. ASSUME NEW q \in Procs, q # p PROVE Named(u[q])' /\ AllocOk(q)' /\ Clean(q)'
  <2>1. u'[q] = u[q] /\ Named(u[q]) /\ AllocOk(q) /\ Closing(q)
    BY <1>3, AskedFor DEF Moves, DataInv
  <2>2. Named(u[q])'
    BY <1>3, <2>1, OthersNamed
  <2>3. cpu # q
    BY <1>3, BufCacheAssumption
  <2>4. u[q].pc # "alloc" /\ u[q].pc # "binval"
    BY <2>1, <2>3 DEF AllocOk, Closing
  <2>5. AllocOk(q)' /\ Clean(q)'
    BY <2>1, <2>4 DEF AllocOk, Clean
  <2> QED BY <2>2, <2>5
<1>4. \A q \in Procs : Named(u[q])' /\ AllocOk(q)' /\ Clean(q)'
  BY <1>3
<1> QED BY <1>1, <1>2, <1>4 DEF DataInv

-----------------------------------------------------------------------------
(* The kinds of steps of a process, for the whole invariant.               *)

Same(c) == buf'[c] = buf[c] /\ cur'[c] = cur[c]

LEMMA SameFacts ==
  ASSUME NEW c, buf'[c] = buf[c]
  PROVE  /\ Bare(c) /\ buf'[c].b_bufsize = buf[c].b_bufsize
         /\ fsize' = fsize => Recut(c)
BY KeptBare DEF Recut, Cut

LEMMA BareRecut ==
  ASSUME NEW c, Bare(c), fsize' = fsize
  PROVE  Recut(c)
BY DEF Bare, SameBlock, Recut, Cut

LEMMA SameFlagsAt ==
  ASSUME NEW c, buf'[c] = buf[c]
  PROVE  /\ \A f \in {"READ", "DONE", "ERROR", "DELWRI"} : Has(c, f)' <=> Has(c, f)
         /\ Live(c)' <=> Live(c)
         /\ \A s : In(c, s)' <=> In(c, s)
BY DEF Has, Live, In

LEMMA QuietKept ==
  ASSUME LockInv, DataInv, FsInv', NEW p \in Procs, cpu \in {p, NONE}, Moves(p, {}),
         \A c \in Bufs : Bare(c) /\ Recut(c) /\ buf'[c].b_bufsize = buf[c].b_bufsize,
         UNCHANGED <<ioq, cur, diskcur, lost>>,
         Named(u[p])', AllocOk(p)', Clean(p)'
  PROVE  DataInv'
<1>1. ASSUME NEW s \in Copies PROVE DataAt(s)'
  <2>1. DataAt(s)
    BY DEF DataInv
  <2>2. \A c \in Bufs : Stays(c)
    BY MovesStay
  <2>3. \A c \in Bufs : Live(c)' => Live(c)
    BY BareSame
  <2>4. \A c \in Bufs : In(c, s)' <=> In(c, s)
    BY BareSame
  <2>5. \A c \in Bufs : \A f \in {"READ", "DONE", "ERROR", "DELWRI"} : Has(c, f)' <=> Has(c, f)
    BY BareSame
  <2> QED BY <2>1, <2>2, <2>3, <2>4, <2>5, StepQuiet
<1>2. \A c \in Bufs : Queued(c)' <=> Queued(c)
  BY DEF Queued
<1> QED BY <1>1, <1>2, RestKept

Touches(x, s) ==
  /\ Right(x, s)'
  /\ Live(x)' /\ In(x, s)' =>
       (Live(x) /\ In(x, s)) \/ \A c \in Bufs \ {x} : ~(Live(c) /\ In(c, s))
  /\ Has(x, "DELWRI")' /\ Holds(x, s)' <=> Has(x, "DELWRI") /\ Holds(x, s)

LEMMA TouchKept ==
  ASSUME LockInv, DataInv, FsInv', NEW p \in Procs, NEW x \in Bufs,
         cpu \in {p, NONE}, Moves(p, {x}), x \in Held(p) \/ ~Has(x, "BUSY"), ~Queued(x),
         \A c \in Bufs \ {x} : Same(c) /\ Recut(c),
         buf'[x].b_bufsize = buf[x].b_bufsize,
         UNCHANGED <<ioq, diskcur, lost>>,
         Named(u[p])', AllocOk(p)', Clean(p)',
         Delayed(x)', \A s \in Copies : Touches(x, s)
  PROVE  DataInv'
<1>1. \A c \in Bufs : Queued(c)' <=> Queued(c)
  BY DEF Queued
<1>2. ASSUME NEW s \in Copies PROVE DataAt(s)'
  <2>1. DataAt(s) /\ Touches(x, s)
    BY DEF DataInv
  <2>2. ASSUME NEW c \in Bufs \ {x} PROVE SameAt(c, s)
    BY <1>1, SameFlagsAt DEF SameAt, Same
  <2>3. \A c \in Bufs \ {x} : Stays(c)
    BY MovesStay
  <2> QED BY <2>1, <2>2, <2>3, StepTouch DEF Touches
<1>3. \A c \in Bufs \ {x} : Bare(c) /\ cur'[c] \subseteq cur[c] /\ buf'[c].b_bufsize = buf[c].b_bufsize
  BY KeptBare DEF Same
<1> QED BY <1>1, <1>2, <1>3, RestKept

(* x is invalidated, or its contents are, unless they must be written.     *)
Eases(x) ==
  /\ Live(x)' => Live(x) /\ SameBlock(x)
  /\ Has(x, "DELWRI")' <=> Has(x, "DELWRI")
  /\ Has(x, "DELWRI") => Live(x)' /\ ~Has(x, "ERROR")'
  /\ Has(x, "DONE")' => Has(x, "DONE")
  /\ Has(x, "ERROR") => Has(x, "ERROR")'
  /\ cur'[x] = cur[x]
  /\ Stays(x) \/ Has(x, "ERROR")

LEMMA EaseTouches ==
  ASSUME NEW s, DataAt(s), NEW x \in Bufs, ~Queued(x), UNCHANGED <<ioq, lost>>, Eases(x), Delayed(x)
  PROVE  Touches(x, s)
<1>1. ~Writing(x)' /\ Right(x, s)
  BY DEF Writing, Queued, DataAt
<1>2. Live(x)' => (In(x, s)' <=> In(x, s))
  BY BlockIn DEF Eases
<1>3. Holds(x, s) /\ Has(x, "DELWRI") <=> Holds(x, s)' /\ Has(x, "DELWRI")'
  BY <1>2 DEF Eases, Holds
<1>4. Right(x, s)'
  BY <1>1, <1>2 DEF Right, Eases, Stays
<1> QED BY <1>2, <1>3, <1>4 DEF Touches, Eases

LEMMA EaseKept ==
  ASSUME LockInv, DataInv, FsInv', NEW p \in Procs, NEW x \in Bufs,
         cpu \in {p, NONE}, Moves(p, {x}), x \in Held(p) \/ ~Has(x, "BUSY"), ~Queued(x),
         \A c \in Bufs \ {x} : Same(c),
         buf'[x].b_bufsize = buf[x].b_bufsize,
         UNCHANGED <<ioq, diskcur, lost, fsize>>,
         Named(u[p])', AllocOk(p)', Clean(p)', Eases(x),
         Has(x, "DELWRI") /\ Has(x, "DONE") => Has(x, "DONE")' \/ Fills(x)'
  PROVE  DataInv'
<1>1. Delayed(x)
  BY DEF DataInv
<1>2. ASSUME Has(x, "DELWRI")' PROVE Delayed(x)'
  <2>1. Has(x, "DELWRI") /\ Live(x)' /\ ~Has(x, "ERROR")' /\ SameBlock(x)
    BY <1>2 DEF Eases
  <2>2. ~Queued(x)'
    BY DEF Queued
  <2>3. buf'[x].b_bcount > 0 /\ (Has(x, "DONE")' \/ Fills(x)')
    BY <1>1, <2>1 DEF Delayed, SameBlock, Eases, Stays
  <2>4. Recut(x)
    BY <2>1 DEF Recut, Cut, SameBlock
  <2>5. Cut(x)' \in {0, buf'[x].b_bcount} \/ Making(x)'
    BY <2>1, <2>4, CutKept
  <2> QED BY <2>1, <2>2, <2>3, <2>5 DEF Delayed, Cut, Live, Has, Queued, Fills, Making
<1>3. Delayed(x)'
  BY <1>2 DEF Delayed
<1>4. \A c \in Bufs \ {x} : Same(c) /\ Recut(c)
  BY SameFacts DEF Same
<1>5. ASSUME NEW s \in Copies PROVE Touches(x, s)
  BY <1>1, EaseTouches DEF DataInv
<1> QED BY <1>3, <1>4, <1>5, TouchKept

(* A header is given to the driver.                                        *)
LEMMA SendKept ==
  ASSUME LockInv, DataInv, FsInv', NEW p \in Procs, NEW x \in Bufs,
         cpu \in {p, NONE}, Moves(p, {x}), x \in Held(p) \/ ~Has(x, "BUSY"),
         ~Queued(x), Strategy(x), Live(x), SameBlock(x),
         Has(x, "INVAL")' <=> Has(x, "INVAL"),
         ~Has(x, "DONE")', ~Has(x, "DELWRI")',
         \/ Has(x, "READ")' /\ ~Has(x, "DELWRI")
         \/ ~Has(x, "READ")' /\ Has(x, "DELWRI") /\ ~Fills(x),
         \A c \in Bufs \ {x} : buf'[c] = buf[c],
         buf'[x].b_bufsize = buf[x].b_bufsize,
         UNCHANGED <<cur, diskcur, lost, fsize>>,
         Named(u[p])', AllocOk(p)', Clean(p)'
  PROVE  DataInv'
<1>1. \A c \in Bufs : Queued(c)' <=> Queued(c) \/ c = x
  BY Enqueue
<1>2. ASSUME NEW s \in Copies PROVE DataAt(s)'
  <2>1. DataAt(s) /\ \A c \in Bufs : Delayed(c)
    BY DEF DataInv
  <2>2. \A c \in Bufs \ {x} : Stays(c)
    BY MovesStay
  <2>3. (Live(x)' <=> Live(x)) /\ (In(x, s)' <=> In(x, s))
    BY BlockIn DEF Live, SameBlock
  <2>4. \A c \in Bufs \ {x} : \A f \in {"READ", "DONE", "ERROR", "DELWRI"} : Has(c, f)' <=> Has(c, f)
    BY SameFlagsAt
  <2>5. \A c \in Bufs : (Live(c)' <=> Live(c)) /\ (In(c, s)' <=> In(c, s))
                         /\ (s \in cur'[c] <=> s \in cur[c])
    BY <2>3, SameFlagsAt
  <2> QED BY <2>1, <2>2, <2>4, <2>5, StepSend
<1>3. \A c \in Bufs \ {x} : /\ Bare(c) /\ cur'[c] \subseteq cur[c] /\ Recut(c)
                            /\ buf'[c].b_bufsize = buf[c].b_bufsize
  BY SameFacts
<1>4. Delayed(x)'
  BY DEF Delayed
<1> QED BY <1>1, <1>2, <1>3, <1>4, RestKept

(* The owner fills a header and keeps it, or gives it to the driver.       *)
LEMMA FillKept ==
  ASSUME LockInv, DataInv, FsInv', NEW p \in Procs, NEW x \in Bufs,
         cpu \in {p, NONE}, Moves(p, {x}), x \in Held(p),
         ~Queued(x), Modify(x), Live(x), Live(x)', SameBlock(x),
         \/ ioq' = ioq /\ Has(x, "DELWRI")'
         \/ Strategy(x) /\ ~Has(x, "READ")' /\ ~Has(x, "DELWRI")' /\ ~Has(x, "DONE")',
         \A c \in Bufs \ {x} : buf'[c] = buf[c],
         buf'[x].b_bufsize = buf[x].b_bufsize, fsize' = fsize,
         Named(u[p])', AllocOk(p)', Clean(p)', Delayed(x)'
  PROVE  DataInv'
<1>1. \A c \in Bufs \ {x} : Queued(c)' <=> Queued(c)
  BY Enqueue DEF Queued
<1>2. ASSUME NEW s \in Copies PROVE DataAt(s)'
  <2>1. DataAt(s) /\ \A c \in Bufs : Delayed(c)
    BY DEF DataInv
  <2>2. \A c \in Bufs \ {x} : Stays(c)
    BY MovesStay
  <2>3. (Live(x)' <=> Live(x)) /\ (In(x, s)' <=> In(x, s))
    BY BlockIn
  <2>4. \A c \in Bufs \ {x} : \A f \in {"READ", "DONE", "ERROR", "DELWRI"} : Has(c, f)' <=> Has(c, f)
    BY SameFlagsAt
  <2>5. \A c \in Bufs : (Live(c)' <=> Live(c)) /\ (In(c, s)' <=> In(c, s))
    BY <2>3, SameFlagsAt
  <2> QED BY <2>1, <2>2, <2>4, <2>5, StepFill
<1>3. \A c \in Bufs \ {x} : /\ Bare(c) /\ cur'[c] \subseteq cur[c] /\ Recut(c)
                            /\ buf'[c].b_bufsize = buf[c].b_bufsize
  BY SameFacts DEF Modify
<1> QED BY <1>1, <1>2, <1>3, RestKept

-----------------------------------------------------------------------------
(* Steps that change no header but for who waits for it.                   *)

LEMMA WantedBare ==
  ASSUME TypeOK, buf' = buf \/ \E bp \in Bufs : buf' = Wanted(bp)
  PROVE  \A c \in Bufs : Bare(c) /\ buf'[c].b_bufsize = buf[c].b_bufsize
<1>1. CASE buf' = buf
  BY <1>1, KeptBare
<1>2. ASSUME NEW bp \in Bufs, buf' = Wanted(bp)
      PROVE  \A c \in Bufs : Bare(c) /\ buf'[c].b_bufsize = buf[c].b_bufsize
  <2> SUFFICES ASSUME NEW c \in Bufs
               PROVE  Bare(c) /\ buf'[c].b_bufsize = buf[c].b_bufsize
    OBVIOUS
  <2>1. CASE c # bp
    <3>1. buf'[c] = buf[c]
      BY <1>2, <2>1 DEF Wanted, TypeOK
    <3> QED BY <3>1, KeptBare
  <2>2. CASE c = bp
    <3>1. buf[bp] \in Buf /\ buf'[bp] = [buf[bp] EXCEPT !.b_flags = buf[bp].b_flags \cup {"WANTED"}]
      BY <1>2 DEF Wanted, TypeOK
    <3>2. /\ buf'[bp].b_flags = buf[bp].b_flags \cup {"WANTED"}
          /\ buf'[bp].b_dev = buf[bp].b_dev /\ buf'[bp].b_blkno = buf[bp].b_blkno
          /\ buf'[bp].b_bcount = buf[bp].b_bcount /\ buf'[bp].b_bufsize = buf[bp].b_bufsize
      BY <3>1 DEF Buf
    <3> QED BY <2>2, <3>2 DEF Bare, SameBlock, DataFlags, Has
  <2> QED BY <2>1, <2>2
<1> QED BY <1>1, <1>2

LEMMA NamedStays ==
  ASSUME LockInv, NEW p \in Procs, Named(u[p]), SameClaims(p),
         u'[p].tp = u[p].tp, u'[p].ep = u[p].ep, u'[p].hold = u[p].hold,
         u'[p].main = u[p].main,
         \A b \in Held(p) : Bare(b) /\ cur'[b] \subseteq cur[b]
  PROVE  Named(u[p])'
<1>1. TpNamed(u[p])'
  BY HeldBy, TpKept DEF Named
<1>2. EpNamed(u[p])'
  BY HeldBy, EpKept DEF Named, SameClaims
<1>3. HoldNamed(u[p])'
  BY HeldBy, HoldKept DEF Named
<1> QED BY <1>1, <1>2, <1>3 DEF Named

Quiet == /\ buf' = buf \/ \E bp \in Bufs : buf' = Wanted(bp)
         /\ UNCHANGED <<ioq, cur, diskcur, lost, fsize>>

LEMMA QuietBare ==
  ASSUME LockInv, Quiet
  PROVE  /\ \A c \in Bufs : Bare(c) /\ Recut(c) /\ buf'[c].b_bufsize = buf[c].b_bufsize
         /\ UNCHANGED <<ioq, cur, diskcur, lost, fsize>>
<1>1. \A c \in Bufs : Bare(c) /\ buf'[c].b_bufsize = buf[c].b_bufsize
  BY WantedBare DEF LockInv, Quiet
<1> QED BY <1>1, BareRecut DEF Quiet

(* p goes on with what it has, or goes to sleep.                           *)
LEMMA QuietTurn ==
  ASSUME LockInv, DataInv, FsInv', NEW p \in Procs, NEW npc, cpu \in {p, NONE}, Quiet,
         Turns(p, npc, u[p].tp, u[p].ep, u[p].hold), SameClaims(p),
         \/ u[p].pc # "own" /\ (u[p].pc \in FillSteps => npc \in FillSteps)
         \/ u[p].op \notin {"alloc", "extended"},
         AllocOk(p)', Clean(p)'
  PROVE  DataInv'
<1>1. Named(u[p])
  BY DEF DataInv
<1>2. /\ \A c \in Bufs : Bare(c) /\ Recut(c) /\ buf'[c].b_bufsize = buf[c].b_bufsize
      /\ UNCHANGED <<ioq, cur, diskcur, lost, fsize>>
  BY QuietBare
<1>3. Named(u[p])'
  BY <1>1, <1>2, NamedStays, HeldBy DEF Turns, SameTask
<1>4. Moves(p, {})
  BY DEF Moves, Turns, SameTask
<1> QED BY <1>2, <1>3, <1>4, QuietKept

LEMMA QuietSleep ==
  ASSUME LockInv, DataInv, FsInv', NEW p \in Procs, cpu \in {p, NONE}, Quiet, u' = u,
         u[p].pc \notin {"alloc", "own", "binval"}
  PROVE  DataInv'
<1>1. Named(u[p])
  BY DEF DataInv
<1>2. /\ \A c \in Bufs : Bare(c) /\ Recut(c) /\ buf'[c].b_bufsize = buf[c].b_bufsize
      /\ UNCHANGED <<ioq, cur, diskcur, lost, fsize>>
  BY QuietBare
<1>3. Named(u[p])'
  BY <1>1, <1>2, NamedStays, HeldBy DEF SameClaims
<1>4. Moves(p, {})
  BY DEF Moves
<1>5. AllocOk(p)' /\ Clean(p)'
  BY DEF AllocOk, Clean
<1> QED BY <1>2, <1>3, <1>4, <1>5, QuietKept

-----------------------------------------------------------------------------
(* With ample memory allocbuf has nothing to take, and nowhere to put what *)
(* is left over.                                                           *)

LEMMA EnoughMemory ==
  ASSUME Ample, LockInv, DataInv, NEW p \in Procs
  PROVE  /\ u[p].pc = "alloc" => Roundup(u[p].req.size) <= buf[u[p].tp].b_bufsize
         /\ NeedsNew(p) => u[p].pc = "getnew"
<1>1. ASSUME u[p].pc = "alloc"
      PROVE  Roundup(u[p].req.size) <= buf[u[p].tp].b_bufsize
             /\ ~(Roundup(u[p].req.size) > buf[u[p].tp].b_bufsize)
  <2>1. u[p].tp \in Bufs /\ u[p].req \in Request
    BY <1>1, ProcType DEF LockInv, Proc
  <2>2. PICK tp \in Bufs, n \in 0..MaxSize : tp = u[p].tp /\ n = u[p].req.size
    BY <2>1, RequestNumbers
  <2>3. Roundup(n) <= InitBufsize[tp] /\ buf[tp].b_bufsize = InitBufsize[tp]
    BY <2>2 DEF Ample, DataInv, Full
  <2>4. MaxSize \in Nat
    BY BufCacheAssumption
  <2>5. n \in Nat
    BY <2>4
  <2>6. Roundup(n) \in Nat
    BY <2>5, RoundupType
  <2>7. buf[tp].b_bufsize \in Nat
    BY DEF LockInv, TypeOK, Buf
  <2>8. Roundup(n) <= buf[tp].b_bufsize /\ ~(Roundup(n) > buf[tp].b_bufsize)
    <3>1. PICK m \in Nat : m = Roundup(n)
      BY <2>6
    <3> QED BY <2>3, <2>7, <3>1
  <2> QED BY <2>2, <2>8
<1> QED BY <1>1 DEF NeedsNew

LEMMA NoEmpty ==
  ASSUME Ample, MemInv, DataInv
  PROVE  bfreelist["EMPTY"] = <<>>
<1>1. ASSUME NEW c \in Elems(bfreelist["EMPTY"]) PROVE FALSE
  <2>1. bfreelist["EMPTY"] \in Seq(Bufs)
    BY DEF MemInv, LockInv, TypeOK, BQ
  <2>2. c \in Bufs
    BY <2>1 DEF Elems
  <2>3. buf[c].b_bufsize = 0
    BY DEF MemInv, Sorted, BQ
  <2>4. 1 \in 0..MaxSize
    <3>1. MaxSize \in Nat \ {0}
      BY BufCacheAssumption
    <3> QED BY <3>1
  <2>5. Roundup(1) <= 0
    BY <2>2, <2>3, <2>4 DEF Ample, DataInv, Full
  <2>6. 1 <= Roundup(1)
    BY RoundupCovers
  <2>7. Roundup(1) \in Nat
    BY RoundupType
  <2>8. PICK m \in Nat : m = Roundup(1)
    BY <2>7
  <2> QED BY <2>5, <2>6, <2>8
<1>2. bfreelist["EMPTY"] \in Seq(Bufs)
  BY DEF MemInv, LockInv, TypeOK, BQ
<1>3. PICK s \in Seq(Bufs) : s = bfreelist["EMPTY"]
  BY <1>2
<1>4. ASSUME s # <<>> PROVE FALSE
  <2>1. 1 \in 1..Len(s)
    BY <1>4
  <2>2. s[1] \in Elems(s)
    BY <2>1 DEF Elems
  <2> QED BY <1>1, <1>3, <2>2
<1> QED BY <1>3, <1>4

-----------------------------------------------------------------------------
(* The steps that only look, wait or begin.                                *)

LEMMA GetnewSleepData ==
  ASSUME Ample, LockInv, DataInv, FsInv', NEW p \in Procs, GetnewSleep(p)
  PROVE  DataInv'
<1>1. u[p].pc = "getnew"
  BY EnoughMemory DEF GetnewSleep
<1>2. Quiet /\ u' = u /\ cpu \in {p, NONE}
  BY DEF GetnewSleep, Quiet, NeedsNew, Running, Sleep, NoneFree
<1> QED BY <1>1, <1>2, QuietSleep

LEMMA GetblkBusyData ==
  ASSUME LockInv, DataInv, FsInv', NEW p \in Procs, GetblkBusy(p)
  PROVE  DataInv'
<1>1. Quiet /\ u' = u /\ cpu \in {p, NONE} /\ u[p].pc = "getblk"
  BY DEF GetblkBusy, Quiet, Running, Incore
<1> QED BY <1>1, QuietSleep

LEMMA GetblkMissData ==
  ASSUME LockInv, DataInv, FsInv', NEW p \in Procs, GetblkMiss(p)
  PROVE  DataInv'
<1>1. Turns(p, "getnew", u[p].tp, u[p].ep, u[p].hold)
  BY TurnPc, Zenon DEF GetblkMiss, Goto, LockInv
<1>2. Quiet /\ cpu \in {p, NONE} /\ u[p].pc = "getblk"
  BY DEF GetblkMiss, Quiet, Running
<1>3. SameClaims(p) /\ AllocOk(p)' /\ Clean(p)'
  BY <1>1 DEF Turns, SameTask, SameClaims, AllocOk, Clean, Gained
<1> QED BY <1>1, <1>2, <1>3, QuietTurn DEF FillSteps

LEMMA OverlapBusyData ==
  ASSUME LockInv, DataInv, FsInv', NEW p \in Procs, OverlapBusy(p)
  PROVE  DataInv'
<1>1. Quiet /\ u' = u /\ cpu \in {p, NONE} /\ u[p].pc = "overlap"
  BY DEF OverlapBusy, Quiet, Running, Others, Overlapping
<1> QED BY <1>1, QuietSleep

LEMMA OverlapNoneData ==
  ASSUME LockInv, DataInv, FsInv', NEW p \in Procs, OverlapNone(p)
  PROVE  DataInv'
<1>1. Turns(p, "alloc", u[p].tp, u[p].ep, u[p].hold)
  BY TurnPc, Zenon DEF OverlapNone, Goto, LockInv
<1>2. /\ cpu \in {p, NONE} /\ u[p].pc = "overlap" /\ cpu' = p
      /\ buf' = buf /\ Others(p) = {} /\ UNCHANGED <<ioq, cur, diskcur, lost, fsize>>
  BY DEF OverlapNone, Running, Goto
<1>3. SameClaims(p) /\ Clean(p)'
  BY <1>1, <1>2 DEF Turns, SameTask, SameClaims, Clean, Gained
<1>4. u[p].op # "geteblk" /\ u[p].tp \in Bufs
  BY <1>2, AskedFor, StepsAre, ProcType DEF DataInv, LockInv, Gets, Reads, Proc
<1>5. ~Has(u[p].tp, "DONE") /\ buf[u[p].tp].b_bcount <= u[p].req.size
  BY <1>2, <1>4, BufCacheAssumption DEF DataInv, Named, TpNamed
<1>6. Others(p)' = {}
  BY <1>1, <1>2 DEF Others, Overlapping, Has, Turns, SameTask
<1>7. AllocOk(p)'
  BY <1>1, <1>2, <1>5, <1>6 DEF AllocOk, Turns, SameTask, Has
<1>8. Quiet
  BY <1>2, <1>4 DEF Quiet
<1> QED BY <1>1, <1>2, <1>3, <1>7, <1>8, QuietTurn DEF FillSteps

LEMMA BiowaitSleepData ==
  ASSUME LockInv, DataInv, FsInv', NEW p \in Procs, BiowaitSleep(p)
  PROVE  DataInv'
<1>1. Quiet /\ u' = u /\ cpu \in {p, NONE} /\ u[p].pc \in {"rwait", "wwait", "swait", "owait", "fwait"}
  BY DEF BiowaitSleep, Quiet, Running
<1> QED BY <1>1, QuietSleep

-----------------------------------------------------------------------------

LEMMA IdleNamed ==
  ASSUME LockInv, NEW p \in Procs, u' = [u EXCEPT ![p] = Idle]
  PROVE  /\ Named(u[p])' /\ AllocOk(p)' /\ Clean(p)'
         /\ u'[p].pc = "idle" /\ \A q \in Procs \ {p} : u'[q] = u[q]
<1>1. Becomes(p, "idle", "none", NONE, NONE, NONE)
  BY MoveIdle, Zenon
<1> QED BY <1>1 DEF Becomes, Named, TpNamed, EpNamed, HoldNamed, AllocOk, Clean

LEMMA QuietMoves ==
  ASSUME LockInv, DataInv, FsInv', NEW p \in Procs, cpu \in {p, NONE}, Quiet,
         \A q \in Procs \ {p} : u'[q] = u[q],
         u[p].op \notin {"alloc", "extended"},
         Named(u[p])', AllocOk(p)', Clean(p)'
  PROVE  DataInv'
<1>1. Moves(p, {})
  BY DEF Moves
<1> QED BY <1>1, QuietBare, QuietKept

LEMMA GottenOwn ==
  ASSUME LockInv, DataInv, FsInv', NEW p \in Procs,
         \/ ReadDone(p) \/ GottenWrite(p)
         \/ GottenBread(p) /\ Has(u[p].tp, "DONE")
  PROVE  DataInv'
<1>1. /\ cpu \in {p, NONE} /\ u[p].pc \in {"rwait", "gotten"} /\ Quiet
      /\ u' = [u EXCEPT ![p].pc = "own"]
  BY DEF ReadDone, GottenWrite, GottenBread, Quiet, Running
<1>2. Turns(p, "own", u[p].tp, u[p].ep, u[p].hold)
  BY <1>1, TurnPc, Zenon DEF LockInv
<1>3. SameClaims(p) /\ AllocOk(p)' /\ Clean(p)'
  BY <1>1, <1>2 DEF Turns, SameTask, SameClaims, AllocOk, Clean, Gained
<1> QED BY <1>1, <1>2, <1>3, QuietTurn DEF FillSteps

LEMMA BreadaStartData ==
  ASSUME LockInv, DataInv, FsInv', NEW p \in Procs, BreadaStart(p)
  PROVE  DataInv'
<1>1. PICK npc \in {"getblk", "ra"} : u' = [u EXCEPT ![p].pc = npc]
  BY Zenon DEF BreadaStart, Goto
<1>2. Turns(p, npc, u[p].tp, u[p].ep, u[p].hold)
  BY <1>1, TurnPc, Zenon DEF LockInv
<1>3. cpu \in {p, NONE} /\ u[p].pc = "breada" /\ Quiet
  BY DEF BreadaStart, Quiet, Running
<1>4. SameClaims(p) /\ AllocOk(p)' /\ Clean(p)'
  BY <1>1, <1>2 DEF Turns, SameTask, SameClaims, AllocOk, Clean, Gained
<1> QED BY <1>2, <1>3, <1>4, QuietTurn DEF FillSteps

LEMMA ReadAheadStartData ==
  ASSUME LockInv, DataInv, FsInv', NEW p \in Procs, ReadAheadStart(p)
  PROVE  DataInv'
<1>1. /\ u'[p].pc = "getblk" /\ u'[p].op = "ra" /\ u'[p].req = u[p].ra
      /\ u'[p].main = u[p].main /\ u'[p].tp = u[p].tp /\ u'[p].ep = u[p].ep
      /\ u'[p].hold = u[p].hold
      /\ \A q \in Procs \ {p} : u'[q] = u[q]
  BY ProcType DEF ReadAheadStart, LockInv, TypeOK, Proc
<1>2. cpu \in {p, NONE} /\ u[p].pc = "ra" /\ Quiet
  BY DEF ReadAheadStart, Quiet, Running
<1>3. u[p].tp = NONE /\ u[p].ep = NONE
  BY <1>2 DEF LockInv, Shape, Shapely, TpAt
<1>4. u[p].op = "breada" /\ Named(u[p])
  BY <1>2, AskedFor, StepsAre DEF DataInv
<1>5. HoldNamed(u[p])'
  BY <1>1, <1>2, <1>4, HeldBy, QuietBare, HoldKept DEF Named
<1>6. Named(u[p])' /\ AllocOk(p)' /\ Clean(p)'
  BY <1>1, <1>3, <1>5 DEF Named, TpNamed, EpNamed, AllocOk, Clean
<1> QED BY <1>1, <1>2, <1>4, <1>6, QuietMoves

(* What is held becomes the buffer that is waited for.                     *)
LEMMA RestNamed ==
  ASSUME LockInv, DataInv, NEW p \in Procs, BreadaRest(p),
         u[p].hold # NONE => Bare(u[p].hold) /\ cur'[u[p].hold] \subseteq cur[u[p].hold]
  PROVE  Named(u[p])' /\ AllocOk(p)' /\ Clean(p)'
<1>1. PICK hold, r : hold = u[p].hold /\ r = u[p].main
  OBVIOUS
<1>2. /\ u'[p].pc = IF hold = NONE THEN "getblk" ELSE "rwait"
      /\ u'[p].op = "bread" /\ u'[p].req = r /\ u'[p].tp = hold
      /\ u'[p].ep = NONE /\ u'[p].hold = NONE
  <2>1. /\ u'[p].pc = IF u[p].hold = NONE THEN "getblk" ELSE "rwait"
        /\ u'[p].op = "bread" /\ u'[p].req = u[p].main /\ u'[p].tp = u[p].hold
        /\ u'[p].ep = NONE /\ u'[p].hold = NONE
    BY RestTurns DEF LockInv
  <2> QED BY <1>1, <2>1
<1>3. hold # NONE => At(hold, r)' /\ buf'[hold].b_bcount = r.size
  <2>1. HoldNamed(u[p])
    BY DEF DataInv, Named
  <2>2. hold # NONE => At(hold, r) /\ buf[hold].b_bcount = r.size /\ Bare(hold)
    BY <1>1, <2>1 DEF HoldNamed
  <2>3. hold # NONE => At(hold, r)'
    BY <2>2, AtKept
  <2> QED BY <2>2, <2>3 DEF Bare, SameBlock
<1> QED BY <1>2, <1>3 DEF Named, TpNamed, EpNamed, HoldNamed, AllocOk, Clean, At, Has

LEMMA ReadAheadNoneData ==
  ASSUME LockInv, DataInv, FsInv', NEW p \in Procs, ReadAheadNone(p)
  PROVE  DataInv'
<1>1. cpu \in {p, NONE} /\ u[p].pc = "ra" /\ Quiet /\ BreadaRest(p)
  BY DEF ReadAheadNone, Quiet, Running
<1>2. u[p].op = "breada"
  BY <1>1, AskedFor, StepsAre DEF DataInv
<1>3. Named(u[p])' /\ AllocOk(p)' /\ Clean(p)'
  BY <1>1, HeldBy, QuietBare, RestNamed
<1>4. \A q \in Procs \ {p} : u'[q] = u[q]
  BY <1>1, RestTurns DEF LockInv
<1> QED BY <1>1, <1>2, <1>3, <1>4, QuietMoves

LEMMA BlkflushQuiet ==
  ASSUME LockInv, DataInv, FsInv', NEW p \in Procs, BlkflushBusy(p) \/ BlkflushDone(p)
  PROVE  DataInv'
<1>1. cpu \in {p, NONE} /\ u[p].pc = "blkflush" /\ Quiet
  BY DEF BlkflushBusy, BlkflushDone, Quiet, Running, Flushees, Overlapping
<1>2. u[p].op = "blkflush"
  BY <1>1, AskedFor, StepsAre DEF DataInv
<1>3. CASE BlkflushBusy(p)
  BY <1>1, <1>3, QuietSleep DEF BlkflushBusy
<1>4. CASE BlkflushDone(p)
  BY <1>1, <1>2, <1>4, IdleNamed, QuietMoves, Zenon DEF BlkflushDone, Return
<1> QED BY <1>3, <1>4

-----------------------------------------------------------------------------
(* The last close of a device.                                             *)

LEMMA HasRequest ==
  ASSUME LockInv, FsInv, NEW q \in Procs
  PROVE  /\ u[q].tp # NONE \/ u[q].ep # NONE => u[q].req \in Requests(q)
         /\ u[q].hold # NONE => u[q].main \in Requests(q)
<1>1. /\ u[q].tp # NONE \/ u[q].ep # NONE => u[q].pc # "idle"
      /\ u[q].hold # NONE => u[q].pc = "ra" \/ u[q].op = "ra"
  BY DEF LockInv, Shape, Shapely, TpAt
<1>2. u[q].pc # "idle" => u[q].req \in Request
  BY ProcType DEF LockInv, Proc
<1>3. NONE \notin Request
  BY BufCacheAssumption DEF Request
<1>4. u[q].pc = "ra" \/ u[q].op = "ra" => u[q].main # NONE
  BY AskedFor, StepsAre DEF Asks
<1> QED BY <1>1, <1>2, <1>3, <1>4 DEF Requests

LEMMA ClosedApart ==
  ASSUME LockInv, DataInv, NEW p \in Procs, u[p].pc \in {"bflush", "binval"}, u[p].op = "close",
         NEW q \in Procs, q # p
  PROVE  /\ u[q].tp # NONE /\ u[q].op # "geteblk" => buf[u[q].tp].b_dev # u[p].req.dev
         /\ u[q].ep # NONE => buf[u[q].ep].b_dev # u[p].req.dev
         /\ u[q].hold # NONE => buf[u[q].hold].b_dev # u[p].req.dev
<1>1. \A r \in Requests(q) : r.dev # u[p].req.dev
  BY AskedFor DEF DataInv, Closing
<1>2. Named(u[q])
  BY DEF DataInv
<1>3. u[q].tp # NONE \/ u[q].ep # NONE => u[q].req.dev # u[p].req.dev
  BY <1>1, HasRequest DEF DataInv
<1>4. u[q].hold # NONE => u[q].main.dev # u[p].req.dev
  BY <1>1, HasRequest DEF DataInv
<1>5. u[q].hold # NONE => buf[u[q].hold].b_dev = u[q].main.dev
  BY <1>2 DEF Named, HoldNamed, At
<1>6. u[q].ep # NONE => buf[u[q].ep].b_dev = u[q].req.dev
  BY <1>2 DEF Named, EpNamed
<1>7. u[q].tp # NONE /\ u[q].op # "geteblk" => buf[u[q].tp].b_dev = u[q].req.dev
  BY <1>2 DEF Named, TpNamed, At
<1> QED BY <1>3, <1>4, <1>5, <1>6, <1>7

(* bflush has started every buffer of the device that is not some other    *)
(* process's, and nobody else has one.                                     *)
LEMMA Cleaned ==
  ASSUME Ample, MemInv, DataInv, NEW p \in Procs, u[p].pc = "bflush", u[p].op = "close",
         Dirty(p, "LRU") = {}, Dirty(p, "AGE") = {}, NEW c \in Bufs, Has(c, "DELWRI")
  PROVE  buf[c].b_dev # u[p].req.dev
<1>1. LockInv /\ Fits(c, Owned(c)) /\ Delayed(c)
  BY DEF MemInv, LockInv, DataInv
<1>2. CASE ~Has(c, "BUSY")
  <2>1. PICK q \in BQ : c \in Elems(bfreelist[q])
    BY <1>1, <1>2 DEF Fits, OnFree
  <2>2. PICK i \in 1..Len(bfreelist[q]) : bfreelist[q][i] = c
    BY <2>1 DEF Elems
  <2>3. CASE q = "EMPTY"
    <3>1. bfreelist[q] = <<>>
      BY <2>3, NoEmpty
    <3> QED BY <2>2, <3>1
  <2>4. CASE q \in {"LRU", "AGE"}
    <3>1. i \notin Dirty(p, q)
      BY <2>4
    <3> QED BY <2>2, <3>1 DEF Dirty
  <2> QED BY <2>3, <2>4 DEF BQ
<1>3. CASE Has(c, "BUSY")
  <2>1. PICK q \in Procs : c \in Held(q)
    BY <1>1, <1>3 DEF Fits, Owned, Delayed
  <2>2. q # p
    <3>1. u[p].tp = NONE /\ u[p].ep = NONE /\ u[p].hold = NONE
      BY <1>1 DEF LockInv, Shape, Shapely, TpAt, HoldAt
    <3> QED BY <2>1, <3>1 DEF Held
  <2>3. ~Has(c, "INVAL")
    BY <1>1 DEF Delayed, Live
  <2>4. u[q].tp = c /\ u[q].op = "geteblk" => FALSE
    BY <2>1, <2>3 DEF DataInv, Named, TpNamed, Held
  <2> QED BY <1>1, <2>1, <2>2, <2>4, ClosedApart DEF Held
<1> QED BY <1>2, <1>3

LEMMA BflushDoneData ==
  ASSUME Ample, MemInv, DataInv, FsInv', NEW p \in Procs, BflushDone(p)
  PROVE  DataInv'
<1>1. LockInv /\ cpu \in {p, NONE} /\ u[p].pc = "bflush" /\ Quiet /\ UNCHANGED <<buf, cur>>
  BY DEF MemInv, BflushDone, Quiet, Running
<1>2. u[p].op \in {"sync", "close"}
  BY <1>1, AskedFor, StepsAre DEF DataInv
<1>3. CASE u[p].op # "close"
  <2>1. u' = [u EXCEPT ![p] = Idle]
    BY <1>3 DEF BflushDone, Return
  <2> QED BY <1>1, <1>2, <2>1, IdleNamed, QuietMoves, Zenon
<1>4. CASE u[p].op = "close"
  <2>1. Turns(p, "binval", u[p].tp, u[p].ep, u[p].hold)
    BY <1>1, <1>4, TurnPc DEF BflushDone, Goto, LockInv
  <2>2. \A c \in Bufs : Has(c, "DELWRI") => buf[c].b_dev # u[p].req.dev
    BY <1>1, <1>4, Cleaned DEF BflushDone
  <2>3. Clean(p)'
    BY <1>1, <2>1, <2>2 DEF Clean, Has, Turns, SameTask
  <2>4. SameClaims(p) /\ AllocOk(p)'
    BY <1>1, <2>1 DEF Turns, SameTask, SameClaims, AllocOk, Gained
  <2> QED BY <1>1, <1>2, <2>1, <2>3, <2>4, QuietTurn
<1> QED BY <1>3, <1>4

LEMMA BinvalData ==
  ASSUME LockInv, DataInv, FsInv', NEW p \in Procs, Binval(p)
  PROVE  DataInv'
<1>1. /\ cpu \in {p, NONE} /\ u[p].pc = "binval" /\ u[p].op = "close"
      /\ UNCHANGED <<ioq, cur, diskcur, lost, fsize>>
      /\ u' = [u EXCEPT ![p] = Idle]
  BY AskedFor, StepsAre DEF Binval, Running, Return, DataInv
<1>2. PICK d : d = u[p].req.dev
  OBVIOUS
<1>3. ASSUME NEW c \in Bufs
      PROVE  /\ buf[c].b_dev # d => buf'[c] = buf[c]
             /\ SameBlock(c) /\ buf'[c].b_bufsize = buf[c].b_bufsize
             /\ \A f : Has(c, f)' <=> Has(c, f) \/ (buf[c].b_dev = d /\ f = "INVAL")
  <2>1. buf[c] \in Buf
    BY DEF LockInv, TypeOK
  <2>2. CASE buf[c].b_dev = d
    <3>1. buf'[c] = [buf[c] EXCEPT !.b_flags = buf[c].b_flags \cup {"INVAL"}]
      BY <1>2, <2>2 DEF Binval
    <3> QED BY <2>1, <2>2, <3>1 DEF Buf, SameBlock, Has
  <2>3. CASE buf[c].b_dev # d
    <3>1. buf'[c] = buf[c]
      BY <1>2, <2>3 DEF Binval
    <3> QED BY <2>3, <3>1 DEF SameBlock, Has
  <2> QED BY <2>2, <2>3
<1>4. ASSUME NEW c \in Bufs, buf[c].b_dev # d PROVE Bare(c)
  BY <1>3, <1>4, KeptBare
<1>5. Moves(p, {})
  BY <1>1, IdleNamed DEF Moves
<1>6. ASSUME NEW s \in Copies PROVE DataAt(s)'
  <2>1. DataAt(s)
    BY DEF DataInv
  <2>2. ASSUME NEW c \in Bufs
        PROVE  /\ Live(c)' => Live(c)
               /\ In(c, s)' <=> In(c, s)
               /\ \A f \in {"READ", "DONE", "ERROR", "DELWRI"} : Has(c, f)' <=> Has(c, f)
               /\ Stays(c)
    BY <1>3, <1>5, MovesStay, BlockIn DEF Live, SameBlock
  <2> QED BY <1>1, <2>1, <2>2, StepQuiet
<1>7. ASSUME NEW c \in Bufs PROVE Delayed(c)'
  <2>1. CASE buf[c].b_dev = d
    <3>1. ~Has(c, "DELWRI")
      BY <1>1, <1>2, <2>1 DEF DataInv, Clean
    <3>2. ~Has(c, "DELWRI")'
      BY <1>3, <3>1
    <3> QED BY <3>2 DEF Delayed
  <2>2. CASE buf[c].b_dev # d
    <3>1. Queued(c)' <=> Queued(c)
      BY <1>1 DEF Queued
    <3> QED BY <1>1, <1>4, <1>5, <2>2, <3>1, BareRecut, DelayedKept
  <2> QED BY <2>1, <2>2
<1>8. ASSUME NEW q \in Procs PROVE Named(u[q])' /\ AllocOk(q)' /\ Clean(q)'
  <2>1. CASE q = p
    BY <1>1, <2>1, IdleNamed, Zenon
  <2>2. CASE q # p
    <3>1. u'[q] = u[q] /\ Named(u[q]) /\ AllocOk(q) /\ Closing(q)
      BY <1>1, <2>2, IdleNamed, AskedFor DEF DataInv
    <3>2. u[q].pc # "alloc" /\ u[q].pc # "binval"
      BY <1>1, <2>2, <3>1, BufCacheAssumption DEF AllocOk, Closing
    <3>3. u[q].ep # NONE => Bare(u[q].ep)
      BY <1>1, <1>2, <1>4, <2>2, ClosedApart, HeldBy
    <3>4. u[q].hold # NONE => Bare(u[q].hold)
      BY <1>1, <1>2, <1>4, <2>2, ClosedApart, HeldBy
    <3>5. TpNamed(u[q])'
      <4>1. CASE u[q].tp # NONE /\ u[q].op = "geteblk"
        <5>1. Has(u[q].tp, "INVAL")' /\ cur'[u[q].tp] = {}
          BY <1>1, <1>3, <3>1, <4>1, HeldBy DEF Named, TpNamed
        <5> QED BY <3>1, <4>1, <5>1 DEF TpNamed, Has
      <4>2. CASE u[q].tp # NONE /\ u[q].op # "geteblk"
        <5>1. Bare(u[q].tp)
          BY <1>1, <1>2, <1>4, <2>2, <4>2, ClosedApart, HeldBy
        <5> QED BY <1>1, <3>1, <5>1, TpKept DEF Named, SameClaims
      <4>3. CASE u[q].tp = NONE
        BY <3>1, <4>3 DEF TpNamed
      <4> QED BY <4>1, <4>2, <4>3
    <3>6. Named(u[q])'
      BY <3>1, <3>3, <3>4, <3>5, EpKept, HoldKept DEF Named
    <3> QED BY <3>1, <3>2, <3>6 DEF AllocOk, Clean
  <2> QED BY <2>1, <2>2
<1>9. Full'
  BY <1>3 DEF DataInv, Full
<1> QED BY <1>6, <1>7, <1>8, <1>9 DEF DataInv

-----------------------------------------------------------------------------
(* The calls from the file system.                                         *)

LEMMA DelayedSector ==
  ASSUME LockInv, DataInv, NEW c \in Bufs, Has(c, "DELWRI")
  PROVE  <<buf[c].b_dev, buf[c].b_blkno>> \in AllSectors
<1>1. PICK s : s = <<buf[c].b_dev, buf[c].b_blkno>>
  BY Zenon
<1>2. Delayed(c) /\ TypeOK
  BY DEF DataInv, LockInv
<1>3. In(c, s)
  BY <1>1, <1>2, FirstIn DEF Delayed
<1>4. s \in Copies
  BY <1>2, <1>3, ExtentType DEF In
<1>5. Right(c, s)
  BY <1>4 DEF DataInv, DataAt
<1> QED BY <1>1, <1>2, <1>3, <1>5 DEF Right, Delayed

LEMMA Begun ==
  ASSUME LockInv, DataInv, FsInv', NEW p \in Procs, cpu \in {p, NONE}, u[p].pc = "idle",
         u'[p].tp = NONE, u'[p].ep = NONE, u'[p].hold = NONE,
         u'[p].pc \notin {"alloc", "binval"},
         \A q \in Procs \ {p} : u'[q] = u[q],
         UNCHANGED <<buf, ioq, cur, diskcur, lost>>, \A c \in Bufs : Recut(c)
  PROVE  DataInv'
<1>1. Named(u[p])' /\ AllocOk(p)' /\ Clean(p)'
  BY DEF Named, TpNamed, EpNamed, HoldNamed, AllocOk, Clean
<1>2. u[p].op = "none"
  BY AskedFor, StepsAre DEF DataInv
<1>3. Moves(p, {})
  BY <1>2 DEF Moves
<1>4. \A c \in Bufs : Bare(c) /\ buf'[c].b_bufsize = buf[c].b_bufsize
  BY KeptBare
<1> QED BY <1>1, <1>3, <1>4, QuietKept

LEMMA BeginData ==
  ASSUME LockInv, DataInv, FsInv', NEW p \in Procs, NEW pc, NEW op, NEW r,
         pc \notin {"alloc", "binval"}, Begin(p, op, pc, r)
  PROVE  DataInv'
<1>1. UNCHANGED <<buf, ioq, cur, diskcur, lost, fsize>>
  BY DEF Begin
<1>2. \A c \in Bufs : Recut(c)
  BY <1>1, SameFacts
<1> QED BY <1>1, <1>2, BegunWith, Begun DEF LockInv

(* One block is cut anew by its own process.                               *)
LEMMA CutOne ==
  ASSUME LockInv, DataInv, NEW d \in Devs, NEW b \in Sectors, NEW n,
         fsize' = [fsize EXCEPT ![<<d, b>>] = n], NEW c \in Bufs,
         buf'[c].b_dev = buf[c].b_dev, buf'[c].b_blkno = buf[c].b_blkno,
         \/ n = 0
         \/ \E p \in Procs : /\ u'[p].op \in {"alloc", "extended"}
                             /\ u'[p].req.dev = d /\ u'[p].req.blkno = b
  PROVE  Recut(c)
<1> SUFFICES ASSUME Has(c, "DELWRI") PROVE Cut(c)' \in {0, Cut(c)} \/ Making(c)'
  BY DEF Recut
<1>1. PICK s : s = <<buf[c].b_dev, buf[c].b_blkno>>
  BY Zenon
<1>2. s \in AllSectors /\ fsize \in [AllSectors -> 0..MaxSize]
  BY <1>1, DelayedSector DEF LockInv, TypeOK
<1>3. CASE s # <<d, b>>
  <2>1. fsize'[s] = fsize[s]
    BY <1>2, <1>3
  <2> QED BY <1>1, <2>1 DEF Cut
<1>4. CASE s = <<d, b>> /\ n = 0
  <2>1. fsize'[s] = 0
    BY <1>2, <1>4
  <2> QED BY <1>1, <2>1 DEF Cut
<1>5. CASE s = <<d, b>> /\ n # 0
  <2>1. buf'[c].b_dev = d /\ buf'[c].b_blkno = b
    BY <1>1, <1>5
  <2>2. PICK p \in Procs : /\ u'[p].op \in {"alloc", "extended"}
                           /\ u'[p].req.dev = d /\ u'[p].req.blkno = b
    BY <1>5
  <2> QED BY <2>1, <2>2 DEF Making
<1> QED BY <1>3, <1>4, <1>5

LEMMA AllocData ==
  ASSUME LockInv, DataInv, FsInv', NEW p \in Procs, CallAlloc(p)
  PROVE  DataInv'
<1>1. PICK d \in Devs, b \in Sectors, n \in 1..MaxSize :
        /\ fsize' = [fsize EXCEPT ![<<d, b>>] = n]
        /\ u' = [u EXCEPT ![p] = [Idle EXCEPT !.pc = "getblk", !.op = "alloc",
                          !.req = [dev |-> d, blkno |-> b, size |-> n]]]
  BY Zenon DEF CallAlloc
<1>2. PICK t : t = [dev |-> d, blkno |-> b, size |-> n]
  BY Zenon
<1>3. /\ u'[p].pc = "getblk" /\ u'[p].op = "alloc" /\ u'[p].req = t /\ u'[p].tp = NONE
      /\ u'[p].ep = NONE /\ u'[p].hold = NONE /\ \A q \in Procs \ {p} : u'[q] = u[q]
  BY <1>1, <1>2 DEF Idle, LockInv, TypeOK
<1>4. t.dev = d /\ t.blkno = b
  BY <1>2
<1>5. /\ UNCHANGED <<buf, ioq, cur, diskcur, lost>>
      /\ cpu \in {p, NONE} /\ u[p].pc = "idle"
  BY DEF CallAlloc, Running
<1>6. ASSUME NEW c \in Bufs PROVE Recut(c)
  <2>1. buf'[c].b_dev = buf[c].b_dev /\ buf'[c].b_blkno = buf[c].b_blkno
    BY <1>5
  <2>2. \E q \in Procs : /\ u'[q].op \in {"alloc", "extended"}
                         /\ u'[q].req.dev = d /\ u'[q].req.blkno = b
    BY <1>3, <1>4
  <2> QED BY <1>1, <2>1, <2>2, CutOne, Zenon
<1> QED BY <1>3, <1>5, <1>6, Begun

LEMMA FreeData ==
  ASSUME LockInv, DataInv, FsInv', NEW p \in Procs, Free(p)
  PROVE  DataInv'
<1>1. PICK d \in Devs, b \in Sectors : fsize' = [fsize EXCEPT ![<<d, b>>] = 0]
  BY Zenon DEF Free
<1>2. /\ UNCHANGED <<buf, ioq, cur, diskcur, lost, u>>
      /\ cpu \in {p, NONE} /\ u[p].pc = "idle"
  BY DEF Free
<1>3. ASSUME NEW c \in Bufs PROVE Recut(c)
  <2>1. buf'[c].b_dev = buf[c].b_dev /\ buf'[c].b_blkno = buf[c].b_blkno
    BY <1>2
  <2>2. PICK n : n = 0
    OBVIOUS
  <2>3. fsize' = [fsize EXCEPT ![<<d, b>>] = n]
    BY <1>1, <2>2
  <2> QED BY <2>1, <2>2, <2>3, CutOne, Zenon
<1>4. u[p] = Idle
  BY <1>2, AskedFor DEF DataInv, Asks
<1>5. u[p].tp = NONE /\ u[p].ep = NONE /\ u[p].hold = NONE
  BY <1>4, IdleAsks
<1> QED BY <1>2, <1>3, <1>5, Begun

LEMMA CallData ==
  ASSUME LockInv, DataInv, FsInv', NEW p \in Procs, Call(p)
  PROVE  DataInv'
<1>1. CASE CallBread(p) \/ CallBlkflush(p) \/ CallGetblk(p) \/ CallGeteblk(p)
           \/ CallSync(p) \/ CallClose(p)
  <2>1. PICK pc, op, r : pc \notin {"alloc", "binval"} /\ Begin(p, op, pc, r)
    BY <1>1 DEF CallBread, CallBlkflush, CallGetblk, CallGeteblk, CallSync, CallClose
  <2> QED BY <2>1, BeginData
<1>2. CASE CallBreada(p)
  <2>1. PICK r, t : u' = [u EXCEPT ![p] = [Idle EXCEPT !.pc = "breada", !.op = "breada",
               !.req = r, !.main = r, !.ra = t]]
    BY <1>2, Zenon DEF CallBreada
  <2>2. /\ u'[p].pc = "breada" /\ u'[p].tp = NONE /\ u'[p].ep = NONE /\ u'[p].hold = NONE
        /\ \A q \in Procs \ {p} : u'[q] = u[q]
    BY <2>1 DEF Idle, LockInv, TypeOK
  <2>3. /\ UNCHANGED <<buf, ioq, cur, diskcur, lost, fsize>>
        /\ cpu \in {p, NONE} /\ u[p].pc = "idle"
    BY <1>2 DEF CallBreada, Running
  <2> QED BY <2>2, <2>3, SameFacts, Begun
<1>3. CASE CallExtend(p)
  <2>1. PICK r, t : u' = [u EXCEPT ![p] = [Idle EXCEPT !.pc = "getblk", !.op = "extend",
               !.req = r, !.main = t]]
    BY <1>3, Zenon DEF CallExtend
  <2>2. /\ u'[p].pc = "getblk" /\ u'[p].tp = NONE /\ u'[p].ep = NONE /\ u'[p].hold = NONE
        /\ \A q \in Procs \ {p} : u'[q] = u[q]
    BY <2>1 DEF Idle, LockInv, TypeOK
  <2>3. /\ UNCHANGED <<buf, ioq, cur, diskcur, lost, fsize>>
        /\ cpu \in {p, NONE} /\ u[p].pc = "idle"
    BY <1>3 DEF CallExtend, Running
  <2> QED BY <2>2, <2>3, SameFacts, Begun
<1> QED BY <1>1, <1>2, <1>3, AllocData, FreeData DEF Call

-----------------------------------------------------------------------------
(* A header is taken for another block.                                    *)

LEMMA NoExtent ==
  ASSUME NEW B \in Buf, B.b_bcount = 0
  PROVE  Extent(B) = {}
<1>1. PICK b, n : b = B.b_blkno /\ n = B.b_bcount
  OBVIOUS
<1>2. Sectors \cup {0} \subseteq Nat
  BY BufCacheAssumption
<1>3. b \in Nat
  <2>1. b \in Sectors \cup {0}
    BY <1>1 DEF Buf
  <2> QED BY <1>2, <2>1
<1>4. b..(b + 0 - 1) = {}
  BY <1>3
<1>5. n = 0
  BY <1>1
<1>6. b..(b + n - 1) = {}
  BY <1>4, <1>5
<1> QED BY <1>1, <1>6 DEF Extent, SectorsOf

LEMMA BoundKept ==
  ASSUME LockInv, TypeOK', DataInv, FsInv', NEW p \in Procs, NEW x \in Bufs, NEW npc,
         cpu \in {p, NONE}, ~Has(x, "BUSY"), ~Has(x, "DELWRI"), u[p].tp = NONE,
         u[p].ep = NONE,
         Turns(p, npc, x, u[p].ep, u[p].hold),
         \A c \in Bufs \ {x} : Same(c),
         buf'[x].b_bcount = 0, ~Has(x, "DELWRI")', cur'[x] = {},
         buf'[x].b_bufsize = buf[x].b_bufsize,
         UNCHANGED <<ioq, diskcur, lost, fsize>>,
         TpNamed(u[p])', AllocOk(p)', Clean(p)'
  PROVE  DataInv'
<1>1. ~Queued(x)
  BY LockFacts
<1>2. Moves(p, {x})
  BY DEF Moves, Turns, SameTask
<1>3. \A c \in Bufs \ {x} : Same(c) /\ Recut(c) /\ Bare(c)
  BY SameFacts DEF Same
<1>4. u[p].hold # NONE => u[p].hold \in Bufs \ {x}
  BY HeldBy
<1>5. HoldNamed(u[p])'
  BY <1>3, <1>4, HoldKept DEF DataInv, Named, Turns, SameTask
<1>6. Named(u[p])'
  BY <1>5 DEF Named, EpNamed, Turns
<1>7. Delayed(x)'
  BY DEF Delayed
<1>8. ASSUME NEW s \in Copies PROVE Touches(x, s)
  <2>1. buf'[x] \in Buf
    BY DEF TypeOK
  <2>2. ~In(x, s)'
    BY <2>1, NoExtent DEF In
  <2>3. Right(x, s)'
    BY <2>2 DEF Right
  <2> QED BY <2>2, <2>3 DEF Touches, Holds
<1> QED BY <1>1, <1>2, <1>3, <1>6, <1>7, <1>8, TouchKept

LEMMA VictimBound ==
  ASSUME LockInv, NEW x \in Bufs, NEW fs, NEW d, NEW b,
         buf' = Bound(x, fs, d, b), cur' = [cur EXCEPT ![x] = {}]
  PROVE  /\ buf'[x].b_flags = fs /\ buf'[x].b_dev = d /\ buf'[x].b_blkno = b
         /\ buf'[x].b_bcount = 0 /\ buf'[x].b_bufsize = buf[x].b_bufsize
         /\ cur'[x] = {} /\ \A c \in Bufs \ {x} : Same(c)
<1>1. buf[x] \in Buf /\ buf \in [Bufs -> Buf] /\ cur \in [Bufs -> SUBSET Copies]
  BY DEF LockInv, TypeOK
<1>2. buf'[x] = [buf[x] EXCEPT !.b_flags = fs, !.b_dev = d, !.b_blkno = b, !.b_bcount = 0]
  BY <1>1 DEF Bound
<1>3. \A c \in Bufs \ {x} : Same(c)
  BY <1>1 DEF Bound, Same
<1> QED BY <1>1, <1>2, <1>3 DEF Buf

LEMMA GetblkBindData ==
  ASSUME LockInv, TypeOK', DataInv, FsInv', NEW p \in Procs, GetblkBind(p)
  PROVE  DataInv'
<1>1. PICK x, r : x = Victim /\ r = u[p].req
  OBVIOUS
<1>2. x \in Bufs /\ ~Has(x, "BUSY")
  BY <1>1, VictimFree DEF GetblkBind
<1>3. /\ cpu \in {p, NONE} /\ ~Has(x, "DELWRI") /\ u[p].pc = "getnew" /\ u[p].op # "geteblk"
      /\ UNCHANGED <<ioq, diskcur, lost, fsize>>
  BY <1>1 DEF GetblkBind, NeedsNew, Running
<1>4. PICK fs : fs = {"BUSY"}
  BY Zenon
<1>5. buf' = Bound(x, fs, r.dev, r.blkno) /\ cur' = [cur EXCEPT ![x] = {}]
  BY <1>1, <1>4 DEF GetblkBind
<1>6. /\ buf'[x].b_flags = fs /\ buf'[x].b_dev = r.dev /\ buf'[x].b_blkno = r.blkno
      /\ buf'[x].b_bcount = 0 /\ buf'[x].b_bufsize = buf[x].b_bufsize
      /\ cur'[x] = {} /\ \A c \in Bufs \ {x} : Same(c)
  BY <1>2, <1>5, VictimBound, Zenon
<1>7. PICK npc : npc = "overlap"
  OBVIOUS
<1>8. u' = [u EXCEPT ![p] = [u[p] EXCEPT !.pc = npc, !.tp = x]]
  BY <1>1, <1>7 DEF GetblkBind
<1>9. Turns(p, npc, x, u[p].ep, u[p].hold)
  BY <1>8, TurnTp, Zenon DEF LockInv
<1>10. u[p].tp = NONE /\ u[p].ep = NONE
  BY <1>3 DEF LockInv, Shape, Shapely, TpAt
<1>11. ~Has(x, "DONE")' /\ ~Has(x, "INVAL")' /\ ~Has(x, "DELWRI")'
  BY <1>4, <1>6 DEF Has
<1>12. r.size \in Nat
  BY <1>1, <1>3, RequestNumbers, ProcType DEF LockInv, Proc
<1>13. TpNamed(u[p])'
  <2>1. u'[p].pc = "overlap" /\ u'[p].op # "geteblk" /\ u'[p].req = r /\ u'[p].tp = x
    BY <1>1, <1>3, <1>7, <1>9 DEF Turns, SameTask
  <2>2. buf'[x].b_bcount <= r.size
    BY <1>6, <1>12
  <2> QED BY <1>6, <1>11, <2>1, <2>2 DEF TpNamed, At, Gained, Has
<1>14. AllocOk(p)' /\ Clean(p)'
  BY <1>7, <1>9 DEF Turns, AllocOk, Clean
<1> QED BY <1>2, <1>3, <1>6, <1>9, <1>10, <1>11, <1>13, <1>14, BoundKept

LEMMA GeteblkBindData ==
  ASSUME LockInv, TypeOK', DataInv, FsInv', NEW p \in Procs, GeteblkBind(p)
  PROVE  DataInv'
<1>1. PICK x, b : x = Victim /\ b = buf[x].b_blkno
  OBVIOUS
<1>2. x \in Bufs /\ ~Has(x, "BUSY")
  BY <1>1, VictimFree DEF GeteblkBind
<1>3. /\ cpu \in {p, NONE} /\ ~Has(x, "DELWRI") /\ u[p].pc = "getnew" /\ u[p].op = "geteblk"
      /\ cpu' = p /\ UNCHANGED <<ioq, diskcur, lost, fsize>>
  BY <1>1 DEF GeteblkBind, NeedsNew, Running
<1>4. PICK fs : fs = {"BUSY", "INVAL"}
  BY Zenon
<1>5. buf' = Bound(x, fs, NODEV, b) /\ cur' = [cur EXCEPT ![x] = {}]
  BY <1>1, <1>4 DEF GeteblkBind
<1>6. /\ buf'[x].b_flags = fs
      /\ buf'[x].b_bcount = 0 /\ buf'[x].b_bufsize = buf[x].b_bufsize
      /\ cur'[x] = {} /\ \A c \in Bufs \ {x} : Same(c)
  BY <1>2, <1>5, VictimBound, Zenon
<1>7. PICK npc : npc = "alloc"
  OBVIOUS
<1>8. u' = [u EXCEPT ![p] = [u[p] EXCEPT !.pc = npc, !.tp = x]]
  BY <1>1, <1>7 DEF GeteblkBind
<1>9. Turns(p, npc, x, u[p].ep, u[p].hold)
  BY <1>8, TurnTp, Zenon DEF LockInv
<1>10. u[p].tp = NONE /\ u[p].ep = NONE
  BY <1>3 DEF LockInv, Shape, Shapely, TpAt
<1>11. Has(x, "INVAL")' /\ ~Has(x, "DELWRI")'
  BY <1>4, <1>6 DEF Has
<1>12. u'[p].pc = "alloc" /\ u'[p].op = "geteblk" /\ u'[p].tp = x
  BY <1>3, <1>7, <1>9 DEF Turns, SameTask
<1>13. TpNamed(u[p])'
  BY <1>6, <1>11, <1>12 DEF TpNamed, Has
<1>14. AllocOk(p)' /\ Clean(p)'
  BY <1>3, <1>12 DEF AllocOk, Clean
<1> QED BY <1>2, <1>3, <1>6, <1>9, <1>10, <1>11, <1>13, <1>14, BoundKept

-----------------------------------------------------------------------------
(* A search that finds a free buffer.                                      *)

LEMMA FreeStays ==
  ASSUME LockInv, NEW x \in Bufs, ~Has(x, "BUSY")
  PROVE  ~Fills(x) /\ ~Grown(x) /\ Stays(x) /\ ~Queued(x) /\ \A p \in Procs : x \notin Held(p)
<1>1. \A p \in Procs : x \notin Held(p)
  BY HeldBy
<1>2. \A p \in Procs : u[p].tp # x
  BY <1>1, BufCacheAssumption DEF Held
<1> QED BY <1>1, <1>2, LockFacts DEF Fills, Grown, Stays

(* A header with other flags.                                              *)
LEMMA Reflagged ==
  ASSUME LockInv, NEW x \in Bufs, NEW F, NEW B, B = [buf[x] EXCEPT !.b_flags = F],
         buf' = [buf EXCEPT ![x] = B]
  PROVE  /\ buf'[x].b_flags = F /\ SameBlock(x)
         /\ buf'[x].b_bufsize = buf[x].b_bufsize
         /\ \A c \in Bufs \ {x} : buf'[c] = buf[c]
         /\ \A f : Has(x, f)' <=> f \in F
<1>1. buf[x] \in Buf /\ buf \in [Bufs -> Buf]
  BY DEF LockInv, TypeOK
<1>2. buf'[x] = B
  BY <1>1
<1> QED BY <1>1, <1>2 DEF Buf, SameBlock, Has

LEMMA TakenIs ==
  ASSUME LockInv, NEW x \in Bufs, NEW fs
  PROVE  /\ Taken(x, fs)[x] = [buf[x] EXCEPT !.b_flags = buf[x].b_flags \cup {"BUSY"} \cup fs]
         /\ Taken(x, fs)[x].b_flags = buf[x].b_flags \cup {"BUSY"} \cup fs
         /\ Taken(x, fs)[x].b_bcount = buf[x].b_bcount
<1>1. buf[x] \in Buf /\ buf \in [Bufs -> Buf]
  BY DEF LockInv, TypeOK
<1>2. Taken(x, fs)[x] = [buf[x] EXCEPT !.b_flags = buf[x].b_flags \cup {"BUSY"} \cup fs]
  BY <1>1 DEF Taken
<1> QED BY <1>1, <1>2 DEF Buf

(* A block that is read is found with the size it has, unless it is clean. *)
LEMMA DelayedSize ==
  ASSUME LockInv, DataInv, NEW p \in Procs, u[p].op \in Reads,
         NEW x \in Bufs, Has(x, "DELWRI"),
         buf[x].b_dev = u[p].req.dev, buf[x].b_blkno = u[p].req.blkno
  PROVE  buf[x].b_bcount = u[p].req.size
<1>1. PICK r : r = u[p].req
  OBVIOUS
<1>2. Real(r) /\ Exact(r)
  BY <1>1, AskedFor DEF Asks, DataInv, Gets
<1>3. Delayed(x) /\ TypeOK
  BY DEF DataInv, LockInv
<1>4. CASE Making(x)
  <2>1. PICK q \in Procs : /\ u[q].op \in {"alloc", "extended"}
                           /\ u[q].req.dev = r.dev /\ u[q].req.blkno = r.blkno
    BY <1>1, <1>4 DEF Making
  <2>2. q # p
    BY <2>1 DEF Reads
  <2>3. u[q].pc # "idle" /\ u[p].pc # "idle"
    BY <2>1, AskedFor, StepsAre DEF DataInv, Reads
  <2>4. PICK t : t = u[q].req
    OBVIOUS
  <2>5. r \in Request /\ t \in Request
    BY <1>1, <1>3, <2>3, <2>4, ProcType DEF Proc
  <2>6. r # NONE /\ t # NONE
    BY <2>5, BufCacheAssumption DEF Request
  <2>7. r \in Requests(p) /\ t \in Requests(q) /\ Growing(q)
    BY <1>1, <2>1, <2>4, <2>6 DEF Requests, Growing
  <2>8. Span(t) \cap Span(r) = {}
    BY <2>2, <2>7 DEF DataInv, FsInv, Apart
  <2>9. Real(t)
    BY <2>1, <2>4, AskedFor DEF Asks, DataInv, Gets
  <2>10. <<r.dev, r.blkno>> \in Span(r) /\ <<t.dev, t.blkno>> \in Span(t)
    BY <1>2, <2>5, <2>9, SpanHas DEF Real
  <2>11. t.dev = r.dev /\ t.blkno = r.blkno
    BY <2>1, <2>4
  <2> QED BY <2>8, <2>10, <2>11
<1>5. CASE ~Making(x)
  BY <1>1, <1>2, <1>3, <1>5 DEF Delayed, Exact, Real
<1> QED BY <1>4, <1>5

-----------------------------------------------------------------------------

LEMMA BwrittenHas ==
  ASSUME NEW B \in Buf
  PROVE  /\ \A f \in {"READ", "DONE", "ERROR", "DELWRI"} : f \notin Bwritten(B).b_flags
         /\ \A f \in Flags \ {"READ", "DONE", "ERROR", "DELWRI", "AGE"} :
              f \in Bwritten(B).b_flags <=> f \in B.b_flags
         /\ Bwritten(B).b_dev = B.b_dev /\ Bwritten(B).b_blkno = B.b_blkno
         /\ Bwritten(B).b_bcount = B.b_bcount /\ Bwritten(B).b_bufsize = B.b_bufsize
<1>1. PICK F : F = (B.b_flags \ {"READ", "DONE", "ERROR", "DELWRI"})
                        \cup (IF {"ASYNC", "DELWRI"} \subseteq B.b_flags
                                THEN {"AGE"} ELSE {})
  BY Zenon
<1>2. Bwritten(B) = [B EXCEPT !.b_flags = F]
  BY <1>1 DEF Bwritten
<1>3. Bwritten(B).b_flags = F
  BY <1>2 DEF Buf
<1> QED BY <1>1, <1>2, <1>3 DEF Buf

(* What the search does to the header it found, in each of its outcomes.   *)
Found(p, x, r) ==
  /\ x \in Bufs /\ ~Has(x, "BUSY") /\ At(x, r)
  /\ cpu \in {p, NONE} /\ cpu' = p /\ u[p].pc = "getblk" /\ r = u[p].req
  /\ UNCHANGED <<cur, diskcur, lost, fsize>>
  /\ \A c \in Bufs \ {x} : buf'[c] = buf[c]
  /\ SameBlock(x) /\ buf'[x].b_bufsize = buf[x].b_bufsize
  /\ Has(x, "INVAL")' <=> Has(x, "INVAL")
Outcome(p, x, n) ==
  \/ /\ n = buf[x].b_bcount /\ Turns(p, "gotten", x, u[p].ep, u[p].hold) /\ ioq' = ioq
     /\ \A f \in DataFlags : Has(x, f)' <=> Has(x, f)
  \/ /\ n < buf[x].b_bcount /\ Has(x, "DELWRI") /\ Strategy(x)
     /\ Turns(p, "swait", x, u[p].ep, u[p].hold)
     /\ \A f \in {"READ", "DONE", "ERROR", "DELWRI"} : ~Has(x, f)'
  \/ /\ n < buf[x].b_bcount /\ ~Has(x, "DELWRI") /\ ioq' = ioq
     /\ Turns(p, "alloc", x, u[p].ep, u[p].hold)
     /\ \A f \in DataFlags : Has(x, f)' <=> Has(x, f)
  \/ /\ n > buf[x].b_bcount /\ ioq' = ioq
     /\ Turns(p, "overlap", x, u[p].ep, u[p].hold)
     /\ ~Has(x, "DONE")' /\ \A f \in DataFlags \ {"DONE"} : Has(x, f)' <=> Has(x, f)

LEMMA FoundOut ==
  ASSUME LockInv, NEW p \in Procs, GetblkHit(p)
  PROVE  \E x, r : Found(p, x, r) /\ Outcome(p, x, r.size)
<1>1. PICK r : r = u[p].req
  OBVIOUS
<1>2. PICK x \in Incore(r.dev, r.blkno) :
        /\ ~Has(x, "BUSY") /\ bfreelist' = Notavail(x)
        /\ Brealloc(p, x, Taken(x, {})[x], r.size)
  BY <1>1 DEF GetblkHit
<1>3. /\ cpu \in {p, NONE} /\ cpu' = p /\ u[p].pc = "getblk"
      /\ UNCHANGED <<flwanted, wchan, fsize, cur, diskcur, lost>>
  BY DEF GetblkHit, Running
<1>4. x \in Bufs /\ At(x, r)
  BY <1>2 DEF Incore, At
<1>5. PICK B : B = Taken(x, {})[x]
  OBVIOUS
<1>6. PICK F : F = buf[x].b_flags \cup {"BUSY"}
  BY Zenon
<1>7. B = [buf[x] EXCEPT !.b_flags = F] /\ B.b_flags = F /\ B.b_bcount = buf[x].b_bcount
  BY <1>4, <1>5, <1>6, TakenIs
<1>8. B \in Buf
  BY <1>4, <1>5, TakenType DEF LockInv, TypeOK
<1>9. TypeOK
  BY DEF LockInv
<1>10. \A f \in DataFlags : f \in F <=> Has(x, f)
  BY <1>6 DEF DataFlags, Has
<1>11. CASE r.size = B.b_bcount /\ buf' = [buf EXCEPT ![x] = B] /\ ioq' = ioq
            /\ u' = [u EXCEPT ![p] = [u[p] EXCEPT !.pc = "gotten", !.tp = x]]
  <2>1. /\ SameBlock(x) /\ buf'[x].b_bufsize = buf[x].b_bufsize
        /\ \A c \in Bufs \ {x} : buf'[c] = buf[c]
        /\ \A f : Has(x, f)' <=> f \in F
    BY <1>4, <1>7, <1>11, Reflagged, Zenon
  <2>2. Turns(p, "gotten", x, u[p].ep, u[p].hold)
    BY <1>9, <1>11, TurnTp, Zenon
  <2> QED BY <1>1, <1>2, <1>3, <1>4, <1>7, <1>10, <1>11, <2>1, <2>2 DEF Found, Outcome, DataFlags
<1>12. CASE r.size < B.b_bcount /\ "DELWRI" \in B.b_flags
            /\ buf' = [buf EXCEPT ![x] = Bwritten(B)] /\ Strategy(x)
            /\ u' = [u EXCEPT ![p] = [u[p] EXCEPT !.pc = "swait", !.tp = x]]
  <2>1. buf'[x] = Bwritten(B) /\ \A c \in Bufs \ {x} : buf'[c] = buf[c]
    BY <1>4, <1>9, <1>12 DEF TypeOK
  <2>2. Turns(p, "swait", x, u[p].ep, u[p].hold)
    BY <1>9, <1>12, TurnTp, Zenon
  <2>3. /\ buf[x] \in Buf /\ B.b_dev = buf[x].b_dev /\ B.b_blkno = buf[x].b_blkno
        /\ B.b_bufsize = buf[x].b_bufsize
    BY <1>4, <1>7, <1>9 DEF TypeOK, Buf
  <2>4. SameBlock(x) /\ buf'[x].b_bufsize = buf[x].b_bufsize
    <3>1. /\ Bwritten(B).b_dev = B.b_dev /\ Bwritten(B).b_blkno = B.b_blkno
          /\ Bwritten(B).b_bcount = B.b_bcount /\ Bwritten(B).b_bufsize = B.b_bufsize
      BY <1>8, BwrittenHas
    <3> QED BY <1>7, <2>1, <2>3, <3>1 DEF SameBlock
  <2>5. \A f \in {"READ", "DONE", "ERROR", "DELWRI"} : ~Has(x, f)'
    BY <1>8, <2>1, BwrittenHas DEF Has
  <2>6. Has(x, "INVAL")' <=> Has(x, "INVAL")
    <3>1. "INVAL" \in Bwritten(B).b_flags <=> "INVAL" \in B.b_flags
      BY <1>8, BwrittenHas DEF Flags
    <3>2. "INVAL" \in F <=> Has(x, "INVAL")
      BY <1>10 DEF DataFlags
    <3> QED BY <1>7, <2>1, <3>1, <3>2 DEF Has
  <2>7. Has(x, "DELWRI")
    BY <1>7, <1>10, <1>12 DEF DataFlags
  <2> QED BY <1>1, <1>2, <1>3, <1>4, <1>7, <1>12, <2>1, <2>2, <2>4, <2>5, <2>6, <2>7
          DEF Found, Outcome
<1>13. CASE r.size < B.b_bcount /\ "DELWRI" \notin B.b_flags
            /\ buf' = [buf EXCEPT ![x] = B] /\ ioq' = ioq
            /\ u' = [u EXCEPT ![p] = [u[p] EXCEPT !.pc = "alloc", !.tp = x]]
  <2>1. /\ SameBlock(x) /\ buf'[x].b_bufsize = buf[x].b_bufsize
        /\ \A c \in Bufs \ {x} : buf'[c] = buf[c]
        /\ \A f : Has(x, f)' <=> f \in F
    BY <1>4, <1>7, <1>13, Reflagged, Zenon
  <2>2. Turns(p, "alloc", x, u[p].ep, u[p].hold)
    BY <1>9, <1>13, TurnTp, Zenon
  <2>3. ~Has(x, "DELWRI")
    BY <1>7, <1>10, <1>13 DEF DataFlags
  <2> QED BY <1>1, <1>2, <1>3, <1>4, <1>7, <1>10, <1>13, <2>1, <2>2, <2>3
          DEF Found, Outcome, DataFlags
<1>14. CASE r.size > B.b_bcount /\ ioq' = ioq
            /\ buf' = [buf EXCEPT ![x] = [B EXCEPT !.b_flags = B.b_flags \ {"DONE"}]]
            /\ u' = [u EXCEPT ![p] = [u[p] EXCEPT !.pc = "overlap", !.tp = x]]
  <2>1. PICK G, C : G = F \ {"DONE"} /\ C = [buf[x] EXCEPT !.b_flags = G]
    BY Zenon
  <2>2. buf[x] \in Buf
    BY <1>4, <1>9 DEF TypeOK
  <2>3. [B EXCEPT !.b_flags = B.b_flags \ {"DONE"}] = C
    BY <1>7, <2>1, <2>2, Zenon DEF Buf
  <2>4. buf' = [buf EXCEPT ![x] = C]
    BY <1>14, <2>3, Zenon
  <2>5. /\ SameBlock(x) /\ buf'[x].b_bufsize = buf[x].b_bufsize
        /\ \A c \in Bufs \ {x} : buf'[c] = buf[c]
        /\ \A f : Has(x, f)' <=> f \in G
    BY <1>4, <2>1, <2>4, Reflagged, Zenon
  <2>6. Turns(p, "overlap", x, u[p].ep, u[p].hold)
    BY <1>9, <1>14, TurnTp, Zenon
  <2>7. ~Has(x, "DONE")' /\ \A f \in DataFlags \ {"DONE"} : Has(x, f)' <=> Has(x, f)
    BY <1>10, <2>1, <2>5 DEF DataFlags
  <2>8. Has(x, "INVAL")' <=> Has(x, "INVAL")
    BY <2>7 DEF DataFlags
  <2> QED BY <1>1, <1>2, <1>3, <1>4, <1>7, <1>14, <2>5, <2>6, <2>7, <2>8 DEF Found, Outcome
<1> QED BY <1>2, <1>5, <1>11, <1>12, <1>13, <1>14 DEF Brealloc

-----------------------------------------------------------------------------

LEMMA FoundSame ==
  ASSUME NEW p, NEW x, NEW r, Found(p, x, r)
  PROVE  \A c \in Bufs \ {x} : Same(c) /\ Bare(c)
<1>1. \A c \in Bufs \ {x} : buf'[c] = buf[c] /\ cur'[c] = cur[c]
  BY DEF Found
<1> QED BY <1>1, KeptBare DEF Same

(* p has x from now on, and nothing else but what it had.                  *)
LEMMA FoundKnows ==
  ASSUME LockInv, DataInv, NEW p \in Procs, NEW x, NEW r, Found(p, x, r),
         NEW npc, Turns(p, npc, x, u[p].ep, u[p].hold),
         npc \in Gained => buf[x].b_bcount = r.size,
         npc \in {"overlap", "owait"} => ~Has(x, "DONE")' /\ buf[x].b_bcount <= r.size,
         npc = "alloc" => r.size < buf[x].b_bcount /\ ~Has(x, "DELWRI")', npc # "binval"
  PROVE  Named(u[p])' /\ AllocOk(p)' /\ Clean(p)' /\ Moves(p, {x}) /\ Live(x)
<1>1. /\ x \in Bufs /\ ~Has(x, "BUSY") /\ At(x, r) /\ cpu' = p /\ u[p].pc = "getblk"
      /\ r = u[p].req /\ SameBlock(x) /\ (Has(x, "INVAL")' <=> Has(x, "INVAL"))
  BY DEF Found
<1>2. u[p].tp = NONE /\ u[p].ep = NONE
  BY <1>1 DEF LockInv, Shape, Shapely, TpAt
<1>3. u[p].op \in Gets
  BY <1>1, AskedFor, StepsAre DEF DataInv
<1>4. Real(r)
  BY <1>1, <1>3, AskedFor DEF DataInv, Asks
<1>5. Live(x)
  <2>1. NODEV \notin Devs
    BY BufCacheAssumption
  <2> QED BY <1>1, <1>4, <2>1 DEF Live, At, Real
<1>6. /\ u'[p].pc = npc /\ u'[p].tp = x /\ u'[p].ep = NONE /\ u'[p].hold = u[p].hold
      /\ u'[p].op = u[p].op /\ u'[p].req = r /\ u'[p].main = u[p].main
      /\ \A q \in Procs \ {p} : u'[q] = u[q]
  BY <1>1, <1>2 DEF Turns, SameTask
<1>7. At(x, r)' /\ buf'[x].b_bcount = buf[x].b_bcount
  BY <1>1 DEF At, SameBlock
<1>8. TpNamed(u[p])'
  <2>1. u[p].op # "geteblk"
    BY <1>3 DEF Gets, Reads
  <2> QED BY <1>6, <1>7, <2>1 DEF TpNamed, At, Has
<1>9. HoldNamed(u[p])'
  <2>1. u[p].hold # NONE => u[p].hold \in Bufs \ {x}
    BY <1>1, HeldBy
  <2>2. u[p].hold # NONE => Bare(u[p].hold)
    BY <2>1, FoundSame
  <2> QED BY <1>6, <2>2, HoldKept DEF DataInv, Named
<1>10. EpNamed(u[p])'
  BY <1>6 DEF EpNamed
<1>11. AllocOk(p)' /\ Clean(p)'
  BY <1>1, <1>6, <1>7 DEF AllocOk, Clean, Has
<1>12. Moves(p, {x})
  BY <1>1, <1>2, <1>6 DEF Moves
<1> QED BY <1>5, <1>8, <1>9, <1>10, <1>11, <1>12 DEF Named

LEMMA GetblkHitData ==
  ASSUME LockInv, DataInv, FsInv', NEW p \in Procs, GetblkHit(p)
  PROVE  DataInv'
<1>1. PICK x, r : Found(p, x, r) /\ Outcome(p, x, r.size)
  BY FoundOut
<1>2. /\ x \in Bufs /\ ~Has(x, "BUSY") /\ r = u[p].req /\ u[p].pc = "getblk"
      /\ cpu \in {p, NONE} /\ UNCHANGED <<cur, diskcur, lost, fsize>>
      /\ SameBlock(x) /\ buf'[x].b_bufsize = buf[x].b_bufsize
      /\ buf[x].b_dev = r.dev /\ buf[x].b_blkno = r.blkno
      /\ Has(x, "INVAL")' <=> Has(x, "INVAL")
      /\ \A c \in Bufs \ {x} : buf'[c] = buf[c]
  BY <1>1 DEF Found, At
<1>3. \A c \in Bufs \ {x} : Same(c)
  BY <1>1, FoundSame
<1>4. ~Fills(x) /\ Stays(x) /\ ~Queued(x)
  BY <1>2, FreeStays
<1>5. Delayed(x)
  BY <1>2 DEF DataInv
<1>6. u[p].op \in Gets
  BY <1>2, AskedFor, StepsAre DEF DataInv
<1>7. buf[x].b_bcount \in Nat /\ r.size \in Nat
  <2>1. u[p].req \in Request
    BY <1>2, ProcType DEF LockInv, Proc
  <2>2. r.size \in Nat
    BY <1>2, <2>1, RequestNumbers
  <2> QED BY <1>2, <2>2 DEF LockInv, TypeOK, Buf
(* the same size, or a clean block that is to shrink                       *)
<1>8. ASSUME NEW npc, Turns(p, npc, x, u[p].ep, u[p].hold), ioq' = ioq,
             \A f \in DataFlags : Has(x, f)' <=> Has(x, f),
             \/ npc = "gotten" /\ r.size = buf[x].b_bcount
             \/ npc = "alloc" /\ r.size < buf[x].b_bcount /\ ~Has(x, "DELWRI")
      PROVE  DataInv'
  <2>1. ~Has(x, "DELWRI") => ~Has(x, "DELWRI")'
    BY <1>8 DEF DataFlags
  <2>2. Named(u[p])' /\ AllocOk(p)' /\ Clean(p)' /\ Moves(p, {x}) /\ Live(x)
    BY <1>1, <1>8, <2>1, FoundKnows, Zenon DEF Gained
  <2>3. Live(x)'
    BY <1>2, <2>2 DEF Live, SameBlock
  <2>4. Eases(x)
    BY <1>2, <1>4, <1>5, <1>8, <2>2, <2>3 DEF Eases, Delayed, DataFlags
  <2>5. Has(x, "DONE") => Has(x, "DONE")'
    BY <1>8 DEF DataFlags
  <2> QED BY <1>2, <1>3, <1>4, <1>8, <2>2, <2>4, <2>5, EaseKept
(* a block to be written before it shrinks                                 *)
<1>9. ASSUME NEW npc, npc = "swait", Has(x, "DELWRI"), Strategy(x),
             Turns(p, npc, x, u[p].ep, u[p].hold),
             \A f \in {"READ", "DONE", "ERROR", "DELWRI"} : ~Has(x, f)'
      PROVE  DataInv'
  <2>1. Named(u[p])' /\ AllocOk(p)' /\ Clean(p)' /\ Moves(p, {x}) /\ Live(x)
    <3>1. /\ npc \notin Gained /\ npc \notin {"overlap", "owait"}
          /\ npc # "alloc" /\ npc # "binval"
      BY <1>9 DEF Gained
    <3> QED BY <1>1, <1>9, <3>1, FoundKnows, Zenon
  <2>2. ~Has(x, "READ")' /\ ~Has(x, "DONE")' /\ ~Has(x, "DELWRI")'
    BY <1>9
  <2> QED BY <1>2, <1>4, <1>9, <2>1, <2>2, SendKept
(* a block that is to grow                                                 *)
<1>10. ASSUME NEW npc, npc = "overlap", r.size > buf[x].b_bcount, ioq' = ioq,
              Turns(p, npc, x, u[p].ep, u[p].hold),
              ~Has(x, "DONE")', \A f \in DataFlags \ {"DONE"} : Has(x, f)' <=> Has(x, f)
       PROVE  DataInv'
  <2>1. buf[x].b_bcount <= r.size
    BY <1>7, <1>10
  <2>2. Named(u[p])' /\ AllocOk(p)' /\ Clean(p)' /\ Moves(p, {x}) /\ Live(x)
    BY <1>1, <1>10, <2>1, FoundKnows DEF Gained
  <2>3. Live(x)'
    BY <1>2, <2>2 DEF Live, SameBlock
  <2>4. Eases(x)
    BY <1>2, <1>4, <1>5, <1>10, <2>2, <2>3 DEF Eases, Delayed, DataFlags
  <2>5. Has(x, "DELWRI") => Fills(x)'
    <3>1. ASSUME Has(x, "DELWRI") PROVE u[p].op \notin Reads
      <4> SUFFICES ASSUME u[p].op \in Reads PROVE FALSE
        OBVIOUS
      <4>1. buf[x].b_bcount = r.size
        BY <1>2, <3>1, DelayedSize
      <4> QED BY <1>7, <1>10, <4>1
    <3>2. ASSUME Has(x, "DELWRI")
          PROVE  u'[p].tp = x /\ u'[p].op \in {"alloc", "extended"} /\ u'[p].pc = "overlap"
      BY <1>6, <1>10, <3>1, <3>2 DEF Gets, Turns, SameTask
    <3> QED BY <3>2 DEF Fills
  <2> QED BY <1>2, <1>3, <1>4, <1>10, <2>2, <2>4, <2>5, EaseKept
<1>11. PICK g, w, a, o : g = "gotten" /\ w = "swait" /\ a = "alloc" /\ o = "overlap"
  OBVIOUS
<1> QED BY <1>1, <1>8, <1>9, <1>10, <1>11 DEF Outcome

-----------------------------------------------------------------------------

LEMMA TurnMoves ==
  ASSUME NEW p \in Procs, NEW npc, NEW ep, NEW hold, Turns(p, npc, u[p].tp, ep, hold),
         u[p].pc # "own", u[p].pc \in FillSteps => npc \in FillSteps, NEW X
  PROVE  Moves(p, X)
BY DEF Turns, SameTask, Moves

(* What p has is not touched by what happens to a free header.             *)
LEMMA HeldBare ==
  ASSUME LockInv, NEW p \in Procs, NEW x, \A c \in Bufs \ {x} : buf'[c] = buf[c],
         ~Has(x, "BUSY"), cur' = cur
  PROVE  \A b \in Held(p) : b # x /\ Bare(b) /\ cur'[b] \subseteq cur[b]
<1> SUFFICES ASSUME NEW b \in Held(p)
             PROVE  b # x /\ Bare(b) /\ cur'[b] \subseteq cur[b]
  OBVIOUS
<1>1. b \in Bufs /\ Has(b, "BUSY")
  BY HeldBy
<1>2. b # x
  BY <1>1
<1> QED BY <1>1, <1>2, KeptBare

(* A delayed write on a free list is given to the driver.                  *)
LEMMA FlushSent ==
  ASSUME LockInv, DataInv, NEW x \in Bufs, ~Has(x, "BUSY"), Has(x, "DELWRI"),
         NEW fs \in SUBSET {"ASYNC"}, buf' = [buf EXCEPT ![x] = Bwritten(Taken(x, fs)[x])]
  PROVE  /\ Live(x) /\ SameBlock(x) /\ ~Queued(x) /\ ~Fills(x)
         /\ Has(x, "INVAL")' <=> Has(x, "INVAL")
         /\ ~Has(x, "READ")' /\ ~Has(x, "DONE")' /\ ~Has(x, "DELWRI")'
         /\ \A c \in Bufs \ {x} : buf'[c] = buf[c]
         /\ buf'[x].b_bufsize = buf[x].b_bufsize
<1>1. PICK T : T = Taken(x, fs)[x]
  OBVIOUS
<1>2. PICK F : F = buf[x].b_flags \cup {"BUSY"} \cup fs
  BY Zenon
<1>3. T = [buf[x] EXCEPT !.b_flags = F] /\ T.b_flags = F /\ buf[x] \in Buf
  BY <1>1, <1>2, TakenIs DEF LockInv, TypeOK
<1>4. T \in Buf
  BY <1>1, TakenType DEF LockInv, TypeOK, Flags
<1>5. PICK W : W = Bwritten(T)
  OBVIOUS
<1>6. /\ \A f \in {"READ", "DONE", "ERROR", "DELWRI"} : f \notin W.b_flags
      /\ "INVAL" \in W.b_flags <=> "INVAL" \in T.b_flags
      /\ W.b_dev = T.b_dev /\ W.b_blkno = T.b_blkno
      /\ W.b_bcount = T.b_bcount /\ W.b_bufsize = T.b_bufsize
  BY <1>4, <1>5, BwrittenHas DEF Flags
<1>7. buf'[x] = W /\ \A c \in Bufs \ {x} : buf'[c] = buf[c]
  BY <1>1, <1>5 DEF LockInv, TypeOK
<1>8. SameBlock(x) /\ buf'[x].b_bufsize = buf[x].b_bufsize
  BY <1>3, <1>6, <1>7 DEF SameBlock, Buf
<1>9. Has(x, "INVAL")' <=> Has(x, "INVAL")
  BY <1>2, <1>3, <1>6, <1>7 DEF Has
<1>10. ~Has(x, "READ")' /\ ~Has(x, "DONE")' /\ ~Has(x, "DELWRI")'
  BY <1>6, <1>7 DEF Has
<1>11. Live(x)
  BY Zenon DEF DataInv, Delayed
<1> QED BY <1>7, <1>8, <1>9, <1>10, <1>11, FreeStays

LEMMA GetnewFlushData ==
  ASSUME Ample, LockInv, DataInv, FsInv', NEW p \in Procs, GetnewFlush(p)
  PROVE  DataInv'
<1>1. /\ ~NoneFree /\ Has(Victim, "DELWRI") /\ NeedsNew(p) /\ Strategy(Victim)
      /\ buf' = [buf EXCEPT ![Victim] = Bwritten(Taken(Victim, {"ASYNC"})[Victim])]
      /\ u' = [u EXCEPT ![p].pc = u[p].pc]
      /\ UNCHANGED <<fsize, cur, diskcur, lost>>
  BY DEF GetnewFlush, Goto
<1>2. PICK x : x = Victim
  OBVIOUS
<1>3. x \in Bufs /\ ~Has(x, "BUSY")
  BY <1>1, <1>2, VictimFree
<1>4. u[p].pc = "getnew" /\ cpu \in {p, NONE}
  BY <1>1, EnoughMemory DEF NeedsNew, Running
<1>5. PICK fs \in SUBSET {"ASYNC"} : fs = {"ASYNC"}
  BY Zenon
<1>6. /\ Live(x) /\ SameBlock(x) /\ ~Queued(x) /\ ~Fills(x)
      /\ Has(x, "INVAL")' <=> Has(x, "INVAL")
      /\ ~Has(x, "READ")' /\ ~Has(x, "DONE")' /\ ~Has(x, "DELWRI")'
      /\ \A c \in Bufs \ {x} : buf'[c] = buf[c]
      /\ buf'[x].b_bufsize = buf[x].b_bufsize
  BY <1>1, <1>2, <1>3, <1>5, FlushSent, Zenon
<1>7. Turns(p, u[p].pc, u[p].tp, u[p].ep, u[p].hold)
  BY <1>1, TurnPc, Zenon DEF LockInv
<1>8. Moves(p, {x}) /\ SameClaims(p)
  BY <1>4, <1>7, TurnMoves DEF FillSteps, SameClaims, Turns, SameTask
<1>9. Named(u[p])'
  <2>1. Named(u[p])
    BY DEF DataInv
  <2>2. \A b \in Held(p) : Bare(b) /\ cur'[b] \subseteq cur[b]
    BY <1>1, <1>3, <1>6, HeldBare
  <2> QED BY <1>7, <1>8, <2>1, <2>2, NamedStays DEF Turns, SameTask
<1>10. AllocOk(p)' /\ Clean(p)'
  BY <1>4, <1>7 DEF AllocOk, Clean, Turns
<1> QED BY <1>1, <1>2, <1>3, <1>4, <1>6, <1>8, <1>9, <1>10, SendKept

LEMMA BflushOneData ==
  ASSUME LockInv, DataInv, FsInv', NEW p \in Procs, BflushOne(p)
  PROVE  DataInv'
<1>1. PICK q \in {"LRU", "AGE"} : \E bp \in First(p, q) :
            /\ buf' = [buf EXCEPT ![bp] = Bwritten(Taken(bp, {"ASYNC"})[bp])]
            /\ bfreelist' = Notavail(bp)
            /\ Strategy(bp)
  BY Zenon DEF BflushOne
<1>2. PICK x \in First(p, q) :
            /\ buf' = [buf EXCEPT ![x] = Bwritten(Taken(x, {"ASYNC"})[x])]
            /\ Strategy(x)
  BY <1>1, Zenon
<1>3. u' = [u EXCEPT ![p].pc = "bflush"] /\ cpu \in {p, NONE} /\ u[p].pc = "bflush"
      /\ UNCHANGED <<fsize, cur, diskcur, lost>>
  BY DEF BflushOne, Goto, Running
<1>4. x \in Bufs /\ ~Has(x, "BUSY") /\ Has(x, "DELWRI")
  <2>1. PICK i \in 1..Len(bfreelist[q]) : x = bfreelist[q][i] /\ Has(bfreelist[q][i], "DELWRI")
    BY <1>2 DEF First, Dirty
  <2>2. q \in BQ /\ bfreelist[q] \in Seq(Bufs)
    BY DEF LockInv, TypeOK, BQ
  <2>3. x \in Bufs /\ x \in Elems(bfreelist[q])
    BY <2>1, <2>2 DEF Elems
  <2>4. OnFree(x)
    BY <2>2, <2>3 DEF OnFree
  <2> QED BY <2>1, <2>3, <2>4, LockFacts
<1>5. PICK fs \in SUBSET {"ASYNC"} : fs = {"ASYNC"}
  BY Zenon
<1>6. /\ Live(x) /\ SameBlock(x) /\ ~Queued(x) /\ ~Fills(x)
      /\ Has(x, "INVAL")' <=> Has(x, "INVAL")
      /\ ~Has(x, "READ")' /\ ~Has(x, "DONE")' /\ ~Has(x, "DELWRI")'
      /\ \A c \in Bufs \ {x} : buf'[c] = buf[c]
      /\ buf'[x].b_bufsize = buf[x].b_bufsize
  BY <1>2, <1>4, <1>5, FlushSent, Zenon
<1>7. PICK npc : npc = "bflush"
  OBVIOUS
<1>8. Turns(p, npc, u[p].tp, u[p].ep, u[p].hold)
  BY <1>3, <1>7, TurnPc, Zenon DEF LockInv
<1>9. Moves(p, {x}) /\ SameClaims(p)
  BY <1>3, <1>7, <1>8, TurnMoves DEF FillSteps, SameClaims, Turns, SameTask, Gained
<1>10. Named(u[p])'
  <2>1. Named(u[p])
    BY DEF DataInv
  <2>2. \A b \in Held(p) : Bare(b) /\ cur'[b] \subseteq cur[b]
    BY <1>3, <1>4, <1>6, HeldBare
  <2> QED BY <1>8, <1>9, <2>1, <2>2, NamedStays DEF Turns, SameTask
<1>11. AllocOk(p)' /\ Clean(p)'
  BY <1>7, <1>8 DEF AllocOk, Clean, Turns
<1> QED BY <1>2, <1>3, <1>4, <1>6, <1>9, <1>10, <1>11, SendKept

-----------------------------------------------------------------------------
(* A delayed write is written for brealloc or blkflush, which waits.       *)

LEMMA DirtySent ==
  ASSUME LockInv, DataInv, FsInv', NEW p \in Procs, cpu \in {p, NONE},
         NEW x \in Bufs, ~Has(x, "BUSY"), Has(x, "DELWRI"), buf[x].b_dev = u[p].req.dev,
         buf' = [buf EXCEPT ![x] = Bwritten(Taken(x, {})[x])], Strategy(x),
         UNCHANGED <<fsize, cur, diskcur, lost>>,
         NEW npc, Turns(p, npc, u[p].tp, x, u[p].hold),
         \/ u[p].pc = "overlap" /\ npc = "owait"
         \/ u[p].pc = "blkflush" /\ npc = "fwait"
  PROVE  DataInv'
<1>1. PICK fs \in SUBSET {"ASYNC"} : fs = {}
  OBVIOUS
<1>2. /\ Live(x) /\ SameBlock(x) /\ ~Queued(x) /\ ~Fills(x)
      /\ Has(x, "INVAL")' <=> Has(x, "INVAL")
      /\ ~Has(x, "READ")' /\ ~Has(x, "DONE")' /\ ~Has(x, "DELWRI")'
      /\ \A c \in Bufs \ {x} : buf'[c] = buf[c]
      /\ buf'[x].b_bufsize = buf[x].b_bufsize
  BY <1>1, FlushSent, Zenon
<1>3. Named(u[p])
  BY DEF DataInv
<1>4. \A b \in Held(p) : Bare(b) /\ cur'[b] \subseteq cur[b]
  BY <1>2, HeldBare
<1>5. SameClaims(p)
  BY DEF SameClaims, Turns, SameTask, Gained
<1>6. Moves(p, {x})
  BY TurnMoves, Zenon DEF FillSteps
<1>7. TpNamed(u[p])'
  BY <1>3, <1>4, <1>5, HeldBy, TpKept DEF Named, Turns
<1>8. HoldNamed(u[p])'
  BY <1>3, <1>4, HeldBy, HoldKept DEF Named, Turns, SameTask
<1>9. EpNamed(u[p])'
  BY <1>2 DEF EpNamed, Turns, SameTask, SameBlock
<1>10. AllocOk(p)' /\ Clean(p)'
  BY DEF AllocOk, Clean, Turns
<1> QED BY <1>2, <1>6, <1>7, <1>8, <1>9, <1>10, SendKept DEF Named

LEMMA OverlapDirtyData ==
  ASSUME LockInv, DataInv, FsInv', NEW p \in Procs, OverlapDirty(p)
  PROVE  DataInv'
<1>1. PICK x \in Others(p) :
       /\ ~Has(x, "BUSY") /\ Has(x, "DELWRI")
       /\ buf' = [buf EXCEPT ![x] = Bwritten(Taken(x, {})[x])]
       /\ Strategy(x)
       /\ u' = [u EXCEPT ![p] = [u[p] EXCEPT !.pc = "owait", !.ep = x]]
  BY Zenon DEF OverlapDirty
<1>2. cpu \in {p, NONE} /\ u[p].pc = "overlap" /\ UNCHANGED <<fsize, cur, diskcur, lost>>
  BY DEF OverlapDirty, Running
<1>3. x \in Bufs /\ buf[x].b_dev = u[p].req.dev
  BY <1>1 DEF Others, Overlapping
<1>4. PICK npc : npc = "owait"
  OBVIOUS
<1>5. Turns(p, npc, u[p].tp, x, u[p].hold)
  BY <1>1, <1>4, TurnEp, Zenon DEF LockInv
<1> QED BY <1>1, <1>2, <1>3, <1>4, <1>5, DirtySent, Zenon

LEMMA BlkflushDirtyData ==
  ASSUME LockInv, DataInv, FsInv', NEW p \in Procs, BlkflushDirty(p)
  PROVE  DataInv'
<1>1. PICK x \in Flushees(p) :
       /\ ~Has(x, "BUSY") /\ Has(x, "DELWRI")
       /\ buf' = [buf EXCEPT ![x] = Bwritten(Taken(x, {})[x])]
       /\ Strategy(x)
       /\ u' = [u EXCEPT ![p] = [u[p] EXCEPT !.pc = "fwait", !.ep = x]]
  BY Zenon DEF BlkflushDirty
<1>2. cpu \in {p, NONE} /\ u[p].pc = "blkflush" /\ UNCHANGED <<fsize, cur, diskcur, lost>>
  BY DEF BlkflushDirty, Running
<1>3. x \in Bufs /\ buf[x].b_dev = u[p].req.dev
  BY <1>1 DEF Flushees, Overlapping
<1>4. PICK npc : npc = "fwait"
  OBVIOUS
<1>5. Turns(p, npc, u[p].tp, x, u[p].hold)
  BY <1>1, <1>4, TurnEp, Zenon DEF LockInv
<1> QED BY <1>1, <1>2, <1>3, <1>4, <1>5, DirtySent, Zenon

-----------------------------------------------------------------------------
(* A read that getblk's caller starts.                                     *)

LEMMA OwnTp ==
  ASSUME LockInv, DataInv, NEW p \in Procs, u[p].pc \in TpAt
  PROVE  /\ u[p].tp \in Bufs /\ u[p].tp # NONE /\ u[p].tp \in Held(p)
         /\ Has(u[p].tp, "BUSY")
         /\ u[p].pc \notin Waits => ~Queued(u[p].tp)
         /\ \A q \in Procs : u[q].tp = u[p].tp => q = p
         /\ u[p].op # "geteblk" => At(u[p].tp, u[p].req)
         /\ u[p].op # "geteblk" /\ u[p].pc \in Gained => buf[u[p].tp].b_bcount = u[p].req.size
<1>1. u[p].tp \in Bufs
  BY ProcType DEF LockInv, Proc, TpAt
<1>2. u[p].tp # NONE
  BY <1>1, BufCacheAssumption
<1>3. u[p].tp \in Held(p) /\ Has(u[p].tp, "BUSY")
  BY <1>2, HeldBy
<1>4. u[p].pc \notin Waits => ~Queued(u[p].tp)
  BY <1>2 DEF LockInv, Placed, PlacedAs
<1>5. ASSUME NEW q \in Procs, u[q].tp = u[p].tp PROVE q = p
  <2>1. u[p].tp \in Held(q)
    BY <1>2, <1>5 DEF Held
  <2> QED BY <1>3, <2>1 DEF LockInv
<1>6. Named(u[p])
  BY DEF DataInv
<1> QED BY <1>1, <1>2, <1>3, <1>4, <1>5, <1>6 DEF Named, TpNamed

LEMMA FlagsAdded ==
  ASSUME LockInv, NEW x \in Bufs, NEW fs, buf' = [buf EXCEPT ![x].b_flags = @ \cup fs]
  PROVE  /\ SameBlock(x)
         /\ buf'[x].b_bufsize = buf[x].b_bufsize
         /\ \A c \in Bufs \ {x} : buf'[c] = buf[c]
         /\ \A f : Has(x, f)' <=> Has(x, f) \/ f \in fs
<1>1. buf[x] \in Buf /\ buf \in [Bufs -> Buf]
  BY DEF LockInv, TypeOK
<1>2. buf'[x] = [buf[x] EXCEPT !.b_flags = buf[x].b_flags \cup fs]
      /\ \A c \in Bufs \ {x} : buf'[c] = buf[c]
  BY <1>1
<1> QED BY <1>1, <1>2 DEF Buf, SameBlock, Has

LEMMA ReadSent ==
  ASSUME LockInv, DataInv, NEW p \in Procs, u[p].pc = "gotten", u[p].op \in Reads,
         NEW x, x = u[p].tp, ~Has(x, "DONE"), NEW fs \in SUBSET {"READ", "ASYNC"}, "READ" \in fs,
         buf' = [buf EXCEPT ![x].b_flags = @ \cup fs]
  PROVE  /\ x \in Bufs /\ x \in Held(p) /\ ~Queued(x) /\ Live(x) /\ SameBlock(x)
         /\ At(x, u[p].req) /\ buf'[x].b_bcount = u[p].req.size
         /\ Has(x, "INVAL")' <=> Has(x, "INVAL")
         /\ Has(x, "READ")' /\ ~Has(x, "DONE")' /\ ~Has(x, "DELWRI")' /\ ~Has(x, "DELWRI")
         /\ \A c \in Bufs \ {x} : buf'[c] = buf[c]
         /\ buf'[x].b_bufsize = buf[x].b_bufsize
<1>1. PICK r : r = u[p].req
  OBVIOUS
<1>2. /\ x \in Bufs /\ x \in Held(p) /\ ~Queued(x) /\ At(x, r) /\ buf[x].b_bcount = r.size
      /\ \A q \in Procs : u[q].tp = x => q = p
  BY <1>1, OwnTp DEF TpAt, Waits, Gained, Reads
<1>3. Real(r)
  BY <1>1, AskedFor DEF DataInv, Asks, Gets
<1>4. Live(x)
  <2>1. NODEV \notin Devs
    BY BufCacheAssumption
  <2> QED BY <1>2, <1>3, <2>1 DEF Live, At, Real
<1>5. ~Fills(x)
  BY <1>2 DEF Fills, Reads
<1>6. ~Has(x, "DELWRI")
  BY <1>2, <1>5, Zenon DEF DataInv, Delayed
<1>9. /\ SameBlock(x)
      /\ buf'[x].b_bufsize = buf[x].b_bufsize
      /\ \A c \in Bufs \ {x} : buf'[c] = buf[c]
      /\ \A f : Has(x, f)' <=> Has(x, f) \/ f \in fs
  BY <1>2, FlagsAdded, Zenon
<1>10. /\ Has(x, "INVAL")' <=> Has(x, "INVAL")
       /\ Has(x, "READ")' /\ ~Has(x, "DONE")' /\ ~Has(x, "DELWRI")'
  <2>1. "INVAL" \notin fs /\ "DONE" \notin fs /\ "DELWRI" \notin fs
    OBVIOUS
  <2> QED BY <1>6, <1>9, <2>1
<1>11. At(x, u[p].req) /\ buf'[x].b_bcount = u[p].req.size
  BY <1>1, <1>2, <1>9 DEF SameBlock
<1> QED BY <1>2, <1>4, <1>6, <1>9, <1>10, <1>11

-----------------------------------------------------------------------------

LEMMA MovesOwn ==
  ASSUME NEW p \in Procs, NEW npc, NEW tp, NEW ep, NEW hold, Turns(p, npc, tp, ep, hold),
         NEW x, u[p].tp = x
  PROVE  Moves(p, {x})
BY DEF Turns, SameTask, Moves

LEMMA AtMoved ==
  ASSUME NEW c, NEW r, SameBlock(c), Has(c, "INVAL")' <=> Has(c, "INVAL"), At(c, r)
  PROVE  At(c, r)'
BY DEF At, SameBlock, Has

LEMMA BreadSentData ==
  ASSUME LockInv, DataInv, FsInv', NEW p \in Procs, GottenBread(p), ~Has(u[p].tp, "DONE")
  PROVE  DataInv'
<1>1. PICK x, r : x = u[p].tp /\ r = u[p].req
  OBVIOUS
<1>2. /\ cpu \in {p, NONE} /\ u[p].pc = "gotten" /\ u[p].op \in {"bread", "extend"}
      /\ buf' = [buf EXCEPT ![x].b_flags = @ \cup {"READ"}]
      /\ Strategy(x) /\ u' = [u EXCEPT ![p].pc = "rwait"]
      /\ UNCHANGED <<fsize, cur, diskcur, lost>>
  BY <1>1 DEF GottenBread, Running, Goto
<1>3. PICK fs \in SUBSET {"READ", "ASYNC"} : fs = {"READ"}
  BY Zenon
<1>4. /\ x \in Bufs /\ x \in Held(p) /\ ~Queued(x) /\ Live(x) /\ SameBlock(x)
      /\ Has(x, "INVAL")' <=> Has(x, "INVAL")
      /\ Has(x, "READ")' /\ ~Has(x, "DONE")' /\ ~Has(x, "DELWRI")' /\ ~Has(x, "DELWRI")
      /\ \A c \in Bufs \ {x} : buf'[c] = buf[c]
      /\ buf'[x].b_bufsize = buf[x].b_bufsize
  BY <1>1, <1>2, <1>3, ReadSent, Zenon DEF Reads
<1>5. PICK npc : npc = "rwait"
  OBVIOUS
<1>6. Turns(p, npc, x, u[p].ep, u[p].hold)
  BY <1>1, <1>2, <1>5, TurnPc, Zenon DEF LockInv
<1>7. Moves(p, {x})
  BY <1>1, <1>6, MovesOwn
<1>8. u[p].ep = NONE /\ u[p].hold = NONE
  BY <1>2 DEF LockInv, Shape, Shapely
<1>9. At(x, r)' /\ buf'[x].b_bcount = r.size
  <2>1. At(x, r) /\ buf[x].b_bcount = r.size
    BY <1>1, <1>2, OwnTp DEF TpAt, Gained
  <2> QED BY <1>4, <2>1, AtMoved DEF SameBlock
<1>10. Named(u[p])'
  <2>1. /\ u'[p].tp = x /\ u'[p].req = r /\ u'[p].op # "geteblk" /\ u'[p].pc = "rwait"
        /\ u'[p].ep = NONE /\ u'[p].hold = NONE
    BY <1>1, <1>2, <1>5, <1>6, <1>8 DEF Turns, SameTask
  <2> QED BY <1>4, <1>9, <2>1 DEF Named, TpNamed, EpNamed, HoldNamed, At, Has
<1>11. AllocOk(p)' /\ Clean(p)'
  BY <1>5, <1>6 DEF AllocOk, Clean, Turns
<1> QED BY <1>2, <1>4, <1>7, <1>10, <1>11, SendKept

LEMMA GottenBreadaData ==
  ASSUME LockInv, DataInv, FsInv', NEW p \in Procs, GottenBreada(p)
  PROVE  DataInv'
<1>1. PICK x, r : x = u[p].tp /\ r = u[p].req
  OBVIOUS
<1>2. /\ cpu \in {p, NONE} /\ u[p].pc = "gotten" /\ u[p].op = "breada"
      /\ u' = [u EXCEPT ![p] = [u[p] EXCEPT !.pc = "ra", !.hold = u[p].tp, !.tp = NONE]]
      /\ UNCHANGED <<fsize, cur, diskcur, lost>>
  BY DEF GottenBreada, Running
<1>3. /\ u'[p].pc = "ra" /\ u'[p].tp = NONE /\ u'[p].ep = u[p].ep /\ u'[p].hold = x
      /\ SameTask(p)
  BY <1>1, <1>2, ProcType DEF LockInv, TypeOK, Proc, SameTask
<1>4. u[p].ep = NONE
  BY <1>2 DEF LockInv, Shape, Shapely
<1>5. u[p].main = r
  BY <1>1, <1>2, AskedFor DEF DataInv, Asks
<1>6. x \in Bufs /\ At(x, r) /\ buf[x].b_bcount = r.size /\ x \in Held(p)
  BY <1>1, <1>2, OwnTp DEF TpAt, Gained
<1>7. ASSUME SameBlock(x), Has(x, "INVAL")' <=> Has(x, "INVAL")
      PROVE  Named(u[p])'
  <2>1. At(x, r)' /\ buf'[x].b_bcount = r.size
    BY <1>6, <1>7, AtMoved DEF SameBlock
  <2>2. u'[p].main = r
    BY <1>3, <1>5 DEF SameTask
  <2> QED BY <1>3, <1>4, <2>1, <2>2 DEF Named, TpNamed, EpNamed, HoldNamed, At, Has
<1>8. AllocOk(p)' /\ Clean(p)'
  BY <1>3 DEF AllocOk, Clean
<1>9. CASE Has(x, "DONE")
  <2>1. Quiet
    BY <1>1, <1>2, <1>9 DEF GottenBreada, Quiet
  <2>2. Named(u[p])'
    BY <1>6, <1>7, <2>1, QuietBare DEF Bare, DataFlags
  <2> QED BY <1>2, <1>3, <1>8, <2>1, <2>2, QuietMoves, Zenon DEF SameTask
<1>10. CASE ~Has(x, "DONE")
  <2>1. buf' = [buf EXCEPT ![x].b_flags = @ \cup {"READ"}] /\ Strategy(x)
    BY <1>1, <1>10 DEF GottenBreada
  <2>2. PICK fs \in SUBSET {"READ", "ASYNC"} : fs = {"READ"}
    BY Zenon
  <2>3. /\ x \in Bufs /\ x \in Held(p) /\ ~Queued(x) /\ Live(x) /\ SameBlock(x)
        /\ Has(x, "INVAL")' <=> Has(x, "INVAL")
        /\ Has(x, "READ")' /\ ~Has(x, "DONE")' /\ ~Has(x, "DELWRI")' /\ ~Has(x, "DELWRI")
        /\ \A c \in Bufs \ {x} : buf'[c] = buf[c]
        /\ buf'[x].b_bufsize = buf[x].b_bufsize
    BY <1>1, <1>2, <1>10, <2>1, <2>2, ReadSent, Zenon DEF Reads
  <2>4. Named(u[p])'
    BY <1>7, <2>3
  <2>5. Moves(p, {x})
    BY <1>1, <1>3 DEF Moves, SameTask
  <2> QED BY <1>2, <1>8, <2>1, <2>3, <2>4, <2>5, SendKept, Zenon
<1> QED BY <1>9, <1>10

LEMMA ReadAheadSentData ==
  ASSUME LockInv, DataInv, FsInv', NEW p \in Procs, GottenReadAhead(p), ~Has(u[p].tp, "DONE")
  PROVE  DataInv'
<1>1. PICK x, r : x = u[p].tp /\ r = u[p].req
  OBVIOUS
<1>2. /\ cpu \in {p, NONE} /\ u[p].pc = "gotten" /\ u[p].op = "ra"
      /\ buf' = [buf EXCEPT ![x].b_flags = @ \cup {"READ", "ASYNC"}]
      /\ Strategy(x) /\ BreadaRest(p)
      /\ UNCHANGED <<fsize, cur, diskcur, lost>>
  BY <1>1 DEF GottenReadAhead, Running
<1>3. PICK fs \in SUBSET {"READ", "ASYNC"} : fs = {"READ", "ASYNC"}
  BY Zenon
<1>4. /\ x \in Bufs /\ x \in Held(p) /\ ~Queued(x) /\ Live(x) /\ SameBlock(x)
      /\ Has(x, "INVAL")' <=> Has(x, "INVAL")
      /\ Has(x, "READ")' /\ ~Has(x, "DONE")' /\ ~Has(x, "DELWRI")' /\ ~Has(x, "DELWRI")
      /\ \A c \in Bufs \ {x} : buf'[c] = buf[c]
      /\ buf'[x].b_bufsize = buf[x].b_bufsize
  BY <1>1, <1>2, <1>3, ReadSent, Zenon DEF Reads
<1>5. u[p].hold # NONE => Bare(u[p].hold) /\ cur'[u[p].hold] \subseteq cur[u[p].hold]
  <2>1. u[p].tp # NONE
    BY <1>2, OwnTp DEF TpAt
  <2>2. u[p].hold # x
    BY <1>1, <2>1 DEF LockInv, Shape, Shapely
  <2> QED BY <1>2, <1>4, <2>2, HeldBy, KeptBare
<1>6. Named(u[p])' /\ AllocOk(p)' /\ Clean(p)'
  BY <1>2, <1>5, RestNamed
<1>7. Moves(p, {x})
  BY <1>1, <1>2, RestTurns DEF Moves, LockInv
<1> QED BY <1>2, <1>4, <1>6, <1>7, SendKept

-----------------------------------------------------------------------------
(* brelse.                                                                 *)

LEMMA ReleasedFacts ==
  ASSUME LockInv, NEW x \in Bufs, NEW b \in [Bufs -> Buf], NEW fl, Brelse(x, b, fl),
         NEW F, b[x] = [buf[x] EXCEPT !.b_flags = F],
         \A c \in Bufs \ {x} : b[c] = buf[c]
  PROVE  /\ buf'[x].b_blkno = buf[x].b_blkno /\ buf'[x].b_bcount = buf[x].b_bcount
         /\ buf'[x].b_bufsize = buf[x].b_bufsize
         /\ buf'[x].b_dev = IF "ERROR" \in F THEN NODEV ELSE buf[x].b_dev
         /\ \A f \in DataFlags : Has(x, f)' <=> f \in F
         /\ ~Has(x, "BUSY")'
         /\ \A c \in Bufs \ {x} : buf'[c] = buf[c]
<1>1. buf' = [b EXCEPT ![x] = Released(b[x])]
  BY DEF Brelse
<1>2. buf[x] \in Buf
  BY DEF LockInv, TypeOK
<1>3. PICK B : B = b[x]
  OBVIOUS
<1>4. /\ B.b_flags = F /\ B.b_dev = buf[x].b_dev /\ B.b_blkno = buf[x].b_blkno
      /\ B.b_bcount = buf[x].b_bcount /\ B.b_bufsize = buf[x].b_bufsize /\ B \in Buf
  BY <1>2, <1>3 DEF Buf
<1>5. buf'[x] = Released(B) /\ \A c \in Bufs \ {x} : buf'[c] = buf[c]
  BY <1>1, <1>3
<1>6. PICK d : d = IF "ERROR" \in B.b_flags THEN NODEV ELSE B.b_dev
  OBVIOUS
<1>7. PICK G : G = B.b_flags \ {"WANTED", "BUSY", "ASYNC", "AGE"}
  BY Zenon
<1>8. Released(B) = [B EXCEPT !.b_flags = G, !.b_dev = d]
  BY <1>6, <1>7 DEF Released
<1>9. /\ buf'[x].b_flags = G /\ buf'[x].b_dev = d /\ buf'[x].b_blkno = B.b_blkno
      /\ buf'[x].b_bcount = B.b_bcount /\ buf'[x].b_bufsize = B.b_bufsize
  BY <1>4, <1>5, <1>8 DEF Buf
<1>10. \A f \in DataFlags : f \in G <=> f \in F
  BY <1>4, <1>7 DEF DataFlags
<1>11. "BUSY" \notin G
  BY <1>7
<1> QED BY <1>4, <1>5, <1>6, <1>9, <1>10, <1>11 DEF Has

(* What p has and does not fill stays as it is described.                  *)
LEMMA NotFilling ==
  ASSUME LockInv, NEW p \in Procs, NEW x, x \in Held(p),
         u[p].tp = x => u[p].pc \notin FillSteps \/ u[p].op \notin {"alloc", "extended"}
  PROVE  ~Fills(x) /\ Stays(x)
<1>1. ASSUME NEW q \in Procs, u[q].tp = x PROVE q = p
  <2>1. x # NONE
    BY DEF Held
  <2>2. x \in Held(q)
    BY <1>1, <2>1 DEF Held
  <2> QED BY <2>2 DEF LockInv
<1> QED BY <1>1 DEF Fills, Grown, Stays, FillSteps

LEMMA ReleaseKept ==
  ASSUME LockInv, DataInv, FsInv', NEW p \in Procs, NEW x \in Bufs,
         cpu \in {p, NONE}, Moves(p, {x}), x \in Held(p) \/ ~Has(x, "BUSY"), ~Queued(x),
         NEW b \in [Bufs -> Buf], NEW fl, Brelse(x, b, fl),
         NEW F, b[x] = [buf[x] EXCEPT !.b_flags = F],
         \A c \in Bufs \ {x} : b[c] = buf[c],
         \A f \in {"READ", "DONE", "ERROR", "DELWRI"} : f \in F <=> Has(x, f),
         Has(x, "INVAL") => "INVAL" \in F,
         "INVAL" \in F => Has(x, "INVAL") \/ ~Has(x, "DELWRI"),
         UNCHANGED <<ioq, cur, diskcur, lost, fsize>>,
         Stays(x) \/ Has(x, "ERROR"),
         Named(u[p])', AllocOk(p)', Clean(p)'
  PROVE  DataInv'
<1>1. /\ buf'[x].b_blkno = buf[x].b_blkno /\ buf'[x].b_bcount = buf[x].b_bcount
      /\ buf'[x].b_bufsize = buf[x].b_bufsize
      /\ buf'[x].b_dev = IF "ERROR" \in F THEN NODEV ELSE buf[x].b_dev
      /\ \A f \in DataFlags : Has(x, f)' <=> f \in F
      /\ \A c \in Bufs \ {x} : buf'[c] = buf[c]
  BY ReleasedFacts
<1>2. /\ Has(x, "DONE")' <=> Has(x, "DONE")
      /\ Has(x, "ERROR")' <=> Has(x, "ERROR")
      /\ Has(x, "DELWRI")' <=> Has(x, "DELWRI")
      /\ Has(x, "INVAL")' <=> "INVAL" \in F
  BY <1>1 DEF DataFlags
<1>3. Live(x)' => ~Has(x, "INVAL") /\ "ERROR" \notin F
  BY <1>1, <1>2 DEF Live, Has
<1>4. "ERROR" \notin F => SameBlock(x)
  BY <1>1 DEF SameBlock
<1>5. Live(x)' => Live(x) /\ SameBlock(x)
  BY <1>3, <1>4 DEF Live, SameBlock
<1>6. Delayed(x)
  BY DEF DataInv
<1>7. Has(x, "DELWRI") => Live(x)' /\ ~Has(x, "ERROR")'
  <2> SUFFICES ASSUME Has(x, "DELWRI") PROVE Live(x)' /\ ~Has(x, "ERROR")'
    OBVIOUS
  <2>1. Live(x) /\ ~Has(x, "ERROR")
    BY <1>6 DEF Delayed
  <2>2. SameBlock(x) /\ ~Has(x, "INVAL")'
    BY <1>2, <1>4, <2>1 DEF Live
  <2> QED BY <1>2, <2>1, <2>2 DEF Live, SameBlock, Has
<1>8. Eases(x)
  BY <1>2, <1>5, <1>7 DEF Eases
<1> QED BY <1>1, <1>2, <1>8, EaseKept DEF Same

-----------------------------------------------------------------------------

LEMMA AsItIs ==
  ASSUME LockInv, NEW x \in Bufs
  PROVE  buf[x] = [buf[x] EXCEPT !.b_flags = buf[x].b_flags] /\ buf \in [Bufs -> Buf]
<1>1. buf[x] \in Buf /\ buf \in [Bufs -> Buf]
  BY DEF LockInv, TypeOK
<1> QED BY <1>1 DEF Buf

LEMMA OthersBare ==
  ASSUME LockInv, NEW p \in Procs, NEW x, \A c \in Bufs \ {x} : buf'[c] = buf[c], cur' = cur
  PROVE  \A b \in Held(p) : b # x => Bare(b) /\ cur'[b] \subseteq cur[b]
BY HeldBy, KeptBare

LEMMA AwaitedIs ==
  ASSUME LockInv, NEW p \in Procs, u[p].pc \in {"wwait", "swait", "owait", "fwait"},
         NEW x, x = Awaited(p), Has(x, "DONE")
  PROVE  /\ x \in Bufs /\ x \in Held(p) /\ ~Queued(x) /\ Stays(x)
         /\ u[p].pc \in {"wwait", "swait"} =>
              x = u[p].tp /\ u[p].ep = NONE /\ x # u[p].hold
         /\ u[p].pc \in {"owait", "fwait"} => x = u[p].ep /\ x # u[p].tp /\ x # u[p].hold
<1>1. x \in Bufs
  BY ProcType DEF LockInv, Proc, Awaited
<1>2. x # NONE
  BY <1>1, BufCacheAssumption
<1>3. /\ u[p].pc \in {"wwait", "swait"} =>
           x = u[p].tp /\ u[p].ep = NONE /\ x # u[p].hold
      /\ u[p].pc \in {"owait", "fwait"} => x = u[p].ep /\ x # u[p].tp /\ x # u[p].hold
  BY <1>2 DEF LockInv, Shape, Shapely, Awaited
<1>4. x \in Held(p)
  BY <1>2, <1>3 DEF Held
<1>5. ~Queued(x)
  BY <1>1 DEF LockInv, Fits
<1>6. Stays(x)
  BY <1>3, <1>4, NotFilling DEF FillSteps
<1> QED BY <1>1, <1>3, <1>4, <1>5, <1>6

LEMMA BwriteDoneData ==
  ASSUME LockInv, DataInv, FsInv', NEW p \in Procs, BwriteDone(p)
  PROVE  DataInv'
<1>1. PICK x : x = Awaited(p)
  OBVIOUS
<1>2. /\ cpu \in {p, NONE} /\ u[p].pc \in {"wwait", "swait", "owait", "fwait"}
      /\ Has(x, "DONE") /\ Brelse(x, buf, bfreelist)
      /\ UNCHANGED <<ioq, fsize, cur, diskcur, lost>>
  BY <1>1 DEF BwriteDone, Running
<1>3. /\ x \in Bufs /\ x \in Held(p) /\ ~Queued(x) /\ Stays(x)
      /\ u[p].pc \in {"wwait", "swait"} =>
              x = u[p].tp /\ u[p].ep = NONE /\ x # u[p].hold
      /\ u[p].pc \in {"owait", "fwait"} => x = u[p].ep /\ x # u[p].tp /\ x # u[p].hold
  BY <1>1, <1>2, AwaitedIs
<1>4. PICK F : F = buf[x].b_flags
  OBVIOUS
<1>5. buf[x] = [buf[x] EXCEPT !.b_flags = F] /\ buf \in [Bufs -> Buf]
  BY <1>3, <1>4, AsItIs
<1>6. \A c \in Bufs \ {x} : buf'[c] = buf[c]
  BY <1>2, <1>3, <1>5, ReleasedFacts
<1>7. \A b \in Held(p) : b # x => Bare(b) /\ cur'[b] \subseteq cur[b]
  BY <1>2, <1>6, OthersBare
<1>8. Named(u[p])
  BY DEF DataInv
<1>9. /\ Moves(p, {x}) /\ Named(u[p])' /\ AllocOk(p)' /\ Clean(p)'
  <2>1. CASE u[p].pc = "wwait"
    <3>1. u' = [u EXCEPT ![p] = Idle]
      BY <2>1 DEF BwriteDone, Return
    <3>2. Named(u[p])' /\ AllocOk(p)' /\ Clean(p)' /\ \A q \in Procs \ {p} : u'[q] = u[q]
      BY <3>1, IdleNamed, Zenon
    <3> QED BY <1>3, <2>1, <3>2 DEF Moves
  <2>2. CASE u[p].pc = "swait"
    <3>1. PICK npc : npc = "getblk"
      OBVIOUS
    <3>2. u' = [u EXCEPT ![p] = [u[p] EXCEPT !.pc = npc, !.tp = NONE]]
      BY <2>2, <3>1 DEF BwriteDone
    <3>3. Turns(p, npc, NONE, u[p].ep, u[p].hold)
      BY <3>2, TurnTp, Zenon DEF LockInv
    <3>4. Moves(p, {x})
      BY <1>3, <2>2, <3>3, MovesOwn
    <3>5. HoldNamed(u[p])'
      BY <1>3, <1>7, <1>8, <2>2, <3>3, HeldBy, HoldKept DEF Named, Turns, SameTask
    <3>6. TpNamed(u[p])' /\ EpNamed(u[p])'
      BY <1>3, <2>2, <3>3 DEF TpNamed, EpNamed, Turns
    <3> QED BY <3>1, <3>3, <3>4, <3>5, <3>6 DEF Named, AllocOk, Clean, Turns
  <2>3. CASE u[p].pc \in {"owait", "fwait"}
    <3>1. PICK npc : npc = IF u[p].pc = "owait" THEN "overlap" ELSE "blkflush"
      OBVIOUS
    <3>2. u' = [u EXCEPT ![p] = [u[p] EXCEPT !.pc = npc, !.ep = NONE]]
      BY <2>3, <3>1, Zenon DEF BwriteDone
    <3>3. Turns(p, npc, u[p].tp, NONE, u[p].hold)
      BY <3>2, TurnEp, Zenon DEF LockInv
    <3>4. Moves(p, {x})
      BY <2>3, <3>1, <3>3, TurnMoves, Zenon DEF FillSteps
    <3>5. HoldNamed(u[p])'
      BY <1>3, <1>7, <1>8, <2>3, <3>3, HeldBy, HoldKept DEF Named, Turns, SameTask
    <3>6. SameClaims(p)
      BY <2>3, <3>1, <3>3 DEF SameClaims, Turns, SameTask, Gained
    <3>7. TpNamed(u[p])'
      BY <1>3, <1>7, <1>8, <2>3, <3>3, <3>6, HeldBy, TpKept DEF Named, Turns
    <3>8. EpNamed(u[p])'
      BY <3>3 DEF EpNamed, Turns
    <3>9. npc # "alloc" /\ npc # "binval"
      BY <3>1
    <3> QED BY <3>3, <3>4, <3>5, <3>7, <3>8, <3>9 DEF Named, AllocOk, Clean, Turns
  <2> QED BY <1>2, <2>1, <2>2, <2>3
<1>10. /\ \A f \in {"READ", "DONE", "ERROR", "DELWRI"} : f \in F <=> Has(x, f)
       /\ Has(x, "INVAL") <=> "INVAL" \in F
  BY <1>4 DEF Has
<1> QED BY <1>2, <1>3, <1>5, <1>9, <1>10, ReleaseKept

LEMMA ReadAheadDoneData ==
  ASSUME LockInv, DataInv, FsInv', NEW p \in Procs, GottenReadAhead(p), Has(u[p].tp, "DONE")
  PROVE  DataInv'
<1>1. PICK x : x = u[p].tp
  OBVIOUS
<1>2. /\ cpu \in {p, NONE} /\ u[p].pc = "gotten" /\ u[p].op = "ra"
      /\ Brelse(x, buf, bfreelist) /\ BreadaRest(p)
      /\ UNCHANGED <<ioq, fsize, cur, diskcur, lost>>
  BY <1>1 DEF GottenReadAhead, Running
<1>3. x \in Bufs /\ x \in Held(p) /\ ~Queued(x) /\ x # NONE
  BY <1>1, <1>2, OwnTp DEF TpAt, Waits
<1>4. PICK F : F = buf[x].b_flags
  OBVIOUS
<1>5. buf[x] = [buf[x] EXCEPT !.b_flags = F] /\ buf \in [Bufs -> Buf]
  BY <1>3, <1>4, AsItIs
<1>6. \A c \in Bufs \ {x} : buf'[c] = buf[c]
  BY <1>2, <1>3, <1>5, ReleasedFacts
<1>7. u[p].hold # NONE => Bare(u[p].hold) /\ cur'[u[p].hold] \subseteq cur[u[p].hold]
  <2>1. u[p].hold # x
    BY <1>1, <1>3 DEF LockInv, Shape, Shapely
  <2> QED BY <1>2, <1>6, <2>1, HeldBy, OthersBare
<1>8. Named(u[p])' /\ AllocOk(p)' /\ Clean(p)'
  BY <1>2, <1>7, RestNamed
<1>9. Moves(p, {x})
  BY <1>1, <1>2, RestTurns DEF Moves, LockInv
<1>10. Stays(x)
  BY <1>2, <1>3, NotFilling
<1>11. /\ \A f \in {"READ", "DONE", "ERROR", "DELWRI"} : f \in F <=> Has(x, f)
       /\ Has(x, "INVAL") <=> "INVAL" \in F
  BY <1>4 DEF Has
<1> QED BY <1>2, <1>3, <1>5, <1>8, <1>9, <1>10, <1>11, ReleaseKept

-----------------------------------------------------------------------------

LEMMA ReleaseData ==
  ASSUME LockInv, DataInv, FsInv', NEW p \in Procs, Release(p)
  PROVE  DataInv'
<1>1. PICK x : x = u[p].tp
  OBVIOUS
<1>2. /\ cpu \in {p, NONE} /\ u[p].pc = "own"
      /\ Has(x, "ERROR") \/ u[p].op \in {"bread", "geteblk"}
      /\ u' = [u EXCEPT ![p] = Idle]
      /\ UNCHANGED <<ioq, fsize, cur, diskcur, lost>>
  BY <1>1 DEF Release, Owns, Running, Return
<1>3. PICK age \in SUBSET {"AGE"} : Brelse(x, Taken(x, age), bfreelist)
  BY <1>1 DEF Release
<1>4. x \in Bufs /\ x \in Held(p) /\ ~Queued(x)
  BY <1>1, <1>2, OwnTp DEF TpAt, Waits
<1>5. PICK F : F = buf[x].b_flags \cup {"BUSY"} \cup age
  BY Zenon
<1>6. PICK b : b = Taken(x, age)
  OBVIOUS
<1>7. /\ b \in [Bufs -> Buf] /\ b[x] = [buf[x] EXCEPT !.b_flags = F]
      /\ \A c \in Bufs \ {x} : b[c] = buf[c]
  <2>1. age \in SUBSET Flags
    BY DEF Flags
  <2>2. buf \in [Bufs -> Buf]
    BY DEF LockInv, TypeOK
  <2> QED BY <1>4, <1>5, <1>6, <2>1, <2>2, TakenFlags, TakenIs
<1>8. Named(u[p])' /\ AllocOk(p)' /\ Clean(p)' /\ \A q \in Procs \ {p} : u'[q] = u[q]
  BY <1>2, IdleNamed, Zenon
<1>9. Moves(p, {x})
  BY <1>1, <1>2, <1>8 DEF Moves
<1>10. Stays(x) \/ Has(x, "ERROR")
  BY <1>2, <1>4, NotFilling
<1>11. /\ \A f \in {"READ", "DONE", "ERROR", "DELWRI"} : f \in F <=> Has(x, f)
       /\ Has(x, "INVAL") <=> "INVAL" \in F
  BY <1>5 DEF Has
<1> QED BY <1>2, <1>3, <1>4, <1>6, <1>7, <1>8, <1>9, <1>10, <1>11, ReleaseKept

LEMMA OverlapCleanData ==
  ASSUME LockInv, DataInv, FsInv', NEW p \in Procs, OverlapClean(p)
  PROVE  DataInv'
<1>1. PICK x \in Others(p) :
         /\ ~Has(x, "BUSY") /\ ~Has(x, "DELWRI")
         /\ Brelse(x, Taken(x, {"INVAL"}), Notavail(x))
  BY DEF OverlapClean
<1>2. /\ cpu \in {p, NONE} /\ u[p].pc = "overlap" /\ u' = u
      /\ UNCHANGED <<ioq, fsize, cur, diskcur, lost>>
  BY DEF OverlapClean, Running
<1>3. x \in Bufs
  BY <1>1 DEF Others, Overlapping
<1>4. PICK fs \in SUBSET Flags : fs = {"INVAL"}
  BY Zenon DEF Flags
<1>5. PICK F : F = buf[x].b_flags \cup {"BUSY"} \cup fs
  BY Zenon
<1>6. PICK b : b = Taken(x, fs)
  OBVIOUS
<1>7. /\ b \in [Bufs -> Buf] /\ b[x] = [buf[x] EXCEPT !.b_flags = F]
      /\ \A c \in Bufs \ {x} : b[c] = buf[c]
  <2>1. buf \in [Bufs -> Buf]
    BY DEF LockInv, TypeOK
  <2> QED BY <1>3, <1>5, <1>6, <2>1, TakenFlags, TakenIs
<1>8. PICK fl : fl = Notavail(x)
  OBVIOUS
<1>9. Brelse(x, b, fl)
  <2>1. b = Taken(x, {"INVAL"})
    BY <1>4, <1>6
  <2> QED BY <1>1, <1>8, <2>1
<1>10. \A c \in Bufs \ {x} : buf'[c] = buf[c]
  <2>1. PICK R : buf' = [b EXCEPT ![x] = R]
    BY <1>9, Zenon DEF Brelse
  <2> QED BY <1>7, <2>1
<1>11. Named(u[p])'
  <2>1. Named(u[p]) /\ SameClaims(p)
    BY <1>2 DEF DataInv, SameClaims
  <2>2. \A c \in Held(p) : Bare(c) /\ cur'[c] \subseteq cur[c]
    BY <1>1, <1>2, <1>10, HeldBare
  <2> QED BY <1>2, <2>1, <2>2, NamedStays
<1>12. AllocOk(p)' /\ Clean(p)'
  BY <1>2 DEF AllocOk, Clean
<1>13. Moves(p, {x})
  BY <1>2 DEF Moves, FillSteps
<1>14. Stays(x) /\ ~Queued(x)
  BY <1>1, <1>3, FreeStays
<1>15. /\ \A f \in {"READ", "DONE", "ERROR", "DELWRI"} : f \in F <=> Has(x, f)
       /\ "INVAL" \in F
  BY <1>4, <1>5 DEF Has
<1> QED BY <1>1, <1>2, <1>3, <1>7, <1>9, <1>11, <1>12, <1>13, <1>14, <1>15, ReleaseKept

-----------------------------------------------------------------------------
(* The owner of a block asks for it to grow.                               *)

LEMMA DoneCleared ==
  ASSUME LockInv, NEW x \in Bufs, buf' = [buf EXCEPT ![x].b_flags = @ \ {"DONE"}]
  PROVE  /\ SameBlock(x)
         /\ buf'[x].b_bufsize = buf[x].b_bufsize
         /\ \A c \in Bufs \ {x} : buf'[c] = buf[c]
         /\ \A f : Has(x, f)' <=> Has(x, f) /\ f # "DONE"
<1>1. buf[x] \in Buf /\ buf \in [Bufs -> Buf]
  BY DEF LockInv, TypeOK
<1>2. buf'[x] = [buf[x] EXCEPT !.b_flags = buf[x].b_flags \ {"DONE"}]
      /\ \A c \in Bufs \ {x} : buf'[c] = buf[c]
  BY <1>1
<1> QED BY <1>1, <1>2 DEF Buf, SameBlock, Has

LEMMA ExtendData ==
  ASSUME LockInv, DataInv, FsInv', NEW p \in Procs, Extend(p)
  PROVE  DataInv'
<1>1. PICK x, r, m : x = u[p].tp /\ r = u[p].req /\ m = u[p].main
  OBVIOUS
<1>2. /\ cpu \in {p, NONE} /\ u[p].pc = "own" /\ u[p].op = "extend" /\ ~Has(x, "ERROR")
      /\ buf' = [buf EXCEPT ![x].b_flags = @ \ {"DONE"}]
      /\ u' = [u EXCEPT ![p] = [u[p] EXCEPT !.pc = "overlap", !.op = "extended",
                                            !.req = u[p].main, !.main = NONE]]
      /\ UNCHANGED <<ioq, fsize, cur, diskcur, lost>>
  BY <1>1 DEF Extend, Owns, Running
<1>3. /\ u'[p].pc = "overlap" /\ u'[p].op = "extended" /\ u'[p].req = m
      /\ u'[p].tp = x /\ u'[p].ep = u[p].ep /\ u'[p].hold = u[p].hold
      /\ \A q \in Procs \ {p} : u'[q] = u[q]
  BY <1>1, <1>2, ProcType DEF LockInv, TypeOK, Proc
<1>4. u[p].ep = NONE /\ u[p].hold = NONE
  BY <1>2 DEF LockInv, Shape, Shapely, HoldAt
<1>5. /\ x \in Bufs /\ x \in Held(p) /\ ~Queued(x) /\ At(x, r) /\ buf[x].b_bcount = r.size
      /\ \A q \in Procs : u[q].tp = x => q = p
  BY <1>1, <1>2, OwnTp DEF TpAt, Waits, Gained
<1>6. m.dev = r.dev /\ m.blkno = r.blkno /\ r.size <= m.size
  <2>1. Asks(u[p]) /\ u[p].main \in Request
    BY <1>2, AskedFor, ProcType DEF DataInv, LockInv, Proc
  <2>2. m # NONE
    <3>1. NONE \notin [dev : Devs \cup {NODEV}, blkno : Sectors, size : 0..MaxSize]
      BY BufCacheAssumption
    <3> QED BY <1>1, <2>1, <3>1 DEF Request
  <2> QED BY <1>1, <1>2, <2>1, <2>2 DEF Asks
<1>7. /\ SameBlock(x)
      /\ buf'[x].b_bufsize = buf[x].b_bufsize
      /\ \A c \in Bufs \ {x} : buf'[c] = buf[c]
      /\ \A f : Has(x, f)' <=> Has(x, f) /\ f # "DONE"
  BY <1>2, <1>5, DoneCleared, Zenon
<1>8. ~Has(x, "DONE")' /\ \A f \in {"READ", "ERROR", "DELWRI", "INVAL"} : Has(x, f)' <=> Has(x, f)
  BY <1>7
<1>9. At(x, m)' /\ buf'[x].b_bcount <= m.size
  <2>1. At(x, m)
    BY <1>5, <1>6 DEF At
  <2> QED BY <1>5, <1>6, <1>7, <1>8, <2>1, AtMoved DEF SameBlock
<1>10. Named(u[p])'
  BY <1>3, <1>4, <1>8, <1>9 DEF Named, TpNamed, EpNamed, HoldNamed, At, Has, Gained
<1>11. AllocOk(p)' /\ Clean(p)'
  BY <1>3 DEF AllocOk, Clean
<1>12. Moves(p, {x})
  BY <1>1, <1>2, <1>3 DEF Moves
<1>13. Fills(x)'
  BY <1>3 DEF Fills
<1>14. Stays(x)
  BY <1>2, <1>5, <1>13 DEF Stays, Grown
<1>15. Live(x)' <=> Live(x)
  BY <1>7, <1>8 DEF Live, SameBlock
<1>16. Delayed(x)
  BY <1>5 DEF DataInv
<1>17. Eases(x)
  <2>1. cur'[x] = cur[x]
    BY <1>2
  <2> QED BY <1>2, <1>7, <1>8, <1>14, <1>15, <1>16, <2>1 DEF Eases, Delayed
<1>18. \A c \in Bufs \ {x} : Same(c)
  BY <1>2, <1>7 DEF Same
<1> QED BY <1>2, <1>5, <1>7, <1>10, <1>11, <1>12, <1>13, <1>17, <1>18, EaseKept, Zenon

-----------------------------------------------------------------------------

LEMMA GottenExtendedData ==
  ASSUME LockInv, DataInv, FsInv', NEW p \in Procs, GottenExtended(p)
  PROVE  DataInv'
<1>1. PICK x, r : x = u[p].tp /\ r = u[p].req
  OBVIOUS
<1>2. /\ cpu \in {p, NONE} /\ u[p].pc = "gotten" /\ u[p].op = "extended"
      /\ buf' = [buf EXCEPT ![x].b_flags = @ \cup {"DONE"}]
      /\ fsize' = [fsize EXCEPT ![<<r.dev, r.blkno>>] = r.size]
      /\ u' = [u EXCEPT ![p].pc = "own"]
      /\ UNCHANGED <<ioq, cur, diskcur, lost>>
  BY <1>1 DEF GottenExtended, Running
<1>3. PICK npc : npc = "own"
  OBVIOUS
<1>4. Turns(p, npc, x, u[p].ep, u[p].hold)
  BY <1>1, <1>2, <1>3, TurnPc, Zenon DEF LockInv
<1>5. /\ u'[p].pc = "own" /\ u'[p].op = "extended" /\ u'[p].req = r /\ u'[p].tp = x
      /\ u'[p].ep = u[p].ep /\ u'[p].hold = u[p].hold
      /\ \A q \in Procs \ {p} : u'[q] = u[q]
  BY <1>1, <1>2, <1>3, <1>4 DEF Turns, SameTask
<1>6. u[p].ep = NONE /\ u[p].hold = NONE
  BY <1>2 DEF LockInv, Shape, Shapely
<1>7. /\ x \in Bufs /\ x \in Held(p) /\ ~Queued(x) /\ At(x, r) /\ buf[x].b_bcount = r.size
  BY <1>1, <1>2, OwnTp DEF TpAt, Waits, Gained
<1>8. PICK fs : fs = {"DONE"}
  BY Zenon
<1>9. /\ SameBlock(x)
      /\ buf'[x].b_bufsize = buf[x].b_bufsize
      /\ \A c \in Bufs \ {x} : buf'[c] = buf[c]
      /\ \A f : Has(x, f)' <=> Has(x, f) \/ f \in fs
  BY <1>2, <1>7, <1>8, FlagsAdded, Zenon
<1>10. Has(x, "DONE")' /\ \A f \in {"READ", "ERROR", "DELWRI", "INVAL"} : Has(x, f)' <=> Has(x, f)
  BY <1>8, <1>9
<1>11. At(x, r)' /\ buf'[x].b_bcount = r.size
  BY <1>7, <1>9, <1>10, AtMoved DEF SameBlock
<1>12. Named(u[p])'
  BY <1>5, <1>6, <1>11 DEF Named, TpNamed, EpNamed, HoldNamed, At, Has
<1>13. AllocOk(p)' /\ Clean(p)'
  BY <1>5 DEF AllocOk, Clean
<1>14. Moves(p, {x})
  BY <1>1, <1>4, MovesOwn
<1>15. Grown(x)' /\ Fills(x)' /\ Making(x)'
  <2>1. Grown(x)' /\ Fills(x)'
    BY <1>5 DEF Grown, Fills
  <2>2. buf'[x].b_dev = r.dev /\ buf'[x].b_blkno = r.blkno
    BY <1>11 DEF At
  <2> QED BY <1>5, <2>1, <2>2 DEF Making
<1>16. Live(x)' <=> Live(x)
  BY <1>9, <1>10 DEF Live, SameBlock
<1>17. ~Queued(x)'
  BY <1>2, <1>7 DEF Queued
<1>18. Delayed(x)'
  <2>1. Delayed(x)
    BY <1>7 DEF DataInv
  <2> QED BY <1>9, <1>10, <1>15, <1>16, <1>17, <2>1 DEF Delayed, SameBlock
<1>19. ASSUME NEW s \in Copies PROVE Touches(x, s)
  <2>1. Right(x, s)
    BY <1>7 DEF DataInv, DataAt
  <2>2. In(x, s)' <=> In(x, s)
    BY <1>9, BlockIn
  <2>3. ~Writing(x)'
    BY <1>17 DEF Writing
  <2>4. s \in cur'[x] <=> s \in cur[x]
    BY <1>2
  <2>5. Right(x, s)'
    BY <1>10, <1>15, <1>16, <2>1, <2>2, <2>3, <2>4 DEF Right
  <2>6. Has(x, "DELWRI")' <=> Has(x, "DELWRI")
    BY <1>10
  <2> QED BY <1>16, <2>2, <2>4, <2>5, <2>6 DEF Touches, Holds
<1>20. \A c \in Bufs \ {x} : Same(c) /\ Recut(c)
  <2>1. r.dev \in Devs /\ r.blkno \in Sectors
    <3>1. Real(r)
      BY <1>1, <1>2, AskedFor DEF DataInv, Asks, Gets
    <3>2. r \in Request
      BY <1>1, <1>2, ProcType DEF LockInv, Proc
    <3> QED BY <3>1, <3>2 DEF Real, Request
  <2> SUFFICES ASSUME NEW c \in Bufs \ {x} PROVE Same(c) /\ Recut(c)
    OBVIOUS
  <2>2. Same(c)
    BY <1>2, <1>9 DEF Same
  <2>3. buf'[c].b_dev = buf[c].b_dev /\ buf'[c].b_blkno = buf[c].b_blkno
    BY <1>9
  <2>4. PICK d, b, n : d = r.dev /\ b = r.blkno /\ n = r.size
    OBVIOUS
  <2>5. /\ fsize' = [fsize EXCEPT ![<<d, b>>] = n]
        /\ \E q \in Procs : /\ u'[q].op \in {"alloc", "extended"}
                            /\ u'[q].req.dev = d /\ u'[q].req.blkno = b
    BY <1>2, <1>5, <2>4
  <2>6. Recut(c)
    BY <2>1, <2>3, <2>4, <2>5, CutOne, Zenon
  <2> QED BY <2>2, <2>6
<1> QED BY <1>2, <1>7, <1>9, <1>12, <1>13, <1>14, <1>18, <1>19, <1>20, TouchKept

-----------------------------------------------------------------------------
(* allocbuf with enough memory: the block has its new size.                *)

LEMMA SectorsGrow ==
  ASSUME NEW d, NEW b \in Nat, NEW m \in Nat, NEW n \in Nat, m <= n
  PROVE  SectorsOf(d, b, m) \subseteq SectorsOf(d, b, n)
<1>1. b..(b + m - 1) \subseteq b..(b + n - 1)
  OBVIOUS
<1> QED BY <1>1 DEF SectorsOf

LEMMA HeaderNumbers ==
  ASSUME LockInv, NEW c \in Bufs
  PROVE  buf[c].b_blkno \in Nat /\ buf[c].b_bcount \in Nat
<1>1. Sectors \cup {0} \subseteq Nat
  BY BufCacheAssumption
<1>2. buf[c].b_blkno \in Sectors \cup {0} /\ buf[c].b_bcount \in Nat
  BY DEF LockInv, TypeOK, Buf
<1> QED BY <1>1, <1>2

(* Who has a sector of the block that p asks for stands in its way.        *)
LEMMA InTheWay ==
  ASSUME LockInv, NEW p \in Procs, NEW r, r = u[p].req, r \in Request, r.dev \in Devs,
         NEW s, s \in Span(r),
         NEW c \in Bufs, c # u[p].tp, Live(c), In(c, s)
  PROVE  c \in Others(p)
<1>1. PICK d, b, n : d = buf[c].b_dev /\ b = buf[c].b_blkno /\ n = buf[c].b_bcount
  BY Zenon
<1>2. b \in Nat /\ n \in Nat /\ r.blkno \in Nat /\ r.size \in Nat
  BY <1>1, HeaderNumbers, RequestNumbers
<1>3. PICK i \in b..(b + n - 1) : s = <<d, i>>
  BY <1>1 DEF In, Extent, SectorsOf
<1>4. PICK j \in r.blkno..(r.blkno + r.size - 1) : s = <<r.dev, j>>
  BY DEF Span, SectorsOf
<1>5. d = r.dev /\ i = j
  BY <1>3, <1>4
<1>6. n # 0 /\ b <= r.blkno + r.size - 1 /\ b + n > r.blkno
  BY <1>2, <1>3, <1>4, <1>5
<1> QED BY <1>1, <1>5, <1>6, Zenon DEF Others, Overlapping, Live

-----------------------------------------------------------------------------

(* What allocbuf does to the header x, whose block is then n sectors long. *)
LEMMA SizedFacts ==
  ASSUME LockInv, NEW x \in Bufs, NEW n \in Nat, buf' = Sized(buf, x, n), cur' = Trimmed(x, n)
  PROVE  /\ buf'[x].b_bcount = n /\ buf'[x].b_dev = buf[x].b_dev
         /\ buf'[x].b_blkno = buf[x].b_blkno /\ buf'[x].b_bufsize = buf[x].b_bufsize
         /\ \A f : Has(x, f)' <=> Has(x, f)
         /\ \A c \in Bufs \ {x} : Same(c)
         /\ \A s : s \in cur'[x] <=> s \in cur[x] /\ In(x, s)'
         /\ n <= buf[x].b_bcount => \A s : In(x, s)' => In(x, s)
         /\ buf[x].b_bcount <= n => \A s : In(x, s) => In(x, s)'
         /\ \A r : r.dev = buf[x].b_dev /\ r.blkno = buf[x].b_blkno /\ r.size = n =>
              \A s : In(x, s)' <=> s \in Span(r)
<1>1. buf[x] \in Buf /\ buf \in [Bufs -> Buf] /\ cur \in [Bufs -> SUBSET Copies]
  BY DEF LockInv, TypeOK
<1>2. PICK d, b, m : d = buf[x].b_dev /\ b = buf[x].b_blkno /\ m = buf[x].b_bcount
  BY Zenon
<1>3. b \in Nat /\ m \in Nat
  BY <1>2, HeaderNumbers
<1>4. buf'[x] = [buf[x] EXCEPT !.b_bcount = n] /\ \A c \in Bufs \ {x} : buf'[c] = buf[c]
  BY <1>1 DEF Sized
<1>5. /\ buf'[x].b_bcount = n /\ buf'[x].b_dev = d /\ buf'[x].b_blkno = b
      /\ buf'[x].b_bufsize = buf[x].b_bufsize /\ buf'[x].b_flags = buf[x].b_flags
  BY <1>1, <1>2, <1>4 DEF Buf
<1>6. \A f : Has(x, f)' <=> Has(x, f)
  BY <1>5 DEF Has
<1>7. PICK S : S = SectorsOf(d, b, n)
  OBVIOUS
<1>8. cur'[x] = cur[x] \cap S /\ \A c \in Bufs \ {x} : cur'[c] = cur[c]
  <2>1. cur' = [cur EXCEPT ![x] = cur[x] \cap S]
    BY <1>2, <1>7 DEF Trimmed
  <2> QED BY <1>1, <2>1
<1>9. \A s : In(x, s)' <=> s \in S
  BY <1>5, <1>7 DEF In, Extent
<1>10. \A s : In(x, s) <=> s \in SectorsOf(d, b, m)
  BY <1>2 DEF In, Extent
<1>11. n <= m => S \subseteq SectorsOf(d, b, m)
  BY <1>3, <1>7, SectorsGrow
<1>12. m <= n => SectorsOf(d, b, m) \subseteq S
  BY <1>3, <1>7, SectorsGrow
<1>13. \A s : s \in cur'[x] <=> s \in cur[x] /\ In(x, s)'
  BY <1>8, <1>9
<1>14. n <= m => \A s : In(x, s)' => In(x, s)
  BY <1>9, <1>10, <1>11
<1>15. m <= n => \A s : In(x, s) => In(x, s)'
  BY <1>9, <1>10, <1>12
<1>16. ASSUME NEW r, r.dev = d, r.blkno = b, r.size = n PROVE \A s : In(x, s)' <=> s \in Span(r)
  <2>1. Span(r) = S
    BY <1>7, <1>16 DEF Span
  <2> QED BY <1>9, <2>1
<1>17. \A c \in Bufs \ {x} : Same(c)
  BY <1>4, <1>8 DEF Same
<1> QED BY <1>2, <1>5, <1>6, <1>13, <1>14, <1>15, <1>16, <1>17

LEMMA AllocKeepData ==
  ASSUME LockInv, DataInv, FsInv', NEW p \in Procs, AllocKeep(p)
  PROVE  DataInv'
<1>1. PICK x, r, n : x = u[p].tp /\ r = u[p].req /\ n = u[p].req.size
  OBVIOUS
<1>2. /\ cpu \in {p, NONE} /\ u[p].pc = "alloc"
      /\ buf' = Sized(buf, x, n) /\ cur' = Trimmed(x, n)
      /\ u' = [u EXCEPT ![p].pc = "gotten"]
      /\ UNCHANGED <<ioq, fsize, diskcur, lost>>
  BY <1>1 DEF AllocKeep, Running, Goto
<1>3. PICK npc : npc = "gotten"
  OBVIOUS
<1>4. Turns(p, npc, x, u[p].ep, u[p].hold)
  BY <1>1, <1>2, <1>3, TurnPc, Zenon DEF LockInv
<1>5. /\ u'[p].pc = "gotten" /\ u'[p].op = u[p].op /\ u'[p].req = r /\ u'[p].tp = x
      /\ u'[p].ep = u[p].ep /\ u'[p].hold = u[p].hold /\ u'[p].main = u[p].main
  BY <1>1, <1>2, <1>3, <1>4 DEF Turns, SameTask
<1>6. /\ x \in Bufs /\ x \in Held(p) /\ ~Queued(x) /\ x # NONE
      /\ \A q \in Procs : u[q].tp = x => q = p
      /\ u[p].op # "geteblk" => At(x, r)
      /\ u[p].op \in Gets \cup {"geteblk"}
  BY <1>1, <1>2, OwnTp, AskedFor, StepsAre DEF TpAt, Waits, DataInv
<1>7. u[p].ep = NONE /\ u[p].hold # x
  BY <1>1, <1>2, <1>6 DEF LockInv, Shape, Shapely
<1>8. r \in Request /\ n \in Nat /\ n = r.size
  BY <1>1, <1>2, ProcType, RequestNumbers DEF LockInv, Proc
<1>9. /\ buf'[x].b_bcount = n /\ buf'[x].b_dev = buf[x].b_dev
      /\ buf'[x].b_blkno = buf[x].b_blkno /\ buf'[x].b_bufsize = buf[x].b_bufsize
      /\ \A f : Has(x, f)' <=> Has(x, f)
      /\ \A c \in Bufs \ {x} : Same(c)
      /\ \A s : s \in cur'[x] <=> s \in cur[x] /\ In(x, s)'
      /\ n <= buf[x].b_bcount => \A s : In(x, s)' => In(x, s)
      /\ buf[x].b_bcount <= n => \A s : In(x, s) => In(x, s)'
      /\ r.dev = buf[x].b_dev /\ r.blkno = buf[x].b_blkno =>
           \A s : In(x, s)' <=> s \in Span(r)
  BY <1>2, <1>6, <1>8, SizedFacts
<1>10. Live(x)' <=> Live(x)
  BY <1>9 DEF Live
<1>11. ~Queued(x)' /\ ~Writing(x)'
  BY <1>2, <1>6 DEF Queued, Writing
<1>12. Delayed(x) /\ Named(u[p]) /\ AllocOk(p)
  BY <1>6 DEF DataInv
<1>13. Moves(p, {x})
  BY <1>1, <1>4, MovesOwn
<1>14. AllocOk(p)' /\ Clean(p)'
  BY <1>5 DEF AllocOk, Clean
<1>15. Named(u[p])'
  <2>1. HoldNamed(u[p])'
    <3>1. u[p].hold # NONE => u[p].hold \in Bufs \ {x}
      BY <1>7, HeldBy
    <3>2. u[p].hold # NONE => Bare(u[p].hold)
      BY <1>9, <3>1, KeptBare DEF Same
    <3> QED BY <1>5, <1>12, <3>2, HoldKept DEF Named
  <2>2. EpNamed(u[p])'
    BY <1>5, <1>7 DEF EpNamed
  <2>3. u[p].op # "geteblk" => At(x, r)'
    BY <1>6, <1>9 DEF At
  <2>4. u[p].op = "geteblk" => Has(x, "INVAL")' /\ cur'[x] = {}
    <3>1. u[p].op = "geteblk" => Has(x, "INVAL") /\ cur[x] = {}
      BY <1>1, <1>6, <1>12 DEF Named, TpNamed
    <3> QED BY <1>9, <3>1
  <2>5. TpNamed(u[p])'
    BY <1>5, <1>8, <1>9, <2>3, <2>4 DEF TpNamed, At, Has
  <2> QED BY <2>1, <2>2, <2>5 DEF Named
<1>16. Recut(x) /\ \A c \in Bufs \ {x} : Same(c) /\ Recut(c)
  BY <1>2, <1>9, SameFacts DEF Same, Recut, Cut
<1>17. ~Grown(x)
  BY <1>2, <1>6 DEF Grown
<1>18. Fills(x) => Fills(x)' /\ Making(x)'
  <2> SUFFICES ASSUME Fills(x) PROVE Fills(x)' /\ Making(x)'
    OBVIOUS
  <2>1. u[p].op \in {"alloc", "extended"}
    BY <1>6 DEF Fills
  <2>2. buf'[x].b_dev = r.dev /\ buf'[x].b_blkno = r.blkno
    BY <1>6, <1>9, <2>1 DEF At
  <2>3. Fills(x)'
    BY <1>5, <2>1 DEF Fills
  <2> QED BY <1>5, <2>1, <2>2, <2>3 DEF Making
<1>19. u[p].op # "geteblk" => Real(r) /\ n > 0 /\ \A s : In(x, s)' <=> s \in Span(r)
  <2> SUFFICES ASSUME u[p].op # "geteblk"
               PROVE  Real(r) /\ n > 0 /\ \A s : In(x, s)' <=> s \in Span(r)
    OBVIOUS
  <2>1. Real(r)
    BY <1>1, <1>6, AskedFor DEF DataInv, Asks
  <2> QED BY <1>6, <1>8, <1>9, <2>1 DEF Real, At
(* which of the three it is                                                *)
<1>20. CASE ~Live(x)
  <2>1. ~Has(x, "DELWRI")
    BY <1>12, <1>20 DEF Delayed
  <2>2. Delayed(x)'
    BY <1>9, <2>1 DEF Delayed
  <2>3. \A s \in Copies : Touches(x, s)
    BY <1>9, <1>10, <1>11, <1>20, <2>1 DEF Touches, Right
  <2> QED BY <1>2, <1>6, <1>9, <1>13, <1>14, <1>15, <1>16, <2>2, <2>3, TouchKept
<1>21. CASE Live(x) /\ u[p].op # "geteblk" /\ n < buf[x].b_bcount /\ ~Has(x, "DELWRI")
  <2>1. Delayed(x)'
    BY <1>9, <1>21 DEF Delayed
  <2>2. \A s : In(x, s)' => In(x, s)
    BY <1>8, <1>9, <1>21, <1>6, HeaderNumbers
  <2>3. ASSUME NEW s \in Copies PROVE Touches(x, s)
    <3>1. Right(x, s)
      BY <1>6 DEF DataInv, DataAt
    <3>2. /\ s \in cur'[x] <=> s \in cur[x] /\ In(x, s)'
          /\ In(x, s)' => In(x, s)
          /\ Has(x, "DONE")' <=> Has(x, "DONE")
          /\ Has(x, "ERROR")' <=> Has(x, "ERROR")
          /\ Has(x, "DELWRI")' <=> Has(x, "DELWRI")
      BY <1>9, <2>2
    <3>3. Right(x, s)'
      BY <1>2, <1>10, <1>11, <1>17, <1>21, <3>1, <3>2 DEF Right
    <3> QED BY <1>10, <1>21, <3>2, <3>3 DEF Touches
  <2> QED BY <1>2, <1>6, <1>9, <1>13, <1>14, <1>15, <1>16, <2>1, <2>3, TouchKept
<1>22. CASE Live(x) /\ u[p].op # "geteblk" /\ ~Has(x, "DONE") /\ Others(p) = {}
            /\ buf[x].b_bcount <= n
  <2>1. Has(x, "DELWRI") => Fills(x)' /\ Making(x)'
    BY <1>12, <1>18, <1>22 DEF Delayed
  <2>2. Delayed(x)'
    BY <1>9, <1>10, <1>11, <1>12, <1>19, <1>22, <2>1 DEF Delayed
  <2>3. \A s : In(x, s) => In(x, s)'
    BY <1>9, <1>22
  <2>4. ASSUME NEW s, In(x, s)'
        PROVE  s \in AllSectors /\ \A c \in Bufs \ {x} : ~(Live(c) /\ In(c, s))
    <3>1. Real(r) /\ s \in Span(r)
      BY <1>19, <1>22, <2>4
    <3>2. s \in AllSectors /\ r.dev \in Devs
      BY <3>1 DEF Real
    <3>3. ASSUME NEW c \in Bufs \ {x}, Live(c), In(c, s) PROVE FALSE
      <4>1. c \in Others(p)
        BY <1>1, <1>8, <3>1, <3>2, <3>3, InTheWay
      <4> QED BY <1>22, <4>1
    <3> QED BY <3>2, <3>3
  <2>5. ASSUME NEW s \in Copies PROVE Touches(x, s)
    <3>1. Right(x, s)
      BY <1>6 DEF DataInv, DataAt
    <3>2. /\ s \in cur'[x] <=> s \in cur[x] /\ In(x, s)'
          /\ In(x, s) => In(x, s)'
          /\ ~Has(x, "DONE")'
          /\ Has(x, "DELWRI")' <=> Has(x, "DELWRI")
      BY <1>9, <1>22, <2>3
    <3>3. Right(x, s)'
      BY <1>10, <1>11, <1>22, <2>1, <2>4, <3>1, <3>2 DEF Right
    <3>4. In(x, s)' => \A c \in Bufs \ {x} : ~(Live(c) /\ In(c, s))
      BY <2>4
    <3>5. Holds(x, s)' <=> Holds(x, s)
      BY <1>22, <3>1, <3>2 DEF Holds, Right
    <3> QED BY <3>2, <3>3, <3>4, <3>5 DEF Touches
  <2> QED BY <1>2, <1>6, <1>9, <1>13, <1>14, <1>15, <1>16, <2>2, <2>5, TouchKept
<1>23. Live(x) => u[p].op # "geteblk"
  BY <1>1, <1>6, <1>12 DEF Named, TpNamed, Live
<1> QED BY <1>1, <1>2, <1>12, <1>20, <1>21, <1>22, <1>23 DEF AllocOk

-----------------------------------------------------------------------------
(* The owner fills the buffer.                                             *)

LEMMA OwnerHas ==
  ASSUME LockInv, DataInv, NEW p \in Procs, Writable(p), NEW x, x = u[p].tp
  PROVE  /\ x \in Bufs /\ x \in Held(p) /\ ~Queued(x) /\ Live(x) /\ ~Has(x, "ERROR")
         /\ cpu \in {p, NONE} /\ u[p].pc = "own" /\ u[p].ep = NONE /\ u[p].hold = NONE
         /\ buf[x].b_bcount > 0
         /\ fsize[<<buf[x].b_dev, buf[x].b_blkno>>] = buf[x].b_bcount
<1>1. PICK r : r = u[p].req
  OBVIOUS
<1>2. /\ cpu \in {p, NONE} /\ u[p].pc = "own" /\ ~Has(x, "ERROR")
      /\ u[p].op \in {"bread", "getblk", "alloc", "extended"}
  BY DEF Writable, Owns, Running
<1>3. x \in Bufs /\ x \in Held(p) /\ ~Queued(x) /\ At(x, r) /\ buf[x].b_bcount = r.size
  BY <1>1, <1>2, OwnTp DEF TpAt, Waits, Gained
<1>4. Real(r) /\ Exact(r)
  BY <1>1, <1>2, AskedFor DEF DataInv, Asks, Gets, Reads
<1>5. Live(x)
  <2>1. NODEV \notin Devs
    BY BufCacheAssumption
  <2> QED BY <1>3, <1>4, <2>1 DEF Live, At, Real
<1>6. u[p].ep = NONE /\ u[p].hold = NONE
  BY <1>2 DEF LockInv, Shape, Shapely, HoldAt
<1> QED BY <1>2, <1>3, <1>4, <1>5, <1>6 DEF Real, Exact, At

LEMMA WrittenFacts ==
  ASSUME LockInv, NEW x \in Bufs, NEW F \in SUBSET Flags, NEW T,
         T = [buf[x] EXCEPT !.b_flags = F], buf' = [buf EXCEPT ![x] = Bwritten(T)]
  PROVE  /\ SameBlock(x) /\ buf'[x].b_bufsize = buf[x].b_bufsize
         /\ \A f \in {"READ", "DONE", "ERROR", "DELWRI"} : ~Has(x, f)'
         /\ Has(x, "INVAL")' <=> "INVAL" \in F
         /\ \A c \in Bufs \ {x} : buf'[c] = buf[c]
<1>1. buf[x] \in Buf /\ buf \in [Bufs -> Buf]
  BY DEF LockInv, TypeOK
<1>2. /\ T \in Buf /\ T.b_flags = F /\ T.b_dev = buf[x].b_dev /\ T.b_blkno = buf[x].b_blkno
      /\ T.b_bcount = buf[x].b_bcount /\ T.b_bufsize = buf[x].b_bufsize
  BY <1>1 DEF Buf
<1>3. PICK W : W = Bwritten(T)
  OBVIOUS
<1>4. /\ \A f \in {"READ", "DONE", "ERROR", "DELWRI"} : f \notin W.b_flags
      /\ "INVAL" \in W.b_flags <=> "INVAL" \in T.b_flags
      /\ W.b_dev = T.b_dev /\ W.b_blkno = T.b_blkno
      /\ W.b_bcount = T.b_bcount /\ W.b_bufsize = T.b_bufsize
  <2>1. /\ \A f \in {"READ", "DONE", "ERROR", "DELWRI"} : f \notin W.b_flags
        /\ \A f \in Flags \ {"READ", "DONE", "ERROR", "DELWRI", "AGE"} :
             f \in W.b_flags <=> f \in T.b_flags
        /\ W.b_dev = T.b_dev /\ W.b_blkno = T.b_blkno
        /\ W.b_bcount = T.b_bcount /\ W.b_bufsize = T.b_bufsize
    <3>1. /\ \A f \in {"READ", "DONE", "ERROR", "DELWRI"} : f \notin Bwritten(T).b_flags
          /\ \A f \in Flags \ {"READ", "DONE", "ERROR", "DELWRI", "AGE"} :
               f \in Bwritten(T).b_flags <=> f \in T.b_flags
          /\ Bwritten(T).b_dev = T.b_dev /\ Bwritten(T).b_blkno = T.b_blkno
          /\ Bwritten(T).b_bcount = T.b_bcount /\ Bwritten(T).b_bufsize = T.b_bufsize
      <4>1. T \in Buf
        BY <1>2
      <4> QED BY <4>1, BwrittenHas, Zenon
    <3> QED BY <1>3, <3>1
  <2> QED BY <2>1 DEF Flags
<1>5. buf'[x] = W /\ \A c \in Bufs \ {x} : buf'[c] = buf[c]
  BY <1>1, <1>3
<1> QED BY <1>2, <1>4, <1>5 DEF SameBlock, Has

LEMMA BdwriteData ==
  ASSUME LockInv, DataInv, FsInv', NEW p \in Procs, Bdwrite(p)
  PROVE  DataInv'
<1>1. PICK x : x = u[p].tp
  OBVIOUS
<1>2. PICK fs \in SUBSET Flags : fs = {"DELWRI", "DONE"}
  BY Zenon DEF Flags
<1>3. PICK b : b = Taken(x, fs)
  OBVIOUS
<1>4. /\ Writable(p) /\ Modify(x) /\ Brelse(x, b, bfreelist)
      /\ u' = [u EXCEPT ![p] = Idle] /\ UNCHANGED <<ioq, fsize>>
  <2>1. b = Taken(x, {"DELWRI", "DONE"})
    BY <1>2, <1>3
  <2> QED BY <1>1, <2>1 DEF Bdwrite, Return
<1>5. /\ x \in Bufs /\ x \in Held(p) /\ ~Queued(x) /\ Live(x) /\ ~Has(x, "ERROR")
      /\ cpu \in {p, NONE} /\ u[p].pc = "own" /\ buf[x].b_bcount > 0
      /\ fsize[<<buf[x].b_dev, buf[x].b_blkno>>] = buf[x].b_bcount
  BY <1>1, <1>4, OwnerHas
<1>6. PICK F : F = buf[x].b_flags \cup {"BUSY"} \cup fs
  BY Zenon
<1>7. /\ b \in [Bufs -> Buf] /\ b[x] = [buf[x] EXCEPT !.b_flags = F]
      /\ \A c \in Bufs \ {x} : b[c] = buf[c]
  <2>1. buf \in [Bufs -> Buf]
    BY DEF LockInv, TypeOK
  <2> QED BY <1>3, <1>5, <1>6, <2>1, TakenFlags, TakenIs
<1>8. /\ buf'[x].b_blkno = buf[x].b_blkno /\ buf'[x].b_bcount = buf[x].b_bcount
      /\ buf'[x].b_bufsize = buf[x].b_bufsize
      /\ buf'[x].b_dev = IF "ERROR" \in F THEN NODEV ELSE buf[x].b_dev
      /\ \A f \in DataFlags : Has(x, f)' <=> f \in F
      /\ \A c \in Bufs \ {x} : buf'[c] = buf[c]
  BY <1>4, <1>5, <1>7, ReleasedFacts
<1>9. "DELWRI" \in F /\ "DONE" \in F /\ "ERROR" \notin F /\ "INVAL" \notin F
  BY <1>2, <1>5, <1>6 DEF Live, Has
<1>10. Has(x, "DELWRI")' /\ Has(x, "DONE")' /\ ~Has(x, "ERROR")' /\ ~Has(x, "INVAL")'
  BY <1>8, <1>9 DEF DataFlags
<1>11. SameBlock(x)
  BY <1>8, <1>9 DEF SameBlock
<1>12. Live(x)'
  BY <1>5, <1>10, <1>11 DEF Live, SameBlock
<1>13. Named(u[p])' /\ AllocOk(p)' /\ Clean(p)' /\ \A q \in Procs \ {p} : u'[q] = u[q]
  BY <1>4, IdleNamed, Zenon
<1>14. Moves(p, {x})
  BY <1>1, <1>5, <1>13 DEF Moves
<1>15. ~Queued(x)'
  BY <1>4, <1>5 DEF Queued
<1>16. fsize'[<<buf'[x].b_dev, buf'[x].b_blkno>>] = buf'[x].b_bcount
  BY <1>4, <1>5, <1>11 DEF SameBlock
<1>17. Delayed(x)'
  BY <1>5, <1>8, <1>10, <1>12, <1>15, <1>16 DEF Delayed
<1> QED BY <1>4, <1>5, <1>8, <1>10, <1>11, <1>12, <1>13, <1>14, <1>17, FillKept

LEMMA BawriteData ==
  ASSUME LockInv, DataInv, FsInv', NEW p \in Procs, Bawrite(p)
  PROVE  DataInv'
<1>1. PICK x : x = u[p].tp
  OBVIOUS
<1>2. /\ Writable(p) /\ Modify(x) /\ Strategy(x)
      /\ u' = [u EXCEPT ![p] = Idle] /\ UNCHANGED fsize
  BY <1>1 DEF Bawrite, Return
<1>3. PICK age \in SUBSET {"AGE"} :
        buf' = [buf EXCEPT ![x] = Bwritten(Taken(x, {"ASYNC"} \cup age)[x])]
  BY <1>1, Zenon DEF Bawrite
<1>4. /\ x \in Bufs /\ x \in Held(p) /\ ~Queued(x) /\ Live(x) /\ ~Has(x, "ERROR")
      /\ cpu \in {p, NONE} /\ u[p].pc = "own"
  BY <1>1, <1>2, OwnerHas, Zenon
<1>5. PICK fs \in SUBSET Flags : fs = {"ASYNC"} \cup age
  BY Zenon DEF Flags
<1>6. PICK F \in SUBSET Flags : F = buf[x].b_flags \cup {"BUSY"} \cup fs
  <2>1. buf[x].b_flags \in SUBSET Flags
    BY <1>4 DEF LockInv, TypeOK, Buf
  <2> QED BY <2>1, Zenon DEF Flags
<1>7. PICK T : T = Taken(x, fs)[x]
  OBVIOUS
<1>8. T = [buf[x] EXCEPT !.b_flags = F]
  BY <1>4, <1>6, <1>7, TakenIs
<1>9. buf' = [buf EXCEPT ![x] = Bwritten(T)]
  BY <1>3, <1>5, <1>7
<1>10. /\ SameBlock(x) /\ buf'[x].b_bufsize = buf[x].b_bufsize
       /\ \A f \in {"READ", "DONE", "ERROR", "DELWRI"} : ~Has(x, f)'
       /\ Has(x, "INVAL")' <=> "INVAL" \in F
       /\ \A c \in Bufs \ {x} : buf'[c] = buf[c]
  BY <1>4, <1>8, <1>9, WrittenFacts, Zenon
<1>11. ~Has(x, "INVAL")'
  <2>1. "INVAL" \notin F
    BY <1>4, <1>5, <1>6 DEF Live, Has
  <2> QED BY <1>10, <2>1
<1>12. Live(x)'
  BY <1>4, <1>10, <1>11 DEF Live, SameBlock
<1>13. Named(u[p])' /\ AllocOk(p)' /\ Clean(p)' /\ \A q \in Procs \ {p} : u'[q] = u[q]
  BY <1>2, IdleNamed, Zenon
<1>14. Moves(p, {x})
  BY <1>1, <1>4, <1>13 DEF Moves
<1>15. Delayed(x)'
  BY <1>10 DEF Delayed
<1> QED BY <1>2, <1>4, <1>10, <1>12, <1>13, <1>14, <1>15, FillKept

LEMMA BwriteData ==
  ASSUME LockInv, DataInv, FsInv', NEW p \in Procs, Bwrite(p)
  PROVE  DataInv'
<1>1. PICK x : x = u[p].tp
  OBVIOUS
<1>2. /\ Writable(p) /\ Modify(x) /\ Strategy(x)
      /\ buf' = [buf EXCEPT ![x] = Bwritten(buf[x])]
      /\ u' = [u EXCEPT ![p].pc = "wwait"] /\ UNCHANGED fsize
  BY <1>1 DEF Bwrite, Goto
<1>3. /\ x \in Bufs /\ x \in Held(p) /\ ~Queued(x) /\ Live(x) /\ ~Has(x, "ERROR")
      /\ cpu \in {p, NONE} /\ u[p].pc = "own" /\ u[p].ep = NONE /\ u[p].hold = NONE
  BY <1>1, <1>2, OwnerHas, Zenon
<1>4. PICK F : F = buf[x].b_flags
  OBVIOUS
<1>5. PICK T : T = buf[x]
  OBVIOUS
<1>6. T = [buf[x] EXCEPT !.b_flags = F] /\ F \in SUBSET Flags
  BY <1>3, <1>4, <1>5, AsItIs DEF Buf
<1>7. /\ SameBlock(x) /\ buf'[x].b_bufsize = buf[x].b_bufsize
      /\ \A f \in {"READ", "DONE", "ERROR", "DELWRI"} : ~Has(x, f)'
      /\ Has(x, "INVAL")' <=> "INVAL" \in F
      /\ \A c \in Bufs \ {x} : buf'[c] = buf[c]
  BY <1>2, <1>3, <1>5, <1>6, WrittenFacts, Zenon
<1>8. Has(x, "INVAL")' <=> Has(x, "INVAL")
  BY <1>4, <1>7 DEF Has
<1>9. Live(x)'
  BY <1>3, <1>7, <1>8 DEF Live, SameBlock
<1>10. PICK npc : npc = "wwait"
  OBVIOUS
<1>11. Turns(p, npc, x, u[p].ep, u[p].hold)
  BY <1>1, <1>2, <1>10, TurnPc, Zenon DEF LockInv
<1>12. Moves(p, {x})
  BY <1>1, <1>11, MovesOwn
<1>13. AllocOk(p)' /\ Clean(p)'
  BY <1>10, <1>11 DEF AllocOk, Clean, Turns
<1>14. Named(u[p])'
  <2>1. PICK r : r = u[p].req
    OBVIOUS
  <2>2. At(x, r) /\ buf[x].b_bcount = r.size /\ u[p].op # "geteblk"
    BY <1>1, <1>2, <1>3, <2>1, OwnTp DEF TpAt, Gained, Writable
  <2>3. At(x, r)' /\ buf'[x].b_bcount = r.size
    BY <1>7, <1>8, <2>2, AtMoved DEF SameBlock
  <2>4. /\ u'[p].pc = "wwait" /\ u'[p].op = u[p].op /\ u'[p].req = r /\ u'[p].tp = x
        /\ u'[p].ep = NONE /\ u'[p].hold = NONE
    BY <1>3, <1>10, <1>11, <2>1 DEF Turns, SameTask
  <2> QED BY <2>2, <2>3, <2>4 DEF Named, TpNamed, EpNamed, HoldNamed, At, Has
<1>15. Delayed(x)'
  BY <1>7 DEF Delayed
<1> QED BY <1>2, <1>3, <1>7, <1>9, <1>12, <1>13, <1>14, <1>15, FillKept

-----------------------------------------------------------------------------
(* biodone.                                                                *)

(* What the end of the transfer of x does to its header.                   *)
Ended(x, ok) ==
  /\ Queued(x) /\ MayFinish(x) /\ ioq' = Unlink(ioq, x)
  /\ Transfer(x, ok)
  /\ UNCHANGED <<u, cpu, fsize>>
  /\ \A c \in Bufs \ {x} : buf'[c] = buf[c]
  /\ buf'[x].b_blkno = buf[x].b_blkno /\ buf'[x].b_bcount = buf[x].b_bcount
  /\ buf'[x].b_bufsize = buf[x].b_bufsize
  /\ buf'[x].b_dev = buf[x].b_dev \/ (buf'[x].b_dev = NODEV /\ ~Owned(x))
  /\ Has(x, "DELWRI")' <=> Has(x, "DELWRI")
  /\ Has(x, "INVAL")' <=> Has(x, "INVAL")
  /\ ~ok => Has(x, "ERROR")'

LEMMA IntrEnds ==
  ASSUME LockInv, NEW x \in Bufs, DiskIntr(x)
  PROVE  \E ok \in BOOLEAN : Ended(x, ok)
<1>1. PICK ok \in {TRUE, ~IOErrors} :
        LET b == [buf EXCEPT ![x].b_flags =
                    @ \cup {"DONE"} \cup (IF ok THEN {} ELSE {"ERROR"})]
        IN  /\ Transfer(x, ok)
            /\ IF Has(x, "ASYNC")
                 THEN Brelse(x, b, bfreelist)
                 ELSE /\ buf' = [b EXCEPT ![x].b_flags = @ \ {"WANTED"}]
                      /\ wchan' = Wakeup(wchan, {x})
                      /\ UNCHANGED <<bfreelist, flwanted>>
  BY Zenon DEF DiskIntr
<1>2. IOErrors \in BOOLEAN
  BY BufCacheAssumption
<1>3. PICK F : F = buf[x].b_flags \cup {"DONE"} \cup (IF ok THEN {} ELSE {"ERROR"})
  BY Zenon
<1>4. PICK b : b = [buf EXCEPT ![x].b_flags =
                      @ \cup {"DONE"} \cup (IF ok THEN {} ELSE {"ERROR"})]
  BY Zenon
<1>5. buf \in [Bufs -> Buf] /\ buf[x] \in Buf
  BY DEF LockInv, TypeOK
<1>6. F \in SUBSET Flags
  BY <1>3, <1>5 DEF Buf, Flags
<1>7. PICK B : B = [buf[x] EXCEPT !.b_flags = F]
  BY Zenon
<1>8. B \in Buf /\ B.b_flags = F
  BY <1>5, <1>6, <1>7 DEF Buf
<1>9. b = [buf EXCEPT ![x] = B]
  BY <1>3, <1>4, <1>7
<1>10. b \in [Bufs -> Buf] /\ b[x] = B /\ \A c \in Bufs \ {x} : b[c] = buf[c]
  BY <1>5, <1>8, <1>9
<1>11. /\ "DELWRI" \in F <=> Has(x, "DELWRI")
       /\ "INVAL" \in F <=> Has(x, "INVAL")
       /\ ~ok => "ERROR" \in F
  BY <1>3 DEF Has
<1>12. Queued(x) /\ Fits(x, Owned(x)) /\ MayFinish(x)
  BY DEF DiskIntr, MayFinish, Queued, LockInv
<1>13. /\ \A c \in Bufs \ {x} : buf'[c] = buf[c]
       /\ buf'[x].b_blkno = buf[x].b_blkno /\ buf'[x].b_bcount = buf[x].b_bcount
       /\ buf'[x].b_bufsize = buf[x].b_bufsize
       /\ buf'[x].b_dev = buf[x].b_dev \/ (buf'[x].b_dev = NODEV /\ ~Owned(x))
       /\ \A f \in DataFlags : Has(x, f)' <=> f \in F
  <2>1. CASE Has(x, "ASYNC")
    <3>1. Brelse(x, b, bfreelist)
      BY <1>1, <1>4, <2>1
    <3>2. b[x] = [buf[x] EXCEPT !.b_flags = F]
      BY <1>7, <1>10
    <3>3. /\ buf'[x].b_blkno = buf[x].b_blkno /\ buf'[x].b_bcount = buf[x].b_bcount
          /\ buf'[x].b_bufsize = buf[x].b_bufsize
          /\ buf'[x].b_dev = IF "ERROR" \in F THEN NODEV ELSE buf[x].b_dev
          /\ \A f \in DataFlags : Has(x, f)' <=> f \in F
          /\ \A c \in Bufs \ {x} : buf'[c] = buf[c]
      BY <1>10, <3>1, <3>2, ReleasedFacts
    <3>4. ~Owned(x)
      BY <1>12, <2>1 DEF Fits
    <3> QED BY <3>3, <3>4
  <2>2. CASE ~Has(x, "ASYNC")
    <3>1. buf' = [b EXCEPT ![x].b_flags = @ \ {"WANTED"}]
      BY <1>1, <1>4, <2>2
    <3>2. PICK G : G = F \ {"WANTED"}
      BY Zenon
    <3>3. PICK C : C = [B EXCEPT !.b_flags = G]
      BY Zenon
    <3>4. buf' = [b EXCEPT ![x] = C]
      BY <1>8, <1>10, <3>1, <3>2, <3>3
    <3>5. buf'[x] = C /\ \A c \in Bufs \ {x} : buf'[c] = buf[c]
      BY <1>10, <3>4
    <3>6. /\ C.b_flags = G /\ C.b_dev = buf[x].b_dev /\ C.b_blkno = buf[x].b_blkno
          /\ C.b_bcount = buf[x].b_bcount /\ C.b_bufsize = buf[x].b_bufsize
      BY <1>5, <1>7, <1>8, <3>3 DEF Buf
    <3>7. \A f \in DataFlags : f \in G <=> f \in F
      BY <3>2 DEF DataFlags
    <3> QED BY <3>5, <3>6, <3>7 DEF Has
  <2> QED BY <2>1, <2>2
<1>14. /\ Has(x, "DELWRI")' <=> Has(x, "DELWRI")
       /\ Has(x, "INVAL")' <=> Has(x, "INVAL")
       /\ ~ok => Has(x, "ERROR")'
  BY <1>11, <1>13 DEF DataFlags
<1>15. Transfer(x, ok) /\ ok \in BOOLEAN
  BY <1>1, <1>2, Zenon
<1>16. ioq' = Unlink(ioq, x) /\ UNCHANGED <<u, cpu, fsize>>
  BY DEF DiskIntr
<1> QED BY <1>12, <1>13, <1>14, <1>15, <1>16 DEF Ended

LEMMA EndedSame ==
  ASSUME LockInv, DataInv, NEW x \in Bufs, NEW ok \in BOOLEAN, Ended(x, ok)
  PROVE  /\ \A c \in Bufs \ {x} : Bare(c) /\ cur'[c] = cur[c] /\ (Queued(c)' <=> Queued(c))
         /\ \A c \in Bufs : Stays(c)
         /\ ~Has(x, "DELWRI") /\ ~Has(x, "DELWRI")'
         /\ Live(x)' => Live(x) /\ SameBlock(x)
<1>1. \A c \in Bufs \ {x} : Bare(c)
  BY KeptBare DEF Ended
<1>2. \A c \in Bufs \ {x} : cur'[c] = cur[c]
  <2>1. cur \in [Bufs -> SUBSET Copies]
    BY DEF LockInv, TypeOK
  <2> QED BY <2>1 DEF Ended, Transfer
<1>3. \A c \in Bufs \ {x} : Queued(c)' <=> Queued(c)
  <2>1. ioq \in Seq(Bufs) /\ NoDup(ioq) /\ ioq' = Unlink(ioq, x)
    BY DEF LockInv, TypeOK, Ended
  <2>2. Elems(ioq') = Elems(ioq) \ {x}
    BY <2>1, UnlinkElems
  <2> QED BY <2>2 DEF Queued
<1>4. \A c \in Bufs : Stays(c)
  BY DEF Ended, Stays, Fills, Grown
<1>5. ~Has(x, "DELWRI")
  BY Zenon DEF DataInv, Delayed, Ended
<1>6. Live(x)' => Live(x) /\ SameBlock(x)
  BY DEF Ended, Live, SameBlock
<1> QED BY <1>1, <1>2, <1>3, <1>4, <1>5, <1>6 DEF Ended

LEMMA EndedNamed ==
  ASSUME LockInv, DataInv, NEW x \in Bufs, NEW ok \in BOOLEAN, Ended(x, ok), NEW q \in Procs
  PROVE  Named(u[q])'
<1>1. u' = u /\ Named(u[q]) /\ SameClaims(q)
  BY DEF Ended, DataInv, SameClaims
<1>2. \A c \in Bufs \ {x} : Bare(c) /\ cur'[c] \subseteq cur[c]
  BY EndedSame
<1>3. x # NONE
  BY BufCacheAssumption
<1>4. x \in Held(q) => SameBlock(x) /\ (Has(x, "INVAL")' <=> Has(x, "INVAL"))
  BY DEF Ended, Owned, SameBlock
<1>5. TpNamed(u[q])'
  <2>1. CASE u[q].tp # x
    BY <1>1, <1>2, <2>1, HeldBy, TpKept DEF Named
  <2>2. CASE u[q].tp = x
    <3>1. x \in Held(q) /\ u[q].pc \in Waits
      BY <1>3, <2>2 DEF Held, LockInv, Placed, PlacedAs, Ended
    <3>2. u[q].op # "geteblk"
      BY <3>1, AskedFor, StepsAre DEF DataInv, Waits, Gets, Reads
    <3>3. PICK r : r = u[q].req
      OBVIOUS
    <3>4. At(x, r) /\ (u[q].pc \in Gained => buf[x].b_bcount = r.size)
      BY <1>1, <1>3, <2>2, <3>2, <3>3 DEF Named, TpNamed
    <3>5. At(x, r)'
      BY <1>4, <3>1, <3>4, AtMoved
    <3>6. buf'[x].b_bcount = buf[x].b_bcount
      BY DEF Ended
    <3> QED BY <1>1, <2>2, <3>1, <3>2, <3>3, <3>4, <3>5, <3>6 DEF TpNamed, Waits, At, Has
  <2> QED BY <2>1, <2>2
<1>6. EpNamed(u[q])'
  <2>1. CASE u[q].ep # x
    BY <1>1, <1>2, <2>1, HeldBy, EpKept DEF Named
  <2>2. CASE u[q].ep = x
    <3>1. x \in Held(q)
      BY <1>3, <2>2 DEF Held
    <3> QED BY <1>1, <1>4, <2>2, <3>1 DEF Named, EpNamed, SameBlock
  <2> QED BY <2>1, <2>2
<1>7. HoldNamed(u[q])'
  <2>1. CASE u[q].hold # x
    BY <1>1, <1>2, <2>1, HeldBy, HoldKept DEF Named
  <2>2. CASE u[q].hold = x
    <3>1. x \in Held(q)
      BY <1>3, <2>2 DEF Held
    <3>2. PICK r : r = u[q].main
      OBVIOUS
    <3>3. At(x, r) /\ buf[x].b_bcount = r.size
      BY <1>1, <1>3, <2>2, <3>2 DEF Named, HoldNamed
    <3>4. At(x, r)' /\ buf'[x].b_bcount = r.size
      BY <1>4, <3>1, <3>3, AtMoved DEF SameBlock
    <3> QED BY <1>1, <2>2, <3>2, <3>4 DEF HoldNamed, At, Has
  <2> QED BY <2>1, <2>2
<1> QED BY <1>5, <1>6, <1>7 DEF Named

LEMMA EndedAlloc ==
  ASSUME LockInv, DataInv, NEW x \in Bufs, NEW ok \in BOOLEAN, Ended(x, ok), NEW q \in Procs
  PROVE  AllocOk(q)' /\ Clean(q)'
<1>1. /\ u' = u /\ cpu' = cpu /\ AllocOk(q) /\ Clean(q) /\ Asks(u[q])
      /\ \A c \in Bufs \ {x} : buf'[c] = buf[c]
  BY AskedFor DEF Ended, DataInv
<1>2. Clean(q)'
  <2>1. ~Has(x, "DELWRI")'
    BY EndedSame
  <2> QED BY <1>1, <2>1 DEF Clean, Has
<1>3. ASSUME u[q].pc = "alloc" PROVE AllocOk(q)'
  <2>1. PICK tp : tp = u[q].tp
    OBVIOUS
  <2>2. tp \in Bufs /\ tp # x
    BY <1>3, <2>1, OwnTp DEF TpAt, Waits, Ended
  <2>3. buf'[tp] = buf[tp]
    BY <1>1, <2>2
  <2>4. u[q].op # "geteblk" => Others(q)' \subseteq Others(q)
    <3> SUFFICES ASSUME u[q].op # "geteblk", NEW c \in Others(q)' PROVE c \in Others(q)
      OBVIOUS
    <3>1. u[q].op \in Gets
      BY <1>3, AskedFor, StepsAre DEF DataInv
    <3>2. NODEV \notin Devs
      BY BufCacheAssumption
    <3>3. u[q].req.dev # NODEV
      BY <1>1, <3>1, <3>2 DEF Asks, Real
    <3>4. CASE c # x
      BY <1>1, <3>4 DEF Others, Overlapping, Has
    <3>5. CASE c = x
      BY <1>1, <3>3, <3>5 DEF Others, Overlapping, Ended, Has
    <3> QED BY <3>4, <3>5
  <2>5. /\ Others(q) = {} /\ u[q].op # "geteblk" => Others(q)' = {}
        /\ Has(tp, "DONE")' <=> Has(tp, "DONE")
        /\ Has(tp, "DELWRI")' <=> Has(tp, "DELWRI")
    BY <2>3, <2>4 DEF Has
  <2> QED BY <1>1, <1>3, <2>1, <2>3, <2>5 DEF AllocOk
<1> QED BY <1>1, <1>2, <1>3 DEF AllocOk

LEMMA DiskIntrData ==
  ASSUME LockInv, DataInv, FsInv', NEW x \in Bufs, DiskIntr(x)
  PROVE  DataInv'
<1>1. PICK ok \in BOOLEAN : Ended(x, ok)
  BY IntrEnds
<1>2. Full'
  BY <1>1 DEF Full, DataInv, Ended
<1>3. \A q \in Procs : Named(u[q])' /\ AllocOk(q)' /\ Clean(q)'
  BY <1>1, EndedNamed, EndedAlloc
<1>4. /\ \A c \in Bufs \ {x} : Bare(c) /\ cur'[c] = cur[c] /\ (Queued(c)' <=> Queued(c))
      /\ \A c \in Bufs : Stays(c)
      /\ ~Has(x, "DELWRI") /\ ~Has(x, "DELWRI")'
      /\ Live(x)' => Live(x) /\ SameBlock(x)
  BY <1>1, EndedSame
<1>5. ASSUME NEW c \in Bufs PROVE Delayed(c)'
  <2>1. CASE c = x
    BY <1>4, <2>1 DEF Delayed
  <2>2. CASE c # x
    <3>1. Delayed(c) /\ buf'[c] = buf[c] /\ u' = u /\ fsize' = fsize
      BY <1>1, <2>2 DEF DataInv, Ended
    <3>2. Queued(c)' <=> Queued(c)
      BY <1>4, <2>2
    <3> QED BY <3>1, <3>2 DEF Delayed, Live, Has, Fills, Making
  <2> QED BY <2>1, <2>2
<1>6. ASSUME NEW s \in Copies PROVE DataAt(s)'
  <2>1. DataAt(s) /\ \A c \in Bufs : Delayed(c)
    BY DEF DataInv
  <2>2. \A c \in Bufs \ {x} : \A f \in {"READ", "DONE", "ERROR", "DELWRI"} :
          Has(c, f)' <=> Has(c, f)
    BY <1>4, BareSame
  <2>3. \A c \in Bufs \ {x} : (Live(c)' <=> Live(c)) /\ (In(c, s)' <=> In(c, s))
    BY <1>4, BareSame
  <2>4. Live(x)' => (In(x, s)' <=> In(x, s))
    BY <1>4, BlockIn
  <2>5. /\ MayFinish(x) /\ ioq' = Unlink(ioq, x) /\ Transfer(x, ok)
        /\ ~ok => Has(x, "ERROR")'
    BY <1>1 DEF Ended
  <2> QED BY <1>4, <2>1, <2>2, <2>3, <2>4, <2>5, StepFinish
<1> QED BY <1>2, <1>3, <1>5, <1>6 DEF DataInv

-----------------------------------------------------------------------------
(* The invariant holds always.                                             *)

LEMMA AllocbufData ==
  ASSUME Ample, MemInv, LockInv, DataInv, FsInv', NEW p \in Procs, Allocbuf(p)
  PROVE  DataInv'
<1>1. ~AllocShrink(p)
  BY NoEmpty, Zenon DEF AllocShrink
<1>2. ~AllocTake(p)
  <2>1. NeedsNew(p) => u[p].pc = "getnew"
    BY EnoughMemory
  <2> QED BY <2>1 DEF AllocTake
<1> QED BY <1>1, <1>2, AllocKeepData DEF Allocbuf

LEMMA GottenData ==
  ASSUME LockInv, DataInv, FsInv', NEW p \in Procs, Gotten(p)
  PROVE  DataInv'
BY GottenOwn, BreadSentData, GottenExtendedData, GottenBreadaData, ReadAheadSentData,
   ReadAheadDoneData DEF Gotten

LEMMA InsideData ==
  ASSUME Ample, MemInv, LockInv, TypeOK', DataInv, FsInv', NEW p \in Procs, Inside(p)
  PROVE  DataInv'
<1>1. CASE Getnewbuf(p)
  BY <1>1, GetnewSleepData, GetnewFlushData, GetblkBindData, GeteblkBindData DEF Getnewbuf
<1>2. CASE Getblk(p)
  BY <1>2, GetblkBusyData, GetblkHitData, GetblkMissData DEF Getblk
<1>3. CASE Overlap(p)
  BY <1>3, OverlapBusyData, OverlapDirtyData, OverlapCleanData, OverlapNoneData DEF Overlap
<1>4. CASE Allocbuf(p)
  BY <1>4, AllocbufData
<1>5. CASE Biowait(p)
  BY <1>5, BiowaitSleepData, BwriteDoneData, GottenOwn DEF Biowait
<1>6. CASE Gotten(p)
  BY <1>6, GottenData
<1>7. CASE Breada(p)
  BY <1>7, BreadaStartData, ReadAheadStartData, ReadAheadNoneData DEF Breada
<1>8. CASE Owner(p)
  BY <1>8, ReleaseData, BdwriteData, BawriteData, BwriteData, ExtendData DEF Owner
<1>9. CASE Flush(p)
  BY <1>9, BlkflushQuiet, BlkflushDirtyData, BflushOneData, BflushDoneData, BinvalData DEF Flush
<1> QED BY <1>1, <1>2, <1>3, <1>4, <1>5, <1>6, <1>7, <1>8, <1>9 DEF Inside

LEMMA NextData ==
  ASSUME Ample, MemInv, TypeOK', DataInv, [Next]_vars
  PROVE  DataInv'
<1>1. LockInv /\ FsInv /\ TypeOK
  BY DEF MemInv, LockInv, DataInv
<1>2. FsInv'
  BY <1>1, NextAsks
<1>3. ASSUME NEW p \in Procs, Call(p) PROVE DataInv'
  BY <1>1, <1>2, <1>3, CallData
<1>4. ASSUME NEW p \in Procs, Inside(p) PROVE DataInv'
  BY <1>1, <1>2, <1>4, InsideData
<1>5. ASSUME NEW bp \in Bufs, DiskIntr(bp) PROVE DataInv'
  BY <1>1, <1>2, <1>5, DiskIntrData
<1>6. CASE UNCHANGED vars
  <2>1. Full' /\ \A c \in Bufs : Delayed(c)'
    BY <1>6 DEF vars, DataInv, Full, Delayed, Live, Has, Queued, Fills, Making
  <2>2. ASSUME NEW q \in Procs PROVE Named(u[q])' /\ AllocOk(q)' /\ Clean(q)'
    <3>1. Named(u[q]) /\ AllocOk(q) /\ Clean(q) /\ u' = u /\ buf' = buf /\ cpu' = cpu /\ cur' = cur
      BY <1>6 DEF vars, DataInv
    <3>2. Named(u[q])'
      BY <3>1 DEF Named, TpNamed, EpNamed, HoldNamed, At, Has
    <3>3. Others(q)' = Others(q)
      BY <3>1 DEF Others, Overlapping, Has
    <3> QED BY <3>1, <3>2, <3>3 DEF AllocOk, Clean, Has
  <2>3. ASSUME NEW s \in Copies PROVE DataAt(s)'
    <3>1. DataAt(s)
      BY DEF DataInv
    <3>2. UNCHANGED <<ioq, diskcur, lost>> /\ \A c \in Bufs : s \in cur'[c] <=> s \in cur[c]
      BY <1>6 DEF vars
    <3>3. \A c \in Bufs : buf'[c] = buf[c] /\ Stays(c)
      BY <1>6 DEF vars, Stays, Fills, Grown
    <3>4. \A c \in Bufs : /\ Live(c)' => Live(c)
                          /\ In(c, s)' <=> In(c, s)
                          /\ \A f \in {"READ", "DONE", "ERROR", "DELWRI"} : Has(c, f)' <=> Has(c, f)
      BY <3>3, SameFlagsAt
    <3> QED BY <3>1, <3>2, <3>3, <3>4, StepQuiet
  <2> QED BY <1>2, <2>1, <2>2, <2>3 DEF DataInv
<1> QED BY <1>3, <1>4, <1>5, <1>6 DEF Next

LEMMA InitData ==
  ASSUME Init
  PROVE  DataInv
<1>1. FsInv
  BY InitAsks
<1>2. /\ \A c \in Bufs : /\ buf[c].b_flags = {"INVAL"} /\ buf[c].b_dev = NODEV
                         /\ buf[c].b_bufsize = InitBufsize[c] /\ cur[c] = {}
      /\ ioq = <<>> /\ diskcur = AllSectors
      /\ \A q \in Procs : u[q] = Idle
  BY DEF Init
<1>3. Full
  BY <1>2 DEF Full
<1>4. \A q \in Procs : Named(u[q]) /\ AllocOk(q) /\ Clean(q)
  BY <1>2 DEF Named, TpNamed, EpNamed, HoldNamed, AllocOk, Clean, Idle
<1>5. \A c \in Bufs : Delayed(c) /\ ~Live(c) /\ ~Has(c, "DELWRI") /\ ~Queued(c)
  BY <1>2 DEF Delayed, Live, Has, Queued, Elems
<1>6. ASSUME NEW s \in Copies PROVE DataAt(s)
  <2>1. \A c \in Bufs : Right(c, s)
    BY <1>5 DEF Right, Writing
  <2>2. \A a, b \in Bufs : Agree(a, b, s)
    BY <1>2, <1>5 DEF Agree, Sole, Writing, Ahead
  <2>3. s \in AllSectors => Carried(s)
    BY <1>2 DEF Carried
  <2> QED BY <2>1, <2>2, <2>3 DEF DataAt
<1> QED BY <1>1, <1>3, <1>4, <1>5, <1>6 DEF DataInv

-----------------------------------------------------------------------------
(* What follows from the invariant.                                        *)

LEMMA MappedLive ==
  ASSUME NEW c \in Bufs, Mapped(c)
  PROVE  Live(c)
BY DEF Mapped, Live

LEMMA DataSole ==
  ASSUME LockInv, DataInv
  PROVE  SoleMapping
<1> SUFFICES ASSUME NEW a \in Bufs, NEW b \in Bufs, Mapped(a), Mapped(b), a # b,
                    NEW s \in Extent(buf[a]) \cap Extent(buf[b])
             PROVE  FALSE
  BY DEF SoleMapping
<1>1. Live(a) /\ Live(b) /\ In(a, s) /\ In(b, s)
  BY MappedLive DEF In
<1> QED BY <1>1, OneLive

LEMMA DataCoherent ==
  ASSUME LockInv, DataInv
  PROVE  Coherent
<1> SUFFICES ASSUME NEW c \in Bufs, Mapped(c), Has(c, "DONE"), ~Has(c, "ERROR"),
                    \A p \in Procs : u[p].tp = c => u[p].op # "extended",
                    NEW s \in Extent(buf[c])
             PROVE  s \in cur[c] \cup lost
  BY DEF Coherent
<1>1. Live(c) /\ In(c, s) /\ ~Grown(c)
  BY MappedLive DEF In, Grown
<1>2. s \in Copies
  BY ExtentType DEF LockInv
<1>3. Right(c, s)
  BY <1>2 DEF DataInv, DataAt
<1> QED BY <1>1, <1>3 DEF Right

LEMMA DataKept ==
  ASSUME LockInv, DataInv
  PROVE  NothingDropped
<1> SUFFICES ASSUME NEW s \in AllSectors, s \notin diskcur, s \notin lost
             PROVE  \E c \in Bufs : /\ s \in cur[c] /\ s \in Extent(buf[c])
                                    /\ \/ Has(c, "DELWRI") /\ ~Has(c, "INVAL")
                                       \/ c \in Elems(ioq) /\ ~Has(c, "READ")
  BY DEF NothingDropped
<1>1. s \in Copies
  BY BufCacheAssumption, Zenon DEF AllSectors, Copies
<1>2. Carried(s)
  BY <1>1 DEF DataInv, DataAt
<1>3. PICK c \in Bufs : Carries(c, s)
  BY <1>2 DEF Carried
<1>4. Delayed(c)
  BY DEF DataInv
<1> QED BY <1>3, <1>4 DEF Carries, Holds, In, Writing, Queued, Delayed, Live

-----------------------------------------------------------------------------
(* What a step of one process does to a buffer of another.                 *)

Spares(x) ==
  /\ cur'[x] = cur[x]
  /\ \/ buf'[x] = buf[x]
     \/ SameBlock(x) /\ buf'[x].b_bufsize = buf[x].b_bufsize
        /\ buf[x].b_flags \ {"WANTED"} = buf'[x].b_flags \ {"WANTED"}

LEMMA WantedSpares ==
  ASSUME TypeOK, NEW y \in Bufs, buf' = Wanted(y), cur' = cur, NEW x \in Bufs
  PROVE  Spares(x)
<1>1. buf \in [Bufs -> Buf] /\ buf[y] \in Buf
  BY DEF TypeOK
<1>2. PICK F : F = buf[y].b_flags \cup {"WANTED"}
  BY Zenon
<1>3. PICK B : B = [buf[y] EXCEPT !.b_flags = F]
  BY Zenon
<1>4. buf' = [buf EXCEPT ![y] = B]
  BY <1>2, <1>3 DEF Wanted
<1>5. /\ B.b_flags = F /\ B.b_dev = buf[y].b_dev /\ B.b_blkno = buf[y].b_blkno
      /\ B.b_bcount = buf[y].b_bcount /\ B.b_bufsize = buf[y].b_bufsize
  BY <1>1, <1>3 DEF Buf
<1>6. F \ {"WANTED"} = buf[y].b_flags \ {"WANTED"}
  BY <1>2
<1>7. CASE x = y
  BY <1>1, <1>4, <1>5, <1>6, <1>7 DEF Spares, SameBlock
<1>8. CASE x # y
  BY <1>1, <1>4, <1>8 DEF Spares
<1> QED BY <1>7, <1>8

LEMMA BrelseSpares ==
  ASSUME TypeOK, NEW y \in Bufs, NEW b, NEW fl, Brelse(y, b, fl),
         b = buf \/ \E fs \in SUBSET Flags : b = Taken(y, fs),
         NEW x \in Bufs, x # y
  PROVE  buf'[x] = buf[x]
<1>1. buf \in [Bufs -> Buf]
  BY DEF TypeOK
<1>2. DOMAIN b = Bufs /\ b[x] = buf[x]
  BY <1>1 DEF Taken
<1>3. PICK R : buf' = [b EXCEPT ![y] = R]
  BY Zenon DEF Brelse
<1> QED BY <1>2, <1>3

LEMMA VictimSpared ==
  ASSUME LockInv, ~NoneFree, NEW x \in Bufs, Has(x, "BUSY")
  PROVE  Victim \in Bufs /\ x # Victim
BY VictimFree

LEMMA GetnewbufSpares ==
  ASSUME LockInv, NEW q \in Procs, Getnewbuf(q), NEW x \in Bufs, Has(x, "BUSY")
  PROVE  Spares(x)
<1>1. buf \in [Bufs -> Buf] /\ cur \in [Bufs -> SUBSET Copies]
  BY DEF LockInv, TypeOK
<1>2. CASE GetnewSleep(q)
  BY <1>2 DEF GetnewSleep, Spares
<1>3. CASE GetnewFlush(q)
  <2>1. PICK v, B : v = Victim /\ buf' = [buf EXCEPT ![v] = B] /\ cur' = cur
    BY <1>3, Zenon DEF GetnewFlush
  <2>2. x # v
    BY <1>3, <2>1, VictimSpared DEF GetnewFlush
  <2> QED BY <1>1, <2>1, <2>2 DEF Spares
<1>4. CASE GetblkBind(q) \/ GeteblkBind(q)
  <2>1. PICK v, fs, d, b : v = Victim /\ buf' = Bound(v, fs, d, b) /\ cur' = [cur EXCEPT ![v] = {}]
    BY <1>4 DEF GetblkBind, GeteblkBind
  <2>2. x # v
    BY <1>4, <2>1, VictimSpared DEF GetblkBind, GeteblkBind
  <2> QED BY <1>1, <2>1, <2>2 DEF Spares, Bound
<1> QED BY <1>2, <1>3, <1>4 DEF Getnewbuf

LEMMA GetblkSpares ==
  ASSUME LockInv, NEW q \in Procs, Getblk(q), NEW x \in Bufs, Has(x, "BUSY")
  PROVE  Spares(x)
<1>1. buf \in [Bufs -> Buf]
  BY DEF LockInv, TypeOK
<1>2. CASE GetblkBusy(q)
  <2>1. PICK y \in Bufs : buf' = Wanted(y)
    BY <1>2 DEF GetblkBusy, Incore
  <2> QED BY <1>2, <2>1, WantedSpares DEF GetblkBusy, LockInv
<1>3. CASE GetblkHit(q)
  <2>1. PICK y, r : Found(q, y, r)
    BY <1>3, FoundOut
  <2>2. x # y
    BY <2>1 DEF Found
  <2> QED BY <2>1, <2>2 DEF Found, Spares
<1>4. CASE GetblkMiss(q)
  BY <1>4 DEF GetblkMiss, Spares
<1> QED BY <1>2, <1>3, <1>4 DEF Getblk

LEMMA OverlapSpares ==
  ASSUME LockInv, NEW q \in Procs, Overlap(q), NEW x \in Bufs, Has(x, "BUSY")
  PROVE  Spares(x)
<1>1. buf \in [Bufs -> Buf] /\ TypeOK
  BY DEF LockInv, TypeOK
<1>2. CASE OverlapBusy(q)
  <2>1. PICK y \in Bufs : buf' = Wanted(y)
    BY <1>2 DEF OverlapBusy, Others, Overlapping
  <2> QED BY <1>1, <1>2, <2>1, WantedSpares DEF OverlapBusy
<1>3. CASE OverlapDirty(q)
  <2>1. PICK y \in Bufs : ~Has(y, "BUSY") /\ buf' = [buf EXCEPT ![y] = Bwritten(Taken(y, {})[y])]
    BY <1>3, Zenon DEF OverlapDirty, Others, Overlapping
  <2>2. PICK B : buf' = [buf EXCEPT ![y] = B]
    BY <2>1, Zenon
  <2>3. x # y /\ cur' = cur
    BY <1>3, <2>1 DEF OverlapDirty
  <2> QED BY <1>1, <2>2, <2>3 DEF Spares
<1>4. CASE OverlapClean(q)
  <2>1. PICK y \in Bufs : ~Has(y, "BUSY") /\ Brelse(y, Taken(y, {"INVAL"}), Notavail(y))
    BY <1>4 DEF OverlapClean, Others, Overlapping
  <2>2. PICK fs \in SUBSET Flags : fs = {"INVAL"}
    BY Zenon DEF Flags
  <2>3. buf'[x] = buf[x]
    BY <1>1, <2>1, <2>2, BrelseSpares
  <2> QED BY <1>4, <2>3 DEF OverlapClean, Spares
<1>5. CASE OverlapNone(q)
  BY <1>5 DEF OverlapNone, Spares
<1> QED BY <1>2, <1>3, <1>4, <1>5 DEF Overlap

(* x is busy, and not q's.                                                 *)
LEMMA BiowaitSpares ==
  ASSUME LockInv, NEW q \in Procs, Biowait(q), NEW x \in Bufs, x \notin Held(q)
  PROVE  Spares(x)
<1>1. CASE BiowaitSleep(q)
  BY <1>1 DEF BiowaitSleep, Spares
<1>2. CASE BwriteDone(q)
  <2>1. PICK y : y = Awaited(q)
    OBVIOUS
  <2>2. y \in Bufs /\ y \in Held(q)
    BY <1>2, <2>1, AwaitedIs DEF BwriteDone
  <2>3. buf'[x] = buf[x]
    BY <1>2, <2>1, <2>2, BrelseSpares DEF BwriteDone, LockInv
  <2> QED BY <1>2, <2>3 DEF BwriteDone, Spares
<1>3. CASE ReadDone(q)
  BY <1>3 DEF ReadDone, Spares
<1> QED BY <1>1, <1>2, <1>3 DEF Biowait

LEMMA GottenSpares ==
  ASSUME LockInv, DataInv, NEW q \in Procs, Gotten(q), NEW x \in Bufs, x \notin Held(q)
  PROVE  Spares(x)
<1>1. buf \in [Bufs -> Buf] /\ TypeOK
  BY DEF LockInv, TypeOK
<1>2. PICK y : y = u[q].tp
  OBVIOUS
<1>3. y \in Bufs /\ x # y /\ u[q].pc = "gotten"
  <2>1. u[q].pc = "gotten"
    BY DEF Gotten, GottenBread, GottenWrite, GottenExtended, GottenBreada, GottenReadAhead
  <2> QED BY <1>2, <2>1, OwnTp DEF TpAt
<1>4. CASE GottenReadAhead(q) /\ Has(y, "DONE")
  <2>1. Brelse(y, buf, bfreelist) /\ cur' = cur
    BY <1>2, <1>4 DEF GottenReadAhead
  <2>2. buf'[x] = buf[x]
    BY <1>1, <1>3, <2>1, BrelseSpares
  <2> QED BY <2>1, <2>2 DEF Spares
<1>5. CASE ~(GottenReadAhead(q) /\ Has(y, "DONE"))
  <2>1. cur' = cur /\ (buf' = buf \/ \E fs : buf' = [buf EXCEPT ![y].b_flags = @ \cup fs])
    BY <1>2, <1>5, Zenon DEF Gotten, GottenBread, GottenWrite, GottenExtended, GottenBreada,
       GottenReadAhead
  <2> QED BY <1>1, <1>3, <2>1 DEF Spares
<1> QED BY <1>4, <1>5

LEMMA AllocSpares ==
  ASSUME LockInv, NEW q \in Procs, AllocKeep(q), NEW x \in Bufs, x \notin Held(q)
  PROVE  Spares(x)
<1>1. buf \in [Bufs -> Buf] /\ cur \in [Bufs -> SUBSET Copies]
  BY DEF LockInv, TypeOK
<1>2. PICK y, n : y = u[q].tp /\ n = u[q].req.size
  OBVIOUS
<1>3. buf' = Sized(buf, y, n) /\ cur' = Trimmed(y, n)
  BY <1>2 DEF AllocKeep
<1>4. x # y
  <2>1. x # NONE
    BY BufCacheAssumption
  <2> QED BY <1>2, <2>1 DEF Held
<1> QED BY <1>1, <1>3, <1>4 DEF Spares, Sized, Trimmed

-----------------------------------------------------------------------------

(* Nothing but x has the contents of the sectors x maps; what another      *)
(* owner fills is elsewhere.                                               *)
LEMMA NotCopied ==
  ASSUME LockInv, DataInv, NEW p \in Procs, u[p].pc = "own", NEW x, x = u[p].tp,
         NEW y \in Bufs, y # x, Live(y)
  PROVE  cur[x] \cap Extent(buf[y]) = {}
<1>1. x \in Bufs /\ x # NONE
  BY OwnTp DEF TpAt
<1>2. Named(u[p]) /\ Asks(u[p])
  BY AskedFor DEF DataInv
<1>3. CASE u[p].op = "geteblk"
  BY <1>1, <1>2, <1>3 DEF Named, TpNamed
<1>4. CASE u[p].op # "geteblk"
  <2>1. u[p].op \in Gets
    BY <1>4, AskedFor, StepsAre DEF DataInv
  <2>2. PICK r : r = u[p].req
    OBVIOUS
  <2>3. At(x, r)
    BY <1>1, <1>2, <1>4, <2>2 DEF Named, TpNamed
  <2>4. r.dev \in Devs
    BY <1>2, <2>1, <2>2 DEF Asks, Real
  <2>5. NODEV \notin Devs
    BY BufCacheAssumption
  <2>6. Live(x)
    BY <2>3, <2>4, <2>5 DEF Live, At
  <2> SUFFICES ASSUME NEW s \in cur[x], In(y, s) PROVE FALSE
    BY DEF In
  <2>7. s \in Copies
    BY <1>1 DEF LockInv, TypeOK
  <2>8. Right(x, s)
    BY <1>1, <2>7 DEF DataInv, DataAt
  <2>9. In(x, s)
    BY <2>6, <2>8 DEF Right
  <2> QED BY <1>1, <2>6, <2>9, OneLive
<1> QED BY <1>3, <1>4

LEMMA OwnerSpares ==
  ASSUME LockInv, DataInv, NEW p \in Procs, u[p].pc = "own", NEW x, x = u[p].tp,
         NEW q \in Procs, q # p, Owner(q)
  PROVE  Spares(x)
<1>1. buf \in [Bufs -> Buf] /\ TypeOK /\ cur \in [Bufs -> SUBSET Copies]
  BY DEF LockInv, TypeOK
<1>2. PICK y : y = u[q].tp
  OBVIOUS
<1>3. u[q].pc = "own"
  BY DEF Owner, Release, Bdwrite, Bawrite, Bwrite, Extend, Writable, Owns
<1>4. x \in Bufs /\ y \in Bufs /\ x # y
  BY <1>2, <1>3, OwnTp DEF TpAt
<1>5. CASE Release(q)
  <2>1. PICK age \in SUBSET {"AGE"} : Brelse(y, Taken(y, age), bfreelist)
    BY <1>2, <1>5 DEF Release
  <2>2. age \in SUBSET Flags
    BY DEF Flags
  <2>3. buf'[x] = buf[x]
    BY <1>1, <1>4, <2>1, <2>2, BrelseSpares
  <2> QED BY <1>5, <2>3 DEF Release, Spares
<1>6. CASE Extend(q)
  <2>1. cur' = cur /\ buf' = [buf EXCEPT ![y].b_flags = @ \ {"DONE"}]
    BY <1>2, <1>6 DEF Extend
  <2> QED BY <1>1, <1>4, <2>1 DEF Spares
<1>7. CASE Bdwrite(q) \/ Bawrite(q) \/ Bwrite(q)
  <2>1. Writable(q) /\ Modify(y)
    BY <1>2, <1>7 DEF Bdwrite, Bawrite, Bwrite
  <2>2. Live(y)
    BY <1>2, <2>1, OwnerHas, Zenon
  <2>3. cur[x] \cap Extent(buf[y]) = {}
    BY <1>4, <2>2, NotCopied
  <2>4. cur'[x] = cur[x]
    <3>1. cur'[x] = cur[x] \ Extent(buf[y])
      BY <1>4, <2>1 DEF Modify
    <3> QED BY <2>3, <3>1
  <2>5. buf'[x] = buf[x]
    <3>1. CASE Bdwrite(q)
      <4>1. PICK fs \in SUBSET Flags : fs = {"DELWRI", "DONE"}
        BY Zenon DEF Flags
      <4>2. Brelse(y, Taken(y, fs), bfreelist)
        BY <1>2, <3>1, <4>1 DEF Bdwrite
      <4> QED BY <1>1, <1>4, <4>2, BrelseSpares
    <3>2. CASE Bawrite(q) \/ Bwrite(q)
      <4>1. PICK B : buf' = [buf EXCEPT ![y] = B]
        BY <1>2, <3>2, Zenon DEF Bawrite, Bwrite
      <4> QED BY <1>1, <1>4, <4>1
    <3> QED BY <1>7, <3>1, <3>2
  <2> QED BY <2>4, <2>5 DEF Spares
<1> QED BY <1>5, <1>6, <1>7 DEF Owner

LEMMA FlushSpares ==
  ASSUME LockInv, DataInv, NEW p \in Procs, u[p].pc = "own", NEW x, x = u[p].tp,
         NEW q \in Procs, q # p, Flush(q)
  PROVE  Spares(x)
<1>1. buf \in [Bufs -> Buf] /\ TypeOK
  BY DEF LockInv, TypeOK
<1>2. x \in Bufs /\ x # NONE /\ Has(x, "BUSY")
  BY OwnTp DEF TpAt
<1>3. CASE BlkflushBusy(q)
  <2>1. PICK y \in Bufs : buf' = Wanted(y)
    BY <1>3 DEF BlkflushBusy, Flushees, Overlapping
  <2> QED BY <1>1, <1>2, <1>3, <2>1, WantedSpares DEF BlkflushBusy
<1>4. CASE BlkflushDirty(q)
  <2>1. PICK y \in Bufs : ~Has(y, "BUSY") /\ buf' = [buf EXCEPT ![y] = Bwritten(Taken(y, {})[y])]
    BY <1>4, Zenon DEF BlkflushDirty, Flushees, Overlapping
  <2>2. PICK B : buf' = [buf EXCEPT ![y] = B]
    BY <2>1, Zenon
  <2>3. x # y /\ cur' = cur
    BY <1>2, <1>4, <2>1 DEF BlkflushDirty
  <2> QED BY <1>1, <1>2, <2>2, <2>3 DEF Spares
<1>5. CASE BflushOne(q)
  <2>0. PICK l \in BQ : \E y \in First(q, l) :
               buf' = [buf EXCEPT ![y] = Bwritten(Taken(y, {"ASYNC"})[y])]
    BY <1>5, Zenon DEF BflushOne, BQ
  <2>1. PICK y \in First(q, l) : buf' = [buf EXCEPT ![y] = Bwritten(Taken(y, {"ASYNC"})[y])]
    BY <2>0
  <2>2. OnFree(y) /\ y \in Bufs
    <3>1. bfreelist[l] \in Seq(Bufs)
      BY <1>1, <2>1 DEF TypeOK
    <3>2. PICK i \in 1..Len(bfreelist[l]) : y = bfreelist[l][i]
      BY <2>1 DEF First, Dirty
    <3> QED BY <2>1, <3>1, <3>2 DEF OnFree, Elems
  <2>3. ~Has(y, "BUSY")
    BY <2>2 DEF LockInv, Fits
  <2>4. PICK B : buf' = [buf EXCEPT ![y] = B]
    BY <2>1, Zenon
  <2>5. x # y /\ cur' = cur
    BY <1>2, <1>5, <2>3 DEF BflushOne
  <2> QED BY <1>1, <1>2, <2>4, <2>5 DEF Spares
<1>6. CASE BlkflushDone(q) \/ BflushDone(q)
  BY <1>6 DEF BlkflushDone, BflushDone, Spares
<1>7. CASE Binval(q)
  <2>1. /\ u[q].pc = "binval" /\ cur' = cur
        /\ buf' = [c \in Bufs |-> IF buf[c].b_dev = u[q].req.dev
                                   THEN [buf[c] EXCEPT !.b_flags = @ \cup {"INVAL"}]
                                   ELSE buf[c]]
    BY <1>7 DEF Binval
  <2>2. u[q].op = "close"
    BY <2>1, AskedFor, StepsAre DEF DataInv
  <2>3. CASE u[p].op # "geteblk"
    <3>1. buf[x].b_dev # u[q].req.dev
      BY <1>2, <2>1, <2>2, <2>3, ClosedApart
    <3> QED BY <1>2, <2>1, <3>1 DEF Spares
  <2>4. CASE u[p].op = "geteblk"
    <3>1. "INVAL" \in buf[x].b_flags
      BY <1>2, <2>4 DEF DataInv, Named, TpNamed, Has
    <3>2. PICK F : F = buf[x].b_flags \cup {"INVAL"}
      BY Zenon
    <3>3. F = buf[x].b_flags
      BY <3>1, <3>2
    <3>4. buf[x] = [buf[x] EXCEPT !.b_flags = F]
      BY <1>2, <3>3, AsItIs
    <3>5. buf'[x] = buf[x]
      BY <1>2, <2>1, <3>2, <3>4, Zenon
    <3> QED BY <2>1, <3>5 DEF Spares
  <2> QED BY <2>3, <2>4
<1> QED BY <1>3, <1>4, <1>5, <1>6, <1>7 DEF Flush

LEMMA InsideSpares ==
  ASSUME Ample, MemInv, LockInv, DataInv, NEW p \in Procs, u[p].pc = "own", NEW x, x = u[p].tp,
         NEW q \in Procs, q # p, Inside(q)
  PROVE  Spares(x)
<1>1. x \in Bufs /\ x \in Held(p) /\ Has(x, "BUSY")
  BY OwnTp DEF TpAt
<1>2. x \notin Held(q)
  BY <1>1 DEF LockInv
<1>3. CASE Getnewbuf(q)
  BY <1>1, <1>3, GetnewbufSpares
<1>4. CASE Getblk(q)
  BY <1>1, <1>4, GetblkSpares
<1>5. CASE Overlap(q)
  BY <1>1, <1>5, OverlapSpares
<1>6. CASE Allocbuf(q)
  <2>1. ~AllocShrink(q)
    BY NoEmpty, Zenon DEF AllocShrink
  <2>2. ~AllocTake(q)
    <3>1. NeedsNew(q) => u[q].pc = "getnew"
      BY EnoughMemory
    <3> QED BY <3>1 DEF AllocTake
  <2> QED BY <1>1, <1>2, <1>6, <2>1, <2>2, AllocSpares DEF Allocbuf
<1>7. CASE Biowait(q)
  BY <1>1, <1>2, <1>7, BiowaitSpares
<1>8. CASE Gotten(q)
  BY <1>1, <1>2, <1>8, GottenSpares
<1>9. CASE Breada(q)
  BY <1>9 DEF Breada, BreadaStart, ReadAheadStart, ReadAheadNone, Spares
<1>10. CASE Owner(q)
  BY <1>10, OwnerSpares
<1>11. CASE Flush(q)
  BY <1>11, FlushSpares
<1> QED BY <1>3, <1>4, <1>5, <1>6, <1>7, <1>8, <1>9, <1>10, <1>11 DEF Inside

LEMMA IntrSpares ==
  ASSUME LockInv, DataInv, NEW p \in Procs, u[p].pc = "own", NEW x, x = u[p].tp,
         NEW y \in Bufs, DiskIntr(y)
  PROVE  Spares(x)
<1>1. x \in Bufs /\ ~Queued(x)
  BY OwnTp DEF TpAt, Waits
<1>2. PICK ok \in BOOLEAN : Ended(y, ok)
  BY IntrEnds
<1>3. x # y
  BY <1>1, <1>2 DEF Ended
<1>4. buf'[x] = buf[x] /\ cur'[x] = cur[x]
  BY <1>1, <1>2, <1>3, EndedSame DEF Ended
<1> QED BY <1>4 DEF Spares

(* A process that goes on owning its buffer takes no step.                 *)
LEMMA OwnerRests ==
  ASSUME LockInv, NEW p \in Procs, u[p].pc = "own", u'[p] = u[p]
  PROVE  ~Inside(p) /\ ~Call(p)
<1>1. u \in [Procs -> Proc]
  BY DEF LockInv, TypeOK
<1>2. ~Owner(p)
  <2>1. Return(p) => u'[p].pc # "own"
    <3>1. Return(p) => u'[p] = Idle
      BY <1>1 DEF Return
    <3> QED BY <3>1 DEF Idle
  <2>2. \A npc : Goto(p, npc) => u'[p].pc = npc
    BY <1>1, TurnPc, Zenon DEF Goto, Turns, LockInv
  <2>3. ~Release(p) /\ ~Bdwrite(p) /\ ~Bawrite(p)
    BY <2>1 DEF Release, Bdwrite, Bawrite
  <2>4. ~Bwrite(p)
    BY <2>2 DEF Bwrite
  <2>5. ~Extend(p)
    <3> SUFFICES ASSUME Extend(p) PROVE FALSE
      OBVIOUS
    <3>1. PICK r : r = u[p].main
      OBVIOUS
    <3>2. u' = [u EXCEPT ![p] = [u[p] EXCEPT !.pc = "overlap", !.op = "extended",
                                             !.req = r, !.main = NONE]]
      BY <3>1 DEF Extend
    <3>3. u[p] \in Proc
      BY <1>1
    <3>4. u'[p] = [u[p] EXCEPT !.pc = "overlap", !.op = "extended",
                                             !.req = r, !.main = NONE]
      BY <1>1, <3>2
    <3>5. u'[p].pc = "overlap"
      BY <3>3, <3>4 DEF Proc
    <3> QED BY <3>5
  <2> QED BY <2>3, <2>4, <2>5 DEF Owner
<1>3. ~Getnewbuf(p) /\ ~Getblk(p) /\ ~Overlap(p) /\ ~Allocbuf(p)
  BY DEF Getnewbuf, GetnewSleep, GetnewFlush, GetblkBind, GeteblkBind, NeedsNew,
         Getblk, GetblkBusy, GetblkHit, GetblkMiss,
         Overlap, OverlapBusy, OverlapDirty, OverlapClean, OverlapNone,
         Allocbuf, AllocKeep, AllocShrink, AllocTake
<1>4. ~Biowait(p) /\ ~Gotten(p) /\ ~Breada(p) /\ ~Flush(p)
  BY DEF Biowait, BiowaitSleep, BwriteDone, ReadDone,
         Gotten, GottenBread, GottenWrite, GottenExtended, GottenBreada, GottenReadAhead,
         Breada, BreadaStart, ReadAheadStart, ReadAheadNone,
         Flush, BlkflushBusy, BlkflushDirty, BlkflushDone, BflushOne, BflushDone, Binval
<1>5. ~Call(p)
  BY DEF Call, CallBread, CallBlkflush, CallGetblk, CallGeteblk, CallSync, CallBreada,
         CallClose, CallExtend, CallAlloc, Free, Begin
<1> QED BY <1>2, <1>3, <1>4, <1>5 DEF Inside

LEMMA OwnedKept ==
  ASSUME Ample, MemInv, DataInv, [Next]_vars, NEW p \in Procs, u[p].pc = "own", u'[p] = u[p],
         NEW x, x = u[p].tp
  PROVE  Spares(x)
<1>1. LockInv
  BY DEF MemInv
<1>2. ASSUME NEW q \in Procs, Call(q) PROVE Spares(x)
  BY <1>2, Zenon DEF Call, CallBread, CallBlkflush, CallGetblk, CallGeteblk, CallSync, CallBreada,
         CallClose, CallExtend, CallAlloc, Free, Begin, Spares
<1>3. ASSUME NEW q \in Procs, Inside(q) PROVE Spares(x)
  BY <1>1, <1>3, OwnerRests, InsideSpares
<1>4. ASSUME NEW y \in Bufs, DiskIntr(y) PROVE Spares(x)
  BY <1>1, <1>4, IntrSpares
<1>5. CASE UNCHANGED vars
  BY <1>5 DEF vars, Spares
<1> QED BY <1>2, <1>3, <1>4, <1>5 DEF Next

LEMMA SparedStable ==
  ASSUME LockInv, TypeOK', NEW x \in Bufs, Spares(x)
  PROVE  /\ cur'[x] = cur[x]
         /\ [buf'[x] EXCEPT !.b_flags = {}] = [buf[x] EXCEPT !.b_flags = {}]
         /\ buf[x].b_flags \ {"WANTED"} = buf'[x].b_flags \ {"WANTED"}
<1>1. buf[x] \in Buf /\ buf'[x] \in Buf
  BY DEF LockInv, TypeOK
<1>2. [buf'[x] EXCEPT !.b_flags = {}] = [buf[x] EXCEPT !.b_flags = {}]
  BY <1>1 DEF Spares, SameBlock, Buf
<1> QED BY <1>2 DEF Spares

-----------------------------------------------------------------------------
(* blkflush.                                                               *)

LEMMA OthersRest ==
  ASSUME TypeOK, NEW p \in Procs, NEW q \in Procs, q # p, Inside(q) \/ Call(q)
  PROVE  u'[p] = u[p]
<1>1. u \in [Procs -> Proc]
  BY DEF TypeOK
<1>2. /\ \A npc : Goto(q, npc) => u'[p] = u[p]
      /\ Return(q) => u'[p] = u[p]
      /\ BreadaRest(q) => u'[p] = u[p]
  BY <1>1 DEF Goto, Return, BreadaRest
<1>3. Getnewbuf(q) \/ Overlap(q) => u'[p] = u[p]
  BY <1>1, <1>2, Zenon DEF Getnewbuf, GetnewSleep, GetnewFlush, GetblkBind, GeteblkBind,
     Overlap, OverlapBusy, OverlapDirty, OverlapClean, OverlapNone
<1>4. Getblk(q) => u'[p] = u[p]
  BY <1>1, <1>2, Zenon DEF Getblk, GetblkBusy, GetblkHit, GetblkMiss, Brealloc
<1>5. Allocbuf(q) \/ Biowait(q) => u'[p] = u[p]
  BY <1>1, <1>2, Zenon DEF Allocbuf, AllocKeep, AllocShrink, AllocTake,
     Biowait, BiowaitSleep, BwriteDone, ReadDone
<1>6. Gotten(q) \/ Breada(q) => u'[p] = u[p]
  BY <1>1, <1>2 DEF Gotten, GottenBread, GottenWrite, GottenExtended, GottenBreada,
     GottenReadAhead, Breada, BreadaStart, ReadAheadStart, ReadAheadNone
<1>7. Owner(q) => u'[p] = u[p]
  BY <1>1, <1>2 DEF Owner, Release, Bdwrite, Bawrite, Bwrite, Extend
<1>8. Flush(q) => u'[p] = u[p]
  BY <1>1, <1>2, Zenon DEF Flush, BlkflushBusy, BlkflushDirty, BlkflushDone, BflushOne, BflushDone,
     Binval
<1>9. Call(q) => u'[p] = u[p]
  BY <1>1, Zenon DEF Call, CallBread, CallBlkflush, CallGetblk, CallGeteblk, CallSync, CallBreada,
     CallClose, CallExtend, CallAlloc, Free, Begin
<1> QED BY <1>3, <1>4, <1>5, <1>6, <1>7, <1>8, <1>9 DEF Inside

(* The only way out of blkflush.                                           *)
LEMMA FlushReturns ==
  ASSUME TypeOK, [Next]_vars, NEW p \in Procs, u[p].pc = "blkflush", u'[p].pc = "idle"
  PROVE  BlkflushDone(p)
<1>1. u \in [Procs -> Proc] /\ u' # u
  BY DEF TypeOK
<1>2. PICK q \in Procs : Inside(q) \/ Call(q)
  BY <1>1, Zenon DEF Next, vars, DiskIntr
<1>3. q = p
  BY <1>2, OthersRest
<1>4. ~Getnewbuf(p) /\ ~Getblk(p) /\ ~Overlap(p) /\ ~Allocbuf(p)
  BY DEF Getnewbuf, GetnewSleep, GetnewFlush, GetblkBind, GeteblkBind, NeedsNew,
         Getblk, GetblkBusy, GetblkHit, GetblkMiss,
         Overlap, OverlapBusy, OverlapDirty, OverlapClean, OverlapNone,
         Allocbuf, AllocKeep, AllocShrink, AllocTake
<1>5. ~Biowait(p) /\ ~Gotten(p) /\ ~Breada(p) /\ ~Owner(p)
  BY DEF Biowait, BiowaitSleep, BwriteDone, ReadDone,
         Gotten, GottenBread, GottenWrite, GottenExtended, GottenBreada, GottenReadAhead,
         Breada, BreadaStart, ReadAheadStart, ReadAheadNone,
         Owner, Release, Bdwrite, Bawrite, Bwrite, Extend, Writable, Owns
<1>6. ~Call(p)
  BY DEF Call, CallBread, CallBlkflush, CallGetblk, CallGeteblk, CallSync, CallBreada,
         CallClose, CallExtend, CallAlloc, Free, Begin
<1>7. Flush(p)
  BY <1>2, <1>3, <1>4, <1>5, <1>6 DEF Inside
<1>8. ~BlkflushBusy(p)
  BY <1>1 DEF BlkflushBusy
<1>9. ~BlkflushDirty(p)
  <2> SUFFICES ASSUME BlkflushDirty(p) PROVE FALSE
    OBVIOUS
  <2>1. PICK npc : npc = "fwait"
    OBVIOUS
  <2>2. PICK y : u' = [u EXCEPT ![p] = [u[p] EXCEPT !.pc = npc, !.ep = y]]
    BY <2>1, Zenon DEF BlkflushDirty
  <2>3. Turns(p, npc, u[p].tp, y, u[p].hold)
    BY <2>2, TurnEp, Zenon
  <2> QED BY <2>1, <2>3 DEF Turns
<1>10. ~BflushOne(p) /\ ~BflushDone(p) /\ ~Binval(p)
  BY DEF BflushOne, BflushDone, Binval
<1> QED BY <1>7, <1>8, <1>9, <1>10 DEF Flush

LEMMA FlushedThere ==
  ASSUME LockInv, DataInv, NEW p \in Procs, BlkflushDone(p), NEW s \in Span(u[p].req)
  PROVE  \/ s \in diskcur \cup lost
         \/ \E c \in Elems(ioq) : s \in Extent(buf[c]) \cap cur[c] /\ Has(c, "INVAL")
<1>1. PICK r : r = u[p].req
  OBVIOUS
<1>2. /\ u[p].pc = "blkflush"
      /\ \A c \in Flushees(p) : ~Has(c, "BUSY") /\ ~Has(c, "DELWRI")
  BY DEF BlkflushDone
<1>3. u[p].op = "blkflush"
  BY <1>2, AskedFor, StepsAre DEF DataInv
<1>4. Real(r) /\ r \in Request
  <2>1. Asks(u[p])
    BY AskedFor DEF DataInv
  <2>2. r \in Request
    BY <1>1, <1>2, ProcType DEF LockInv, Proc
  <2> QED BY <1>1, <1>3, <2>1, <2>2 DEF Asks
<1>5. s \in AllSectors
  BY <1>1, <1>4 DEF Real
<1>6. s \in Copies
  BY <1>5, BufCacheAssumption, Zenon DEF AllSectors, Copies
<1>7. Carried(s)
  BY <1>5, <1>6 DEF DataInv, DataAt
<1>8. ASSUME NEW c \in Bufs, Live(c), In(c, s)
      PROVE  ~Has(c, "BUSY") /\ ~Has(c, "DELWRI")
  <2>1. u[p].tp = NONE
    BY <1>2 DEF LockInv, Shape, Shapely, TpAt
  <2>2. c # u[p].tp
    BY <2>1, BufCacheAssumption
  <2>3. c \in Others(p)
    BY <1>1, <1>4, <1>8, <2>2, InTheWay DEF Real
  <2>4. c \in Flushees(p)
    BY <2>3 DEF Others, Flushees
  <2> QED BY <1>2, <2>4
<1>9. CASE \E c \in Bufs : Carries(c, s)
  <2>1. PICK c \in Bufs : Carries(c, s)
    BY <1>9
  <2>2. ~Has(c, "DELWRI")
    BY <1>8, <2>1, Zenon DEF Carries, Holds, DataInv, Delayed
  <2>3. Queued(c) /\ In(c, s) /\ s \in cur[c]
    BY <2>1, <2>2 DEF Carries, Holds, Writing
  <2>4. Has(c, "BUSY")
    BY <2>3 DEF LockInv, Fits
  <2>5. ~Live(c)
    BY <1>8, <2>3, <2>4
  <2>6. buf[c].b_dev \in Devs
    <3>1. PICK d, b, n : d = buf[c].b_dev /\ b = buf[c].b_blkno /\ n = buf[c].b_bcount
      BY Zenon
    <3>2. s \in SectorsOf(d, b, n)
      BY <2>3, <3>1 DEF In, Extent
    <3> QED BY <1>5, <3>1, <3>2 DEF SectorsOf, AllSectors
  <2>7. NODEV \notin Devs
    BY BufCacheAssumption
  <2>8. Has(c, "INVAL")
    BY <2>5, <2>6, <2>7 DEF Live
  <2> QED BY <2>3, <2>8 DEF Queued, In
<1> QED BY <1>7, <1>9 DEF Carried

-----------------------------------------------------------------------------
(* The theorems.                                                           *)

LEMMA InitBoth ==
  ASSUME Init
  PROVE  MemInv /\ DataInv
BY InitMem, InitData

LEMMA NextBoth ==
  ASSUME Ample, MemInv, DataInv, [Next]_vars
  PROVE  MemInv' /\ DataInv'
<1>1. MemInv'
  BY NextMem
<1>2. TypeOK'
  BY <1>1 DEF MemInv, LockInv
<1> QED BY <1>1, <1>2, NextData

(* "A disk block is mapped by at most one buffer" (brealloc), if allocbuf  *)
(* never has to take memory from a buffer that has contents: whatever the  *)
(* sizes of the blocks, however they grow, shrink, come and go, and        *)
(* wherever getblk, brealloc and bread sleep.  Without the condition it is *)
(* false, see the run "race".                                              *)
THEOREM AlwaysSoleMapping == ASSUME Ample PROVE Spec => []SoleMapping
<1>1. Init => MemInv /\ DataInv
  BY InitBoth
<1>2. (MemInv /\ DataInv) /\ [Next]_vars => (MemInv /\ DataInv)'
  BY NextBoth
<1>3. MemInv /\ DataInv => SoleMapping
  BY DataSole DEF MemInv
<1> QED BY <1>1, <1>2, <1>3, PTL DEF Spec

(* What bread hands out without reading is what was last written, by       *)
(* whatever entry it was written, and however many copies of a sector, of  *)
(* older and of newer contents, are on their way to the disk: unless the   *)
(* device failed that last write.                                          *)
THEOREM AlwaysCoherent == ASSUME Ample PROVE Spec => []Coherent
<1>1. Init => MemInv /\ DataInv
  BY InitBoth
<1>2. (MemInv /\ DataInv) /\ [Next]_vars => (MemInv /\ DataInv)'
  BY NextBoth
<1>3. MemInv /\ DataInv => Coherent
  BY DataCoherent DEF MemInv
<1> QED BY <1>1, <1>2, <1>3, PTL DEF Spec

(* A write that bdwrite, bawrite or bwrite has accepted is on the disk, or *)
(* in a valid delayed-write buffer, or with the driver: reuse by           *)
(* getnewbuf, brealloc, blkflush, bflush and binval never drop it.         *)
THEOREM AlwaysNothingDropped == ASSUME Ample PROVE Spec => []NothingDropped
<1>1. Init => MemInv /\ DataInv
  BY InitBoth
<1>2. (MemInv /\ DataInv) /\ [Next]_vars => (MemInv /\ DataInv)'
  BY NextBoth
<1>3. MemInv /\ DataInv => NothingDropped
  BY DataKept DEF MemInv
<1> QED BY <1>1, <1>2, <1>3, PTL DEF Spec

(* From getblk to brelse a buffer is its owner's: no other process and no  *)
(* interrupt changes what it maps, its flags, or its contents, and nobody  *)
(* writes the same sectors through another buffer.                         *)
THEOREM AlwaysOwnedStable == ASSUME Ample PROVE Spec => OwnedStable
<1>1. Init => MemInv /\ DataInv
  BY InitBoth
<1>2. (MemInv /\ DataInv) /\ [Next]_vars => (MemInv /\ DataInv)'
  BY NextBoth
<1>3. ASSUME MemInv, DataInv, [Next]_vars,
             NEW p \in Procs, u[p].pc = "own", u'[p] = u[p],
             NEW x, x = u[p].tp
      PROVE  /\ cur'[x] = cur[x]
             /\ [buf'[x] EXCEPT !.b_flags = {}] = [buf[x] EXCEPT !.b_flags = {}]
             /\ buf[x].b_flags \ {"WANTED"} = buf'[x].b_flags \ {"WANTED"}
  <2>1. LockInv /\ TypeOK'
    BY <1>3, NextBoth DEF MemInv, LockInv
  <2>2. x \in Bufs
    BY <1>3, <2>1, OwnTp DEF TpAt
  <2>3. Spares(x)
    BY <1>3, OwnedKept
  <2> QED BY <2>1, <2>2, <2>3, SparedStable
<1>4. (MemInv /\ DataInv) /\ [Next]_vars =>
       [\A p \in Procs :
         (u[p].pc = "own" /\ u'[p] = u[p]) =>
            LET tp == u[p].tp IN
            /\ cur'[tp] = cur[tp]
            /\ [buf'[tp] EXCEPT !.b_flags = {}] = [buf[tp] EXCEPT !.b_flags = {}]
            /\ buf[tp].b_flags \ {"WANTED"} = buf'[tp].b_flags \ {"WANTED"}]_vars
  BY <1>3
<1> QED BY <1>1, <1>2, <1>4, PTL DEF Spec, OwnedStable

(* Whoever reads the device behind the cache's back after blkflush reads   *)
(* what was last written there, but for what a close of the device left    *)
(* queued: blkflush waits out every transfer that carries newer contents.  *)
THEOREM AlwaysFlushReachesDisk == ASSUME Ample PROVE Spec => FlushReachesDisk
<1>1. Init => MemInv /\ DataInv
  BY InitBoth
<1>2. (MemInv /\ DataInv) /\ [Next]_vars => (MemInv /\ DataInv)'
  BY NextBoth
<1>3. ASSUME MemInv, DataInv, [Next]_vars,
             NEW p \in Procs, u[p].pc = "blkflush", u'[p].pc = "idle",
             NEW s \in Span(u[p].req)
      PROVE  \/ s \in diskcur \cup lost
             \/ \E bp \in Elems(ioq) : s \in Extent(buf[bp]) \cap cur[bp] /\ Has(bp, "INVAL")
  <2>1. LockInv /\ TypeOK
    BY <1>3 DEF MemInv, LockInv
  <2>2. BlkflushDone(p)
    BY <1>3, <2>1, FlushReturns
  <2> QED BY <1>3, <2>1, <2>2, FlushedThere
<1>4. (MemInv /\ DataInv) /\ [Next]_vars =>
       [\A p \in Procs :
         (u[p].pc = "blkflush" /\ u'[p].pc = "idle") =>
            \A s \in Span(u[p].req) :
              \/ s \in diskcur \cup lost
              \/ \E bp \in Elems(ioq) : /\ s \in Extent(buf[bp]) \cap cur[bp]
                                       /\ Has(bp, "INVAL")]_vars
  BY <1>3
<1> QED BY <1>1, <1>2, <1>4, PTL DEF Spec, FlushReachesDisk

=============================================================================
