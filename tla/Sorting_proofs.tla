--------------------------- MODULE Sorting_proofs ---------------------------
(***************************************************************************)
(* What joining arenas (FlattenSeq) and sorting them (SortedByOffset) does *)
(* to the records in them: none is lost, none is made up, and the result   *)
(* is in ascending order.                                                  *)
(***************************************************************************)
EXTENDS Sorting, SequencesExt, FiniteSetTheorems, WellFoundedInduction, TLAPS

(* A smallest counterexample: induction without an operator parameter. *)
LEMMA LeastNat ==
    ASSUME NEW T \in SUBSET Nat, T # {}
    PROVE  \E x \in T : \A y \in T : x <= y
<1>1. PICK x \in T : \A y \in T : ~(<<y, x>> \in OpToRel(<, Nat))
  BY WFMin, NatLessThanWellFounded
<1>2. \A y \in T : ~(y < x)
  BY <1>1 DEF OpToRel
<1> QED
  BY <1>2
-----------------------------------------------------------------------------
(* FlattenSeq *)

(* The function that FlattenSeq defines by recursion. *)
Joins(f, s, n) == \A k \in 1 .. n : f[k] = IF k = 1 THEN s[1] ELSE f[k - 1] \o s[k]

LEMMA JoinsExists ==
    ASSUME NEW s, NEW n \in Nat
    PROVE  \E f : f = [k \in 1 .. n |-> IF k = 1 THEN s[k] ELSE f[k - 1] \o s[k]]
<1> DEFINE Exists(m) == \E f : f = [k \in 1 .. m |-> IF k = 1 THEN s[k] ELSE f[k - 1] \o s[k]]
           T == {m \in Nat : ~Exists(m)}
<1> SUFFICES ASSUME T # {} PROVE FALSE
  OBVIOUS
<1>1. PICK m \in T : \A y \in T : m <= y
  BY LeastNat
<1>2. m # 0
  <2> SUFFICES ASSUME m = 0 PROVE Exists(m)
    OBVIOUS
  <2> DEFINE g == [k \in 1 .. m |-> 0]
  <2>1. g = [k \in 1 .. m |-> IF k = 1 THEN s[k] ELSE g[k - 1] \o s[k]]
    BY 1 .. 0 = {}
  <2> HIDE DEF g
  <2> QED
    BY <2>1, Zenon
<1>3. m - 1 \in Nat /\ m - 1 \notin T
  <2>1. m \in Nat
    OBVIOUS
  <2> HIDE DEF T
  <2> QED
    BY <1>1, <1>2, <2>1
<1>4. PICK f : f = [k \in 1 .. m - 1 |-> IF k = 1 THEN s[k] ELSE f[k - 1] \o s[k]]
  BY <1>3
<1>5. ASSUME NEW k \in 1 .. m - 1 PROVE f[k] = IF k = 1 THEN s[k] ELSE f[k - 1] \o s[k]
  <2>1. PICK h : h = f
    OBVIOUS
  <2>2. f = [j \in 1 .. m - 1 |-> IF j = 1 THEN s[j] ELSE h[j - 1] \o s[j]]
    BY <1>4, <2>1, Zenon
  <2>3. f[k] = IF k = 1 THEN s[k] ELSE h[k - 1] \o s[k]
    BY <2>2
  <2> QED
    BY <2>1, <2>3
<1> DEFINE g == [k \in 1 .. m |-> IF k < m THEN f[k] ELSE IF k = 1 THEN s[k] ELSE f[k - 1] \o s[k]]
<1>6. ASSUME NEW k \in 1 .. m PROVE g[k] = IF k = 1 THEN s[k] ELSE g[k - 1] \o s[k]
  <2>1. CASE k = m
    BY <2>1
  <2>2. CASE k < m
    <3>1. f[k] = IF k = 1 THEN s[k] ELSE f[k - 1] \o s[k]
      BY <1>5, <2>2
    <3> QED
      BY <2>2, <3>1
  <2> QED
    BY <2>1, <2>2
<1>7. g = [k \in 1 .. m |-> g[k]]
  OBVIOUS
<1> HIDE DEF g
<1>8. g = [k \in 1 .. m |-> IF k = 1 THEN s[k] ELSE g[k - 1] \o s[k]]
  BY <1>6, <1>7
<1> QED
  BY <1>1, <1>8, Zenon

LEMMA FlattenJoins ==
    ASSUME NEW s, Len(s) \in Nat, Len(s) # 0
    PROVE  \E f : Joins(f, s, Len(s)) /\ FlattenSeq(s) = f[Len(s)]
<1> DEFINE c == CHOOSE f : f = [k \in 1 .. Len(s) |-> IF k = 1 THEN s[k] ELSE f[k - 1] \o s[k]]
<1>1. \E f : f = [k \in 1 .. Len(s) |-> IF k = 1 THEN s[k] ELSE f[k - 1] \o s[k]]
  BY JoinsExists
<1>2. c = [k \in 1 .. Len(s) |-> IF k = 1 THEN s[k] ELSE c[k - 1] \o s[k]]
  BY <1>1, Zenon
<1>3. FlattenSeq(s) = c[Len(s)]
  BY Zenon DEF FlattenSeq
<1> HIDE DEF c
<1>4. ASSUME NEW k \in 1 .. Len(s) PROVE c[k] = IF k = 1 THEN s[1] ELSE c[k - 1] \o s[k]
  <2>1. PICK h : h = c
    OBVIOUS
  <2>2. c = [j \in 1 .. Len(s) |-> IF j = 1 THEN s[j] ELSE h[j - 1] \o s[j]]
    BY <1>2, <2>1, Zenon
  <2>3. c[k] = IF k = 1 THEN s[k] ELSE h[k - 1] \o s[k]
    BY <2>2
  <2> QED
    BY <2>1, <2>3
<1> QED
  BY <1>3, <1>4 DEF Joins

(* The records of t are those of the first n sequences of s. *)
Holds(t, s, n) ==
    /\ \A p \in 1 .. Len(t) : \E k \in 1 .. n : \E j \in 1 .. Len(s[k]) : t[p] = s[k][j]
    /\ \A k \in 1 .. n : \A j \in 1 .. Len(s[k]) : \E p \in 1 .. Len(t) : t[p] = s[k][j]

(* No two records of the sequences of s have the same offset. *)
Separate(s) ==
    \A k, l \in 1 .. Len(s) : \A i \in 1 .. Len(s[k]) : \A j \in 1 .. Len(s[l]) :
        s[k][i].offset = s[l][j].offset => k = l /\ i = j

DistinctOffsets(t) == \A p, q \in 1 .. Len(t) : t[p].offset = t[q].offset => p = q

(* u is s followed by t. *)
Appended(u, s, t) ==
    /\ Len(u) = Len(s) + Len(t)
    /\ \A k \in 1 .. Len(s) : k \in 1 .. Len(u) /\ u[k] = s[k]
    /\ \A k \in 1 .. Len(t) : Len(s) + k \in 1 .. Len(u) /\ u[Len(s) + k] = t[k]
    /\ \A p \in 1 .. Len(u) : \/ p \in 1 .. Len(s)
                             \/ \E k \in 1 .. Len(t) : p = Len(s) + k

LEMMA Concatenation ==
    ASSUME NEW S, NEW s \in Seq(S), NEW t \in Seq(S)
    PROVE  s \o t \in Seq(S) /\ Appended(s \o t, s, t)
<1>1. s \o t \in Seq(S) /\ Len(s \o t) = Len(s) + Len(t) /\ Len(s) \in Nat /\ Len(t) \in Nat
  OBVIOUS
<1>2. ASSUME NEW k \in 1 .. Len(s) PROVE k \in 1 .. Len(s \o t) /\ (s \o t)[k] = s[k]
  BY <1>1
<1>3. ASSUME NEW k \in 1 .. Len(t) PROVE Len(s) + k \in 1 .. Len(s \o t) /\ (s \o t)[Len(s) + k] = t[k]
  BY <1>1
<1>4. ASSUME NEW p \in 1 .. Len(s \o t), p \notin 1 .. Len(s)
      PROVE  \E k \in 1 .. Len(t) : p = Len(s) + k
  <2>1. p - Len(s) \in 1 .. Len(t) /\ p = Len(s) + (p - Len(s))
    BY <1>1, <1>4
  <2> QED
    BY <2>1
<1> QED
  BY <1>1, <1>2, <1>3, <1>4, Zenon DEF Appended

LEMMA HoldsNext ==
    ASSUME NEW S, NEW s \in Seq(Seq(S)), NEW n \in 2 .. Len(s), NEW t \in Seq(S), Holds(t, s, n - 1)
    PROVE  /\ t \o s[n] \in Seq(S) /\ Holds(t \o s[n], s, n)
           /\ Separate(s) /\ DistinctOffsets(t) => DistinctOffsets(t \o s[n])
<1>1. s[n] \in Seq(S) /\ Len(s) \in Nat
  OBVIOUS
<1> DEFINE u == t \o s[n]
<1>2. u \in Seq(S) /\ Appended(u, t, s[n])
  BY <1>1, Concatenation
<1> HIDE DEF u
<1>3. ASSUME NEW p \in 1 .. Len(u)
      PROVE  \/ p \in 1 .. Len(t) /\ u[p] = t[p]
             \/ \E k \in 1 .. Len(s[n]) : p = Len(t) + k /\ u[p] = s[n][k]
  BY <1>2 DEF Appended
<1>4. \A k \in 1 .. n - 1 : k \in 1 .. n /\ k # n
  BY <1>1
<1>5. n \in 1 .. n /\ n \in 1 .. Len(s) /\ 1 .. n \subseteq 1 .. Len(s) /\ \A k \in 1 .. n : k # n => k \in 1 .. n - 1
  BY <1>1
<1>6. Holds(u, s, n)
  <2>1. ASSUME NEW p \in 1 .. Len(u)
        PROVE  \E k \in 1 .. n : \E j \in 1 .. Len(s[k]) : u[p] = s[k][j]
    <3>1. CASE p \in 1 .. Len(t) /\ u[p] = t[p]
      <4>1. PICK k \in 1 .. n - 1 : \E j \in 1 .. Len(s[k]) : t[p] = s[k][j]
        BY <3>1 DEF Holds
      <4> QED
        BY <3>1, <4>1, <1>4
    <3>2. CASE \E k \in 1 .. Len(s[n]) : p = Len(t) + k /\ u[p] = s[n][k]
      BY <3>2, <1>5
    <3> QED
      BY <1>3, <3>1, <3>2
  <2>2. ASSUME NEW k \in 1 .. n, NEW j \in 1 .. Len(s[k])
        PROVE  \E p \in 1 .. Len(u) : u[p] = s[k][j]
    <3>1. CASE k = n
      BY <3>1, <1>2 DEF Appended
    <3>2. CASE k # n
      <4>1. PICK p \in 1 .. Len(t) : t[p] = s[k][j]
        BY <3>2, <1>5 DEF Holds
      <4> QED
        BY <4>1, <1>2 DEF Appended
    <3> QED
      BY <3>1, <3>2
  <2> QED
    BY <2>1, <2>2 DEF Holds
<1>7. ASSUME Separate(s), DistinctOffsets(t) PROVE DistinctOffsets(u)
  <2> SUFFICES ASSUME NEW p \in 1 .. Len(u), NEW q \in 1 .. Len(u), u[p].offset = u[q].offset
               PROVE  p = q
    BY DEF DistinctOffsets
  <2>1. ASSUME NEW x \in 1 .. Len(t), NEW k \in 1 .. Len(s[n]), t[x].offset = s[n][k].offset
        PROVE  FALSE
    <3>1. PICK l \in 1 .. n - 1 : \E j \in 1 .. Len(s[l]) : t[x] = s[l][j]
      BY DEF Holds
    <3>2. PICK j \in 1 .. Len(s[l]) : t[x] = s[l][j]
      BY <3>1
    <3>3. s[l][j].offset = s[n][k].offset /\ l \in 1 .. Len(s) /\ l # n
      BY <2>1, <3>2, <1>4, <1>5
    <3> QED
      BY <3>3, <1>5, <1>7 DEF Separate
  <2>2. CASE p \in 1 .. Len(t) /\ u[p] = t[p] /\ q \in 1 .. Len(t) /\ u[q] = t[q]
    BY <2>2, <1>7 DEF DistinctOffsets
  <2>3. ASSUME NEW k \in 1 .. Len(s[n]), p = Len(t) + k, u[p] = s[n][k],
               NEW l \in 1 .. Len(s[n]), q = Len(t) + l, u[q] = s[n][l]
        PROVE  p = q
    <3>1. s[n][k].offset = s[n][l].offset
      BY <2>3
    <3>2. \A i, j \in 1 .. Len(s[n]) : s[n][i].offset = s[n][j].offset => i = j
      <4>1. \A i \in 1 .. Len(s[n]) : \A j \in 1 .. Len(s[n]) :
              s[n][i].offset = s[n][j].offset => n = n /\ i = j
        BY <1>5, <1>7, Zenon DEF Separate
      <4> QED
        BY <4>1, Zenon
    <3>3. k = l
      BY <2>3, <3>1, <3>2, Zenon
    <3> QED
      BY <2>3, <3>3
  <2> QED
    BY <1>3, <2>1, <2>2, <2>3
<1> QED
  BY <1>2, <1>6, <1>7 DEF u

(* Joining arenas keeps their records and adds none. *)
LEMMA FlattenRecords ==
    ASSUME NEW S, NEW s \in Seq(Seq(S)), s # <<>>
    PROVE  /\ FlattenSeq(s) \in Seq(S) /\ Holds(FlattenSeq(s), s, Len(s))
           /\ Separate(s) => DistinctOffsets(FlattenSeq(s))
<1>1. Len(s) \in Nat /\ Len(s) # 0
  OBVIOUS
<1>2. PICK f : Joins(f, s, Len(s)) /\ FlattenSeq(s) = f[Len(s)]
  BY <1>1, FlattenJoins
<1> DEFINE P(n) == /\ f[n] \in Seq(S) /\ Holds(f[n], s, n)
                   /\ Separate(s) => DistinctOffsets(f[n])
           T == {n \in 1 .. Len(s) : ~P(n)}
<1>3. T = {}
  <2> SUFFICES ASSUME T # {} PROVE FALSE
    OBVIOUS
  <2>1. T \in SUBSET Nat
    BY <1>1
  <2>2. PICK n \in T : \A y \in T : n <= y
    BY <2>1, LeastNat
  <2>3. n \in 1 .. Len(s) /\ ~P(n)
    OBVIOUS
  <2>4. CASE n = 1
    <3>1. f[1] = s[1] /\ s[1] \in Seq(S) /\ 1 \in 1 .. Len(s)
      BY <1>1, <1>2 DEF Joins
    <3>2. Holds(s[1], s, 1)
      BY <3>1 DEF Holds
    <3>3. Separate(s) => DistinctOffsets(s[1])
      BY <3>1 DEF Separate, DistinctOffsets
    <3> QED
      BY <2>3, <2>4, <3>1, <3>2, <3>3
  <2>5. CASE n # 1
    <3>1. n - 1 \in 1 .. Len(s) /\ n \in 2 .. Len(s) /\ ~(n <= n - 1)
      BY <1>1, <2>3, <2>5
    <3>2. P(n - 1)
      <4>1. n - 1 \notin T
        <5> HIDE DEF T
        <5> QED
          BY <2>2, <3>1
      <4> QED
        BY <3>1, <4>1
    <3>3. f[n] = f[n - 1] \o s[n]
      BY <1>2, <2>3, <2>5 DEF Joins
    <3>4. P(n)
      BY <3>1, <3>2, <3>3, HoldsNext
    <3> QED
      BY <2>3, <3>4
  <2> QED
    BY <2>4, <2>5
<1>4. P(Len(s))
  BY <1>1, <1>3
<1> QED
  BY <1>2, <1>4
-----------------------------------------------------------------------------
(* SortedByOffset *)

(* Before is a total order of the records. *)
LEMMA BeforeOrders ==
    ASSUME NEW s, NEW n \in Nat, \A k \in 1 .. n : s[k].offset \in Nat
    PROVE  /\ \A i \in 1 .. n : ~Before(s, i, i)
           /\ \A i, j \in 1 .. n : i # j => Before(s, i, j) \/ Before(s, j, i)
           /\ \A i, j, k \in 1 .. n : Before(s, i, j) /\ Before(s, j, k) => Before(s, i, k)
  BY DEF Before

LEMMA UpTo ==
    ASSUME NEW n \in Nat
    PROVE  IsFiniteSet(1 .. n) /\ Cardinality(1 .. n) = n
<1>1. 1 \in Int /\ n \in Int
  OBVIOUS
<1>2. IsFiniteSet(1 .. n) /\ Cardinality(1 .. n) = IF 1 > n THEN 0 ELSE n - 1 + 1
  BY <1>1, FS_Interval, Zenon
<1> QED
  BY <1>2

LEMMA RankType ==
    ASSUME NEW S, NEW s \in Seq(S), \A x \in S : x.offset \in Nat, NEW j \in 1 .. Len(s)
    PROVE  /\ Rank(s, j) \in 0 .. Len(s) - 1
           /\ IsFiniteSet({i \in DOMAIN s : Before(s, i, j)})
<1> DEFINE B == {i \in DOMAIN s : Before(s, i, j)}
<1>1. Len(s) \in Nat /\ DOMAIN s = 1 .. Len(s) /\ \A k \in 1 .. Len(s) : s[k].offset \in Nat
  OBVIOUS
<1>2. IsFiniteSet(1 .. Len(s)) /\ Cardinality(1 .. Len(s)) = Len(s)
  BY <1>1, UpTo, Zenon
<1>3. ~Before(s, j, j)
  BY <1>1, BeforeOrders
<1>4. B \subseteq 1 .. Len(s) /\ B # 1 .. Len(s)
  BY <1>1, <1>3
<1>5. IsFiniteSet(B) /\ Cardinality(B) <= Cardinality(1 .. Len(s))
      /\ (Cardinality(B) = Cardinality(1 .. Len(s)) => B = 1 .. Len(s))
  BY <1>2, <1>4, FS_Subset, Zenon
<1>6. Cardinality(B) \in Nat
  BY <1>5, FS_CardinalityType
<1>7. Cardinality(B) # Cardinality(1 .. Len(s))
  BY <1>4, <1>5
<1>8. Rank(s, j) = Cardinality(B)
  BY DEF Rank
<1> HIDE DEF B
<1> QED
  BY <1>1, <1>2, <1>5, <1>6, <1>7, <1>8 DEF B

LEMMA RankGrows ==
    ASSUME NEW S, NEW s \in Seq(S), \A x \in S : x.offset \in Nat,
           NEW i \in 1 .. Len(s), NEW j \in 1 .. Len(s), Before(s, i, j)
    PROVE  Rank(s, i) < Rank(s, j)
<1> DEFINE B(k) == {l \in DOMAIN s : Before(s, l, k)}
<1>1. Len(s) \in Nat /\ DOMAIN s = 1 .. Len(s) /\ \A k \in 1 .. Len(s) : s[k].offset \in Nat
  OBVIOUS
<1>2. i \notin B(i) /\ i \in B(j) /\ B(i) \subseteq B(j)
  BY <1>1, BeforeOrders
<1>3. B(i) \subseteq B(j) /\ B(i) # B(j) /\ IsFiniteSet(B(j))
  BY <1>2, RankType
<1>4. /\ Cardinality(B(i)) <= Cardinality(B(j))
      /\ (Cardinality(B(i)) = Cardinality(B(j)) => B(i) = B(j))
  BY <1>3, FS_Subset, Zenon
<1>5. Rank(s, i) = Cardinality(B(i)) /\ Rank(s, j) = Cardinality(B(j))
  BY DEF Rank
<1>6. Rank(s, i) \in 0 .. Len(s) - 1 /\ Rank(s, j) \in 0 .. Len(s) - 1
  BY RankType, Zenon
<1> HIDE DEF B
<1> QED
  BY <1>1, <1>3, <1>4, <1>5, <1>6

(* Every place is taken by one record. *)
LEMMA RankOnto ==
    ASSUME NEW S, NEW s \in Seq(S), \A x \in S : x.offset \in Nat, NEW k \in 1 .. Len(s)
    PROVE  \E j \in DOMAIN s : Rank(s, j) = k - 1
<1> DEFINE n == Len(s)
           f == [j \in 1 .. n |-> Rank(s, j) + 1]
<1>1. n \in Nat /\ DOMAIN s = 1 .. n /\ \A x \in 1 .. n : s[x].offset \in Nat
  OBVIOUS
<1> HIDE DEF n
<1>2. ASSUME NEW j \in 1 .. n PROVE Rank(s, j) \in 0 .. n - 1
  BY RankType DEF n
<1>3. f \in [1 .. n -> 1 .. n]
  BY <1>1, <1>2
<1>4. ASSUME NEW i \in 1 .. n, NEW j \in 1 .. n, f[i] = f[j] PROVE i = j
  <2>1. Rank(s, i) = Rank(s, j) /\ Rank(s, i) \in Nat /\ Rank(s, j) \in Nat
    BY <1>1, <1>2, <1>4
  <2>2. ~Before(s, i, j) /\ ~Before(s, j, i)
    BY <2>1, RankGrows DEF n
  <2> QED
    BY <1>1, <2>2, BeforeOrders
<1> HIDE DEF f
<1>5. f \in Injection(1 .. n, 1 .. n)
  BY <1>3, <1>4 DEF Injection, IsInjective
<1>6. IsFiniteSet(1 .. n)
  BY <1>1, UpTo
<1>7. f \in Surjection(1 .. n, 1 .. n)
  BY <1>5, <1>6, FS_Injection
<1>8. PICK j \in 1 .. n : f[j] = k
  BY <1>7 DEF Surjection, n
<1>9. Rank(s, j) + 1 = k /\ Rank(s, j) \in Int /\ j \in DOMAIN s
  BY <1>1, <1>2, <1>8 DEF f
<1> QED
  BY <1>9

(* Sorting keeps the records and puts them in ascending order. *)
LEMMA SortRecords ==
    ASSUME NEW S, NEW s \in Seq(S), \A x \in S : x.offset \in Nat
    PROVE  LET t == SortedByOffset(s)
           IN  /\ t \in Seq(S) /\ Len(t) = Len(s)
               /\ \A k \in 1 .. Len(s) : \E j \in 1 .. Len(s) : t[k] = s[j]
               /\ \A j \in 1 .. Len(s) : \E k \in 1 .. Len(s) : t[k] = s[j]
               /\ DistinctOffsets(s) =>
                    \A k, l \in 1 .. Len(s) : k < l => t[k].offset < t[l].offset
<1> DEFINE n == Len(s)
           t == SortedByOffset(s)
           at(k) == CHOOSE j \in DOMAIN s : Rank(s, j) = k - 1
<1>1. n \in Nat /\ DOMAIN s = 1 .. n /\ \A x \in 1 .. n : s[x] \in S /\ s[x].offset \in Nat
  OBVIOUS
<1>2. ASSUME NEW k \in 1 .. n PROVE at(k) \in 1 .. n /\ Rank(s, at(k)) = k - 1
  <2>1. at(k) \in DOMAIN s /\ Rank(s, at(k)) = k - 1
    BY RankOnto
  <2> QED
    BY <1>1, <2>1
<1>3. t = [k \in 1 .. n |-> s[at(k)]]
  BY DEF SortedByOffset
<1> HIDE DEF t, at, n
<1>4. t \in Seq(S) /\ Len(t) = n
  BY <1>1, <1>2, <1>3
<1>5. ASSUME NEW j \in 1 .. n PROVE \E k \in 1 .. n : t[k] = s[j]
  <2>1. Rank(s, j) \in 0 .. n - 1
    BY RankType DEF n
  <2> DEFINE k == Rank(s, j) + 1
  <2>2. k \in 1 .. n /\ k - 1 = Rank(s, j)
    BY <1>1, <2>1
  <2>3. at(k) \in 1 .. n /\ Rank(s, at(k)) = Rank(s, j)
    BY <1>2, <2>2
  <2>4. ~Before(s, at(k), j) /\ ~Before(s, j, at(k))
    <3>1. Rank(s, j) \in Int
      BY <2>1
    <3> QED
      BY <2>3, <3>1, RankGrows DEF n
  <2>5. at(k) = j
    BY <1>1, <2>3, <2>4, BeforeOrders
  <2> QED
    BY <1>3, <2>2, <2>5
<1>6. ASSUME DistinctOffsets(s), NEW k \in 1 .. n, NEW l \in 1 .. n, k < l
      PROVE  t[k].offset < t[l].offset
  <2>1. k \in Int /\ l \in Int
    BY <1>1
  <2>2. PICK i \in 1 .. n : t[k] = s[i] /\ Rank(s, i) = k - 1
    BY <1>2, <1>3
  <2>3. PICK j \in 1 .. n : t[l] = s[j] /\ Rank(s, j) = l - 1
    BY <1>2, <1>3
  <2>4. ~(Rank(s, j) < Rank(s, i)) /\ i # j
    BY <1>6, <2>1, <2>2, <2>3
  <2>5. ~Before(s, j, i)
    BY <2>4, RankGrows DEF n
  <2>6. Before(s, i, j)
    BY <1>1, <2>4, <2>5, BeforeOrders
  <2>7. s[i].offset # s[j].offset
    BY <1>6, <2>4 DEF DistinctOffsets, n
  <2>8. s[i].offset < s[j].offset
    BY <2>6, <2>7 DEF Before
  <2> QED
    BY <2>2, <2>3, <2>8
<1>7. ASSUME NEW k \in 1 .. n PROVE \E j \in 1 .. n : t[k] = s[j]
  BY <1>2, <1>3
<1> QED
  BY <1>4, <1>5, <1>6, <1>7 DEF t, n

(* o enumerates S in ascending order. *)
Enumerates(o, S) ==
    /\ o \in Seq(S) /\ Len(o) = Cardinality(S) /\ Cardinality(S) \in Nat
    /\ \A x \in S : \E k \in 1 .. Len(o) : o[k] = x
    /\ \A k, l \in 1 .. Len(o) : k < l => o[k] < o[l]

LEMMA OrderedSet ==
    ASSUME NEW S \in SUBSET Nat, IsFiniteSet(S)
    PROVE  Enumerates(Ordered(S), S)
<1> DEFINE B(x) == {y \in S : y < x}
           n == Cardinality(S)
           at(k) == CHOOSE x \in S : Cardinality(B(x)) = k - 1
<1>0. \A x \in S : x \in Nat
  OBVIOUS
<1>1. n \in Nat
  BY FS_CardinalityType
<1>2. ASSUME NEW x \in S PROVE IsFiniteSet(B(x)) /\ Cardinality(B(x)) \in 0 .. n - 1
  <2>1. B(x) \in SUBSET S /\ B(x) # S
    OBVIOUS
  <2>2. IsFiniteSet(B(x)) /\ Cardinality(B(x)) <= n /\ (n = Cardinality(B(x)) => S = B(x))
    BY <2>1, FS_Subset, Zenon
  <2>3. Cardinality(B(x)) \in Nat
    BY <2>2, FS_CardinalityType, Zenon
  <2> HIDE DEF B, n
  <2> QED
    BY <1>1, <2>1, <2>2, <2>3
<1>3. ASSUME NEW x \in S, NEW y \in S, x < y PROVE Cardinality(B(x)) < Cardinality(B(y))
  <2>0. x \in Nat /\ y \in Nat /\ \A z \in S : z < x => z < y
    BY <1>0, <1>3
  <2>a. \A z \in B(x) : z \in B(y)
    BY <2>0
  <2>b. x \in B(y) /\ ~(x < x)
    BY <1>3, <2>0
  <2>c. x \notin B(x)
    BY <2>b, Zenon
  <2>1. B(x) \in SUBSET B(y) /\ x \in B(y) /\ x \notin B(x)
    <3> HIDE DEF B
    <3> QED
      BY <2>a, <2>b, <2>c
  <2>2. Cardinality(B(x)) <= Cardinality(B(y)) /\ (Cardinality(B(y)) = Cardinality(B(x)) => B(y) = B(x))
    BY <1>2, <2>1, FS_Subset, Zenon
  <2>3. Cardinality(B(x)) \in Nat /\ Cardinality(B(y)) \in Nat
    BY <1>1, <1>2
  <2> HIDE DEF B
  <2> QED
    BY <2>1, <2>2, <2>3
<1> DEFINE f == [x \in S |-> Cardinality(B(x)) + 1]
<1>4. f \in Injection(S, 1 .. n)
  <2>1. f \in [S -> 1 .. n]
    BY <1>1, <1>2
  <2>2. ASSUME NEW x \in S, NEW y \in S, f[x] = f[y] PROVE x = y
    <3>1. Cardinality(B(x)) = Cardinality(B(y)) /\ Cardinality(B(x)) \in Int
      BY <1>1, <1>2, <2>2
    <3>2. ~(x < y) /\ ~(y < x)
      BY <1>3, <3>1
    <3> QED
      BY <3>2
  <2> HIDE DEF f
  <2> QED
    BY <2>1, <2>2 DEF Injection, IsInjective
<1>5. IsFiniteSet(1 .. n) /\ Cardinality(1 .. n) = n
  BY <1>1, UpTo
<1>6. f \in Surjection(S, 1 .. n)
  <2> HIDE DEF f
  <2> QED
    BY <1>4, <1>5, FS_Injection
<1>7. ASSUME NEW k \in 1 .. n PROVE at(k) \in S /\ Cardinality(B(at(k))) = k - 1
  <2>1. PICK x \in S : f[x] = k
    <3> HIDE DEF f
    <3> QED
      BY <1>6 DEF Surjection
  <2>2. Cardinality(B(x)) = k - 1
    BY <1>1, <1>2, <2>1
  <2> HIDE DEF B
  <2> QED
    BY <2>2
<1>8. Ordered(S) = [k \in 1 .. n |-> at(k)]
  BY DEF Ordered
<1> HIDE DEF B, at, n, f
<1>9. Ordered(S) \in Seq(S) /\ Len(Ordered(S)) = n
  BY <1>1, <1>7, <1>8
<1>10. ASSUME NEW k \in 1 .. n, NEW l \in 1 .. n, k < l PROVE Ordered(S)[k] < Ordered(S)[l]
  <2>1. PICK x \in S, y \in S : /\ x = at(k) /\ Cardinality(B(x)) = k - 1
                               /\ y = at(l) /\ Cardinality(B(y)) = l - 1
    BY <1>7
  <2>2. k \in Int /\ l \in Int
    BY <1>1
  <2>3. ~(Cardinality(B(y)) < Cardinality(B(x))) /\ Cardinality(B(y)) # Cardinality(B(x))
    BY <1>10, <2>1, <2>2
  <2>4. ~(y < x) /\ y # x
    BY <1>3, <2>3
  <2>5. x < y
    BY <1>0, <2>4
  <2> QED
    BY <1>8, <2>1, <2>5
<1>11. ASSUME NEW x \in S PROVE \E k \in 1 .. n : Ordered(S)[k] = x
  <2>1. PICK k \in 1 .. n : k - 1 = Cardinality(B(x))
    BY <1>1, <1>2
  <2>2. PICK y \in S : y = at(k) /\ Cardinality(B(y)) = Cardinality(B(x))
    BY <1>7, <2>1
  <2>3. Cardinality(B(x)) \in Int
    BY <1>1, <1>2
  <2>4. ~(y < x) /\ ~(x < y)
    BY <1>3, <2>2, <2>3
  <2>5. y = x
    BY <1>0, <2>4
  <2> QED
    BY <1>8, <2>2, <2>5
<1> QED
  BY <1>1, <1>9, <1>10, <1>11 DEF Enumerates, n

(* SetToSeq lists a finite set without repetition. *)
LEMMA ListedSet ==
    ASSUME NEW S, IsFiniteSet(S)
    PROVE  /\ SetToSeq(S) \in Seq(S) /\ Len(SetToSeq(S)) = Cardinality(S) /\ Cardinality(S) \in Nat
           /\ \A x \in S : \E k \in 1 .. Len(SetToSeq(S)) : SetToSeq(S)[k] = x
           /\ \A k, l \in 1 .. Len(SetToSeq(S)) : SetToSeq(S)[k] = SetToSeq(S)[l] => k = l
<1> DEFINE n == Cardinality(S)
           t == SetToSeq(S)
<1>1. n \in Nat /\ ExistsBijection(1 .. n, S)
  BY FS_CardinalityType
<1>2. PICK b \in Bijection(1 .. n, S) : TRUE
  BY <1>1 DEF ExistsBijection
<1>3. b \in [1 .. n -> S] /\ IsInjective(b)
  BY <1>2 DEF Bijection, Injection
<1>4. t \in [1 .. n -> S] /\ IsInjective(t)
  BY <1>3 DEF SetToSeq
<1> HIDE DEF t, n
<1>5. t \in Seq(S) /\ Len(t) = n /\ DOMAIN t = 1 .. n
  BY <1>1, <1>4
<1>6. t \in Surjection(1 .. n, S)
  <2>1. t \in Injection(1 .. n, S) /\ Cardinality(1 .. n) = Cardinality(S)
    BY <1>1, <1>4, UpTo DEF Injection, n
  <2> QED
    BY <2>1, FS_Injection
<1> QED
  BY <1>1, <1>4, <1>5, <1>6 DEF Surjection, IsInjective, t, n
-----------------------------------------------------------------------------
(* The sum of the counters, as a recursive function over sets.              *)
Picked(s) == CHOOSE x \in s : TRUE
Sums(g, f, D) == g = [s \in D |-> IF s = {} THEN 0 ELSE f[Picked(s)] + g[s \ {Picked(s)}]]

LEMMA SumsExists ==
    ASSUME NEW W, IsFiniteSet(W), NEW f
    PROVE  \E g : Sums(g, f, SUBSET W)
<1> DEFINE D(n) == {s \in SUBSET W : Cardinality(s) <= n}
           T == {n \in Nat : ~\E g : Sums(g, f, D(n))}
<1>0. \A s \in SUBSET W : IsFiniteSet(s) /\ Cardinality(s) \in Nat /\ Cardinality(s) <= Cardinality(W)
  BY FS_Subset, FS_CardinalityType
<1>1. T = {}
  <2> SUFFICES ASSUME T # {} PROVE FALSE
    OBVIOUS
  <2>1. PICK m \in T : \A y \in T : m <= y
    BY LeastNat
  <2>2. m \in Nat /\ ~\E g : Sums(g, f, D(m))
    OBVIOUS
  <2>3. ASSUME NEW n \in Nat, n < m PROVE \E g : Sums(g, f, D(n))
    <3>1. n \notin T
      <4> HIDE DEF T
      <4> QED
        BY <2>1, <2>2, <2>3
    <3> QED
      BY <3>1, Zenon
  <2> HIDE DEF T
  <2>4. CASE m = 0
    <3>1. D(0) = {{}}
      BY <1>0, FS_EmptySet
    <3>2. Sums([s \in {{}} |-> 0], f, {{}})
      BY DEF Sums
    <3> QED
      BY <2>2, <2>4, <3>1, <3>2
  <2>5. CASE m # 0
    <3>0. m - 1 \in Nat /\ m - 1 < m
      BY <2>2, <2>5
    <3>1. PICK g : Sums(g, f, D(m - 1))
      BY <2>3, <3>0
    <3> DEFINE h == [s \in D(m) |-> IF s = {} THEN 0 ELSE f[Picked(s)] + g[s \ {Picked(s)}]]
    <3>2. ASSUME NEW s \in D(m), s # {} PROVE s \ {Picked(s)} \in D(m - 1)
      <4>1. Picked(s) \in s
        BY <3>2 DEF Picked
      <4>2. Cardinality(s \ {Picked(s)}) = Cardinality(s) - 1
        BY <1>0, <4>1, FS_RemoveElement
      <4> QED
        BY <1>0, <2>2, <4>2
    <3>3. \A s \in D(m - 1) : s \in D(m)
      BY <1>0, <2>2
    <3>4. ASSUME NEW s \in D(m - 1) PROVE h[s] = g[s]
      BY <3>1, <3>3 DEF Sums
    <3> HIDE DEF D
    <3>5. ASSUME NEW s \in D(m)
          PROVE  h[s] = IF s = {} THEN 0 ELSE f[Picked(s)] + h[s \ {Picked(s)}]
      <4>1. CASE s = {}
        BY <4>1
      <4>2. CASE s # {}
        <5>1. h[s \ {Picked(s)}] = g[s \ {Picked(s)}]
          BY <3>2, <3>4, <4>2
        <5>2. h[s] = f[Picked(s)] + g[s \ {Picked(s)}]
          BY <4>2
        <5> HIDE DEF h
        <5> QED
          BY <4>2, <5>1, <5>2
      <4> QED
        BY <4>1, <4>2
    <3>6. h = [s \in D(m) |-> h[s]]
      OBVIOUS
    <3> HIDE DEF h
    <3>7. Sums(h, f, D(m))
      BY <3>5, <3>6 DEF Sums
    <3> QED
      BY <2>2, <3>7
  <2> QED
    BY <2>4, <2>5
<1>2. Cardinality(W) \in Nat
  BY FS_CardinalityType
<1>3. D(Cardinality(W)) = SUBSET W
  BY <1>0
<1> QED
  BY <1>1, <1>2, <1>3

(* The sum of the counters of o. *)
SumOf(o, W) == MapThenSumSet(LAMBDA w : o[w].count, W)

LEMMA SumOfIs ==
    ASSUME NEW W, IsFiniteSet(W), NEW o
    PROVE  \E g : Sums(g, [w \in W |-> o[w].count], SUBSET W) /\ SumOf(o, W) = g[W]
<1> DEFINE f == [w \in W |-> o[w].count]
           c == CHOOSE g : g = [s \in SUBSET W |->
                                   IF s = {} THEN 0
                                   ELSE o[CHOOSE x \in s : TRUE].count + g[s \ {CHOOSE x \in s : TRUE}]]
<1>1. SumOf(o, W) = c[W]
  BY DEF SumOf, MapThenSumSet, MapThenFoldSet
<1>2. PICK h : Sums(h, f, SUBSET W)
  BY SumsExists
<1>3. \A s \in SUBSET W : s # {} => Picked(s) \in W /\ f[Picked(s)] = o[Picked(s)].count
  BY DEF Picked
<1> HIDE DEF f
<1>4. h = [s \in SUBSET W |-> IF s = {} THEN 0 ELSE o[Picked(s)].count + h[s \ {Picked(s)}]]
  BY <1>2, <1>3 DEF Sums
<1>5. c = [s \in SUBSET W |-> IF s = {} THEN 0 ELSE o[Picked(s)].count + c[s \ {Picked(s)}]]
  <2>1. \E g : g = [s \in SUBSET W |->
                       IF s = {} THEN 0
                       ELSE o[CHOOSE x \in s : TRUE].count + g[s \ {CHOOSE x \in s : TRUE}]]
    BY <1>4 DEF Picked
  <2>2. c = [s \in SUBSET W |->
                IF s = {} THEN 0
                ELSE o[CHOOSE x \in s : TRUE].count + c[s \ {CHOOSE x \in s : TRUE}]]
    BY <2>1, Zenon
  <2> HIDE DEF c
  <2> QED
    BY <2>2 DEF Picked
<1> HIDE DEF c
<1>6. Sums(c, f, SUBSET W)
  BY <1>3, <1>5 DEF Sums
<1> QED
  BY <1>1, <1>6 DEF f

(* Two sums side by side: g and h add up f and e, which differ by n at w.    *)
Shifted(g, h, w, n, W) ==
    \A s \in SUBSET W : g[s] \in Nat /\ h[s] = IF w \in s THEN g[s] + n ELSE g[s]

LEMMA SumsShift ==
    ASSUME NEW W, IsFiniteSet(W), NEW f \in [W -> Nat], NEW e \in [W -> Nat], NEW g, NEW h,
           Sums(g, f, SUBSET W), Sums(h, e, SUBSET W),
           NEW w, NEW n \in Nat,
           \A v \in W : e[v] = IF v = w THEN f[v] + n ELSE f[v]
    PROVE  Shifted(g, h, w, n, W)
<1> DEFINE P(s) == g[s] \in Nat /\ h[s] = IF w \in s THEN g[s] + n ELSE g[s]
           T == {Cardinality(s) : s \in {r \in SUBSET W : ~P(r)}}
<1>0. \A s \in SUBSET W : IsFiniteSet(s) /\ Cardinality(s) \in Nat
  BY FS_Subset, FS_CardinalityType
<1> SUFFICES ASSUME T # {} PROVE FALSE
  BY DEF Shifted
<1>a. T \in SUBSET Nat
  <2> HIDE DEF P
  <2> QED
    BY <1>0
<1>1. PICK m \in T : \A y \in T : m <= y
  <2> HIDE DEF T
  <2> QED
    BY <1>a, LeastNat
<1>2. PICK s \in SUBSET W : ~P(s) /\ m = Cardinality(s)
  OBVIOUS
<1>3. \A r \in SUBSET W : Cardinality(r) < Cardinality(s) => P(r)
  <2> SUFFICES ASSUME NEW r \in SUBSET W, Cardinality(r) < Cardinality(s), ~P(r) PROVE FALSE
    OBVIOUS
  <2>1. Cardinality(r) \in T
    OBVIOUS
  <2> HIDE DEF T, P
  <2> QED
    BY <1>0, <1>1, <1>2, <2>1
<1>4. CASE s = {}
  <2>1. g[s] = 0 /\ h[s] = 0
    BY <1>4 DEF Sums
  <2> QED
    BY <1>2, <1>4, <2>1
<1>5. CASE s # {}
  <2>1. PICK x \in s : x = Picked(s)
    BY <1>5 DEF Picked
  <2>2. PICK r \in SUBSET W : r = s \ {x}
    OBVIOUS
  <2>3. g[s] = f[x] + g[r] /\ h[s] = e[x] + h[r]
    BY <1>5, <2>1, <2>2 DEF Sums
  <2>4. Cardinality(r) = Cardinality(s) - 1
    BY <1>0, <2>2, FS_RemoveElement
  <2>5. g[r] \in Nat /\ h[r] = IF w \in r THEN g[r] + n ELSE g[r]
    BY <1>0, <1>3, <2>4
  <2>6. x \in W /\ f[x] \in Nat /\ e[x] = (IF x = w THEN f[x] + n ELSE f[x])
    OBVIOUS
  <2>7. w \in r <=> w \in s /\ w # x
    BY <2>2
  <2> HIDE DEF T, P
  <2>8. g[s] \in Nat /\ h[s] = IF w \in s THEN g[s] + n ELSE g[s]
    BY <2>1, <2>3, <2>5, <2>6, <2>7
  <2> QED
    BY <1>2, <2>8 DEF P
<1> QED
  BY <1>4, <1>5

(* The counter of w grows by n, and the others stay. *)
Adds(u, o, w, n, W) ==
    \A v \in W : /\ o[v].count \in Nat
                 /\ u[v].count = IF v = w THEN o[v].count + n ELSE o[v].count

(* One counter grows by n, and so does the sum. *)
LEMMA SumOfGrows ==
    ASSUME NEW W, IsFiniteSet(W), NEW o, NEW u, NEW w \in W, NEW n \in Nat, Adds(u, o, w, n, W)
    PROVE  SumOf(o, W) \in Nat /\ SumOf(u, W) = SumOf(o, W) + n
<1> DEFINE f == [v \in W |-> o[v].count]
           e == [v \in W |-> u[v].count]
<1>1. PICK g : Sums(g, f, SUBSET W) /\ SumOf(o, W) = g[W]
  BY SumOfIs
<1>2. PICK h : Sums(h, e, SUBSET W) /\ SumOf(u, W) = h[W]
  BY SumOfIs
<1>3. f \in [W -> Nat] /\ e \in [W -> Nat] /\ \A v \in W : e[v] = IF v = w THEN f[v] + n ELSE f[v]
  BY DEF Adds
<1> HIDE DEF f, e
<1>4. Shifted(g, h, w, n, W)
  BY <1>1, <1>2, <1>3, SumsShift
<1> QED
  BY <1>1, <1>2, <1>4 DEF Shifted

(* Counters of zero. *)
LEMMA SumOfZero ==
    ASSUME NEW W, IsFiniteSet(W), NEW o, \A v \in W : o[v].count = 0
    PROVE  SumOf(o, W) = 0
<1> DEFINE f == [v \in W |-> o[v].count]
           z == [s \in SUBSET W |-> 0]
<1>1. PICK g : Sums(g, f, SUBSET W) /\ SumOf(o, W) = g[W]
  BY SumOfIs
<1> DEFINE T == {Cardinality(s) : s \in {r \in SUBSET W : g[r] # 0}}
<1>0. \A s \in SUBSET W : IsFiniteSet(s) /\ Cardinality(s) \in Nat
  BY FS_Subset, FS_CardinalityType
<1>2. T = {}
  <2> SUFFICES ASSUME T # {} PROVE FALSE
    OBVIOUS
  <2>1. PICK m \in T : \A y \in T : m <= y
    BY <1>0, LeastNat
  <2>2. PICK s \in SUBSET W : g[s] # 0 /\ m = Cardinality(s)
    OBVIOUS
  <2>3. s # {}
    BY <1>1, <2>2 DEF Sums
  <2>4. PICK x \in s : x = Picked(s)
    BY <2>3 DEF Picked
  <2>5. PICK r \in SUBSET W : r = s \ {x}
    OBVIOUS
  <2>6. g[s] = f[x] + g[r] /\ f[x] = 0
    BY <1>1, <2>3, <2>4, <2>5 DEF Sums
  <2>7. Cardinality(r) = Cardinality(s) - 1 /\ Cardinality(s) \in Nat
    BY <1>0, <2>5, FS_RemoveElement
  <2>8. g[r] # 0
    BY <2>2, <2>6
  <2>9. Cardinality(r) \in T
    BY <2>8
  <2> HIDE DEF T
  <2> QED
    BY <2>1, <2>2, <2>7, <2>9
<1>3. Cardinality(W) \notin T
  BY <1>2
<1> QED
  BY <1>1, <1>3
-----------------------------------------------------------------------------
(* A set has one enumeration in ascending order. *)
LEMMA EnumeratedOnce ==
    ASSUME NEW S \in SUBSET Nat, NEW o, NEW u, Enumerates(o, S), Enumerates(u, S)
    PROVE  o = u
<1>0. /\ Len(o) = Cardinality(S) /\ Len(u) = Cardinality(S)
      /\ o \in Seq(S) /\ u \in Seq(S) /\ \A x \in S : x \in Nat
  BY DEF Enumerates
<1>1. /\ Len(o) = Len(u) /\ Len(o) \in Nat /\ o \in Seq(S) /\ u \in Seq(S)
      /\ \A k \in 1 .. Len(o) : o[k] \in Nat /\ u[k] \in Nat
  <2>1. Len(o) = Len(u) /\ Len(o) \in Nat
    BY <1>0
  <2>2. \A k \in 1 .. Len(o) : o[k] \in S /\ u[k] \in S
    BY <1>0, <2>1
  <2> QED
    BY <1>0, <2>1, <2>2
<1> DEFINE T == {k \in Nat : k \in 1 .. Len(o) /\ o[k] # u[k]}
<1>2. SUFFICES ASSUME T # {} PROVE FALSE
  BY <1>1
<1>3. PICK k \in T : \A y \in T : k <= y
  BY <1>2, LeastNat
<1>4. PICK n \in 1 .. Len(o) : n = k /\ n \in Nat /\ o[n] # u[n]
  BY <1>3
<1>5. \A j \in 1 .. Len(o) : j < n => o[j] = u[j]
  BY <1>3, <1>4
(* The smaller one of the two elements would be missing. *)
<1>6. ASSUME NEW a, NEW b, Enumerates(a, S), Enumerates(b, S), Len(a) = Len(o), Len(b) = Len(o),
             \A j \in 1 .. Len(o) : j < n => a[j] = b[j], a[n] < b[n]
      PROVE  FALSE
  <2>1. a[n] \in S
    BY <1>6 DEF Enumerates
  <2>2. PICK j \in 1 .. Len(o) : b[j] = a[n]
    BY <1>6, <2>1 DEF Enumerates
  <2>0. a \in Seq(S) /\ b \in Seq(S) /\ n \in 1 .. Len(a) /\ n \in 1 .. Len(b)
    BY <1>6 DEF Enumerates
  <2>3. a[n] \in Nat /\ b[n] \in Nat
    <3>1. a[n] \in S /\ b[n] \in S
      BY <2>0
    <3> QED
      BY <1>0, <3>1
  <2>4. PICK x \in Nat : x = a[n]
    BY <2>3
  <2>5. CASE j < n
    <3>1. a[j] = a[n] /\ a[j] < a[n]
      BY <1>6, <2>2, <2>5 DEF Enumerates
    <3> QED
      BY <2>4, <3>1
  <2>6. CASE j = n
    BY <1>6, <2>2, <2>4, <2>6
  <2>7. CASE n < j
    <3>1. b[n] < b[j]
      BY <1>6, <2>7 DEF Enumerates
    <3> QED
      BY <1>6, <2>2, <2>3, <3>1
  <2> QED
    BY <1>4, <2>5, <2>6, <2>7
<1>7. o[n] < u[n] \/ u[n] < o[n]
  BY <1>1, <1>4
<1>8. ~(o[n] < u[n])
  BY <1>1, <1>5, <1>6
<1>9. ~(u[n] < o[n])
  BY <1>1, <1>5, <1>6
<1> QED
  BY <1>7, <1>8, <1>9
-----------------------------------------------------------------------------
(* A part of a sequence. *)
LEMMA SubSeqIs ==
    ASSUME NEW S, NEW t \in Seq(S), NEW x \in Nat, NEW l \in Nat, x + l <= Len(t)
    PROVE  SubSeq(t, x + 1, x + l) = [j \in 1 .. l |-> t[x + j]]
<1> DEFINE u == SubSeq(t, x + 1, x + l)
<1>1. u = [j \in 1 .. (x + l) - (x + 1) + 1 |-> t[(x + 1) + j - 1]]
  OBVIOUS
<1>2. (x + l) - (x + 1) + 1 = l /\ \A j \in 1 .. l : (x + 1) + j - 1 = x + j
  OBVIOUS
<1> HIDE DEF u
<1>3. u = [j \in 1 .. l |-> t[(x + 1) + j - 1]]
  BY <1>1, <1>2
<1> QED
  BY <1>2, <1>3 DEF u

(* Where the parts end in their concatenation t: part k behind e[k - 1]. *)
Cuts(e, t, parts, n) ==
    /\ e \in [0 .. n -> Nat] /\ e[0] = 0 /\ e[n] = Len(t)
    /\ \A k \in 1 .. n : e[k] = e[k - 1] + Len(parts[k])
    /\ \A k \in 1 .. n : \A j \in 1 .. Len(parts[k]) : t[e[k - 1] + j] = parts[k][j]
    /\ \A j, k \in 0 .. n : j < k => e[j] <= e[k]
    /\ \A i \in 1 .. Len(t) : \E k \in 1 .. n : \E j \in 1 .. Len(parts[k]) : i = e[k - 1] + j

LEMMA CutsNext ==
    ASSUME NEW S, NEW parts \in Seq(Seq(S)), NEW n \in Nat, n + 1 \in 1 .. Len(parts),
           NEW t \in Seq(S), NEW e, Cuts(e, t, parts, n)
    PROVE  \E d : Cuts(d, t \o parts[n + 1], parts, n + 1)
<1> DEFINE d == [k \in 0 .. n + 1 |-> IF k = n + 1 THEN e[n] + Len(parts[n + 1]) ELSE e[k]]
<1>1. PICK p \in Seq(S) : p = parts[n + 1] /\ Len(p) \in Nat
  OBVIOUS
<1>2. PICK u \in Seq(S) : u = t \o p /\ Appended(u, t, p)
  BY Concatenation
<1>3. /\ e \in [0 .. n -> Nat] /\ e[0] = 0 /\ e[n] = Len(t) /\ Len(t) \in Nat
      /\ \A k \in 0 .. n : e[k] \in Nat
  BY DEF Cuts
<1>4. /\ d \in [0 .. n + 1 -> Nat] /\ d[n + 1] = Len(t) + Len(p)
      /\ \A k \in 0 .. n : d[k] = e[k] /\ k \in 0 .. n + 1
  BY <1>1, <1>3
<1> HIDE DEF d
<1>5. d[0] = 0 /\ d[n + 1] = Len(u)
  BY <1>2, <1>3, <1>4 DEF Appended
<1>6. ASSUME NEW k \in 1 .. n + 1
      PROVE  d[k] = d[k - 1] + Len(parts[k]) /\ \A j \in 1 .. Len(parts[k]) : u[d[k - 1] + j] = parts[k][j]
  <2>1. CASE k = n + 1
    <3>1. k - 1 = n /\ d[k - 1] = Len(t) /\ parts[k] = p
      BY <1>1, <1>3, <1>4, <2>1
    <3>2. \A j \in 1 .. Len(p) : u[Len(t) + j] = p[j]
      BY <1>2 DEF Appended
    <3> QED
      BY <1>4, <2>1, <3>1, <3>2
  <2>2. CASE k # n + 1
    <3>1. k \in 1 .. n /\ k - 1 \in 0 .. n /\ k \in 0 .. n
      BY <2>2
    <3>2. d[k] = e[k] /\ d[k - 1] = e[k - 1] /\ e[k] = e[k - 1] + Len(parts[k])
      BY <1>4, <3>1 DEF Cuts
    <3>3. e[k] <= Len(t) /\ e[k] \in Nat /\ e[k - 1] \in Nat
      <4>1. k < n => e[k] <= e[n]
        BY <3>1 DEF Cuts
      <4> QED
        BY <1>3, <3>1, <4>1
    <3>4. ASSUME NEW j \in 1 .. Len(parts[k]) PROVE u[e[k - 1] + j] = parts[k][j]
      <4>1. Len(parts[k]) \in Nat
        BY <3>1
      <4>2. e[k - 1] + j \in 1 .. Len(t)
        <5>1. PICK x \in Nat, y \in Nat, z \in Nat, w \in Nat :
                x = e[k - 1] /\ y = e[k] /\ z = Len(t) /\ w = Len(parts[k])
          BY <1>3, <3>3, <4>1
        <5>2. y = x + w /\ y <= z /\ j \in 1 .. w
          BY <3>2, <3>3, <5>1
        <5>3. x + j \in 1 .. z
          BY <5>2
        <5> QED
          BY <5>1, <5>3
      <4>3. u[e[k - 1] + j] = t[e[k - 1] + j]
        BY <1>2, <4>2 DEF Appended
      <4> QED
        BY <3>1, <4>3 DEF Cuts
    <3> QED
      BY <3>2, <3>4
  <2> QED
    BY <2>1, <2>2
<1>7. ASSUME NEW j \in 0 .. n + 1, NEW k \in 0 .. n + 1, j < k PROVE d[j] <= d[k]
  <2>1. j \in 0 .. n
    BY <1>7
  <2>2. CASE k = n + 1
    <3>1. j < n => e[j] <= e[n]
      BY <2>1 DEF Cuts
    <3>2. e[j] <= Len(t) /\ e[j] \in Nat
      BY <1>3, <2>1, <3>1
    <3> QED
      BY <1>1, <1>3, <1>4, <2>1, <2>2, <3>2
  <2>3. CASE k # n + 1
    <3>1. k \in 0 .. n
      BY <2>3
    <3> QED
      BY <1>4, <1>7, <2>1, <3>1 DEF Cuts
  <2> QED
    BY <2>2, <2>3
<1>8. ASSUME NEW i \in 1 .. Len(u)
      PROVE  \E k \in 1 .. n + 1 : \E j \in 1 .. Len(parts[k]) : i = d[k - 1] + j
  <2>1. CASE i \in 1 .. Len(t)
    <3>1. PICK k \in 1 .. n : \E j \in 1 .. Len(parts[k]) : i = e[k - 1] + j
      BY <2>1 DEF Cuts
    <3>2. k - 1 \in 0 .. n /\ k \in 1 .. n + 1
      OBVIOUS
    <3>3. d[k - 1] = e[k - 1]
      BY <1>4, <3>2
    <3> QED
      BY <3>1, <3>2, <3>3
  <2>2. ASSUME NEW j \in 1 .. Len(p), i = Len(t) + j
        PROVE  \E k \in 1 .. n + 1 : \E l \in 1 .. Len(parts[k]) : i = d[k - 1] + l
    <3>1. n + 1 \in 1 .. n + 1 /\ (n + 1) - 1 = n /\ d[n] = Len(t) /\ j \in 1 .. Len(parts[n + 1])
      BY <1>1, <1>3, <1>4
    <3> QED
      BY <2>2, <3>1
  <2> QED
    BY <1>2, <2>1, <2>2 DEF Appended
<1>9. Cuts(d, u, parts, n + 1)
  BY <1>4, <1>5, <1>6, <1>7, <1>8 DEF Cuts
<1> QED
  BY <1>1, <1>2, <1>9

(* Where the parts end in the concatenation of them all. *)
LEMMA FlatCuts ==
    ASSUME NEW S, NEW parts \in Seq(Seq(S))
    PROVE  FlattenSeq(parts) \in Seq(S) /\ \E e : Cuts(e, FlattenSeq(parts), parts, Len(parts))
<1> DEFINE n == Len(parts)
           P(t, k) == t \in Seq(S) /\ \E e : Cuts(e, t, parts, k)
<1>1. n \in Nat
  OBVIOUS
<1>2. P(<<>>, 0)
  <2> DEFINE e == [k \in 0 .. 0 |-> 0]
  <2>1. e \in [0 .. 0 -> Nat] /\ e[0] = 0 /\ Len(<<>>) = 0 /\ \A k \in 0 .. 0 : k = 0
    OBVIOUS
  <2> HIDE DEF e
  <2>2. Cuts(e, <<>>, parts, 0)
    BY <2>1 DEF Cuts
  <2> QED
    BY <2>2
<1>3. ASSUME NEW t, NEW k \in Nat, k + 1 \in 1 .. n, P(t, k)
      PROVE  P(t \o parts[k + 1], k + 1)
  <2>1. PICK e : Cuts(e, t, parts, k)
    BY <1>3
  <2>2. t \in Seq(S) /\ parts[k + 1] \in Seq(S)
    BY <1>1, <1>3
  <2>3. \E d : Cuts(d, t \o parts[k + 1], parts, k + 1)
    BY <1>3, <2>1, <2>2, CutsNext
  <2>4. t \o parts[k + 1] \in Seq(S)
    BY <2>2
  <2> QED
    BY <2>3, <2>4
<1>4. CASE n = 0
  <2>1. FlattenSeq(parts) = <<>>
    BY <1>4 DEF FlattenSeq
  <2> QED
    BY <1>2, <1>4, <2>1
<1>5. CASE n # 0
  <2>1. PICK f : Joins(f, parts, n) /\ FlattenSeq(parts) = f[n]
    BY <1>1, <1>5, FlattenJoins
  <2> HIDE DEF P
  <2> DEFINE T == {k \in 1 .. n : ~P(f[k], k)}
  <2>2. T = {}
    <3> SUFFICES ASSUME T # {} PROVE FALSE
      OBVIOUS
    <3>0. T \in SUBSET Nat
      BY <1>1
    <3>1. PICK k \in T : \A y \in T : k <= y
      BY <3>0, LeastNat, Zenon
    <3>2. k \in 1 .. n /\ ~P(f[k], k)
      OBVIOUS
    <3>3. CASE k = 1
      <4>1. f[1] = parts[1] /\ parts[1] \in Seq(S)
        BY <1>1, <2>1, <3>2, <3>3 DEF Joins
      <4>2. <<>> \o parts[1] = parts[1]
        BY <4>1
      <4>3. P(<<>> \o parts[0 + 1], 0 + 1)
        <5>1. 0 \in Nat /\ 0 + 1 \in 1 .. n
          BY <1>1, <1>5
        <5> QED
          BY <1>2, <1>3, <5>1, Zenon
      <4> QED
        BY <3>2, <3>3, <4>1, <4>2, <4>3
    <3>4. CASE k # 1
      <4>1. PICK j \in Nat : j = k - 1 /\ j \in 1 .. n /\ k = j + 1
        BY <1>1, <3>2, <3>4
      <4>2. P(f[j], j)
        BY <3>1, <4>1
      <4>3. f[k] = f[j] \o parts[j + 1]
        BY <2>1, <3>2, <3>4, <4>1 DEF Joins
      <4>4. P(f[j] \o parts[j + 1], j + 1)
        BY <1>3, <3>2, <4>1, <4>2
      <4> QED
        BY <3>2, <4>1, <4>3, <4>4
    <3> QED
      BY <3>3, <3>4
  <2>3. P(f[n], n)
    BY <1>1, <1>5, <2>2
  <2> QED
    BY <2>1, <2>3 DEF P
<1> QED
  BY <1>4, <1>5
=============================================================================
