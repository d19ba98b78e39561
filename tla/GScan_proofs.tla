---------------------------- MODULE GScan_proofs ----------------------------
(***************************************************************************)
(* Theorems about GScan, for every list of patterns, every file and every  *)
(* size of a block: the automaton reports every occurrence of a pattern,   *)
(* each once, as long as the gate looks for all the first bytes.           *)
(***************************************************************************)
EXTENDS GScan, Sorting_proofs

-----------------------------------------------------------------------------
(* The ends of a sequence. *)

LEMMA SameSeq ==
    ASSUME NEW S, NEW s \in Seq(S), NEW t \in Seq(S), Len(s) = Len(t),
           \A j \in 1 .. Len(s) : s[j] = t[j]
    PROVE  s = t
<1>1. s = [j \in 1 .. Len(s) |-> s[j]] /\ t = [j \in 1 .. Len(t) |-> t[j]]
  OBVIOUS
<1> QED
  BY <1>1

LEMMA Ends ==
    ASSUME NEW S, NEW s \in Seq(S), NEW n \in 0 .. Len(s)
    PROVE  /\ End(s, n) \in Seq(S) /\ Len(End(s, n)) = n
           /\ \A j \in 1 .. n : End(s, n)[j] = s[Len(s) - n + j]
<1>1. Len(s) \in Nat /\ n \in Nat /\ \A j \in 1 .. n : Len(s) - n + j \in 1 .. Len(s)
  OBVIOUS
<1>2. \A j \in 1 .. n : s[Len(s) - n + j] \in S
  BY <1>1
<1>3. End(s, n) \in [1 .. n -> S]
  BY <1>2 DEF End
<1> QED
  BY <1>1, <1>3 DEF End

LEMMA EndWhole ==
    ASSUME NEW S, NEW s \in Seq(S)
    PROVE  End(s, Len(s)) = s /\ End(s, 0) = <<>>
<1>1. Len(s) \in Nat /\ Len(s) \in 0 .. Len(s) /\ 0 \in 0 .. Len(s)
  OBVIOUS
<1>2. \A j \in 1 .. Len(s) : Len(s) - Len(s) + j = j
  BY <1>1
<1>3. End(s, Len(s)) = s
  BY <1>1, <1>2, Ends, SameSeq
<1>4. End(s, 0) \in Seq(S) /\ Len(End(s, 0)) = 0
  BY <1>1, Ends
<1> QED
  BY <1>3, <1>4

LEMMA EndEnd ==
    ASSUME NEW S, NEW s \in Seq(S), NEW n \in 0 .. Len(s), NEW m \in 0 .. n
    PROVE  End(End(s, n), m) = End(s, m)
<1>0. /\ End(s, n) \in Seq(S) /\ Len(End(s, n)) = n
      /\ \A j \in 1 .. n : End(s, n)[j] = s[Len(s) - n + j]
  BY Ends
<1>1. PICK t \in Seq(S) : t = End(s, n) /\ Len(t) = n /\ \A j \in 1 .. n : t[j] = s[Len(s) - n + j]
  BY <1>0, Zenon
<1>2. m \in 0 .. Len(s) /\ m \in 0 .. Len(t) /\ n \in Nat /\ m \in Nat /\ Len(s) \in Nat
  BY <1>1
<1>a. /\ End(t, m) \in Seq(S) /\ Len(End(t, m)) = m
      /\ \A j \in 1 .. m : End(t, m)[j] = t[Len(t) - m + j]
  BY <1>2, Ends, Zenon
<1>b. /\ End(s, m) \in Seq(S) /\ Len(End(s, m)) = m
      /\ \A j \in 1 .. m : End(s, m)[j] = s[Len(s) - m + j]
  BY <1>2, Ends, Zenon
<1>3. /\ End(t, m) \in Seq(S) /\ Len(End(t, m)) = m /\ \A j \in 1 .. m : End(t, m)[j] = t[n - m + j]
      /\ End(s, m) \in Seq(S) /\ Len(End(s, m)) = m /\ \A j \in 1 .. m : End(s, m)[j] = s[Len(s) - m + j]
  BY <1>1, <1>a, <1>b
<1>4. \A j \in 1 .. m : n - m + j \in 1 .. n /\ Len(s) - n + (n - m + j) = Len(s) - m + j
  BY <1>2
<1>5. \A j \in 1 .. m : End(t, m)[j] = End(s, m)[j]
  BY <1>1, <1>3, <1>4
<1> QED
  BY <1>1, <1>3, <1>5, SameSeq

LEMMA EndAppend ==
    ASSUME NEW S, NEW s \in Seq(S), NEW c \in S, NEW n \in 0 .. Len(s)
    PROVE  End(Append(s, c), n + 1) = Append(End(s, n), c)
<1>0. /\ End(s, n) \in Seq(S) /\ Len(End(s, n)) = n
      /\ \A j \in 1 .. n : End(s, n)[j] = s[Len(s) - n + j]
  BY Ends
<1>1. PICK t \in Seq(S) : t = End(s, n) /\ Len(t) = n /\ \A j \in 1 .. n : t[j] = s[Len(s) - n + j]
  BY <1>0, Zenon
<1>a. /\ Append(s, c) \in Seq(S) /\ Len(Append(s, c)) = Len(s) + 1 /\ Append(s, c)[Len(s) + 1] = c
      /\ \A j \in 1 .. Len(s) : Append(s, c)[j] = s[j]
  OBVIOUS
<1>2. PICK r \in Seq(S) : /\ r = Append(s, c) /\ Len(r) = Len(s) + 1 /\ r[Len(s) + 1] = c
                          /\ \A j \in 1 .. Len(s) : r[j] = s[j]
  BY <1>a, Zenon
<1>3. /\ Append(t, c) \in Seq(S) /\ Len(Append(t, c)) = n + 1 /\ Append(t, c)[n + 1] = c
      /\ \A j \in 1 .. n : Append(t, c)[j] = t[j]
  BY <1>1
<1>4. n + 1 \in 0 .. Len(r) /\ n \in Nat /\ Len(s) \in Nat
  BY <1>2
<1>5. /\ End(r, n + 1) \in Seq(S) /\ Len(End(r, n + 1)) = n + 1
      /\ \A j \in 1 .. n + 1 : End(r, n + 1)[j] = r[Len(r) - (n + 1) + j]
  BY <1>4, Ends
<1>6. ASSUME NEW j \in 1 .. n + 1 PROVE End(r, n + 1)[j] = Append(t, c)[j]
  <2>1. CASE j = n + 1
    <3>1. Len(r) - (n + 1) + j = Len(s) + 1
      BY <1>2, <1>4, <2>1
    <3> QED
      BY <1>2, <1>3, <1>5, <2>1, <3>1
  <2>2. CASE j # n + 1
    <3>1. j \in 1 .. n /\ Len(r) - (n + 1) + j = Len(s) - n + j /\ Len(s) - n + j \in 1 .. Len(s)
      BY <1>2, <1>4, <2>2
    <3>2. End(r, n + 1)[j] = r[Len(r) - (n + 1) + j]
      BY <1>5, Zenon
    <3>3. r[Len(s) - n + j] = s[Len(s) - n + j]
      BY <1>2, <3>1, Zenon
    <3>4. Append(t, c)[j] = t[j] /\ t[j] = s[Len(s) - n + j]
      BY <1>1, <1>3, <3>1, Zenon
    <3> QED
      BY <3>1, <3>2, <3>3, <3>4, Zenon
  <2> QED
    BY <2>1, <2>2
<1> QED
  BY <1>1, <1>2, <1>3, <1>5, <1>6, SameSeq

LEMMA EndTail ==
    ASSUME NEW S, NEW s \in Seq(S), s # <<>>
    PROVE  /\ Tail(s) \in Seq(S) /\ Len(Tail(s)) = Len(s) - 1 /\ Len(s) \in Nat \ {0}
           /\ \A n \in 0 .. Len(s) - 1 : End(Tail(s), n) = End(s, n)
<1>1. Len(s) \in Nat /\ Len(s) # 0
  OBVIOUS
<1>a. /\ Tail(s) \in Seq(S) /\ Len(Tail(s)) = Len(s) - 1
      /\ \A j \in 1 .. Len(Tail(s)) : Tail(s)[j] = s[j + 1]
  BY <1>1
<1>2. PICK t \in Seq(S) : t = Tail(s) /\ Len(t) = Len(s) - 1 /\ \A j \in 1 .. Len(t) : t[j] = s[j + 1]
  BY <1>a, Zenon
<1>3. ASSUME NEW n \in 0 .. Len(s) - 1 PROVE End(t, n) = End(s, n)
  <2>1. n \in 0 .. Len(t) /\ n \in 0 .. Len(s) /\ n \in Nat
    BY <1>1, <1>2
  <2>2. /\ End(t, n) \in Seq(S) /\ Len(End(t, n)) = n /\ \A j \in 1 .. n : End(t, n)[j] = t[Len(t) - n + j]
        /\ End(s, n) \in Seq(S) /\ Len(End(s, n)) = n /\ \A j \in 1 .. n : End(s, n)[j] = s[Len(s) - n + j]
    BY <2>1, Ends
  <2>3. \A j \in 1 .. n : Len(t) - n + j \in 1 .. Len(t) /\ (Len(t) - n + j) + 1 = Len(s) - n + j
    BY <1>1, <1>2, <2>1
  <2>4. \A j \in 1 .. n : End(t, n)[j] = End(s, n)[j]
    BY <1>2, <2>2, <2>3
  <2> QED
    BY <2>2, <2>4, SameSeq
<1> QED
  BY <1>1, <1>2, <1>3
-----------------------------------------------------------------------------
(* The nodes of the trie. *)

LEMMA NodesAre ==
    ASSUME patterns \in Lists
    PROVE  /\ patterns \in Seq(Seq(ByteValues)) /\ Nodes \in SUBSET Seq(ByteValues) /\ <<>> \in Nodes
           /\ \A i \in Added : /\ i \in 1 .. Len(patterns) /\ patterns[i] \in Seq(ByteValues)
                               /\ patterns[i] \in Nodes /\ Len(patterns[i]) \in Nat \ {0}
           /\ \A u \in Nodes : u # <<>> =>
                \E i \in Added : \E n \in 1 .. Len(patterns[i]) : u = SubSeq(patterns[i], 1, n)
           /\ \A i \in Added : \A n \in 1 .. Len(patterns[i]) : SubSeq(patterns[i], 1, n) \in Nodes
<1>1. patterns \in Seq(Seq(ByteValues))
  BY GScanAssumption
<1>2. \A i \in Added : /\ i \in 1 .. Len(patterns) /\ patterns[i] \in Seq(ByteValues)
                       /\ Len(patterns[i]) \in Nat \ {0}
  BY <1>1 DEF Added
<1>3. \A i \in Added : \A n \in 1 .. Len(patterns[i]) : SubSeq(patterns[i], 1, n) \in Nodes
  BY DEF Nodes
<1>4. <<>> \in Nodes /\ \A u \in Nodes : u # <<>> =>
        \E i \in Added : \E n \in 1 .. Len(patterns[i]) : u = SubSeq(patterns[i], 1, n)
  BY DEF Nodes
<1>5. \A i \in Added : patterns[i] \in Nodes
  <2>1. TAKE i \in Added
  <2>2. PICK p \in Seq(ByteValues) : p = patterns[i] /\ Len(p) \in Nat \ {0}
    BY <1>2
  <2>3. Len(p) \in 1 .. Len(p) /\ SubSeq(p, 1, Len(p)) = p
    BY <2>2
  <2> QED
    BY <1>3, <2>2, <2>3
<1>6. \A i \in Added : \A n \in 1 .. Len(patterns[i]) : SubSeq(patterns[i], 1, n) \in Seq(ByteValues)
  BY <1>2
<1>7. Nodes \in SUBSET Seq(ByteValues)
  <2>1. ASSUME NEW u \in Nodes PROVE u \in Seq(ByteValues)
    <3>1. <<>> \in Seq(ByteValues)
      OBVIOUS
    <3> QED
      BY <1>4, <1>6, <3>1, Zenon
  <2> QED
    BY <2>1
<1> QED
  BY <1>1, <1>2, <1>3, <1>4, <1>5, <1>7

(* Every beginning of a node is a node. *)
LEMMA Beginnings ==
    ASSUME patterns \in Lists, NEW u \in Seq(ByteValues), NEW c, Append(u, c) \in Nodes
    PROVE  u \in Nodes /\ c \in ByteValues
<1>1. Len(Append(u, c)) = Len(u) + 1 /\ Len(u) \in Nat /\ Append(u, c)[Len(u) + 1] = c
  OBVIOUS
<1>2. Append(u, c) # <<>>
  BY <1>1
<1>3. PICK i \in Added : \E n \in 1 .. Len(patterns[i]) : Append(u, c) = SubSeq(patterns[i], 1, n)
  BY <1>2, NodesAre
<1>4. PICK p \in Seq(ByteValues) : p = patterns[i] /\ Len(p) \in Nat
  BY NodesAre
<1>5. PICK n \in 1 .. Len(p) : Append(u, c) = SubSeq(p, 1, n)
  BY <1>3, <1>4
<1>6. Len(SubSeq(p, 1, n)) = n /\ SubSeq(p, 1, n) \in Seq(ByteValues)
      /\ \A j \in 1 .. n : SubSeq(p, 1, n)[j] = p[j]
  BY <1>4
<1>7. n = Len(u) + 1
  BY <1>1, <1>5, <1>6
<1>8. c \in ByteValues
  <2>1. Append(u, c) \in Seq(ByteValues)
    BY <1>5, <1>6
  <2>2. Len(u) + 1 \in 1 .. Len(Append(u, c))
    BY <1>1
  <2> QED
    BY <1>1, <2>1, <2>2
<1>9. u \in Nodes
  <2>1. CASE Len(u) = 0
    <3>1. u = <<>>
      BY <2>1
    <3> QED
      BY <3>1, NodesAre
  <2>2. CASE Len(u) # 0
    <3>1. Len(u) \in 1 .. Len(p)
      BY <1>1, <1>4, <1>7, <2>2
    <3>2. SubSeq(p, 1, Len(u)) \in Seq(ByteValues) /\ Len(SubSeq(p, 1, Len(u))) = Len(u)
          /\ \A j \in 1 .. Len(u) : SubSeq(p, 1, Len(u))[j] = p[j]
      BY <1>4, <3>1
    <3>3. \A j \in 1 .. Len(u) : u[j] = p[j]
      <4>1. \A j \in 1 .. Len(u) : Append(u, c)[j] = u[j] /\ j \in 1 .. n
        BY <1>1, <1>7
      <4> QED
        BY <1>5, <1>6, <4>1
    <3>4. u = SubSeq(p, 1, Len(u))
      BY <3>2, <3>3, SameSeq
    <3> QED
      BY <1>4, <3>1, <3>4, NodesAre
  <2> QED
    BY <2>1, <2>2
<1> QED
  BY <1>8, <1>9

(* A sequence has one longest end among the nodes. *)
LEMMA LongestOnce ==
    ASSUME patterns \in Lists, NEW s \in Seq(ByteValues), NEW u, NEW v, LongestEnd(s, u), LongestEnd(s, v)
    PROVE  u = v
<1>1. /\ u \in Nodes /\ v \in Nodes /\ Nodes \in SUBSET Seq(ByteValues)
      /\ u = End(s, Len(u)) /\ v = End(s, Len(v)) /\ Len(u) <= Len(s) /\ Len(v) <= Len(s)
  BY NodesAre DEF LongestEnd, EndOf
<1>2. Len(u) \in 0 .. Len(s) /\ Len(v) \in 0 .. Len(s) /\ Len(u) \in Nat /\ Len(v) \in Nat
  BY <1>1
<1>3. Len(u) <= Len(v) /\ Len(v) <= Len(u)
  BY <1>1, <1>2 DEF LongestEnd
<1>4. Len(u) = Len(v)
  BY <1>2, <1>3
<1> QED
  BY <1>1, <1>4

LEMMA LongestExists ==
    ASSUME patterns \in Lists, NEW s \in Seq(ByteValues)
    PROVE  \E u \in Nodes : LongestEnd(s, u)
<1> DEFINE T == {d \in 0 .. Len(s) : End(s, Len(s) - d) \in Nodes}
<1>1. Len(s) \in Nat
  OBVIOUS
<1>2. Len(s) \in T
  <2>1. Len(s) - Len(s) = 0 /\ Len(s) \in 0 .. Len(s)
    BY <1>1
  <2>2. End(s, 0) \in Nodes
    BY EndWhole, NodesAre
  <2> QED
    BY <2>1, <2>2
<1>3. T \in SUBSET Nat /\ T # {}
  BY <1>1, <1>2
<1>4. \A d \in T : d \in 0 .. Len(s) /\ End(s, Len(s) - d) \in Nodes
  OBVIOUS
<1>5. \A d \in 0 .. Len(s) : End(s, Len(s) - d) \in Nodes => d \in T
  OBVIOUS
<1> HIDE DEF T
<1>6. PICK d \in T : \A e \in T : d <= e
  BY <1>3, LeastNat, Zenon
<1>7. PICK n \in 0 .. Len(s) : n = Len(s) - d /\ End(s, n) \in Nodes /\ n \in Nat
  BY <1>1, <1>4
<1>8. Len(End(s, n)) = n
  BY Ends
<1>9. ASSUME NEW m \in 0 .. Len(s), End(s, m) \in Nodes PROVE m <= n
  <2>1. Len(s) - m \in 0 .. Len(s) /\ Len(s) - (Len(s) - m) = m
    BY <1>1
  <2>2. Len(s) - m \in T
    BY <1>5, <1>9, <2>1
  <2>3. d <= Len(s) - m /\ d \in Nat
    BY <1>3, <1>6, <2>2
  <2> QED
    BY <1>1, <1>7, <2>3
<1>10. LongestEnd(s, End(s, n))
  BY <1>1, <1>7, <1>8, <1>9 DEF LongestEnd, EndOf
<1> QED
  BY <1>7, <1>10
-----------------------------------------------------------------------------
(* Fail links. *)

(* The fail links of the nodes shorter than n are the longest proper ends. *)
GoodBelow(fail, n) ==
    \A v \in Nodes : v # <<>> /\ Len(v) < n => LongestEnd(Tail(v), fail[v])

(* The function that Links defines by recursion. *)
AreLinks(back, fail, u, n) == back = [k \in 0 .. n |-> IF k = 0 THEN u ELSE fail[back[k - 1]]]

LEMMA LinksExist ==
    ASSUME NEW fail, NEW u, NEW n \in Nat
    PROVE  \E back : AreLinks(back, fail, u, n)
<1> DEFINE Exists(m) == \E back : back = [k \in 0 .. m |-> IF k = 0 THEN u ELSE fail[back[k - 1]]]
           T == {m \in Nat : ~Exists(m)}
<1> SUFFICES ASSUME T # {} PROVE FALSE
  BY DEF AreLinks
<1>1. PICK m \in T : \A y \in T : m <= y
  BY LeastNat
<1>2. m # 0
  <2> SUFFICES ASSUME m = 0 PROVE Exists(m)
    OBVIOUS
  <2> DEFINE g == [k \in 0 .. m |-> u]
  <2>1. \A k \in 0 .. m : k = 0
    OBVIOUS
  <2>2. g = [k \in 0 .. m |-> IF k = 0 THEN u ELSE fail[g[k - 1]]]
    BY <2>1
  <2> HIDE DEF g
  <2> QED
    BY <2>2, Zenon
<1>3. m - 1 \in Nat /\ m - 1 \notin T
  <2>1. m \in Nat
    OBVIOUS
  <2> HIDE DEF T
  <2> QED
    BY <1>1, <1>2, <2>1
<1>4. PICK f : f = [k \in 0 .. m - 1 |-> IF k = 0 THEN u ELSE fail[f[k - 1]]]
  BY <1>3
<1>5. ASSUME NEW k \in 0 .. m - 1 PROVE f[k] = IF k = 0 THEN u ELSE fail[f[k - 1]]
  <2>1. PICK h : h = f
    OBVIOUS
  <2>2. f = [j \in 0 .. m - 1 |-> IF j = 0 THEN u ELSE fail[h[j - 1]]]
    BY <1>4, <2>1, Zenon
  <2>3. f[k] = IF k = 0 THEN u ELSE fail[h[k - 1]]
    BY <2>2
  <2> QED
    BY <2>1, <2>3
<1> DEFINE g == [k \in 0 .. m |-> IF k < m THEN f[k] ELSE fail[f[k - 1]]]
<1>6. ASSUME NEW k \in 0 .. m PROVE g[k] = IF k = 0 THEN u ELSE fail[g[k - 1]]
  <2>1. CASE k = m
    BY <1>2, <2>1
  <2>2. CASE k < m
    <3>1. f[k] = IF k = 0 THEN u ELSE fail[f[k - 1]]
      BY <1>5, <2>2
    <3> QED
      BY <2>2, <3>1
  <2> QED
    BY <2>1, <2>2
<1>7. g = [k \in 0 .. m |-> g[k]]
  OBVIOUS
<1> HIDE DEF g
<1>8. g = [k \in 0 .. m |-> IF k = 0 THEN u ELSE fail[g[k - 1]]]
  BY <1>6, <1>7
<1> QED
  BY <1>1, <1>8, Zenon

LEMMA LinksAre ==
    ASSUME NEW fail, NEW u, Len(u) \in Nat
    PROVE  /\ Links(fail, u)[0] = u
           /\ \A k \in 1 .. Len(u) : Links(fail, u)[k] = fail[Links(fail, u)[k - 1]]
<1> DEFINE c == CHOOSE b : b = [k \in 0 .. Len(u) |-> IF k = 0 THEN u ELSE fail[b[k - 1]]]
<1>1. \E b : b = [k \in 0 .. Len(u) |-> IF k = 0 THEN u ELSE fail[b[k - 1]]]
  <2>1. \E b : AreLinks(b, fail, u, Len(u))
    BY LinksExist
  <2> QED
    BY <2>1, Zenon DEF AreLinks
<1>2. c = [k \in 0 .. Len(u) |-> IF k = 0 THEN u ELSE fail[c[k - 1]]]
  BY <1>1, Zenon
<1>3. Links(fail, u) = c
  BY Zenon DEF Links
<1> HIDE DEF c
<1>4. ASSUME NEW k \in 0 .. Len(u) PROVE c[k] = IF k = 0 THEN u ELSE fail[c[k - 1]]
  <2>1. PICK h : h = c
    OBVIOUS
  <2>2. c = [j \in 0 .. Len(u) |-> IF j = 0 THEN u ELSE fail[h[j - 1]]]
    BY <1>2, <2>1, Zenon
  <2>3. c[k] = IF k = 0 THEN u ELSE fail[h[k - 1]]
    BY <2>2
  <2> QED
    BY <2>1, <2>3
<1>5. 0 \in 0 .. Len(u) /\ \A k \in 1 .. Len(u) : k \in 0 .. Len(u) /\ k # 0
  OBVIOUS
<1> QED
  BY <1>3, <1>4, <1>5, Zenon

(* The chain of fail links from u as far as its k-th node: ever shorter     *)
(* ends of s, and no node that is an end of s between them.                 *)
Chained(fail, s, u, k) ==
    LET back == Links(fail, u)
    IN  /\ k \in 0 .. Len(u) /\ Len(back[k]) + k <= Len(u)
        /\ \A j \in 0 .. k : EndOf(s, back[j])
        /\ \A i, j \in 0 .. k : i < j => back[i] # <<>> /\ Len(back[j]) < Len(back[i])
        /\ \A l \in 0 .. Len(u) : l >= Len(back[k]) /\ End(s, l) \in Nodes =>
              \E j \in 0 .. k : back[j] = End(s, l)

LEMMA EndOfAre ==
    ASSUME patterns \in Lists, NEW s \in Seq(ByteValues), NEW u, EndOf(s, u)
    PROVE  /\ u \in Nodes /\ u \in Seq(ByteValues) /\ Len(u) \in Nat /\ Len(u) \in 0 .. Len(s)
           /\ u = End(s, Len(u)) /\ Len(s) \in Nat
  BY NodesAre DEF EndOf

LEMMA ChainedFirst ==
    ASSUME patterns \in Lists, NEW s \in Seq(ByteValues), NEW u, EndOf(s, u), NEW fail
    PROVE  Chained(fail, s, u, 0)
<1>1. u \in Nodes /\ Len(u) \in Nat /\ u = End(s, Len(u)) /\ Links(fail, u)[0] = u
  BY EndOfAre, LinksAre
<1>2. \A j \in 0 .. 0 : j = 0
  OBVIOUS
<1>3. \A l \in 0 .. Len(u) : l >= Len(u) => l = Len(u)
  BY <1>1
<1>4. ASSUME NEW l \in 0 .. Len(u), l >= Len(u)
      PROVE  \E j \in 0 .. 0 : Links(fail, u)[j] = End(s, l)
  <2>1. 0 \in 0 .. 0 /\ l = Len(u)
    BY <1>3, <1>4
  <2> QED
    BY <1>1, <2>1
<1>5. 0 \in 0 .. Len(u) /\ Len(u) + 0 <= Len(u) /\ \A i, j \in 0 .. 0 : ~(i < j)
  BY <1>1
<1> QED
  BY <1>1, <1>2, <1>4, <1>5 DEF Chained

LEMMA ChainedNext ==
    ASSUME patterns \in Lists, NEW s \in Seq(ByteValues), NEW u, EndOf(s, u), NEW fail,
           GoodBelow(fail, Len(u) + 1), NEW k, Chained(fail, s, u, k), Links(fail, u)[k] # <<>>
    PROVE  Chained(fail, s, u, k + 1)
<1> DEFINE back == Links(fail, u)
<1>1. /\ back[0] = u /\ Len(u) \in Nat /\ Len(s) \in Nat
      /\ \A j \in 1 .. Len(u) : back[j] = fail[back[j - 1]]
  BY EndOfAre, LinksAre
<1>2. /\ k \in 0 .. Len(u) /\ Len(back[k]) + k <= Len(u)
      /\ \A j \in 0 .. k : EndOf(s, back[j])
      /\ \A i, j \in 0 .. k : i < j => back[i] # <<>> /\ Len(back[j]) < Len(back[i])
      /\ \A l \in 0 .. Len(u) : l >= Len(back[k]) /\ End(s, l) \in Nodes =>
            \E j \in 0 .. k : back[j] = End(s, l)
      /\ back[k] # <<>>
  BY DEF Chained
<1> HIDE DEF back
<1>3. PICK v \in Nodes : /\ v = back[k] /\ v \in Seq(ByteValues) /\ EndOf(s, v) /\ v # <<>>
                         /\ v = End(s, Len(v)) /\ Len(v) \in 0 .. Len(s)
  <2>1. k \in 0 .. k
    BY <1>2
  <2>2. EndOf(s, back[k])
    BY <1>2, <2>1
  <2> QED
    BY <1>2, <2>2, EndOfAre
<1>4. Tail(v) \in Seq(ByteValues) /\ Len(Tail(v)) = Len(v) - 1 /\ Len(v) \in Nat \ {0}
      /\ \A n \in 0 .. Len(v) - 1 : End(Tail(v), n) = End(v, n)
  BY <1>3, EndTail
<1>5. k \in Nat /\ Len(v) + k <= Len(u) /\ Len(v) < Len(u) + 1 /\ k + 1 \in 1 .. Len(u) /\ (k + 1) - 1 = k
  BY <1>1, <1>2, <1>3, <1>4
<1>6. PICK w : w = back[k + 1] /\ LongestEnd(Tail(v), w)
  <2>1. back[k + 1] = fail[back[(k + 1) - 1]]
    BY <1>1, <1>5
  <2>2. back[k + 1] = fail[v]
    BY <1>3, <1>5, <2>1
  <2>3. LongestEnd(Tail(v), fail[v])
    BY <1>3, <1>5 DEF GoodBelow
  <2> QED
    BY <2>2, <2>3
<1>7. /\ w \in Nodes /\ Len(w) \in Nat /\ Len(w) \in 0 .. Len(v) - 1 /\ w = End(Tail(v), Len(w))
      /\ \A n \in 0 .. Len(v) - 1 : End(Tail(v), n) \in Nodes => n <= Len(w)
  <2>1. EndOf(Tail(v), w) /\ \A n \in 0 .. Len(Tail(v)) : End(Tail(v), n) \in Nodes => n <= Len(w)
    BY <1>6 DEF LongestEnd
  <2> QED
    BY <1>4, <2>1, EndOfAre
(* The ends of v are ends of s. *)
<1>8. ASSUME NEW n \in 0 .. Len(v) - 1 PROVE End(Tail(v), n) = End(s, n)
  <2>1. n \in 0 .. Len(v)
    BY <1>4
  <2>2. End(End(s, Len(v)), n) = End(s, n)
    BY <1>3, <2>1, EndEnd
  <2> QED
    BY <1>3, <1>4, <2>2
<1>9. EndOf(s, w)
  <2>1. w = End(s, Len(w))
    BY <1>7, <1>8
  <2>2. Len(w) <= Len(s)
    BY <1>1, <1>3, <1>4, <1>7
  <2> QED
    BY <1>7, <2>1, <2>2 DEF EndOf
<1>10. \A j \in 0 .. k + 1 : j # k + 1 => j \in 0 .. k
  BY <1>5
<1>11. ASSUME NEW j \in 0 .. k + 1 PROVE EndOf(s, back[j])
  BY <1>2, <1>6, <1>9, <1>10
<1>12. ASSUME NEW i \in 0 .. k + 1, NEW j \in 0 .. k + 1, i < j
       PROVE  back[i] # <<>> /\ Len(back[j]) < Len(back[i])
  <2>1. i \in 0 .. k /\ (j # k + 1 => j \in 0 .. k)
    BY <1>5, <1>10, <1>12
  <2>2. CASE j # k + 1
    BY <1>2, <1>12, <2>1, <2>2
  <2>3. CASE j = k + 1 /\ i = k
    BY <1>3, <1>4, <1>6, <1>7, <2>3
  <2>4. CASE j = k + 1 /\ i # k
    <3>1. i < k /\ k \in 0 .. k
      BY <1>5, <2>1, <2>4
    <3>2. back[i] # <<>> /\ Len(back[k]) < Len(back[i])
      BY <1>2, <2>1, <3>1
    <3>3. Len(back[i]) \in Nat
      BY <1>11, EndOfAre
    <3> QED
      BY <1>3, <1>4, <1>6, <1>7, <2>4, <3>2, <3>3
  <2> QED
    BY <2>2, <2>3, <2>4
<1>13. ASSUME NEW l \in 0 .. Len(u), l >= Len(w), End(s, l) \in Nodes
       PROVE  \E j \in 0 .. k + 1 : back[j] = End(s, l)
  <2>1. CASE l >= Len(v)
    <3>1. PICK j \in 0 .. k : back[j] = End(s, l)
      BY <1>2, <1>3, <1>13, <2>1
    <3>2. j \in 0 .. k + 1
      BY <1>5
    <3> QED
      BY <3>1, <3>2
  <2>2. CASE ~(l >= Len(v))
    <3>1. l \in 0 .. Len(v) - 1
      BY <1>1, <1>4, <2>2
    <3>2. End(Tail(v), l) = End(s, l)
      BY <1>8, <3>1
    <3>3. l <= Len(w)
      BY <1>7, <1>13, <3>1, <3>2
    <3>4. l = Len(w)
      BY <1>7, <1>13, <3>3
    <3>5. back[k + 1] = End(s, l) /\ k + 1 \in 0 .. k + 1
      BY <1>5, <1>6, <1>7, <3>2, <3>4
    <3> QED
      BY <3>5
  <2> QED
    BY <2>1, <2>2
<1>14. k + 1 \in 0 .. Len(u) /\ Len(back[k + 1]) + (k + 1) <= Len(u)
  <2>1. PICK x \in Nat, y \in Nat, z \in Nat : x = Len(w) /\ y = Len(v) /\ z = Len(u)
    BY <1>1, <1>4, <1>7
  <2>2. x + (k + 1) <= z
    BY <1>4, <1>5, <1>7, <2>1
  <2>3. k + 1 \in 0 .. z
    BY <1>5, <2>1
  <2> QED
    BY <1>6, <2>1, <2>2, <2>3, Zenon
<1> QED
  BY <1>6, <1>11, <1>12, <1>13, <1>14 DEF Chained, back

(* The chain ends at the root. *)
LEMMA ChainOf ==
    ASSUME patterns \in Lists, NEW s \in Seq(ByteValues), NEW u, EndOf(s, u), NEW fail,
           GoodBelow(fail, Len(u) + 1)
    PROVE  \E n \in 0 .. Len(u) : Chained(fail, s, u, n) /\ Links(fail, u)[n] = <<>>
<1>1. Len(u) \in Nat
  BY EndOfAre
<1> DEFINE T == {d \in 0 .. Len(u) : Chained(fail, s, u, Len(u) - d)}
<1>2. Len(u) \in 0 .. Len(u) /\ Len(u) - Len(u) = 0
  BY <1>1
<1>3. Len(u) \in T
  BY <1>2, ChainedFirst
<1>4. T \in SUBSET Nat /\ T # {}
  BY <1>1, <1>3
<1>5. \A d \in T : d \in 0 .. Len(u) /\ Chained(fail, s, u, Len(u) - d)
  OBVIOUS
<1>6. \A d \in 0 .. Len(u) : Chained(fail, s, u, Len(u) - d) => d \in T
  OBVIOUS
<1> HIDE DEF T
<1>7. PICK d \in T : \A e \in T : d <= e
  BY <1>4, LeastNat, Zenon
<1>8. PICK n \in 0 .. Len(u) : n = Len(u) - d /\ Chained(fail, s, u, n)
  BY <1>1, <1>5
<1>9. Links(fail, u)[n] = <<>>
  <2> SUFFICES ASSUME Links(fail, u)[n] # <<>> PROVE FALSE
    OBVIOUS
  <2>1. Chained(fail, s, u, n + 1)
    BY <1>8, ChainedNext
  <2>2. n + 1 \in 0 .. Len(u)
    BY <2>1 DEF Chained
  <2>3. Len(u) - (n + 1) \in 0 .. Len(u) /\ Len(u) - (Len(u) - (n + 1)) = n + 1
    BY <1>1, <2>2
  <2>4. Len(u) - (n + 1) \in T
    BY <1>6, <2>1, <2>3
  <2>5. d <= Len(u) - (n + 1) /\ d \in Nat
    BY <1>4, <1>7, <2>4
  <2> QED
    BY <1>1, <1>8, <2>5
<1> QED
  BY <1>8, <1>9

(* Where the automaton stops falling back: the first node of the chain with *)
(* a transition.                                                            *)
LEMMA FallbackIs ==
    ASSUME patterns \in Lists, NEW s \in Seq(ByteValues), NEW c \in ByteValues, NEW u, EndOf(s, u), NEW fail,
           GoodBelow(fail, Len(u) + 1)
    PROVE  \E n \in 0 .. Len(u) : \E k \in 0 .. n :
             /\ Chained(fail, s, u, n) /\ Links(fail, u)[n] = <<>>
             /\ Fallback(fail, u, c) = Links(fail, u)[k] /\ HasNext(Links(fail, u)[k], c)
             /\ \A j \in 0 .. k - 1 : ~HasNext(Links(fail, u)[j], c)
<1>1. PICK n \in 0 .. Len(u) : Chained(fail, s, u, n) /\ Links(fail, u)[n] = <<>>
  BY ChainOf
<1>0. Len(u) \in Nat /\ n \in Nat
  BY EndOfAre
<1> DEFINE back == Links(fail, u)
           First(k) == HasNext(back[k], c) /\ \A j \in 0 .. k - 1 : ~HasNext(back[j], c)
           T == {k \in 0 .. n : HasNext(back[k], c)}
<1>2. n \in T
  BY <1>0, <1>1 DEF HasNext
<1>3. T \in SUBSET Nat /\ T # {}
  BY <1>0, <1>2
<1>4. \A k \in T : k \in 0 .. n /\ HasNext(back[k], c)
  OBVIOUS
<1>5. \A k \in 0 .. n : HasNext(back[k], c) => k \in T
  OBVIOUS
<1> HIDE DEF T
<1>6. PICK k \in T : \A j \in T : k <= j
  BY <1>3, LeastNat, Zenon
<1>7. k \in 0 .. Len(u) /\ First(k)
  <2>1. k \in 0 .. n /\ HasNext(back[k], c) /\ k \in 0 .. Len(u)
    BY <1>0, <1>4
  <2>2. ASSUME NEW j \in 0 .. k - 1 PROVE ~HasNext(back[j], c)
    <3>1. j \in 0 .. n /\ ~(k <= j)
      BY <1>0, <2>1
    <3>2. j \notin T
      BY <1>6, <3>1
    <3> QED
      BY <1>5, <3>1, <3>2
  <2> QED
    BY <2>1, <2>2
<1> DEFINE k0 == CHOOSE i \in 0 .. Len(u) : First(i)
<1>8. k0 \in 0 .. Len(u) /\ First(k0)
  BY <1>7, Zenon
<1>9. Fallback(fail, u, c) = back[k0]
  BY Zenon DEF Fallback
<1> HIDE DEF k0
<1>10. k0 \in 0 .. n
  <2> SUFFICES ASSUME ~(k0 <= n) PROVE FALSE
    BY <1>0, <1>8
  <2>1. n \in 0 .. k0 - 1
    BY <1>0, <1>8
  <2>2. ~HasNext(back[n], c)
    BY <1>8, <2>1
  <2> QED
    BY <1>1, <2>2 DEF HasNext
<1> QED
  BY <1>1, <1>8, <1>9, <1>10

(* One step of the automaton: from an end of s to an end of s with c behind *)
(* it, from the longest one to the longest one.                             *)
LEMMA FallbackStep ==
    ASSUME patterns \in Lists, NEW s \in Seq(ByteValues), NEW c \in ByteValues, NEW u, EndOf(s, u), NEW fail,
           GoodBelow(fail, Len(u) + 1)
    PROVE  /\ EndOf(Append(s, c), GoTo(Fallback(fail, u, c), c))
           /\ LongestEnd(s, u) => LongestEnd(Append(s, c), GoTo(Fallback(fail, u, c), c))
<1> DEFINE back == Links(fail, u)
<1>1. PICK n \in 0 .. Len(u) : \E k \in 0 .. n :
             /\ Chained(fail, s, u, n) /\ back[n] = <<>>
             /\ Fallback(fail, u, c) = back[k] /\ HasNext(back[k], c)
             /\ \A j \in 0 .. k - 1 : ~HasNext(back[j], c)
  BY FallbackIs
<1>2. PICK k \in 0 .. n :
             /\ Chained(fail, s, u, n) /\ back[n] = <<>>
             /\ Fallback(fail, u, c) = back[k] /\ HasNext(back[k], c)
             /\ \A j \in 0 .. k - 1 : ~HasNext(back[j], c)
  BY <1>1
<1>3. /\ \A j \in 0 .. n : EndOf(s, back[j])
      /\ \A i, j \in 0 .. n : i < j => back[i] # <<>> /\ Len(back[j]) < Len(back[i])
      /\ \A l \in 0 .. Len(u) : l >= Len(back[n]) /\ End(s, l) \in Nodes =>
            \E j \in 0 .. n : back[j] = End(s, l)
  BY <1>2 DEF Chained
<1> HIDE DEF back
<1>4. PICK v \in Nodes : /\ v = back[k] /\ v \in Seq(ByteValues) /\ HasNext(v, c) /\ EndOf(s, v)
                         /\ v = End(s, Len(v)) /\ Len(v) \in Nat /\ Len(v) \in 0 .. Len(s)
  BY <1>2, <1>3, EndOfAre
<1>5. /\ Append(s, c) \in Seq(ByteValues) /\ Len(Append(s, c)) = Len(s) + 1 /\ Len(s) \in Nat
      /\ Append(v, c) \in Seq(ByteValues) /\ Len(Append(v, c)) = Len(v) + 1
  BY <1>4
<1>6. End(Append(s, c), Len(v) + 1) = Append(v, c)
  BY <1>4, EndAppend
<1> DEFINE w == GoTo(Fallback(fail, u, c), c)
<1>7. w = IF Append(v, c) \in Nodes THEN Append(v, c) ELSE <<>>
  BY <1>2, <1>4 DEF GoTo
<1>8. EndOf(Append(s, c), w)
  <2>1. CASE Append(v, c) \in Nodes
    <3>1. Len(Append(v, c)) <= Len(Append(s, c)) /\ Append(v, c) = End(Append(s, c), Len(Append(v, c)))
      BY <1>4, <1>5, <1>6
    <3> QED
      BY <1>7, <2>1, <3>1 DEF EndOf
  <2>2. CASE Append(v, c) \notin Nodes
    <3>1. w = <<>> /\ Len(w) = 0 /\ w \in Nodes
      BY <1>7, <2>2, NodesAre
    <3>2. End(Append(s, c), 0) = <<>>
      BY <1>5, EndWhole
    <3> HIDE DEF w
    <3> QED
      BY <1>5, <3>1, <3>2 DEF EndOf
  <2> QED
    BY <2>1, <2>2
<1>9. ASSUME LongestEnd(s, u), NEW m \in 0 .. Len(Append(s, c)), End(Append(s, c), m) \in Nodes
      PROVE  m <= Len(w)
  <2>0. Len(w) \in Nat
    BY <1>5, <1>7
  <2>1. CASE m = 0
    BY <2>0, <2>1
  <2>2. CASE m # 0
    <3>1. PICK l \in 0 .. Len(s) : l = m - 1 /\ m = l + 1 /\ l \in Nat
      BY <1>5, <2>2
    <3>2. End(s, l) \in Seq(ByteValues) /\ Len(End(s, l)) = l
      BY Ends
    <3>3. Append(End(s, l), c) \in Nodes
      BY <1>9, <3>1, EndAppend
    <3>4. End(s, l) \in Nodes
      BY <3>2, <3>3, Beginnings
    <3>5. l <= Len(u)
      BY <1>9, <3>4 DEF LongestEnd
    <3>6. PICK j \in 0 .. n : back[j] = End(s, l)
      <4>1. Len(back[n]) = 0 /\ l \in 0 .. Len(u) /\ l >= 0
        <5>1. Len(u) \in Nat
          BY EndOfAre
        <5> QED
          BY <1>2, <3>1, <3>5, <5>1
      <4> QED
        BY <1>3, <3>4, <4>1
    <3>7. HasNext(back[j], c)
      BY <3>3, <3>6 DEF HasNext
    <3>8. ~(j < k)
      <4> SUFFICES ASSUME j < k PROVE FALSE
        OBVIOUS
      <4>1. j \in 0 .. k - 1
        BY <1>1
      <4> QED
        BY <1>2, <3>7, <4>1
    <3>9. l <= Len(v)
      <4>1. CASE j = k
        BY <1>4, <3>1, <3>2, <3>6, <4>1
      <4>2. CASE k < j
        <5>1. Len(back[j]) < Len(back[k])
          BY <1>3, <4>2
        <5> QED
          BY <1>4, <3>1, <3>2, <3>6, <5>1
      <4> QED
        BY <3>8, <4>1, <4>2
    <3>10. Append(v, c) \in Nodes
      <4>1. CASE v = <<>>
        <5>1. Len(v) = 0
          BY <4>1
        <5>2. End(s, l) = v
          BY <1>4, <3>1, <3>9, <5>1
        <5> QED
          BY <3>3, <5>2
      <4> QED
        BY <1>4, <4>1 DEF HasNext
    <3> QED
      BY <1>5, <1>7, <1>4, <3>1, <3>9, <3>10
  <2> QED
    BY <2>1, <2>2
<1> QED
  BY <1>8, <1>9 DEF LongestEnd

(* What build() computes for a node from the links of the shorter ones. *)
FailStep(fail, u) ==
    IF Len(u) <= 1 THEN <<>>
    ELSE LET g == GoTo(Fallback(fail, fail[Front(u)], Last(u)), Last(u))
         IN  IF g # u THEN g ELSE <<>>

LEMMA FrontLast ==
    ASSUME NEW S, NEW u \in Seq(S), Len(u) > 1
    PROVE  /\ Front(u) \in Seq(S) /\ Len(Front(u)) = Len(u) - 1 /\ Last(u) \in S
           /\ u = Append(Front(u), Last(u)) /\ Front(u) # <<>>
           /\ Tail(u) = Append(Tail(Front(u)), Last(u))
<1>1. /\ Len(u) \in Nat /\ Len(u) \in 1 .. Len(u)
      /\ SubSeq(u, 1, Len(u) - 1) \in Seq(S) /\ Len(SubSeq(u, 1, Len(u) - 1)) = Len(u) - 1
      /\ \A j \in 1 .. Len(u) - 1 : SubSeq(u, 1, Len(u) - 1)[j] = u[j]
  OBVIOUS
<1>2. PICK p \in Seq(S), c \in S : /\ p = Front(u) /\ c = Last(u) /\ c = u[Len(u)]
                                   /\ Len(p) = Len(u) - 1 /\ \A j \in 1 .. Len(p) : p[j] = u[j]
  <2>1. Front(u) \in Seq(S) /\ Len(Front(u)) = Len(u) - 1
        /\ \A j \in 1 .. Len(Front(u)) : Front(u)[j] = u[j]
    BY <1>1 DEF Front
  <2>2. Last(u) \in S /\ Last(u) = u[Len(u)]
    BY <1>1 DEF Last
  <2> QED
    BY <2>1, <2>2, Zenon
<1>3. Append(p, c) \in Seq(S) /\ Len(Append(p, c)) = Len(u) /\ Append(p, c)[Len(u)] = c
      /\ \A j \in 1 .. Len(p) : Append(p, c)[j] = p[j]
  BY <1>1, <1>2
<1>4. u = Append(p, c)
  <2>1. \A j \in 1 .. Len(u) : j # Len(u) => j \in 1 .. Len(p)
    BY <1>1, <1>2
  <2>2. \A j \in 1 .. Len(u) : u[j] = Append(p, c)[j]
    BY <1>2, <1>3, <2>1
  <2> QED
    BY <1>3, <2>2, SameSeq
<1>5. p # <<>> /\ Len(p) \in Nat \ {0}
  BY <1>1, <1>2
<1>6. Tail(u) = Append(Tail(p), c)
  <2>1. /\ Tail(u) \in Seq(S) /\ Len(Tail(u)) = Len(p) /\ \A j \in 1 .. Len(p) : Tail(u)[j] = u[j + 1]
        /\ Tail(p) \in Seq(S) /\ Len(Tail(p)) = Len(p) - 1 /\ \A j \in 1 .. Len(p) - 1 : Tail(p)[j] = p[j + 1]
    BY <1>1, <1>2, <1>5
  <2>2. /\ Append(Tail(p), c) \in Seq(S) /\ Len(Append(Tail(p), c)) = Len(p)
        /\ Append(Tail(p), c)[Len(p)] = c
        /\ \A j \in 1 .. Len(p) - 1 : Append(Tail(p), c)[j] = Tail(p)[j]
    BY <1>5, <2>1
  <2>3. ASSUME NEW j \in 1 .. Len(p) PROVE Tail(u)[j] = Append(Tail(p), c)[j]
    <3>1. CASE j = Len(p)
      <4>1. j + 1 = Len(u)
        BY <1>1, <1>2, <3>1
      <4> QED
        BY <1>2, <2>1, <2>2, <3>1, <4>1
    <3>2. CASE j # Len(p)
      <4>1. j \in 1 .. Len(p) - 1 /\ j + 1 \in 1 .. Len(p)
        BY <1>5, <3>2
      <4> QED
        BY <1>2, <2>1, <2>2, <4>1
    <3> QED
      BY <3>1, <3>2
  <2> QED
    BY <2>1, <2>2, <2>3, SameSeq
<1> QED
  BY <1>2, <1>4, <1>5, <1>6

LEMMA FailStepIs ==
    ASSUME patterns \in Lists, NEW u \in Nodes, u # <<>>, NEW fail, GoodBelow(fail, Len(u))
    PROVE  LongestEnd(Tail(u), FailStep(fail, u))
<1>1. u \in Seq(ByteValues) /\ Len(u) \in Nat \ {0}
  BY NodesAre
<1>2. CASE Len(u) <= 1
  <2>1. Tail(u) = <<>> /\ <<>> \in Seq(ByteValues) /\ Len(<<>>) = 0
    BY <1>1, <1>2
  <2>2. End(<<>>, 0) = <<>> /\ <<>> \in Nodes
    BY <2>1, EndWhole, NodesAre
  <2>3. EndOf(<<>>, <<>>)
    BY <2>1, <2>2 DEF EndOf
  <2>4. LongestEnd(<<>>, <<>>)
    <3>1. \A n \in 0 .. Len(<<>>) : n <= Len(<<>>)
      BY <2>1
    <3> QED
      BY <2>3, <3>1 DEF LongestEnd
  <2>5. FailStep(fail, u) = <<>>
    BY <1>2 DEF FailStep
  <2> QED
    BY <2>1, <2>4, <2>5
<1>3. CASE ~(Len(u) <= 1)
  <2>1. PICK p \in Seq(ByteValues), c \in ByteValues :
          /\ p = Front(u) /\ c = Last(u) /\ Len(p) = Len(u) - 1 /\ p # <<>> /\ u = Append(p, c)
          /\ Tail(u) = Append(Tail(p), c)
    <3>1. Len(u) > 1
      BY <1>1, <1>3
    <3>2. /\ Front(u) \in Seq(ByteValues) /\ Len(Front(u)) = Len(u) - 1 /\ Last(u) \in ByteValues
          /\ u = Append(Front(u), Last(u)) /\ Front(u) # <<>>
          /\ Tail(u) = Append(Tail(Front(u)), Last(u))
      BY <1>1, <3>1, FrontLast
    <3> QED
      BY <3>2, Zenon
  <2>2. p \in Nodes
    BY <2>1, Beginnings
  <2>3. Len(p) < Len(u)
    BY <1>1, <2>1
  <2>4. LongestEnd(Tail(p), fail[p]) /\ EndOf(Tail(p), fail[p])
    BY <2>1, <2>2, <2>3 DEF GoodBelow, LongestEnd
  <2>5. Tail(p) \in Seq(ByteValues) /\ Len(Tail(p)) = Len(p) - 1 /\ Len(p) \in Nat \ {0}
    BY <2>1, EndTail
  <2>6. Len(fail[p]) \in Nat /\ Len(fail[p]) <= Len(p) - 1
    <3>1. Len(fail[p]) \in 0 .. Len(Tail(p))
      BY <2>4, <2>5, EndOfAre, Zenon
    <3> QED
      BY <2>5, <3>1
  <2>7. GoodBelow(fail, Len(fail[p]) + 1)
    <3>1. ASSUME NEW v \in Nodes, v # <<>>, Len(v) < Len(fail[p]) + 1 PROVE Len(v) < Len(u)
      <4>1. Len(v) \in Nat
        BY NodesAre
      <4> QED
        BY <1>1, <2>1, <2>6, <3>1, <4>1
    <3> QED
      BY <3>1 DEF GoodBelow
  <2> DEFINE g == GoTo(Fallback(fail, fail[p], c), c)
  <2>8. LongestEnd(Append(Tail(p), c), g)
    BY <2>4, <2>5, <2>7, FallbackStep
  <2>9. LongestEnd(Tail(u), g)
    BY <2>1, <2>8
  <2>10. g # u
    <3>1. EndOf(Tail(u), g)
      BY <2>9 DEF LongestEnd
    <3>2. Tail(u) \in Seq(ByteValues) /\ Len(Tail(u)) = Len(u) - 1
      BY <1>1
    <3> HIDE DEF g
    <3>3. Len(g) \in Nat /\ Len(g) <= Len(u) - 1
      <4>1. Len(g) \in 0 .. Len(Tail(u))
        BY <3>1, <3>2, EndOfAre, Zenon
      <4> QED
        BY <1>1, <3>2, <4>1
    <3> QED
      BY <1>1, <3>3
  <2>11. FailStep(fail, u) = g
    BY <1>3, <2>1, <2>10 DEF FailStep
  <2> QED
    BY <2>9, <2>11
<1> QED
  BY <1>2, <1>3

(* Each solution of the recursion is right, *)
LEMMA SolutionGood ==
    ASSUME patterns \in Lists, NEW fail, \A u \in Nodes : fail[u] = FailStep(fail, u)
    PROVE  \A u \in Nodes : u # <<>> => LongestEnd(Tail(u), fail[u])
<1> DEFINE Bad(n) == \E u \in Nodes : u # <<>> /\ ~LongestEnd(Tail(u), fail[u]) /\ n = Len(u)
           T == {n \in Nat : Bad(n)}
<1>1. \A u \in Nodes : Len(u) \in Nat
  BY NodesAre
<1>2. SUFFICES ASSUME T # {} PROVE FALSE
  BY <1>1
<1>3. T \in SUBSET Nat /\ (\A n \in T : Bad(n)) /\ \A n \in Nat : Bad(n) => n \in T
  OBVIOUS
<1> HIDE DEF T
<1>4. PICK n \in T : \A m \in T : n <= m
  BY <1>2, <1>3, LeastNat, Zenon
<1>5. PICK u \in Nodes : u # <<>> /\ ~LongestEnd(Tail(u), fail[u]) /\ n = Len(u)
  BY <1>3
<1>6. GoodBelow(fail, Len(u))
  <2> SUFFICES ASSUME NEW v \in Nodes, v # <<>>, Len(v) < Len(u), ~LongestEnd(Tail(v), fail[v])
               PROVE  FALSE
    BY DEF GoodBelow
  <2>1. Len(v) \in T
    BY <1>1, <1>3
  <2>2. n <= Len(v)
    BY <1>4, <2>1
  <2> QED
    BY <1>1, <1>5, <2>2
<1> QED
  BY <1>5, <1>6, FailStepIs

(* and there is one. *)
LEMMA SolutionExists ==
    ASSUME patterns \in Lists
    PROVE  \E fail : fail = [u \in Nodes |-> FailStep(fail, u)]
<1> DEFINE g == [u \in Nodes |-> IF u = <<>> THEN <<>> ELSE CHOOSE v : LongestEnd(Tail(u), v)]
<1>1. ASSUME NEW u \in Nodes, u # <<>> PROVE LongestEnd(Tail(u), g[u]) /\ Tail(u) \in Seq(ByteValues)
  <2>1. Tail(u) \in Seq(ByteValues)
    BY <1>1, NodesAre, EndTail
  <2>2. \E v : LongestEnd(Tail(u), v)
    BY <2>1, LongestExists
  <2>3. LongestEnd(Tail(u), CHOOSE v : LongestEnd(Tail(u), v))
    BY <2>2, Zenon
  <2>4. g[u] = CHOOSE v : LongestEnd(Tail(u), v)
    BY <1>1
  <2> QED
    BY <2>1, <2>3, <2>4
<1>2. g[<<>>] = <<>>
  BY NodesAre
<1>3. g = [u \in Nodes |-> g[u]]
  OBVIOUS
<1> HIDE DEF g
<1>4. ASSUME NEW u \in Nodes PROVE g[u] = FailStep(g, u)
  <2>1. CASE u = <<>>
    <3>1. Len(u) <= 1
      BY <2>1
    <3> QED
      BY <1>2, <2>1, <3>1 DEF FailStep
  <2>2. CASE u # <<>>
    <3>1. GoodBelow(g, Len(u))
      BY <1>1 DEF GoodBelow
    <3>2. LongestEnd(Tail(u), FailStep(g, u))
      BY <2>2, <3>1, FailStepIs
    <3> QED
      BY <1>1, <2>2, <3>2, LongestOnce
  <2> QED
    BY <2>1, <2>2
<1>5. g = [u \in Nodes |-> FailStep(g, u)]
  BY <1>3, <1>4, Zenon
<1> QED
  BY <1>5, Zenon

(* The fail link of a node is the longest proper end of it that is a node. *)
LEMMA FailIs ==
    ASSUME patterns \in Lists
    PROVE  /\ \A u \in Nodes : u # <<>> => LongestEnd(Tail(u), Fails[u])
           /\ \A n : GoodBelow(Fails, n)
<1> DEFINE c == CHOOSE f : f = [u \in Nodes |-> FailStep(f, u)]
<1>1. c = [u \in Nodes |-> FailStep(c, u)]
  BY SolutionExists, Zenon
<1>2. Fails = c
  BY Zenon DEF Fails, FailStep
<1> HIDE DEF c
<1>3. \A u \in Nodes : c[u] = FailStep(c, u)
  <2>1. PICK h : h = c
    OBVIOUS
  <2>2. c = [u \in Nodes |-> FailStep(h, u)]
    BY <1>1, <2>1, Zenon
  <2>3. \A u \in Nodes : c[u] = FailStep(h, u)
    BY <2>2
  <2> QED
    BY <2>1, <2>3
<1>4. \A u \in Nodes : u # <<>> => LongestEnd(Tail(u), Fails[u])
  BY <1>2, <1>3, SolutionGood
<1> QED
  BY <1>4 DEF GoodBelow
-----------------------------------------------------------------------------
(* The matches at a node. *)

LEMMA ChainIs ==
    ASSUME patterns \in Lists, NEW s \in Seq(ByteValues), NEW u, EndOf(s, u)
    PROVE  /\ Chain(u) \in Seq(Nodes)
           /\ \A k \in 1 .. Len(Chain(u)) : Chain(u)[k] # <<>> /\ EndOf(s, Chain(u)[k])
           /\ \A k, l \in 1 .. Len(Chain(u)) : Chain(u)[k] = Chain(u)[l] => k = l
           /\ \A l \in 1 .. Len(u) : End(s, l) \in Nodes => \E k \in 1 .. Len(Chain(u)) : Chain(u)[k] = End(s, l)
<1> DEFINE back == Links(Fails, u)
           AtRoot(k) == back[k] = <<>> /\ \A j \in 0 .. k - 1 : back[j] # <<>>
           n0 == CHOOSE k \in 0 .. Len(u) : AtRoot(k)
           w == [k \in 1 .. n0 |-> back[k - 1]]
<1>1. GoodBelow(Fails, Len(u) + 1)
  BY FailIs
<1>2. PICK n \in 0 .. Len(u) : Chained(Fails, s, u, n) /\ back[n] = <<>>
  BY <1>1, ChainOf
<1>3. /\ \A j \in 0 .. n : EndOf(s, back[j])
      /\ \A i, j \in 0 .. n : i < j => back[i] # <<>> /\ Len(back[j]) < Len(back[i])
      /\ \A l \in 0 .. Len(u) : l >= Len(back[n]) /\ End(s, l) \in Nodes =>
            \E j \in 0 .. n : back[j] = End(s, l)
  BY <1>2 DEF Chained
<1>4. Len(u) \in Nat /\ n \in Nat /\ n \in 0 .. n
  BY EndOfAre
<1> HIDE DEF back
<1>5. AtRoot(n)
  <2>1. \A j \in 0 .. n - 1 : j \in 0 .. n /\ j < n
    BY <1>4
  <2> QED
    BY <1>2, <1>3, <1>4, <2>1
<1>6. n0 \in 0 .. Len(u) /\ AtRoot(n0)
  BY <1>2, <1>5, Zenon
<1>7. Chain(u) = w
  BY Zenon DEF Chain, back
<1> HIDE DEF n0
<1>8. n0 = n
  <2>1. ~(n0 < n)
    <3>1. n0 < n => back[n0] # <<>>
      BY <1>3, <1>4, <1>6
    <3> QED
      BY <1>6, <3>1
  <2>2. ~(n < n0)
    <3>1. n < n0 => n \in 0 .. n0 - 1
      BY <1>4, <1>6
    <3> QED
      BY <1>2, <1>6, <3>1
  <2> QED
    BY <1>4, <1>6, <2>1, <2>2
<1>9. \A k \in 1 .. n : k - 1 \in 0 .. n /\ k - 1 < n
  BY <1>4
<1>10. \A k \in 1 .. n : back[k - 1] # <<>> /\ EndOf(s, back[k - 1]) /\ back[k - 1] \in Nodes
  <2>1. TAKE k \in 1 .. n
  <2>2. EndOf(s, back[k - 1]) /\ back[k - 1] # <<>>
    BY <1>3, <1>4, <1>9
  <2> QED
    BY <2>2 DEF EndOf
<1>11. w \in Seq(Nodes) /\ Len(w) = n /\ \A k \in 1 .. n : w[k] = back[k - 1]
  BY <1>4, <1>8, <1>10
<1> HIDE DEF w
<1>12. ASSUME NEW k \in 1 .. n, NEW l \in 1 .. n, w[k] = w[l] PROVE k = l
  <2>1. ASSUME NEW x \in 1 .. n, NEW y \in 1 .. n, x < y PROVE w[x] # w[y]
    <3>1. x - 1 < y - 1 /\ x - 1 \in 0 .. n /\ y - 1 \in 0 .. n
      BY <1>9, <2>1
    <3>2. Len(back[y - 1]) < Len(back[x - 1])
      BY <1>3, <3>1
    <3>3. Len(back[x - 1]) \in Nat
      BY <1>10, EndOfAre
    <3> QED
      BY <1>11, <3>2, <3>3
  <2>2. ~(k < l) /\ ~(l < k)
    BY <1>12, <2>1
  <2> QED
    BY <2>2
<1>13. ASSUME NEW l \in 1 .. Len(u), End(s, l) \in Nodes PROVE \E k \in 1 .. n : w[k] = End(s, l)
  <2>1. l \in 0 .. Len(u) /\ l >= Len(back[n]) /\ l # 0
    BY <1>2, <1>4
  <2>2. PICK j \in 0 .. n : back[j] = End(s, l)
    BY <1>3, <1>13, <2>1
  <2>3. Len(End(s, l)) = l
    <3>1. Len(u) \in 0 .. Len(s) /\ Len(s) \in Nat
      BY EndOfAre
    <3>2. l \in 0 .. Len(s)
      BY <3>1
    <3> QED
      BY <3>2, Ends
  <2>4. j # n
    BY <1>2, <2>1, <2>2, <2>3
  <2>5. j + 1 \in 1 .. n /\ (j + 1) - 1 = j
    BY <1>4, <2>4
  <2>6. w[j + 1] = End(s, l)
    BY <1>11, <2>2, <2>5
  <2> QED
    BY <2>5, <2>6
<1> QED
  BY <1>7, <1>10, <1>11, <1>12, <1>13

LEMMA AddedFinite ==
    ASSUME patterns \in Lists, NEW I \in SUBSET Added
    PROVE  I \in SUBSET Nat /\ IsFiniteSet(I) /\ Cardinality(I) \in Nat
<1>1. I \subseteq 1 .. Len(patterns) /\ Len(patterns) \in Nat
  BY NodesAre
<1>2. IsFiniteSet(1 .. Len(patterns))
  BY <1>1, UpTo
<1>3. IsFiniteSet(I)
  BY <1>1, <1>2, FS_Subset
<1> QED
  BY <1>1, <1>3, FS_CardinalityType

(* The outputs of a node are the numbers of the patterns it spells. *)
LEMMA OutputsAre ==
    ASSUME patterns \in Lists, NEW u
    PROVE  /\ Outputs(u) \in Seq(Added)
           /\ \A j \in 1 .. Len(Outputs(u)) : patterns[Outputs(u)[j]] = u
           /\ \A i \in Added : patterns[i] = u => \E j \in 1 .. Len(Outputs(u)) : Outputs(u)[j] = i
           /\ \A j, k \in 1 .. Len(Outputs(u)) : Outputs(u)[j] = Outputs(u)[k] => j = k
<1> DEFINE I == {i \in Added : patterns[i] = u}
<1>1. I \in SUBSET Nat /\ IsFiniteSet(I)
  BY AddedFinite
<1>2. Enumerates(Ordered(I), I)
  BY <1>1, OrderedSet
<1>3. PICK o \in Seq(I) : /\ o = Ordered(I)
                          /\ \A x \in I : \E k \in 1 .. Len(o) : o[k] = x
                          /\ \A k, l \in 1 .. Len(o) : k < l => o[k] < o[l]
  BY <1>2, Zenon DEF Enumerates
<1>4. Outputs(u) = [k \in 1 .. Len(o) |-> o[(Len(o) - k) + 1]]
  BY <1>3, Zenon DEF Outputs, Reverse
<1>5. /\ Len(o) \in Nat /\ \A k \in 1 .. Len(o) : o[k] \in I /\ o[k] \in Nat
      /\ \A k \in 1 .. Len(o) : (Len(o) - k) + 1 \in 1 .. Len(o) /\ (Len(o) - ((Len(o) - k) + 1)) + 1 = k
  BY <1>1
<1>6. \A i \in I : i \in Added /\ patterns[i] = u
  OBVIOUS
<1>7. \A i \in Added : patterns[i] = u => i \in I
  OBVIOUS
<1> HIDE DEF I
<1>8. Outputs(u) \in Seq(Added) /\ Len(Outputs(u)) = Len(o)
      /\ \A k \in 1 .. Len(o) : Outputs(u)[k] = o[(Len(o) - k) + 1]
  BY <1>4, <1>5, <1>6
<1>9. \A j \in 1 .. Len(o) : patterns[Outputs(u)[j]] = u
  BY <1>5, <1>6, <1>8
<1>10. ASSUME NEW i \in Added, patterns[i] = u PROVE \E j \in 1 .. Len(o) : Outputs(u)[j] = i
  <2>1. PICK k \in 1 .. Len(o) : o[k] = i
    BY <1>3, <1>7, <1>10
  <2>2. PICK j \in 1 .. Len(o) : j = (Len(o) - k) + 1 /\ (Len(o) - j) + 1 = k
    BY <1>5
  <2> QED
    BY <1>8, <2>1, <2>2
<1>11. ASSUME NEW j \in 1 .. Len(o), NEW k \in 1 .. Len(o), Outputs(u)[j] = Outputs(u)[k] PROVE j = k
  <2>1. PICK x \in 1 .. Len(o), y \in 1 .. Len(o) :
          /\ x = (Len(o) - j) + 1 /\ y = (Len(o) - k) + 1
          /\ (Len(o) - x) + 1 = j /\ (Len(o) - y) + 1 = k
    BY <1>5
  <2>2. o[x] = o[y] /\ o[x] \in Nat /\ o[y] \in Nat
    BY <1>5, <1>8, <1>11, <2>1
  <2>3. ~(x < y) /\ ~(y < x)
    BY <1>3, <2>2
  <2> QED
    BY <2>1, <2>3
<1> QED
  BY <1>8, <1>9, <1>10, <1>11

(* What the automaton reports at u: each of the patterns that end there,    *)
(* once.                                                                    *)
LEMMA MatchedAre ==
    ASSUME patterns \in Lists, NEW s \in Seq(ByteValues), NEW u, EndOf(s, u)
    PROVE  /\ Matched(u) \in Seq(Added)
           /\ \A p \in 1 .. Len(Matched(u)) : EndOf(s, patterns[Matched(u)[p]])
           /\ \A p, q \in 1 .. Len(Matched(u)) : Matched(u)[p] = Matched(u)[q] => p = q
           /\ LongestEnd(s, u) =>
                \A i \in Added : EndOf(s, patterns[i]) => \E p \in 1 .. Len(Matched(u)) : Matched(u)[p] = i
<1>1. PICK w \in Seq(Nodes) :
        /\ w = Chain(u) /\ Len(w) \in Nat
        /\ \A k \in 1 .. Len(w) : w[k] # <<>> /\ EndOf(s, w[k])
        /\ \A k, l \in 1 .. Len(w) : w[k] = w[l] => k = l
        /\ \A l \in 1 .. Len(u) : End(s, l) \in Nodes => \E k \in 1 .. Len(w) : w[k] = End(s, l)
  <2>1. /\ Chain(u) \in Seq(Nodes)
        /\ \A k \in 1 .. Len(Chain(u)) : Chain(u)[k] # <<>> /\ EndOf(s, Chain(u)[k])
        /\ \A k, l \in 1 .. Len(Chain(u)) : Chain(u)[k] = Chain(u)[l] => k = l
        /\ \A l \in 1 .. Len(u) : End(s, l) \in Nodes => \E k \in 1 .. Len(Chain(u)) : Chain(u)[k] = End(s, l)
    BY ChainIs
  <2>2. Len(Chain(u)) \in Nat
    BY <2>1
  <2> QED
    BY <2>1, <2>2, Zenon
<1> DEFINE parts == [j \in 1 .. Len(w) |-> Outputs(w[j])]
           n == Len(w)
<1>2. Matched(u) = FlattenSeq(parts)
  BY <1>1, Zenon DEF Matched
<1>3. /\ \A k \in 1 .. n : Outputs(w[k]) \in Seq(Added)
      /\ \A k \in 1 .. n : \A j \in 1 .. Len(Outputs(w[k])) : patterns[Outputs(w[k])[j]] = w[k]
      /\ \A k \in 1 .. n : \A i \in Added : patterns[i] = w[k] =>
            \E j \in 1 .. Len(Outputs(w[k])) : Outputs(w[k])[j] = i
      /\ \A k \in 1 .. n : \A i, j \in 1 .. Len(Outputs(w[k])) :
            Outputs(w[k])[i] = Outputs(w[k])[j] => i = j
  BY OutputsAre
<1>4. parts \in Seq(Seq(Added)) /\ Len(parts) = n /\ \A k \in 1 .. n : parts[k] = Outputs(w[k])
  BY <1>1, <1>3
<1> HIDE DEF parts
<1>5. /\ \A k \in 1 .. n : \A j \in 1 .. Len(parts[k]) : patterns[parts[k][j]] = w[k]
      /\ \A k \in 1 .. n : \A i \in Added : patterns[i] = w[k] =>
            \E j \in 1 .. Len(parts[k]) : parts[k][j] = i
      /\ \A k \in 1 .. n : \A i, j \in 1 .. Len(parts[k]) : parts[k][i] = parts[k][j] => i = j
  <2>1. ASSUME NEW k \in 1 .. n
        PROVE  /\ \A j \in 1 .. Len(parts[k]) : patterns[parts[k][j]] = w[k]
               /\ \A i \in Added : patterns[i] = w[k] => \E j \in 1 .. Len(parts[k]) : parts[k][j] = i
               /\ \A i, j \in 1 .. Len(parts[k]) : parts[k][i] = parts[k][j] => i = j
    <3>1. parts[k] = Outputs(w[k])
      BY <1>4
    <3>2. PICK o : o = Outputs(w[k])
      OBVIOUS
    <3>3. /\ \A j \in 1 .. Len(o) : patterns[o[j]] = w[k]
          /\ \A i \in Added : patterns[i] = w[k] => \E j \in 1 .. Len(o) : o[j] = i
          /\ \A i, j \in 1 .. Len(o) : o[i] = o[j] => i = j
      BY <3>2, OutputsAre
    <3> QED
      BY <3>1, <3>2, <3>3
  <2> QED
    BY <2>1
<1>6. PICK t \in Seq(Added) : t = Matched(u) /\ \E e : Cuts(e, t, parts, n)
  <2>1. FlattenSeq(parts) \in Seq(Added) /\ \E e : Cuts(e, FlattenSeq(parts), parts, Len(parts))
    BY <1>4, FlatCuts
  <2> QED
    BY <1>2, <1>4, <2>1, Zenon
<1>7. PICK e : Cuts(e, t, parts, n)
  BY <1>6
<1>8. /\ e \in [0 .. n -> Nat] /\ e[n] = Len(t)
      /\ \A k \in 1 .. n : e[k] = e[k - 1] + Len(parts[k])
      /\ \A k \in 1 .. n : \A j \in 1 .. Len(parts[k]) : t[e[k - 1] + j] = parts[k][j]
      /\ \A j, k \in 0 .. n : j < k => e[j] <= e[k]
      /\ \A p \in 1 .. Len(t) : \E k \in 1 .. n : \E j \in 1 .. Len(parts[k]) : p = e[k - 1] + j
  BY <1>7 DEF Cuts
<1>9. ASSUME NEW p \in 1 .. Len(t)
      PROVE  \E k \in 1 .. n : \E j \in 1 .. Len(parts[k]) :
                p = e[k - 1] + j /\ t[p] = parts[k][j] /\ patterns[t[p]] = w[k]
  <2>1. PICK k \in 1 .. n : \E j \in 1 .. Len(parts[k]) : p = e[k - 1] + j
    BY <1>8
  <2>2. PICK j \in 1 .. Len(parts[k]) : p = e[k - 1] + j
    BY <2>1
  <2>3. t[e[k - 1] + j] = parts[k][j] /\ patterns[parts[k][j]] = w[k]
    BY <1>5, <1>8, <2>2
  <2> QED
    BY <2>2, <2>3
<1>10. ASSUME NEW p \in 1 .. Len(t) PROVE EndOf(s, patterns[t[p]])
  BY <1>1, <1>9
<1>11. ASSUME NEW p \in 1 .. Len(t), NEW q \in 1 .. Len(t), t[p] = t[q] PROVE p = q
  <2>1. PICK k \in 1 .. n : \E j \in 1 .. Len(parts[k]) :
                p = e[k - 1] + j /\ t[p] = parts[k][j] /\ patterns[t[p]] = w[k]
    BY <1>9
  <2>2. PICK l \in 1 .. n : \E j \in 1 .. Len(parts[l]) :
                q = e[l - 1] + j /\ t[q] = parts[l][j] /\ patterns[t[q]] = w[l]
    BY <1>9
  <2>3. k = l
    BY <1>1, <1>11, <2>1, <2>2
  <2> QED
    BY <1>5, <1>11, <2>1, <2>2, <2>3
<1>12. ASSUME LongestEnd(s, u), NEW i \in Added, EndOf(s, patterns[i])
       PROVE  \E p \in 1 .. Len(t) : t[p] = i
  <2>1. /\ Len(patterns[i]) \in Nat /\ patterns[i] = End(s, Len(patterns[i])) /\ patterns[i] \in Nodes
        /\ Len(patterns[i]) \in 0 .. Len(s) /\ Len(patterns[i]) # 0
    BY <1>12, EndOfAre, NodesAre
  <2>2. Len(patterns[i]) <= Len(u)
    BY <1>12, <2>1 DEF LongestEnd
  <2>3. Len(patterns[i]) \in 1 .. Len(u)
    BY <2>1, <2>2, EndOfAre
  <2>4. PICK k \in 1 .. n : w[k] = patterns[i]
    BY <1>1, <2>1, <2>3
  <2>5. PICK j \in 1 .. Len(parts[k]) : parts[k][j] = i
    BY <1>5, <2>4
  <2>6. t[e[k - 1] + j] = i
    BY <1>8, <2>5
  <2>7. e[k - 1] + j \in 1 .. Len(t)
    <3>1. parts[k] \in Seq(Added)
      BY <1>4
    <3>2. k - 1 \in 0 .. n /\ k \in 0 .. n /\ n \in 0 .. n /\ k <= n
      BY <1>1
    <3>3. PICK x \in Nat, y \in Nat, z \in Nat, m \in Nat :
            x = e[k - 1] /\ y = e[k] /\ z = e[n] /\ m = Len(parts[k])
      <4>1. e[k - 1] \in Nat /\ e[k] \in Nat /\ e[n] \in Nat
        BY <1>8, <3>2
      <4>2. Len(parts[k]) \in Nat
        BY <3>1
      <4> QED
        BY <4>1, <4>2, Zenon
    <3>4. y <= z
      <4>1. k < n => e[k] <= e[n]
        BY <1>8, <3>2
      <4> QED
        BY <3>2, <3>3, <4>1
    <3>5. y = x + m /\ z = Len(t) /\ j \in 1 .. m
      BY <1>8, <3>3
    <3>6. x + j \in 1 .. z
      BY <3>4, <3>5
    <3> QED
      BY <3>3, <3>5, <3>6
  <2> QED
    BY <2>6, <2>7
<1> QED
  BY <1>6, <1>10, <1>11, <1>12
-----------------------------------------------------------------------------
(* Occurrences in the bytes read. *)

(* The file and the patterns. *)
InputOK ==
    /\ patterns \in Lists /\ total \in Nat /\ text \in [0 .. total - 1 -> ByteValues]

(* The first n bytes. *)
Start(n) == [j \in 1 .. n |-> text[j - 1]]

Record(o, i) == [offset |-> o, pattern |-> i]

(* Pattern i is at offset o. *)
Found(o, i) == \A j \in 1 .. Len(patterns[i]) : text[o + j - 1] = patterns[i][j]

(* The patterns that the first n bytes end with, and their matches there. *)
Ending(n) == {i \in Added : EndOf(Start(n), patterns[i])}
New(n)    == {Record(n - Len(patterns[i]), i) : i \in Ending(n)}

LEMMA StartIs ==
    ASSUME InputOK, NEW n \in 0 .. total
    PROVE  /\ Start(n) \in Seq(ByteValues) /\ Len(Start(n)) = n /\ n \in Nat
           /\ \A j \in 1 .. n : Start(n)[j] = text[j - 1]
           /\ n < total => text[n] \in ByteValues /\ Start(n + 1) = Append(Start(n), text[n])
<1>1. n \in Nat /\ total \in Nat /\ text \in [0 .. total - 1 -> ByteValues]
  BY DEF InputOK
<1>2. \A j \in 1 .. n : j - 1 \in 0 .. total - 1
  BY <1>1
<1>3. Start(n) \in Seq(ByteValues) /\ Len(Start(n)) = n /\ \A j \in 1 .. n : Start(n)[j] = text[j - 1]
  BY <1>1, <1>2 DEF Start
<1>4. ASSUME n < total PROVE text[n] \in ByteValues /\ Start(n + 1) = Append(Start(n), text[n])
  <2>1. n \in 0 .. total - 1 /\ \A j \in 1 .. n + 1 : j - 1 \in 0 .. total - 1
    BY <1>1, <1>4
  <2>2. text[n] \in ByteValues
    BY <1>1, <2>1
  <2>3. /\ Append(Start(n), text[n]) \in Seq(ByteValues) /\ Len(Append(Start(n), text[n])) = n + 1
        /\ Append(Start(n), text[n])[n + 1] = text[n]
        /\ \A j \in 1 .. n : Append(Start(n), text[n])[j] = Start(n)[j]
    BY <1>1, <1>3, <2>2
  <2>4. /\ Start(n + 1) \in Seq(ByteValues) /\ Len(Start(n + 1)) = n + 1
        /\ \A j \in 1 .. n + 1 : Start(n + 1)[j] = text[j - 1]
    BY <1>1, <2>1 DEF Start
  <2>5. ASSUME NEW j \in 1 .. n + 1 PROVE Start(n + 1)[j] = Append(Start(n), text[n])[j]
    <3>1. CASE j = n + 1
      <4>1. (n + 1) - 1 = n
        BY <1>1
      <4> QED
        BY <2>3, <2>4, <3>1, <4>1
    <3>2. CASE j # n + 1
      <4>1. j \in 1 .. n
        BY <1>1, <3>2
      <4> QED
        BY <1>3, <2>3, <2>4, <4>1
    <3> QED
      BY <3>1, <3>2
  <2> QED
    BY <2>2, <2>3, <2>4, <2>5, SameSeq
<1> QED
  BY <1>1, <1>3, <1>4

LEMMA OccurredIs ==
    ASSUME NEW n
    PROVE  /\ \A r \in Occurred(n) : \E o \in 0 .. n - 1 : \E i \in Added :
                r = Record(o, i) /\ o + Len(patterns[i]) <= n /\ Found(o, i)
           /\ \A o \in 0 .. n - 1 : \A i \in Added :
                o + Len(patterns[i]) <= n /\ Found(o, i) => Record(o, i) \in Occurred(n)
<1> DEFINE D == {oi \in (0 .. n - 1) \X Added :
                   /\ oi[1] + Len(patterns[oi[2]]) <= n
                   /\ \A j \in 1 .. Len(patterns[oi[2]]) : text[oi[1] + j - 1] = patterns[oi[2]][j]}
<1>1. Occurred(n) = {[offset |-> oi[1], pattern |-> oi[2]] : oi \in D}
  BY DEF Occurred
<1>2. ASSUME NEW oi \in D
      PROVE  \E o \in 0 .. n - 1 : \E i \in Added :
               /\ [offset |-> oi[1], pattern |-> oi[2]] = Record(o, i)
               /\ o + Len(patterns[i]) <= n /\ Found(o, i)
  <2>1. oi[1] \in 0 .. n - 1 /\ oi[2] \in Added
    OBVIOUS
  <2>2. oi[1] + Len(patterns[oi[2]]) <= n /\ Found(oi[1], oi[2])
    BY DEF Found
  <2> HIDE DEF D
  <2> QED
    BY <2>1, <2>2, Zenon DEF Record
<1>3. ASSUME NEW o \in 0 .. n - 1, NEW i \in Added, o + Len(patterns[i]) <= n, Found(o, i)
      PROVE  <<o, i>> \in D
  BY <1>3 DEF Found
<1> HIDE DEF D
<1>4. ASSUME NEW r \in Occurred(n)
      PROVE  \E o \in 0 .. n - 1 : \E i \in Added :
                r = Record(o, i) /\ o + Len(patterns[i]) <= n /\ Found(o, i)
  <2>1. PICK oi \in D : r = [offset |-> oi[1], pattern |-> oi[2]]
    BY <1>1
  <2> QED
    BY <1>2, <2>1
<1>5. ASSUME NEW o \in 0 .. n - 1, NEW i \in Added, o + Len(patterns[i]) <= n, Found(o, i)
      PROVE  Record(o, i) \in Occurred(n)
  <2>1. PICK oi \in D : oi = <<o, i>>
    BY <1>3, <1>5
  <2>2. oi[1] = o /\ oi[2] = i
    BY <2>1
  <2>3. [offset |-> oi[1], pattern |-> oi[2]] \in Occurred(n)
    BY <1>1
  <2> QED
    BY <2>2, <2>3 DEF Record
<1> QED
  BY <1>4, <1>5

(* A pattern is at the end of the first n bytes iff they end with it. *)
LEMMA FoundEnds ==
    ASSUME InputOK, NEW n \in 0 .. total, NEW i \in Added, Len(patterns[i]) <= n
    PROVE  Found(n - Len(patterns[i]), i) <=> EndOf(Start(n), patterns[i])
<1>0. patterns \in Lists
  BY DEF InputOK
<1>1. PICK p \in Seq(ByteValues) : p = patterns[i] /\ p \in Nodes /\ Len(p) \in Nat \ {0}
  BY <1>0, NodesAre
<1>2. PICK t \in Seq(ByteValues) : t = Start(n) /\ Len(t) = n /\ n \in Nat /\ \A j \in 1 .. n : t[j] = text[j - 1]
  BY StartIs
<1>3. PICK l \in 0 .. Len(t) : l = Len(p) /\ l \in Nat /\ l <= n
  BY <1>1, <1>2
<1>4. /\ End(t, l) \in Seq(ByteValues) /\ Len(End(t, l)) = l
      /\ \A j \in 1 .. l : End(t, l)[j] = t[Len(t) - l + j]
  BY Ends
<1>5. ASSUME NEW j \in 1 .. l PROVE End(t, l)[j] = text[(n - l) + j - 1]
  <2>1. Len(t) - l + j \in 1 .. n /\ (Len(t) - l + j) - 1 = (n - l) + j - 1
    BY <1>2, <1>3
  <2> QED
    BY <1>2, <1>4, <2>1
<1>6. Found(n - l, i) <=> \A j \in 1 .. l : End(t, l)[j] = p[j]
  BY <1>1, <1>3, <1>5 DEF Found
<1>7. EndOf(t, p) <=> p = End(t, l)
  BY <1>1, <1>2, <1>3 DEF EndOf
<1>8. p = End(t, l) <=> \A j \in 1 .. l : End(t, l)[j] = p[j]
  <2>1. ASSUME \A j \in 1 .. l : End(t, l)[j] = p[j] PROVE p = End(t, l)
    BY <1>3, <1>4, <2>1, SameSeq
  <2> QED
    BY <2>1
<1> QED
  BY <1>1, <1>2, <1>3, <1>6, <1>7, <1>8

LEMMA RecordIs ==
    ASSUME NEW o, NEW i, NEW p, NEW k
    PROVE  /\ Record(o, i).offset = o /\ Record(o, i).pattern = i
           /\ Record(o, i) = Record(p, k) => o = p /\ i = k
<1>1. Record(o, i).offset = o /\ Record(o, i).pattern = i /\ Record(p, k).offset = p /\ Record(p, k).pattern = k
  BY DEF Record
<1> QED
  BY <1>1

(* One more byte completes the patterns that end with it, and no other. *)
LEMMA OccurredNext ==
    ASSUME InputOK, NEW n \in Nat, n < total
    PROVE  Occurred(n + 1) = Occurred(n) \cup New(n + 1) /\ Occurred(n) \cap New(n + 1) = {}
<1>0. patterns \in Lists /\ n + 1 \in 0 .. total /\ total \in Nat
  BY DEF InputOK
<1>1. \A i \in Added : Len(patterns[i]) \in Nat \ {0}
  BY <1>0, NodesAre
<1>2. ASSUME NEW r \in Occurred(n + 1) PROVE r \in Occurred(n) \cup New(n + 1)
  <2>1. PICK o \in 0 .. (n + 1) - 1, i \in Added :
          r = Record(o, i) /\ o + Len(patterns[i]) <= n + 1 /\ Found(o, i)
    BY OccurredIs
  <2>2. PICK l \in Nat \ {0} : l = Len(patterns[i])
    BY <1>1
  <2>3. CASE o + l <= n
    <3>1. o \in 0 .. n - 1
      BY <2>2, <2>3
    <3> QED
      BY <2>1, <2>2, <2>3, <3>1, OccurredIs
  <2>4. CASE ~(o + l <= n)
    <3>1. o = (n + 1) - l /\ l <= n + 1
      BY <2>1, <2>2, <2>4
    <3>2. EndOf(Start(n + 1), patterns[i])
      BY <1>0, <2>1, <2>2, <3>1, FoundEnds
    <3>3. Record((n + 1) - Len(patterns[i]), i) \in New(n + 1)
      BY <3>2 DEF New, Ending
    <3> QED
      BY <2>1, <2>2, <3>1, <3>3
  <2> QED
    BY <2>3, <2>4
<1>3. ASSUME NEW r \in Occurred(n) PROVE r \in Occurred(n + 1)
  <2>1. PICK o \in 0 .. n - 1, i \in Added : r = Record(o, i) /\ o + Len(patterns[i]) <= n /\ Found(o, i)
    BY OccurredIs
  <2>2. PICK l \in Nat \ {0} : l = Len(patterns[i])
    BY <1>1
  <2>3. o \in 0 .. (n + 1) - 1 /\ o + l <= n + 1
    BY <2>1, <2>2
  <2> QED
    BY <2>1, <2>2, <2>3, OccurredIs
<1>4. ASSUME NEW r \in New(n + 1) PROVE r \in Occurred(n + 1) /\ r \notin Occurred(n)
  <2>1. PICK i \in Added : r = Record((n + 1) - Len(patterns[i]), i) /\ EndOf(Start(n + 1), patterns[i])
    BY DEF New, Ending
  <2>2. PICK l \in Nat \ {0} : l = Len(patterns[i])
    BY <1>1
  <2>3. l <= n + 1
    BY <1>0, <2>1, <2>2, StartIs DEF EndOf
  <2>4. Found((n + 1) - l, i)
    BY <1>0, <2>1, <2>2, <2>3, FoundEnds
  <2>5. (n + 1) - l \in 0 .. (n + 1) - 1 /\ ((n + 1) - l) + l <= n + 1 /\ ~(((n + 1) - l) + l <= n)
    BY <2>2, <2>3
  <2>6. r \in Occurred(n + 1)
    BY <2>1, <2>2, <2>4, <2>5, OccurredIs
  <2>7. r \notin Occurred(n)
    <3> SUFFICES ASSUME r \in Occurred(n) PROVE FALSE
      OBVIOUS
    <3>1. PICK o \in 0 .. n - 1, k \in Added : r = Record(o, k) /\ o + Len(patterns[k]) <= n
      BY OccurredIs
    <3>2. o = (n + 1) - l /\ k = i
      BY <2>1, <2>2, <3>1, RecordIs
    <3> QED
      BY <2>2, <2>5, <3>1, <3>2
  <2> QED
    BY <2>6, <2>7
<1> QED
  BY <1>2, <1>3, <1>4

(* What was found stays found. *)
LEMMA OccurredGrows ==
    ASSUME InputOK, NEW m \in Nat, NEW n \in Nat, m <= n
    PROVE  Occurred(m) \subseteq Occurred(n)
<1> SUFFICES ASSUME NEW r \in Occurred(m) PROVE r \in Occurred(n)
  OBVIOUS
<1>1. PICK o \in 0 .. m - 1, i \in Added : r = Record(o, i) /\ o + Len(patterns[i]) <= m /\ Found(o, i)
  BY OccurredIs
<1>2. Len(patterns[i]) \in Nat
  BY NodesAre DEF InputOK
<1>3. PICK l \in Nat : l = Len(patterns[i])
  BY <1>2
<1>4. o \in 0 .. n - 1 /\ o + l <= n
  BY <1>1, <1>3
<1> QED
  BY <1>1, <1>3, <1>4, OccurredIs

LEMMA OccurredFinite ==
    ASSUME InputOK, NEW n \in Nat
    PROVE  IsFiniteSet(Occurred(n)) /\ Cardinality(Occurred(n)) \in Nat
<1> DEFINE P == (0 .. n - 1) \X Added
           f == [oi \in P |-> Record(oi[1], oi[2])]
           R == {f[x] : x \in P}
<1>1. IsFiniteSet(0 .. n - 1)
  <2>1. 0 \in Int /\ n - 1 \in Int
    OBVIOUS
  <2> QED
    BY <2>1, FS_Interval
<1>2. IsFiniteSet(Added)
  BY AddedFinite DEF InputOK
<1>3. IsFiniteSet(P)
  BY <1>1, <1>2, FS_Product
<1>4. ASSUME NEW r \in Occurred(n) PROVE r \in R
  <2>1. PICK o \in 0 .. n - 1, i \in Added : r = Record(o, i)
    BY OccurredIs
  <2>2. PICK x \in P : x = <<o, i>>
    OBVIOUS
  <2>3. f[x] = Record(x[1], x[2]) /\ x[1] = o /\ x[2] = i
    BY <2>2
  <2> QED
    BY <2>1, <2>3
<1>5. f \in Surjection(P, R)
  <2>1. f \in [P -> R]
    OBVIOUS
  <2>2. \A y \in R : \E x \in P : f[x] = y
    OBVIOUS
  <2> HIDE DEF P, f, R
  <2> QED
    BY <2>1, <2>2 DEF Surjection
<1> HIDE DEF P, f, R
<1>6. IsFiniteSet(R)
  BY <1>3, <1>5, FS_Surjection
<1>7. Occurred(n) \in SUBSET R
  BY <1>4
<1> QED
  BY <1>6, <1>7, FS_Subset, FS_CardinalityType

LEMMA TwoParts ==
    ASSUME NEW S, NEW T, IsFiniteSet(S), IsFiniteSet(T), S \cap T = {}
    PROVE  IsFiniteSet(S \cup T) /\ Cardinality(S \cup T) = Cardinality(S) + Cardinality(T)
<1>1. Cardinality(S) \in Nat /\ Cardinality(T) \in Nat /\ Cardinality({}) = 0
  BY FS_CardinalityType, FS_EmptySet
<1>2. IsFiniteSet(S \cup T) /\ Cardinality(S \cup T) = Cardinality(S) + Cardinality(T) - Cardinality({})
  BY FS_Union
<1> QED
  BY <1>1, <1>2

(* One new record for each pattern that ends here. *)
LEMMA NewCounted ==
    ASSUME InputOK, NEW n \in Nat
    PROVE  /\ IsFiniteSet(Ending(n)) /\ IsFiniteSet(New(n)) /\ Cardinality(New(n)) = Cardinality(Ending(n))
           /\ \A i : Of({i}, New(n)) = IF i \in Ending(n) THEN {Record(n - Len(patterns[i]), i)} ELSE {}
<1> DEFINE g == [i \in Ending(n) |-> Record(n - Len(patterns[i]), i)]
<1>1. Ending(n) \in SUBSET Added /\ IsFiniteSet(Ending(n))
  <2>1. Ending(n) \in SUBSET Added
    BY DEF Ending
  <2> QED
    BY <2>1, AddedFinite DEF InputOK
<1>2. g \in [Ending(n) -> New(n)] /\ \A r \in New(n) : \E i \in Ending(n) : g[i] = r
  BY DEF New
<1>3. \A i, k \in Ending(n) : g[i] = g[k] => i = k
  <2>1. TAKE i, k \in Ending(n)
  <2>2. g[i] = Record(n - Len(patterns[i]), i) /\ g[k] = Record(n - Len(patterns[k]), k)
    OBVIOUS
  <2> QED
    BY <2>2, RecordIs
<1>4. ExistsBijection(Ending(n), New(n))
  <2> HIDE DEF g
  <2>1. g \in Bijection(Ending(n), New(n))
    BY <1>2, <1>3 DEF Bijection, Injection, Surjection, IsInjective
  <2> QED
    BY <2>1 DEF ExistsBijection
<1>5. ASSUME NEW i
      PROVE  Of({i}, New(n)) = IF i \in Ending(n) THEN {Record(n - Len(patterns[i]), i)} ELSE {}
  <2>1. \A r \in New(n) : \E k \in Ending(n) : r = Record(n - Len(patterns[k]), k) /\ r.pattern = k
    BY RecordIs DEF New
  <2>2. i \in Ending(n) => /\ Record(n - Len(patterns[i]), i) \in New(n)
                           /\ Record(n - Len(patterns[i]), i).pattern = i
    BY RecordIs DEF New
  <2>3. \A r : r \in Of({i}, New(n)) <=> r \in New(n) /\ r.pattern = i
    BY DEF Of
  <2>4. CASE i \in Ending(n)
    <3>1. \A r : r \in Of({i}, New(n)) <=> r = Record(n - Len(patterns[i]), i)
      BY <2>1, <2>2, <2>3, <2>4
    <3> QED
      BY <2>4, <3>1
  <2>5. CASE i \notin Ending(n)
    <3>1. \A r : r \notin Of({i}, New(n))
      BY <2>1, <2>3, <2>5
    <3> QED
      BY <2>5, <3>1
  <2> QED
    BY <2>4, <2>5
<1> QED
  BY <1>1, <1>4, <1>5, FS_Bijection
-----------------------------------------------------------------------------
(* The lengths looked up in pat_len. *)

LEMMA PatLensAre ==
    ASSUME patterns \in Lists, NEW i \in Added
    PROVE  PatLens(i) \subseteq Nat /\ (i \in Located => PatLens(i) = {Len(patterns[i])})
<1>1. /\ Added \in SUBSET Nat /\ IsFiniteSet(Added) /\ \A x \in Added : x \in Nat \ {0}
      /\ \A x \in Added : Len(patterns[x]) \in Nat
  BY AddedFinite, NodesAre
<1>2. Enumerates(Ordered(Added), Added)
  BY <1>1, OrderedSet
<1>3. PICK o \in Seq(Added) : /\ o = Ordered(Added) /\ Len(o) = Cardinality(Added) /\ Len(o) \in Nat
                              /\ \A x \in Added : \E k \in 1 .. Len(o) : o[k] = x
                              /\ \A k, l \in 1 .. Len(o) : k < l => o[k] < o[l]
  BY <1>2, Zenon DEF Enumerates
<1>4. /\ i <= Len(o) => PatLens(i) = {Len(patterns[o[i]])}
      /\ ~(i <= Len(o)) => PatLens(i) = 0 .. MaxText
  <2>1. /\ i <= Len(Ordered(Added)) => PatLens(i) = {Len(patterns[Ordered(Added)[i]])}
        /\ ~(i <= Len(Ordered(Added))) => PatLens(i) = 0 .. MaxText
    BY DEF PatLens
  <2> QED
    BY <1>3, <2>1
<1>5. \A k \in 1 .. Len(o) : o[k] \in Added /\ o[k] \in Nat \ {0}
  <2>1. \A k \in 1 .. Len(o) : o[k] \in Added
    OBVIOUS
  <2> QED
    BY <1>1, <2>1, Zenon
<1>6. PatLens(i) \subseteq Nat
  <2>1. i \in Nat \ {0}
    BY <1>1
  <2>2. CASE i <= Len(o)
    <3>1. o[i] \in Added
      BY <1>3, <1>5, <2>1, <2>2
    <3> QED
      BY <1>1, <1>4, <2>2, <3>1
  <2>3. CASE ~(i <= Len(o))
    <3>1. PatLens(i) = 0 .. MaxText
      BY <1>4, <2>3
    <3> QED
      BY <3>1, GScanAssumption
  <2> QED
    BY <2>2, <2>3
<1>7. ASSUME i \in Located PROVE PatLens(i) = {Len(patterns[i])}
  <2>1. 1 .. i \in SUBSET Added /\ i \in Nat \ {0}
    BY <1>1, <1>7 DEF Located
  <2>2. i <= Len(o)
    <3>1. Cardinality(1 .. i) = i
      BY <2>1, UpTo
    <3>2. Cardinality(1 .. i) <= Cardinality(Added)
      BY <1>1, <2>1, FS_Subset
    <3> QED
      BY <1>3, <3>1, <3>2
  <2> DEFINE T == {k \in Nat : k \in 1 .. i /\ o[k] # k}
  <2>3. T = {}
    <3> SUFFICES ASSUME T # {} PROVE FALSE
      OBVIOUS
    <3>1. PICK k \in T : \A y \in T : k <= y
      BY LeastNat
    <3>2. /\ k \in 1 .. i /\ o[k] # k /\ k \in Nat /\ k \in 1 .. Len(o)
          /\ \A j \in 1 .. i : j < k => o[j] = j
      BY <1>3, <2>1, <2>2, <3>1
    <3> HIDE DEF T
    <3>3. PICK m \in 1 .. Len(o) : o[m] = k
      BY <1>3, <2>1, <3>2
    <3>4. k < m
      <4>1. ~(m < k)
        <5>1. m < k => o[m] = m
          BY <2>1, <3>2
        <5> QED
          BY <3>2, <3>3, <5>1
      <4>2. m # k
        BY <3>2, <3>3
      <4> QED
        BY <3>2, <4>1, <4>2
    <3>5. PICK x \in Nat \ {0} : x = o[k]
      BY <1>5, <3>2
    <3>6. x < k
      BY <1>3, <3>2, <3>3, <3>4, <3>5
    <3>7. o[x] = x /\ x \in 1 .. Len(o)
      BY <2>1, <3>2, <3>5, <3>6
    <3>8. o[x] < o[k]
      BY <1>3, <3>2, <3>6, <3>7
    <3> QED
      BY <3>5, <3>7, <3>8
  <2>4. i \in 1 .. i /\ i \in Nat
    BY <2>1
  <2>5. o[i] = i
    BY <2>3, <2>4
  <2> QED
    BY <1>4, <2>2, <2>5
<1> QED
  BY <1>6, <1>7
-----------------------------------------------------------------------------
(* The gate. *)

LEMMA UniqIs ==
    ASSUME patterns \in Lists
    PROVE  /\ \A i \in Added : \E j \in 1 .. Len(Uniq) : Uniq[j] = Head(patterns[i])
           /\ Len(Uniq) \in Nat /\ DOMAIN Uniq = 1 .. Len(Uniq)
<1> DEFINE H == {Head(patterns[i]) : i \in Added}
           f == [i \in Added |-> Head(patterns[i])]
<1>1. IsFiniteSet(Added)
  BY AddedFinite
<1>2. f \in Surjection(Added, H)
  <2>1. f \in [Added -> H] /\ \A y \in H : \E i \in Added : f[i] = y
    OBVIOUS
  <2> HIDE DEF f, H
  <2> QED
    BY <2>1 DEF Surjection
<1>3. IsFiniteSet(H)
  <2> HIDE DEF f, H
  <2> QED
    BY <1>1, <1>2, FS_Surjection
<1>4. H \in SUBSET Nat
  <2>1. ASSUME NEW i \in Added PROVE Head(patterns[i]) \in ByteValues
    <3>1. PICK p \in Seq(ByteValues) : p = patterns[i] /\ Len(p) \in Nat \ {0}
      BY NodesAre
    <3>2. Head(p) \in ByteValues
      BY <3>1
    <3> QED
      BY <3>1, <3>2
  <2> QED
    BY <2>1, GScanAssumption
<1>5. Enumerates(Ordered(H), H)
  BY <1>3, <1>4, OrderedSet
<1>6. Uniq = Ordered(H)
  BY DEF Uniq
<1>7. \A i \in Added : Head(patterns[i]) \in H
  OBVIOUS
<1> HIDE DEF H, f
<1>8. Uniq \in Seq(H)
  BY <1>5, <1>6 DEF Enumerates
<1> QED
  BY <1>5, <1>6, <1>7, <1>8 DEF Enumerates

(* Where the gate looks for every first byte, no pattern begins in a block  *)
(* that it closes.                                                          *)
LEMMA NoneBegins ==
    ASSUME patterns \in Lists, Sees, Closed(pos), NEW b \in 0 .. Block - 1, NEW i \in Added
    PROVE  text[pos + b] # Head(patterns[i])
<1>1. PICK h \in {1, 2} : text[pos + b] \notin FirstBytes(h)
  <2>1. text[pos + b] \notin FirstBytes(IF b < Block \div 2 THEN 1 ELSE 2)
    BY DEF Closed
  <2>2. (IF b < Block \div 2 THEN 1 ELSE 2) \in {1, 2}
    OBVIOUS
  <2> QED
    BY <2>1, <2>2
<1>2. PICK j \in 1 .. Len(Uniq) : Uniq[j] = Head(patterns[i])
  BY UniqIs
<1>3. Len(Uniq) \in Nat /\ DOMAIN Uniq = 1 .. Len(Uniq) /\ Lanes \in Nat
  BY UniqIs, GScanAssumption
<1>4. CASE ~Avx2
  BY <1>1, <1>2, <1>3, <1>4 DEF FirstBytes, ToSet
<1>5. CASE Avx2 /\ Len(Uniq) <= Lanes
  <2>1. j \in {k \in DOMAIN Uniq : k <= Lanes}
    BY <1>3, <1>5
  <2>2. j \in {k \in DOMAIN Uniq : Len(Uniq) > Lanes => k > Lanes}
    BY <1>3, <1>5
  <2>3. CASE h = 1
    <3>1. FirstBytes(h) = {Uniq[k] : k \in {k \in DOMAIN Uniq : k <= Lanes}}
      BY <1>5, <2>3 DEF FirstBytes
    <3> QED
      BY <1>1, <1>2, <2>1, <3>1
  <2>4. CASE h = 2
    <3>1. FirstBytes(h) = {Uniq[k] : k \in {k \in DOMAIN Uniq : Len(Uniq) > Lanes => k > Lanes}}
      BY <1>5, <2>4 DEF FirstBytes
    <3> QED
      BY <1>1, <1>2, <2>2, <3>1
  <2> QED
    BY <2>3, <2>4
<1> QED
  BY <1>4, <1>5 DEF Sees

(* Every beginning of a node is one. *)
LEMMA NodeBegins ==
    ASSUME patterns \in Lists, NEW u \in Nodes, u # <<>>
    PROVE  /\ \E i \in Added : u[1] = Head(patterns[i])
           /\ \A m \in 1 .. Len(u) : \A v \in Seq(ByteValues) :
                Len(v) = m /\ (\A j \in 1 .. m : v[j] = u[j]) => v \in Nodes
<1>1. PICK i \in Added : \E n \in 1 .. Len(patterns[i]) : u = SubSeq(patterns[i], 1, n)
  BY NodesAre
<1>2. PICK p \in Seq(ByteValues) : p = patterns[i] /\ Len(p) \in Nat \ {0}
  BY NodesAre
<1>3. PICK n \in 1 .. Len(p) : u = SubSeq(p, 1, n)
  BY <1>1, <1>2
<1>4. n \in Nat /\ Len(u) = n /\ \A j \in 1 .. n : u[j] = p[j] /\ j \in 1 .. Len(p)
  BY <1>2, <1>3
<1>5. u[1] = Head(p)
  BY <1>2, <1>3, <1>4
<1>6. ASSUME NEW m \in 1 .. Len(u), NEW v \in Seq(ByteValues), Len(v) = m, \A j \in 1 .. m : v[j] = u[j]
      PROVE  v \in Nodes
  <2>1. m \in 1 .. Len(p) /\ \A j \in 1 .. m : j \in 1 .. n
    BY <1>2, <1>3, <1>4
  <2>2. SubSeq(p, 1, m) \in Seq(ByteValues) /\ Len(SubSeq(p, 1, m)) = m
        /\ \A j \in 1 .. m : SubSeq(p, 1, m)[j] = p[j]
    BY <1>2, <2>1
  <2>3. v = SubSeq(p, 1, m)
    BY <1>4, <1>6, <2>1, <2>2, SameSeq
  <2> QED
    BY <1>2, <2>1, <2>3, NodesAre
<1> QED
  BY <1>2, <1>5, <1>6

(* No node is under way at any place of a block that the gate closes. *)
LEMMA NoneUnderWay ==
    ASSUME InputOK, Sees, pos \in Nat, pos + Block <= total, Closed(pos),
           LongestEnd(Start(pos), <<>>), NEW e \in pos .. pos + Block, NEW l \in 0 .. e,
           End(Start(e), l) \in Nodes
    PROVE  l = 0
<1>0. patterns \in Lists /\ total \in Nat /\ Block \in Nat \ {0}
  BY GScanAssumption DEF InputOK
<1>1. e \in 0 .. total /\ pos \in 0 .. total /\ e \in Nat
  BY <1>0
<1>2. PICK s \in Seq(ByteValues) : s = Start(e) /\ Len(s) = e /\ \A j \in 1 .. e : s[j] = text[j - 1]
  BY <1>1, StartIs
<1>3. PICK t \in Seq(ByteValues) : t = Start(pos) /\ Len(t) = pos /\ \A j \in 1 .. pos : t[j] = text[j - 1]
  BY <1>1, StartIs
<1>4. \A m \in 0 .. pos : End(t, m) \in Nodes => m <= 0
  <2>1. Len(<<>>) = 0
    OBVIOUS
  <2> QED
    BY <1>3, <2>1 DEF LongestEnd
<1>5. SUFFICES ASSUME l # 0 PROVE FALSE
  OBVIOUS
<1>6. PICK u \in Nodes : /\ u = End(s, l) /\ u \in Seq(ByteValues) /\ Len(u) = l /\ l \in Nat
                         /\ \A j \in 1 .. l : u[j] = s[e - l + j]
  <2>1. l \in 0 .. Len(s) /\ l \in Nat
    BY <1>2
  <2>2. End(s, l) \in Seq(ByteValues) /\ Len(End(s, l)) = l /\ \A j \in 1 .. l : End(s, l)[j] = s[Len(s) - l + j]
    BY <2>1, Ends
  <2> QED
    BY <1>2, <2>1, <2>2
<1>7. u # <<>> /\ 1 \in 1 .. l
  BY <1>5, <1>6
<1>8. \A j \in 1 .. l : u[j] = text[e - l + j - 1]
  <2>1. \A j \in 1 .. l : e - l + j \in 1 .. e
    BY <1>1, <1>6
  <2> QED
    BY <1>2, <1>6, <2>1
<1>9. CASE e - l >= pos
  <2>1. PICK b \in 0 .. Block - 1 : e - l = pos + b
    <3>1. (e - l) - pos \in 0 .. Block - 1 /\ e - l = pos + ((e - l) - pos)
      BY <1>0, <1>1, <1>5, <1>6, <1>9
    <3> QED
      BY <3>1
  <2>2. u[1] = text[pos + b]
    <3>1. e - l + 1 - 1 = pos + b
      BY <1>1, <1>6, <2>1
    <3> QED
      BY <1>7, <1>8, <3>1
  <2> QED
    BY <1>0, <1>7, <2>2, NodeBegins, NoneBegins
<1>10. CASE ~(e - l >= pos)
  <2>1. PICK m \in 1 .. l : m = pos - (e - l) /\ m \in 0 .. pos /\ m \in Nat
    BY <1>1, <1>6, <1>10
  <2>2. /\ End(t, m) \in Seq(ByteValues) /\ Len(End(t, m)) = m
        /\ \A j \in 1 .. m : End(t, m)[j] = t[Len(t) - m + j]
    <3>1. m \in 0 .. Len(t)
      BY <1>3, <2>1
    <3> QED
      BY <3>1, Ends, Zenon
  <2>3. ASSUME NEW j \in 1 .. m PROVE End(t, m)[j] = u[j]
    <3>1. m <= l
      BY <1>1, <1>6, <2>1
    <3>2. j \in 1 .. l /\ pos - m + j \in 1 .. pos
      BY <1>1, <1>6, <2>1, <3>1
    <3>3. (pos - m + j) - 1 = e - l + j - 1
      BY <1>1, <1>6, <2>1
    <3>4. End(t, m)[j] = t[pos - m + j] /\ t[pos - m + j] = text[(pos - m + j) - 1]
      BY <1>3, <2>2, <3>2, Zenon
    <3>5. u[j] = text[e - l + j - 1]
      BY <1>8, <3>2, Zenon
    <3> QED
      BY <3>3, <3>4, <3>5, Zenon
  <2>4. End(t, m) \in Nodes
    <3>1. m \in 1 .. Len(u)
      BY <1>6, <2>1
    <3>2. \A k \in 1 .. Len(u) : \A v \in Seq(ByteValues) :
            Len(v) = k /\ (\A j \in 1 .. k : v[j] = u[j]) => v \in Nodes
      BY <1>0, <1>7, NodeBegins, Zenon
    <3> QED
      BY <2>2, <2>3, <3>1, <3>2, Zenon
  <2>5. m <= 0
    BY <1>4, <2>1, <2>4
  <2> QED
    BY <2>1, <2>5
<1> QED
  BY <1>1, <1>6, <1>9, <1>10

(* Skipping the block loses nothing. *)
LEMMA SkipKeeps ==
    ASSUME InputOK, Sees, pos \in Nat, pos + Block <= total, Closed(pos), LongestEnd(Start(pos), <<>>)
    PROVE  /\ Occurred(pos + Block) = Occurred(pos)
           /\ LongestEnd(Start(pos + Block), <<>>)
<1>0. patterns \in Lists /\ total \in Nat /\ Block \in Nat \ {0} /\ pos + Block \in 0 .. total
  BY GScanAssumption DEF InputOK
<1>1. ASSUME NEW r \in Occurred(pos + Block) PROVE r \in Occurred(pos)
  <2>0. PICK n \in Nat : n = pos + Block /\ r \in Occurred(n)
    BY <1>0
  <2>1. PICK o \in 0 .. n - 1, i \in Added : r = Record(o, i) /\ o + Len(patterns[i]) <= n /\ Found(o, i)
    BY <2>0, OccurredIs
  <2>2. PICK l \in Nat \ {0} : l = Len(patterns[i]) /\ patterns[i] \in Nodes
    BY <1>0, NodesAre
  <2>3. o + l <= pos
    <3> SUFFICES ASSUME ~(o + l <= pos) PROVE FALSE
      OBVIOUS
    <3>1. PICK e \in pos .. pos + Block : e = o + l /\ e \in 0 .. total /\ e - l = o /\ l <= e /\ l \in 0 .. e
      BY <1>0, <2>0, <2>1, <2>2
    <3>2. EndOf(Start(e), patterns[i])
      BY <2>1, <2>2, <3>1, FoundEnds
    <3>3. End(Start(e), l) \in Nodes
      BY <2>2, <3>2 DEF EndOf
    <3>4. l = 0
      BY <3>1, <3>3, NoneUnderWay
    <3> QED
      BY <2>2, <3>4
  <2>4. o \in 0 .. pos - 1
    BY <2>2, <2>3
  <2> QED
    BY <2>1, <2>2, <2>3, <2>4, OccurredIs
<1>2. Occurred(pos) \subseteq Occurred(pos + Block)
  BY <1>0, OccurredGrows
<1>3. LongestEnd(Start(pos + Block), <<>>)
  <2>1. PICK e \in pos .. pos + Block : e = pos + Block /\ e \in 0 .. total /\ e \in Nat
    BY <1>0
  <2>2. Start(e) \in Seq(ByteValues) /\ Len(Start(e)) = e
    BY <2>1, StartIs
  <2>3. End(Start(e), 0) = <<>> /\ <<>> \in Nodes /\ Len(<<>>) = 0
    BY <1>0, <2>2, EndWhole, NodesAre
  <2>4. EndOf(Start(e), <<>>)
    BY <2>1, <2>2, <2>3 DEF EndOf
  <2>5. \A n \in 0 .. Len(Start(e)) : End(Start(e), n) \in Nodes => n <= Len(<<>>)
    BY <2>1, <2>2, <2>3, NoneUnderWay
  <2> QED
    BY <2>1, <2>4, <2>5 DEF LongestEnd
<1> QED
  BY <1>1, <1>2, <1>3
-----------------------------------------------------------------------------
(* The automaton reads a byte. *)

Records == [offset : Int, pattern : Added]

(* Where s reports pattern i. *)
Reported(s, i) == {j \in DOMAIN s : s[j].pattern = i}

(* Records that report each pattern once at most. *)
Single(t) == \A j, k \in 1 .. Len(t) : t[j].pattern = t[k].pattern => j = k

LEMMA ReportedNext ==
    ASSUME NEW S, NEW s \in Seq(S), NEW t \in Seq(S), Single(t), NEW i
    PROVE  /\ Cardinality(Reported(s, i)) \in Nat
           /\ (\E k \in 1 .. Len(t) : t[k].pattern = i) =>
                Cardinality(Reported(s \o t, i)) = Cardinality(Reported(s, i)) + 1
           /\ (\A k \in 1 .. Len(t) : t[k].pattern # i) =>
                Cardinality(Reported(s \o t, i)) = Cardinality(Reported(s, i))
<1>1. PICK u \in Seq(S) : u = s \o t /\ Appended(u, s, t)
  BY Concatenation
<1>2. /\ Len(s) \in Nat /\ Len(t) \in Nat
      /\ DOMAIN s = 1 .. Len(s) /\ DOMAIN t = 1 .. Len(t) /\ DOMAIN u = 1 .. Len(u)
  OBVIOUS
<1>3. IsFiniteSet(Reported(s, i)) /\ Cardinality(Reported(s, i)) \in Nat
  <2>1. IsFiniteSet(1 .. Len(s)) /\ Reported(s, i) \in SUBSET (1 .. Len(s))
    BY <1>2, UpTo DEF Reported
  <2> QED
    BY <2>1, FS_Subset, FS_CardinalityType
<1>4. \A j \in 1 .. Len(s) : j \in Reported(u, i) <=> j \in Reported(s, i)
  BY <1>1, <1>2 DEF Reported, Appended
<1>5. \A k \in 1 .. Len(t) : Len(s) + k \in Reported(u, i) <=> t[k].pattern = i
  BY <1>1, <1>2 DEF Reported, Appended
<1>6. /\ \A j \in Reported(u, i) : j \in 1 .. Len(s) \/ \E k \in 1 .. Len(t) : j = Len(s) + k
      /\ \A j \in Reported(s, i) : j \in 1 .. Len(s)
  BY <1>1, <1>2 DEF Reported, Appended
<1>7. ASSUME NEW k \in 1 .. Len(t), t[k].pattern = i
      PROVE  Cardinality(Reported(u, i)) = Cardinality(Reported(s, i)) + 1
  <2>1. ASSUME NEW l \in 1 .. Len(t), t[l].pattern = i PROVE l = k
    BY <1>7, <2>1 DEF Single
  <2>2. Len(s) + k \notin 1 .. Len(s) /\ Len(s) + k \in Reported(u, i)
    BY <1>2, <1>5, <1>7
  <2>3. Reported(u, i) = Reported(s, i) \cup {Len(s) + k}
    <3>1. ASSUME NEW j \in Reported(u, i) PROVE j \in Reported(s, i) \/ j = Len(s) + k
      <4>1. CASE j \in 1 .. Len(s)
        BY <1>4, <4>1
      <4>2. ASSUME NEW l \in 1 .. Len(t), j = Len(s) + l PROVE j = Len(s) + k
        <5>1. t[l].pattern = i
          BY <1>5, <3>1, <4>2
        <5>2. l = k
          BY <2>1, <5>1
        <5> QED
          BY <4>2, <5>2
      <4> QED
        BY <1>6, <4>1, <4>2
    <3>2. ASSUME NEW j \in Reported(s, i) PROVE j \in Reported(u, i)
      BY <1>4, <1>6
    <3> QED
      BY <2>2, <3>1, <3>2
  <2>4. Len(s) + k \notin Reported(s, i)
    BY <1>6, <2>2
  <2> QED
    BY <1>3, <2>3, <2>4, FS_AddElement
<1>8. ASSUME \A k \in 1 .. Len(t) : t[k].pattern # i
      PROVE  Reported(u, i) = Reported(s, i)
  BY <1>4, <1>5, <1>6, <1>8
<1> QED
  BY <1>1, <1>3, <1>7, <1>8

(* The node that the automaton enters, and the patterns it reports there. *)
Entered == GoTo(Fallback(Fails, state, text[pos]), text[pos])

LEMMA EnteredIs ==
    ASSUME InputOK, pos \in Nat, pos < total, EndOf(Start(pos), state)
    PROVE  /\ EndOf(Start(pos + 1), Entered)
           /\ LongestEnd(Start(pos), state) => LongestEnd(Start(pos + 1), Entered)
<1>1. patterns \in Lists /\ pos \in 0 .. total /\ total \in Nat
  BY DEF InputOK
<1>2. /\ Start(pos) \in Seq(ByteValues) /\ text[pos] \in ByteValues
      /\ Start(pos + 1) = Append(Start(pos), text[pos])
  BY <1>1, StartIs
<1>a. PICK u : u = state
  OBVIOUS
<1>3. PICK s \in Seq(ByteValues), c \in ByteValues : s = Start(pos) /\ c = text[pos] /\ u = state
  BY <1>2, <1>a
<1>4. GoodBelow(Fails, Len(u) + 1)
  BY <1>1, FailIs
<1>5. /\ EndOf(Append(s, c), GoTo(Fallback(Fails, u, c), c))
      /\ LongestEnd(s, u) => LongestEnd(Append(s, c), GoTo(Fallback(Fails, u, c), c))
  BY <1>1, <1>3, <1>4, FallbackStep
<1> QED
  BY <1>2, <1>3, <1>5 DEF Entered

LEMMA HitsAre ==
    ASSUME InputOK, pos \in Nat, pos < total, EndOf(Start(pos), state)
    PROVE  /\ Matched(Entered) \in Seq(Added)
           /\ \A p \in 1 .. Len(Matched(Entered)) : Matched(Entered)[p] \in Ending(pos + 1)
           /\ \A p, q \in 1 .. Len(Matched(Entered)) : Matched(Entered)[p] = Matched(Entered)[q] => p = q
           /\ LongestEnd(Start(pos), state) =>
                \A i \in Ending(pos + 1) : \E p \in 1 .. Len(Matched(Entered)) : Matched(Entered)[p] = i
<1>1. patterns \in Lists /\ pos + 1 \in 0 .. total /\ total \in Nat
  BY DEF InputOK
<1>2. PICK s \in Seq(ByteValues) : s = Start(pos + 1)
  BY <1>1, StartIs
<1>3. PICK u : u = Entered
  OBVIOUS
<1>4. EndOf(s, u) /\ (LongestEnd(Start(pos), state) => LongestEnd(s, u))
  BY <1>2, <1>3, EnteredIs
<1>5. /\ Matched(u) \in Seq(Added)
      /\ \A p \in 1 .. Len(Matched(u)) : EndOf(s, patterns[Matched(u)[p]])
      /\ \A p, q \in 1 .. Len(Matched(u)) : Matched(u)[p] = Matched(u)[q] => p = q
      /\ LongestEnd(s, u) =>
           \A i \in Added : EndOf(s, patterns[i]) => \E p \in 1 .. Len(Matched(u)) : Matched(u)[p] = i
  BY <1>1, <1>4, MatchedAre
<1>6. \A i \in Added : i \in Ending(pos + 1) <=> EndOf(s, patterns[i])
  BY <1>2 DEF Ending
<1>7. \A i \in Ending(pos + 1) : i \in Added
  BY DEF Ending
<1>8. \A p \in 1 .. Len(Matched(u)) : Matched(u)[p] \in Added
  BY <1>5
<1> QED
  BY <1>3, <1>4, <1>5, <1>6, <1>7, <1>8

(* The records emitted for the hits h with the lengths len. *)
Emit(h, len) == [j \in 1 .. Len(h) |-> [offset |-> pos - (len[j] - 1), pattern |-> h[j]]]
Looked(h, len) == \A j \in 1 .. Len(h) : len[j] \in PatLens(h[j])

LEMMA EmitIs ==
    ASSUME InputOK, pos \in Nat, NEW h \in Seq(Added), NEW len, Looked(h, len)
    PROVE  /\ Emit(h, len) \in Seq(Records) /\ Len(Emit(h, len)) = Len(h)
           /\ \A j \in 1 .. Len(h) :
                /\ Emit(h, len)[j].pattern = h[j]
                /\ h[j] \in Located => Emit(h, len)[j] = Record((pos + 1) - Len(patterns[h[j]]), h[j])
<1>1. patterns \in Lists /\ Len(h) \in Nat /\ \A j \in 1 .. Len(h) : h[j] \in Added
  BY DEF InputOK
<1>2. ASSUME NEW j \in 1 .. Len(h)
      PROVE  len[j] \in Nat /\ (h[j] \in Located => len[j] = Len(patterns[h[j]]))
  <2>1. PICK i \in Added : i = h[j]
    BY <1>1
  <2>2. PatLens(i) \subseteq Nat /\ (i \in Located => PatLens(i) = {Len(patterns[i])})
    BY <1>1, PatLensAre
  <2>3. len[j] \in PatLens(i)
    BY <2>1 DEF Looked
  <2> QED
    BY <2>1, <2>2, <2>3
<1>3. ASSUME NEW j \in 1 .. Len(h)
      PROVE  /\ [offset |-> pos - (len[j] - 1), pattern |-> h[j]] \in Records
             /\ pos - (len[j] - 1) = (pos + 1) - len[j]
  <2>1. PICK l \in Nat : l = len[j]
    BY <1>2
  <2>2. pos - (l - 1) \in Int /\ pos - (l - 1) = (pos + 1) - l
    OBVIOUS
  <2> QED
    BY <1>1, <2>1, <2>2 DEF Records
<1>4. Emit(h, len) \in Seq(Records) /\ Len(Emit(h, len)) = Len(h)
  <2>1. Emit(h, len) \in [1 .. Len(h) -> Records]
    BY <1>3 DEF Emit
  <2> QED
    BY <1>1, <2>1
<1>5. ASSUME NEW j \in 1 .. Len(h)
      PROVE  /\ Emit(h, len)[j].pattern = h[j]
             /\ h[j] \in Located => Emit(h, len)[j] = Record((pos + 1) - Len(patterns[h[j]]), h[j])
  <2>1. Emit(h, len)[j] = Record((pos + 1) - len[j], h[j])
    BY <1>3 DEF Emit, Record
  <2>2. Emit(h, len)[j].pattern = h[j]
    BY <2>1, RecordIs
  <2> QED
    BY <1>2, <2>1, <2>2
<1> QED
  BY <1>4, <1>5
-----------------------------------------------------------------------------
(* What holds when the first p bytes are read, the automaton is at u and o  *)
(* was emitted.                                                             *)
Exact(p, o) ==
    /\ Of(Located, Occurred(p)) \subseteq ToSet(o)
    /\ Len(o) = Cardinality(Occurred(p))
    /\ \A i \in DOMAIN patterns : Cardinality(Reported(o, i)) = Cardinality(Of({i}, Occurred(p)))

At(p, u, o) ==
    /\ EndOf(Start(p), u) /\ Of(Located, ToSet(o)) \subseteq Occurred(p)
    /\ Sees => LongestEnd(Start(p), u) /\ Exact(p, o)

LEMMA OfIs ==
    ASSUME NEW I, NEW R, NEW T
    PROVE  /\ Of(I, R \cup T) = Of(I, R) \cup Of(I, T)
           /\ \A r : r \in Of(I, R) <=> r \in R /\ r.pattern \in I
  BY DEF Of

LEMMA ElementsAre ==
    ASSUME NEW S, NEW s \in Seq(S), NEW t \in Seq(S)
    PROVE  ToSet(s \o t) = ToSet(s) \cup ToSet(t)
<1>1. PICK u \in Seq(S) : u = s \o t /\ Appended(u, s, t)
  BY Concatenation
<1>2. /\ DOMAIN s = 1 .. Len(s) /\ DOMAIN t = 1 .. Len(t) /\ DOMAIN u = 1 .. Len(u)
  OBVIOUS
<1>3. ASSUME NEW x \in ToSet(u) PROVE x \in ToSet(s) \/ x \in ToSet(t)
  <2>1. PICK p \in 1 .. Len(u) : x = u[p]
    BY <1>2 DEF ToSet
  <2>2. /\ \A k \in 1 .. Len(s) : u[k] = s[k]
        /\ \A k \in 1 .. Len(t) : u[Len(s) + k] = t[k]
        /\ p \in 1 .. Len(s) \/ \E k \in 1 .. Len(t) : p = Len(s) + k
    BY <1>1, <2>1, Zenon DEF Appended
  <2>3. ASSUME p \in 1 .. Len(s) PROVE x \in ToSet(s)
    <3>1. x = s[p] /\ p \in DOMAIN s
      BY <1>2, <2>1, <2>2, <2>3, Zenon
    <3> QED
      BY <3>1, Zenon DEF ToSet
  <2>4. ASSUME NEW k \in 1 .. Len(t), p = Len(s) + k PROVE x \in ToSet(t)
    <3>1. x = t[k] /\ k \in DOMAIN t
      BY <1>2, <2>1, <2>2, <2>4, Zenon
    <3> QED
      BY <3>1, Zenon DEF ToSet
  <2> QED
    BY <2>2, <2>3, <2>4
<1>4. ASSUME NEW x, x \in ToSet(s) \/ x \in ToSet(t) PROVE x \in ToSet(u)
  <2>1. \A p \in 1 .. Len(s) : s[p] \in ToSet(u)
    BY <1>1, <1>2 DEF Appended, ToSet
  <2>2. \A p \in 1 .. Len(t) : t[p] \in ToSet(u)
    BY <1>1, <1>2 DEF Appended, ToSet
  <2> QED
    BY <1>2, <1>4, <2>1, <2>2 DEF ToSet
<1> QED
  BY <1>1, <1>3, <1>4

(* Nothing reported is made up, whatever the gate skips. *)
LEMMA FeedSound ==
    ASSUME InputOK, pos \in Nat, pos < total, EndOf(Start(pos), state), NEW o \in Seq(Records),
           Of(Located, ToSet(o)) \subseteq Occurred(pos), NEW len, Looked(Matched(Entered), len)
    PROVE  Of(Located, ToSet(o \o Emit(Matched(Entered), len))) \subseteq Occurred(pos + 1)
<1>1. PICK h \in Seq(Added) : h = Matched(Entered) /\ \A p \in 1 .. Len(h) : h[p] \in Ending(pos + 1)
  BY HitsAre
<1>2. PICK t \in Seq(Records) :
        /\ t = Emit(h, len) /\ Len(t) = Len(h)
        /\ \A j \in 1 .. Len(h) :
             /\ t[j].pattern = h[j]
             /\ h[j] \in Located => t[j] = Record((pos + 1) - Len(patterns[h[j]]), h[j])
  <2>1. Looked(h, len)
    BY <1>1
  <2> QED
    BY <2>1, EmitIs
<1>3. ASSUME NEW r \in ToSet(t), r.pattern \in Located PROVE r \in New(pos + 1)
  <2>1. PICK j \in 1 .. Len(h) : r = t[j]
    BY <1>2 DEF ToSet
  <2>2. r = Record((pos + 1) - Len(patterns[h[j]]), h[j]) /\ h[j] \in Ending(pos + 1)
    BY <1>1, <1>2, <1>3, <2>1
  <2> QED
    BY <2>2 DEF New
<1>4. Occurred(pos + 1) = Occurred(pos) \cup New(pos + 1)
  BY OccurredNext
<1>5. ToSet(o \o t) = ToSet(o) \cup ToSet(t)
  BY <1>2, ElementsAre
<1>6. ASSUME NEW r \in Of(Located, ToSet(o \o t)) PROVE r \in Occurred(pos + 1)
  <2>1. r.pattern \in Located /\ (r \in ToSet(o) \/ r \in ToSet(t))
    BY <1>5, OfIs
  <2>2. r \in ToSet(o) => r \in Occurred(pos)
    BY <2>1, OfIs
  <2> QED
    BY <1>3, <1>4, <2>1, <2>2
<1> QED
  BY <1>1, <1>2, <1>6

(* From the longest end, what is reported stays exact. *)
LEMMA FeedExact ==
    ASSUME InputOK, pos \in Nat, pos < total, LongestEnd(Start(pos), state), NEW o \in Seq(Records),
           Exact(pos, o), NEW len, Looked(Matched(Entered), len)
    PROVE  Exact(pos + 1, o \o Emit(Matched(Entered), len))
<1>0. EndOf(Start(pos), state) /\ patterns \in Lists /\ pos + 1 \in Nat
  BY DEF LongestEnd, InputOK
<1>1. PICK h \in Seq(Added) :
        /\ h = Matched(Entered) /\ Len(h) \in Nat
        /\ \A p \in 1 .. Len(h) : h[p] \in Ending(pos + 1)
        /\ \A p, q \in 1 .. Len(h) : h[p] = h[q] => p = q
        /\ \A i \in Ending(pos + 1) : \E p \in 1 .. Len(h) : h[p] = i
  BY <1>0, HitsAre
<1>2. PICK t \in Seq(Records) :
        /\ t = Emit(h, len) /\ Len(t) = Len(h)
        /\ \A j \in 1 .. Len(h) :
             /\ t[j].pattern = h[j]
             /\ h[j] \in Located => t[j] = Record((pos + 1) - Len(patterns[h[j]]), h[j])
  <2>1. Looked(h, len)
    BY <1>1
  <2> QED
    BY <2>1, EmitIs
<1>a. Len(t) = Len(h) /\ DOMAIN t = 1 .. Len(h) /\ \A j \in 1 .. Len(h) : t[j].pattern = h[j]
  <2>1. Len(t) = Len(h) /\ \A j \in 1 .. Len(h) : t[j].pattern = h[j]
    BY <1>2, Zenon
  <2>2. DOMAIN t = 1 .. Len(t)
    OBVIOUS
  <2> QED
    BY <2>1, <2>2, Zenon
<1>3. /\ Occurred(pos + 1) = Occurred(pos) \cup New(pos + 1)
      /\ Occurred(pos) \cap New(pos + 1) = {}
  BY OccurredNext
<1>4. /\ IsFiniteSet(Ending(pos + 1)) /\ IsFiniteSet(New(pos + 1))
      /\ Cardinality(New(pos + 1)) = Cardinality(Ending(pos + 1))
      /\ \A i : Of({i}, New(pos + 1)) =
            IF i \in Ending(pos + 1) THEN {Record((pos + 1) - Len(patterns[i]), i)} ELSE {}
  BY <1>0, NewCounted
<1>5. IsFiniteSet(Occurred(pos)) /\ Cardinality(Occurred(pos)) \in Nat
  BY OccurredFinite
<1>6. Of(Located, Occurred(pos + 1)) \subseteq ToSet(o \o t)
  <2>1. ToSet(o \o t) = ToSet(o) \cup ToSet(t)
    BY <1>2, ElementsAre
  <2>2. ASSUME NEW r \in New(pos + 1), r.pattern \in Located PROVE r \in ToSet(t)
    <3>1. PICK i \in Ending(pos + 1) : r = Record((pos + 1) - Len(patterns[i]), i)
      BY DEF New
    <3>2. PICK p \in 1 .. Len(h) : h[p] = i
      BY <1>1
    <3>3. r.pattern = i /\ i \in Located
      <4>1. r.pattern = i
        BY <3>1 DEF Record
      <4> QED
        BY <2>2, <4>1
    <3>4. t[p] = r /\ p \in DOMAIN t
      <4>1. t[p] = Record((pos + 1) - Len(patterns[h[p]]), h[p])
        BY <1>2, <3>2, <3>3
      <4> QED
        BY <1>a, <3>1, <3>2, <4>1
    <3> QED
      BY <3>4 DEF ToSet
  <2>3. ASSUME NEW r \in Of(Located, Occurred(pos + 1)) PROVE r \in ToSet(o) \/ r \in ToSet(t)
    <3>1. r.pattern \in Located /\ (r \in Occurred(pos) \/ r \in New(pos + 1))
      BY <1>3, OfIs
    <3>2. r \in Occurred(pos) => r \in ToSet(o)
      BY <3>1, OfIs DEF Exact
    <3> QED
      BY <2>2, <3>1, <3>2
  <2> QED
    BY <2>1, <2>3
<1>7. Len(o \o t) = Cardinality(Occurred(pos + 1))
  <2>1. Cardinality(Ending(pos + 1)) = Len(h)
    <3>1. h \in [1 .. Len(h) -> Ending(pos + 1)]
      BY <1>1
    <3>2. h \in Bijection(1 .. Len(h), Ending(pos + 1))
      BY <1>1, <3>1 DEF Bijection, Injection, Surjection, IsInjective
    <3>3. ExistsBijection(1 .. Len(h), Ending(pos + 1))
      BY <3>2 DEF ExistsBijection
    <3> QED
      BY <1>1, <3>3, FS_CountingElements
  <2>2. Cardinality(Occurred(pos + 1)) = Cardinality(Occurred(pos)) + Len(h)
    BY <1>3, <1>4, <1>5, <2>1, TwoParts
  <2>3. Len(o \o t) = Len(o) + Len(t)
    OBVIOUS
  <2> QED
    BY <1>2, <2>2, <2>3 DEF Exact
<1>8. ASSUME NEW i \in DOMAIN patterns
      PROVE  Cardinality(Reported(o \o t, i)) = Cardinality(Of({i}, Occurred(pos + 1)))
  <2>1. Single(t)
    <3>1. ASSUME NEW j \in 1 .. Len(t), NEW k \in 1 .. Len(t), t[j].pattern = t[k].pattern PROVE j = k
      <4>1. h[j] = h[k]
        BY <1>a, <3>1
      <4> QED
        BY <1>1, <1>a, <4>1
    <3> QED
      BY <3>1 DEF Single
  <2>2. /\ Cardinality(Reported(o, i)) \in Nat
        /\ (\E k \in 1 .. Len(t) : t[k].pattern = i) =>
             Cardinality(Reported(o \o t, i)) = Cardinality(Reported(o, i)) + 1
        /\ (\A k \in 1 .. Len(t) : t[k].pattern # i) =>
             Cardinality(Reported(o \o t, i)) = Cardinality(Reported(o, i))
    BY <2>1, ReportedNext
  <2>3. Cardinality(Reported(o, i)) = Cardinality(Of({i}, Occurred(pos)))
    BY DEF Exact
  <2>4. Of({i}, Occurred(pos + 1)) = Of({i}, Occurred(pos)) \cup Of({i}, New(pos + 1))
    BY <1>3, OfIs
  <2>5. CASE i \in Ending(pos + 1)
    <3>1. \E k \in 1 .. Len(t) : t[k].pattern = i
      <4>1. PICK k \in 1 .. Len(h) : h[k] = i
        BY <1>1, <2>5
      <4> QED
        BY <1>a, <4>1
    <3>2. PICK r : Of({i}, New(pos + 1)) = {r}
      BY <1>4, <2>5
    <3>3. r \notin Of({i}, Occurred(pos))
      <4>1. r \in New(pos + 1)
        BY <3>2, OfIs
      <4>2. r \notin Occurred(pos)
        BY <1>3, <4>1
      <4> QED
        BY <4>2, OfIs
    <3>4. IsFiniteSet(Of({i}, Occurred(pos)))
      <4>1. Of({i}, Occurred(pos)) \in SUBSET Occurred(pos)
        BY DEF Of
      <4> QED
        BY <1>5, <4>1, FS_Subset
    <3>5. Cardinality(Of({i}, Occurred(pos + 1))) = Cardinality(Of({i}, Occurred(pos))) + 1
      <4>1. Cardinality(Of({i}, Occurred(pos)) \cup {r}) = Cardinality(Of({i}, Occurred(pos))) + 1
        BY <3>3, <3>4, FS_AddElement
      <4>2. Of({i}, Occurred(pos + 1)) = Of({i}, Occurred(pos)) \cup {r}
        BY <2>4, <3>2, Zenon
      <4> QED
        BY <4>1, <4>2
    <3> QED
      BY <2>2, <2>3, <3>1, <3>5
  <2>6. CASE i \notin Ending(pos + 1)
    <3>1. \A k \in 1 .. Len(t) : t[k].pattern # i
      BY <1>1, <1>a, <2>6
    <3>2. Of({i}, Occurred(pos + 1)) = Of({i}, Occurred(pos))
      BY <1>4, <2>4, <2>6
    <3> QED
      BY <2>2, <2>3, <3>1, <3>2
  <2> QED
    BY <2>5, <2>6
<1> QED
  BY <1>1, <1>2, <1>6, <1>7, <1>8 DEF Exact
-----------------------------------------------------------------------------
(* A step leaves the patterns and the file alone. *)

LEMMA SameInput ==
    ASSUME UNCHANGED input
    PROVE  /\ patterns' = patterns /\ text' = text /\ total' = total
           /\ Added' = Added /\ Nodes' = Nodes /\ Located' = Located
           /\ Uniq' = Uniq /\ Sees' = Sees
<1>1. patterns' = patterns /\ text' = text /\ total' = total
  BY DEF input
<1>2. Added' = Added
  BY <1>1, Zenon DEF Added
<1>3. Nodes' = Nodes
  BY <1>1, <1>2 DEF Nodes
<1>4. Located' = Located
  BY <1>2, Zenon DEF Located
<1>5. Uniq' = Uniq
  BY <1>1, <1>2, Zenon DEF Uniq
<1>6. Sees' = Sees
  BY <1>5, Zenon DEF Sees
<1> QED
  BY <1>1, <1>2, <1>3, <1>4, <1>5, <1>6

LEMMA SameOccurred ==
    ASSUME UNCHANGED input
    PROVE  Occurred(pos)' = Occurred(pos')
<1>1. patterns' = patterns /\ text' = text /\ Added' = Added
  BY SameInput
<1> QED
  BY <1>1, Zenon DEF Occurred

(* The invariant, part by part. *)
LEMMA InvariantIs ==
    /\ ScanIInv <=> ScanTypeOK /\ At(pos, state, out)
    /\ UNCHANGED input => (ScanIInv' <=> ScanTypeOK' /\ At(pos', state', out'))
<1>1. Read = Start(pos) /\ \A i : Reports(i) = Cardinality(Reported(out, i))
  BY Zenon DEF Read, Start, Reports, Reported
<1>2. Emitted <=> Exact(pos, out)
  BY <1>1, Zenon DEF Emitted, Exact
<1>3. ScanIInv <=> ScanTypeOK /\ At(pos, state, out)
  BY <1>1, <1>2, Zenon DEF ScanIInv, At
<1>4. ASSUME UNCHANGED input
      PROVE  ScanIInv' <=> ScanTypeOK' /\ At(pos', state', out')
  <2>1. /\ patterns' = patterns /\ text' = text /\ Nodes' = Nodes /\ Located' = Located /\ Sees' = Sees
        /\ Occurred(pos)' = Occurred(pos')
    BY <1>4, SameInput, SameOccurred
  <2>2. Read' = Start(pos')
    BY <2>1, Zenon DEF Read, Start
  <2>3. \A i : Reports(i)' = Cardinality(Reported(out', i))
    BY Zenon DEF Reports, Reported
  <2>4. Emitted' <=> Exact(pos', out')
    BY <2>1, <2>3, Zenon DEF Emitted, Exact, Of
  <2>5. \A s, u : EndOf(s, u)' <=> EndOf(s, u)
    BY <2>1, Zenon DEF EndOf
  <2>6. EndOf(Read, state)' <=> EndOf(Start(pos'), state')
    BY <2>1, <2>2, Zenon DEF EndOf
  <2>7. LongestEnd(Read, state)' <=> LongestEnd(Start(pos'), state')
    BY <2>1, <2>2, Zenon DEF LongestEnd, EndOf
  <2>8. (Of(Located, ToSet(out)) \subseteq Occurred(pos))' <=> Of(Located, ToSet(out')) \subseteq Occurred(pos')
    BY <2>1, Zenon DEF Of
  <2> QED
    BY <2>1, <2>4, <2>6, <2>7, <2>8, Zenon DEF ScanIInv, At
<1> QED
  BY <1>3, <1>4

LEMMA TypesAre ==
    /\ ScanTypeOK <=> InputOK /\ pos \in 0 .. total /\ upto \in pos .. total /\ out \in Seq(Records)
    /\ UNCHANGED input /\ InputOK /\ pos' \in 0 .. total /\ upto' \in pos' .. total /\ out' \in Seq(Records)
         => ScanTypeOK'
<1>1. ScanTypeOK <=> InputOK /\ pos \in 0 .. total /\ upto \in pos .. total /\ out \in Seq(Records)
  BY Zenon DEF ScanTypeOK, InputOK, Records
<1>2. ASSUME UNCHANGED input, InputOK, pos' \in 0 .. total, upto' \in pos' .. total, out' \in Seq(Records)
      PROVE  ScanTypeOK'
  <2>1. patterns' = patterns /\ text' = text /\ total' = total /\ Added' = Added
    BY <1>2, SameInput
  <2> QED
    BY <1>2, <2>1, Zenon DEF ScanTypeOK, InputOK, Records
<1> QED
  BY <1>1, <1>2

LEMMA InvariantInit == ScanInit => ScanIInv
<1> SUFFICES ASSUME ScanInit PROVE ScanIInv
  OBVIOUS
<1>1. pos = 0 /\ upto = 0 /\ state = <<>> /\ out = <<>> /\ InputOK /\ total \in Nat
  BY DEF ScanInit, InputOK
<1>2. ScanTypeOK
  <2>1. pos \in 0 .. total /\ upto \in pos .. total
    BY <1>1
  <2>2. out \in Seq(Records)
    BY <1>1
  <2> QED
    BY <1>1, <2>1, <2>2, TypesAre
<1>3. Occurred(0) = {} /\ ToSet(<<>>) = {}
  <2>1. \A r \in Occurred(0) : FALSE
    <3>1. \A o \in 0 .. 0 - 1 : FALSE
      OBVIOUS
    <3> QED
      BY <3>1, OccurredIs
  <2>2. ToSet(<<>>) = {}
    BY DEF ToSet
  <2> QED
    BY <2>1, <2>2
<1>4. \A I : Of(I, {}) = {}
  BY DEF Of
<1>5. Exact(0, <<>>)
  <2>1. Cardinality({}) = 0 /\ Len(<<>>) = 0
    BY FS_EmptySet
  <2>2. \A i : Reported(<<>>, i) = {}
    BY DEF Reported
  <2> QED
    BY <1>3, <1>4, <2>1, <2>2 DEF Exact
<1>6. LongestEnd(Start(0), <<>>)
  <2>1. Start(0) \in Seq(ByteValues) /\ Len(Start(0)) = 0
    BY <1>1, StartIs
  <2>2. End(Start(0), 0) = <<>> /\ <<>> \in Nodes /\ Len(<<>>) = 0
    BY <1>1, <2>1, EndWhole, NodesAre DEF InputOK
  <2>3. EndOf(Start(0), <<>>)
    BY <2>1, <2>2 DEF EndOf
  <2>4. \A n \in 0 .. Len(Start(0)) : n <= Len(<<>>)
    BY <2>1, <2>2
  <2> QED
    BY <2>3, <2>4 DEF LongestEnd
<1>7. At(0, <<>>, <<>>)
  BY <1>3, <1>4, <1>5, <1>6 DEF At, LongestEnd
<1> QED
  BY <1>1, <1>2, <1>7, InvariantIs

(* A block in which no pattern begins and none is under way. *)
LEMMA KeptBySkip ==
    ASSUME ScanIInv, SkipBlock
    PROVE  ScanIInv'
<1>1. /\ InputOK /\ pos \in 0 .. total /\ out \in Seq(Records) /\ At(pos, state, out)
      /\ total \in Nat /\ patterns \in Lists /\ Block \in Nat \ {0}
  BY InvariantIs, TypesAre, GScanAssumption DEF InputOK
<1>2. /\ UNCHANGED input /\ pos + Block <= total /\ Closed(pos)
      /\ pos' = pos + Block /\ upto' = pos + Block /\ out' = out /\ state' = state /\ state = <<>>
  BY DEF SkipBlock, Closed
<1>3. PICK e \in Nat : e = pos + Block /\ e \in 0 .. total /\ pos <= e /\ pos \in Nat
  BY <1>1, <1>2
<1>4. ScanTypeOK'
  <2>1. pos' \in 0 .. total /\ upto' \in pos' .. total
    BY <1>1, <1>2, <1>3
  <2> QED
    BY <1>1, <1>2, <2>1, TypesAre
<1>5. EndOf(Start(e), <<>>)
  <2>1. Start(e) \in Seq(ByteValues) /\ Len(Start(e)) = e
    BY <1>1, <1>3, StartIs
  <2>2. End(Start(e), 0) = <<>> /\ <<>> \in Nodes /\ Len(<<>>) = 0
    BY <1>1, <2>1, EndWhole, NodesAre
  <2> QED
    BY <1>3, <2>1, <2>2 DEF EndOf
<1>6. Of(Located, ToSet(out)) \subseteq Occurred(e)
  <2>1. Occurred(pos) \subseteq Occurred(e)
    BY <1>1, <1>3, OccurredGrows
  <2> QED
    BY <1>1, <2>1 DEF At
<1>7. ASSUME Sees PROVE LongestEnd(Start(e), <<>>) /\ Exact(e, out)
  <2>1. LongestEnd(Start(pos), <<>>) /\ Exact(pos, out)
    BY <1>1, <1>2, <1>7 DEF At
  <2>2. Occurred(pos + Block) = Occurred(pos) /\ LongestEnd(Start(pos + Block), <<>>)
    BY <1>1, <1>2, <1>3, <1>7, <2>1, SkipKeeps
  <2> QED
    BY <1>3, <2>1, <2>2, Zenon DEF Exact
<1>8. At(e, <<>>, out)
  BY <1>5, <1>6, <1>7 DEF At
<1> QED
  BY <1>2, <1>3, <1>4, <1>8, InvariantIs

(* A byte that the automaton reads, in a block or in the tail. *)
LEMMA KeptByFeed ==
    ASSUME ScanIInv, pos < total, Feed, UNCHANGED input, upto' \in pos + 1 .. total
    PROVE  ScanIInv'
<1>1. /\ InputOK /\ pos \in 0 .. total /\ out \in Seq(Records) /\ At(pos, state, out)
      /\ total \in Nat /\ pos \in Nat
  BY InvariantIs, TypesAre DEF InputOK
<1>2. PICK h : h = Matched(Entered)
  OBVIOUS
<1>3. PICK len \in [1 .. Len(h) -> UNION {PatLens(h[j]) : j \in 1 .. Len(h)}] :
        /\ \A j \in 1 .. Len(h) : len[j] \in PatLens(h[j])
        /\ out' = out \o [j \in 1 .. Len(h) |-> [offset |-> pos - (len[j] - 1), pattern |-> h[j]]]
  BY <1>2, Zenon DEF Feed, Entered
<1>4. Looked(h, len) /\ out' = out \o Emit(h, len) /\ state' = Entered /\ pos' = pos + 1
  BY <1>3, Zenon DEF Looked, Emit, Feed, Entered
<1>5. EndOf(Start(pos), state) /\ Of(Located, ToSet(out)) \subseteq Occurred(pos)
  BY <1>1 DEF At
<1>6. h \in Seq(Added)
  BY <1>1, <1>2, <1>5, HitsAre
<1>7. Emit(h, len) \in Seq(Records)
  BY <1>1, <1>4, <1>6, EmitIs
<1>8. ScanTypeOK'
  <2>1. out' \in Seq(Records)
    BY <1>1, <1>4, <1>7
  <2>2. pos' \in 0 .. total /\ upto' \in pos' .. total
    BY <1>1, <1>4
  <2> QED
    BY <1>1, <2>1, <2>2, TypesAre
<1>9. EndOf(Start(pos + 1), Entered)
  BY <1>1, <1>5, EnteredIs
<1>10. Of(Located, ToSet(out \o Emit(h, len))) \subseteq Occurred(pos + 1)
  BY <1>1, <1>2, <1>4, <1>5, FeedSound
<1>11. ASSUME Sees
       PROVE  LongestEnd(Start(pos + 1), Entered) /\ Exact(pos + 1, out \o Emit(h, len))
  <2>1. LongestEnd(Start(pos), state) /\ Exact(pos, out)
    BY <1>1, <1>11 DEF At
  <2>2. LongestEnd(Start(pos + 1), Entered)
    BY <1>1, <1>5, <2>1, EnteredIs
  <2> QED
    BY <1>1, <1>2, <1>4, <2>1, <2>2, FeedExact
<1>12. At(pos + 1, Entered, out \o Emit(h, len))
  BY <1>9, <1>10, <1>11 DEF At
<1> QED
  BY <1>4, <1>8, <1>12, InvariantIs

(* Every step keeps the invariant. *)
LEMMA InvariantNext == ScanIInv /\ [ScanNext]_scanVars => ScanIInv'
<1> SUFFICES ASSUME ScanIInv, [ScanNext]_scanVars PROVE ScanIInv'
  OBVIOUS
<1>1. /\ InputOK /\ pos \in 0 .. total /\ upto \in pos .. total /\ out \in Seq(Records)
      /\ At(pos, state, out) /\ total \in Nat /\ Block \in Nat \ {0}
  BY InvariantIs, TypesAre, GScanAssumption DEF InputOK
<1>2. CASE SkipBlock
  BY <1>2, KeptBySkip
<1>3. CASE EnterBlock
  <2>1. /\ UNCHANGED input /\ pos' = pos /\ upto' = pos + Block /\ pos + Block <= total
        /\ out' = out /\ state' = state
    BY <1>3 DEF EnterBlock
  <2>2. pos' \in 0 .. total /\ upto' \in pos' .. total
    BY <1>1, <2>1
  <2> QED
    BY <1>1, <2>1, <2>2, TypesAre, InvariantIs
<1>4. CASE BlockByte
  <2>1. pos < upto /\ Feed /\ UNCHANGED input /\ upto' = upto
    BY <1>4 DEF BlockByte
  <2>2. pos < total /\ upto' \in pos + 1 .. total
    BY <1>1, <2>1
  <2> QED
    BY <2>1, <2>2, KeptByFeed
<1>5. CASE TailByte
  <2>1. pos < total /\ Feed /\ UNCHANGED input /\ upto' = pos + 1
    BY <1>5 DEF TailByte
  <2>2. upto' \in pos + 1 .. total
    BY <1>1, <2>1
  <2> QED
    BY <2>1, <2>2, KeptByFeed
<1>6. CASE UNCHANGED scanVars
  <2>1. UNCHANGED input /\ pos' = pos /\ upto' = upto /\ out' = out /\ state' = state
    BY <1>6 DEF scanVars, input
  <2>2. pos' \in 0 .. total /\ upto' \in pos' .. total
    BY <1>1, <2>1
  <2> QED
    BY <1>1, <2>1, <2>2, TypesAre, InvariantIs
<1> QED
  BY <1>2, <1>3, <1>4, <1>5, <1>6 DEF ScanNext, Finished
-----------------------------------------------------------------------------
(* The strengthened invariant: between blocks and inside them the automaton *)
(* is at an end of the bytes read that begins a pattern, and what it        *)
(* emitted is exact for them (run_scan's loop over the blocks and bytes).   *)
THEOREM ScanInvariant == ScanSpec => []ScanIInv
<1>1. ScanInit => ScanIInv
  BY InvariantInit
<1>2. ScanIInv /\ [ScanNext]_scanVars => ScanIInv'
  BY InvariantNext
<1> QED
  BY <1>1, <1>2, PTL DEF ScanSpec

LEMMA ExactAtEnd == ScanIInv /\ Sees => ScanExact /\ CountsExact
<1> SUFFICES ASSUME ScanIInv, Sees, pos = total
             PROVE  /\ Of(Located, ToSet(out)) = Of(Located, Occurrences)
                    /\ Len(out) = Cardinality(Occurrences)
                    /\ \A i \in DOMAIN patterns : Reports(i) = Cardinality(Of({i}, Occurrences))
  BY DEF ScanExact, CountsExact
<1>1. Occurred(pos) = Occurrences
  BY DEF Occurrences
<1>2. Of(Located, ToSet(out)) \subseteq Occurred(pos) /\ Emitted
  BY DEF ScanIInv
<1>3. Of(Located, ToSet(out)) = Of(Located, Occurred(pos))
  <2>1. Of(Located, ToSet(out)) \subseteq Of(Located, Occurred(pos))
    BY <1>2, OfIs
  <2>2. Of(Located, Occurred(pos)) \subseteq Of(Located, ToSet(out))
    BY <1>2, OfIs DEF Emitted
  <2> QED
    BY <2>1, <2>2
<1> QED
  BY <1>1, <1>2, <1>3 DEF Emitted

(* At the end of the file the records of the patterns before the first      *)
(* empty one are exactly their occurrences, and there are as many records   *)
(* as occurrences, as long as the gate compares every first byte with both  *)
(* halves of a block (tests/fuzz_api.cpp:11).                               *)
THEOREM ScanIsExact == ScanSpec => [](Sees => ScanExact)
<1>1. ScanIInv => (Sees => ScanExact)
  BY ExactAtEnd
<1> QED
  BY <1>1, ScanInvariant, PTL

(* Under the same condition every pattern, the ones after an empty one      *)
(* included, is reported once for each of its occurrences.                  *)
THEOREM CountsAreExact == ScanSpec => [](Sees => CountsExact)
<1>1. ScanIInv => (Sees => CountsExact)
  BY ExactAtEnd
<1> QED
  BY <1>1, ScanInvariant, PTL

(* The build without AVX2 has no such condition: run_scan looks up each     *)
(* byte of the block in the table sf.fb, which has every first byte.        *)
THEOREM PortableScanIsExact ==
    ASSUME ~Avx2
    PROVE  ScanSpec => []ScanExact /\ []CountsExact
<1>1. ScanIInv => ScanExact /\ CountsExact
  <2>1. Sees
    BY DEF Sees
  <2> QED
    BY <2>1, ExactAtEnd
<1> QED
  BY <1>1, ScanInvariant, PTL

(* Whatever the gate skips, no record of these patterns is made up: each is *)
(* an occurrence, at every moment of the scan.                              *)
THEOREM NoFalseMatch == ScanSpec => [](Of(Located, ToSet(out)) \subseteq Occurrences)
<1>1. ScanIInv => Of(Located, ToSet(out)) \subseteq Occurrences
  <2> SUFFICES ASSUME ScanIInv PROVE Of(Located, ToSet(out)) \subseteq Occurrences
    OBVIOUS
  <2>1. InputOK /\ pos \in 0 .. total /\ total \in Nat /\ Of(Located, ToSet(out)) \subseteq Occurred(pos)
    BY InvariantIs, TypesAre DEF InputOK, At
  <2>2. pos \in Nat /\ pos <= total
    BY <2>1
  <2>3. Occurred(pos) \subseteq Occurred(total)
    BY <2>1, <2>2, OccurredGrows
  <2> QED
    BY <2>1, <2>3 DEF Occurrences
<1> QED
  BY <1>1, ScanInvariant, PTL
=============================================================================
