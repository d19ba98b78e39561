--------------------------- MODULE Pipeline_proofs ---------------------------
(***************************************************************************)
(* Theorems about the parallel scan: the chunks cover the file without an  *)
(* overlap (ChunkAllocator, for every file, every number of workers and    *)
(* every chunk size and lookahead); and whatever the interleaving, the     *)
(* answer is made of what the loops find in the chunks, each record once.  *)
(***************************************************************************)
EXTENDS ToolClients, Sorting_proofs

-----------------------------------------------------------------------------
(* The chunks.                                                              *)

(* Every non-empty set of numbers has a smallest element. *)
LEMMA SmallestNat == ASSUME NEW S \in SUBSET Nat, S # {}
                     PROVE  Min(S) \in S /\ \A y \in S : Min(S) <= y
<1>1. PICK x \in S : \A y \in S : ~(<<y, x>> \in OpToRel(<, Nat))
  BY WFMin, NatLessThanWellFounded
<1>2. \A y \in S : ~(y < x)
  BY <1>1 DEF OpToRel
<1>3. \A y \in S : x <= y
  BY <1>2
<1> QED
  BY <1>3 DEF Min

(* The byte after the first newline of a window, or its start. *)
LEMMA AfterNewlineBounds ==
  ASSUME NEW from \in Nat, NEW len \in Nat
  PROVE  /\ AfterNewline(from, len) \in Nat
         /\ from <= AfterNewline(from, len) /\ AfterNewline(from, len) <= from + len
<1>1. Newlines(from, len) \in SUBSET Nat
  BY DEF Newlines
<1>2. CASE Newlines(from, len) = {}
  BY <1>2 DEF AfterNewline
<1>3. CASE Newlines(from, len) # {}
  <2>1. Min(Newlines(from, len)) \in Newlines(from, len)
    BY <1>1, <1>3, SmallestNat
  <2>2. Min(Newlines(from, len)) \in from .. from + len - 1
    BY <2>1 DEF Newlines
  <2>3. AfterNewline(from, len) = Min(Newlines(from, len)) + 1
    BY <1>3 DEF AfterNewline
  <2> QED
    BY <2>2, <2>3
<1> QED
  BY <1>2, <1>3

(* The window of a right edge reaches no further than that of the left edge *)
(* of a later chunk: the line they both see is cut at the same byte.        *)
LEMMA WindowsMeet ==
  ASSUME NEW e \in Nat, NEW m \in Nat, NEW d \in Nat, NEW n \in Nat,
         e <= d, e + m <= d + n
  PROVE  AfterNewline(e, m) <= AfterNewline(d, n)
<1> DEFINE A == Newlines(e, m)
           B == Newlines(d, n)
<1>1. A \in SUBSET Nat /\ B \in SUBSET Nat
  BY DEF Newlines
<1>2. AfterNewline(d, n) >= d /\ AfterNewline(d, n) \in Nat
  BY AfterNewlineBounds
<1>3. CASE A = {}
  BY <1>2, <1>3 DEF AfterNewline
<1>4. CASE A # {}
  <2>1. Min(A) \in A /\ \A y \in A : Min(A) <= y
    BY <1>1, <1>4, SmallestNat
  <2>2. AfterNewline(e, m) = Min(A) + 1 /\ Min(A) \in Nat
    BY <1>1, <1>4, <2>1 DEF AfterNewline
  <2>3. CASE Min(A) < d
    BY <1>2, <2>2, <2>3
  <2>4. CASE Min(A) >= d
    <3>1. Min(A) \in B
      BY <2>1, <2>2, <2>4 DEF Newlines
    <3>2. Min(B) \in B /\ \A y \in B : Min(B) <= y
      BY <1>1, <3>1, SmallestNat
    <3>3. AfterNewline(d, n) = Min(B) + 1 /\ Min(B) \in Nat
      BY <1>1, <3>1, <3>2 DEF AfterNewline
    <3>4. Min(B) \in d .. d + n - 1 /\ text[Min(B)] = NL
      BY <3>2 DEF Newlines
    <3>5. CASE Min(B) < e + m
      <4>1. Min(B) \in A
        BY <3>3, <3>4, <3>5 DEF Newlines
      <4> QED
        BY <2>1, <2>2, <3>3, <4>1
    <3>6. CASE Min(B) >= e + m
      <4>1. Min(A) <= e + m - 1
        BY <2>1 DEF Newlines
      <4> QED
        BY <2>2, <3>3, <3>6, <4>1
    <3> QED
      BY <3>3, <3>5, <3>6
  <2> QED
    BY <2>2, <2>3, <2>4
<1> QED
  BY <1>3, <1>4
-----------------------------------------------------------------------------
(* Two chunks cut from counter values a chunk size apart do not overlap.    *)
LEMMA ChunksApart ==
  ASSUME total \in Nat, Lookahead <= ChunkSize,
         NEW s \in Nat, NEW d \in Nat, s + ChunkSize <= d, d < total
  PROVE  ChunkEnd(s) <= ChunkBegin(d)
<1> DEFINE e == s + ChunkSize
           m == AtMost(total - e, Lookahead)
           n == AtMost(total - d, ChunkSize)
<1>1. e \in Nat /\ e <= d /\ e < total /\ d # 0
  BY ChunkAllocatorAssumption
<1>2. m \in Nat /\ n \in Nat /\ e + m <= d + n
  BY <1>1, ChunkAllocatorAssumption DEF AtMost
<1>3. ChunkEnd(s) = AfterNewline(e, m)
  BY <1>1 DEF ChunkEnd, AtMost
<1>4. ChunkBegin(d) = AfterNewline(d, n)
  BY <1>1 DEF ChunkBegin
<1> HIDE DEF e, m, n
<1> QED
  BY <1>1, <1>2, <1>3, <1>4, WindowsMeet

LEMMA EdgesInFile ==
  ASSUME total \in Nat, NEW s \in Nat, s < total
  PROVE  ChunkBegin(s) \in Nat /\ ChunkEnd(s) \in Nat
<1>1. ChunkBegin(s) \in Nat
  <2>1. AtMost(total - s, ChunkSize) \in Nat
    BY ChunkAllocatorAssumption DEF AtMost
  <2> QED
    BY <2>1, AfterNewlineBounds DEF ChunkBegin
<1>2. ChunkEnd(s) \in Nat
  <2> DEFINE e == AtMost(s + ChunkSize, total)
  <2>1. e \in Nat
    BY ChunkAllocatorAssumption DEF AtMost
  <2>2. CASE e < total
    <3>1. AtMost(total - e, Lookahead) \in Nat
      BY <2>1, <2>2, ChunkAllocatorAssumption DEF AtMost
    <3>2. ChunkEnd(s) = AfterNewline(e, AtMost(total - e, Lookahead))
      BY <2>2 DEF ChunkEnd
    <3> QED
      BY <2>1, <3>1, <3>2, AfterNewlineBounds
  <2>3. CASE ~(e < total)
    BY <2>1, <2>3 DEF ChunkEnd
  <2> QED
    BY <2>2, <2>3
<1> QED
  BY <1>1, <1>2
-----------------------------------------------------------------------------
(* The part of the invariant that speaks of the chunks alone. *)
CutOK == TypeOK /\ CutInv

LEMMA InitCut == Init => CutOK
  BY DEF Init, CutOK, TypeOK, CutInv

(* A chunk record is its counter value and the edges cut from it. *)
LEMMA ChunkFields ==
  ASSUME NEW s PROVE Chunk(s).s = s /\ Chunk(s).begin = ChunkBegin(s) /\ Chunk(s).end = ChunkEnd(s)
  BY DEF Chunk

(* The file does not change while the workers run. *)
LEMMA FileFixed == ASSUME [Next]_vars PROVE UNCHANGED <<total, text>>
  BY DEF Next, Step, NextExhausted, NextGives, NextSkips, CallNext, Joined, vars, file

LEMMA SameCut ==
  ASSUME UNCHANGED <<total, text>>, NEW s
  PROVE  Chunk(s)' = Chunk(s)
  BY DEF Chunk, ChunkBegin, ChunkEnd, AfterNewline, Newlines

(* Steps that hand out nothing move the counter forward or leave it. *)
LEMMA NothingGiven ==
  ASSUME CutOK, UNCHANGED <<total, text, given, cur>>,
         next' = next \/ next' = next + ChunkSize,
         busy' = busy \/ \E w \in Workers, b \in {"next", "done"} : busy' = [busy EXCEPT ![w] = b]
  PROVE  CutOK'
<1>1. next' \in Nat /\ next <= next'
  BY ChunkAllocatorAssumption DEF CutOK, TypeOK
<1>2. TypeOK'
  BY <1>1 DEF CutOK, TypeOK
<1>3. \A c \in given' : c = Chunk(c.s)' /\ c.s < total' /\ c.s + ChunkSize <= next'
  <2> SUFFICES ASSUME NEW c \in given PROVE c = Chunk(c.s)' /\ c.s < total /\ c.s + ChunkSize <= next'
    OBVIOUS
  <2>1. c.s \in Nat /\ c = Chunk(c.s) /\ c.s < total /\ c.s + ChunkSize <= next
    BY DEF CutOK, TypeOK, CutInv
  <2>2. Chunk(c.s)' = Chunk(c.s)
    BY SameCut
  <2> QED
    BY <1>1, <2>1, <2>2, ChunkAllocatorAssumption DEF CutOK, TypeOK
<1>4. \A c, d \in given' : c.s < d.s => c.s + ChunkSize <= d.s
  BY DEF CutOK, CutInv
<1> QED
  BY <1>2, <1>3, <1>4 DEF CutOK, CutInv

LEMMA NextCut == CutOK /\ [Next]_vars => CutOK'
<1> SUFFICES ASSUME CutOK, [Next]_vars PROVE CutOK'
  OBVIOUS
<1>0. UNCHANGED <<total, text>> /\ total \in Nat /\ next \in Nat
  BY FileFixed, ChunkAllocatorAssumption DEF CutOK, TypeOK
<1>1. ASSUME NEW w \in Workers, NextGives(w) PROVE CutOK'
  <2> DEFINE c0 == Chunk(next)
  <2>1. /\ next < total /\ next' = next + ChunkSize /\ given' = given \cup {c0}
        /\ busy' = [busy EXCEPT ![w] = "chunk"]
        /\ cur' = [cur EXCEPT ![w] = [begin |-> ChunkBegin(next), end |-> ChunkEnd(next)]]
    BY <1>1 DEF NextGives
  <2>2. ChunkBegin(next) \in Nat /\ ChunkEnd(next) \in Nat
    BY <1>0, <2>1, EdgesInFile
  <2>3. c0 \in [s : Nat, begin : Nat, end : Nat] /\ c0.s = next
    BY <1>0, <2>2 DEF Chunk
  <2>4. TypeOK'
    BY <1>0, <2>1, <2>2, <2>3, ChunkAllocatorAssumption DEF CutOK, TypeOK
  <2> HIDE DEF c0
  <2>5. \A c \in given : c.s \in Nat /\ c.s + ChunkSize <= next /\ c.s < total /\ c = Chunk(c.s)
    BY DEF CutOK, TypeOK, CutInv
  <2>6. \A c \in given' : c.s \in Nat /\ c = Chunk(c.s) /\ c.s < total /\ c.s + ChunkSize <= next'
    BY <1>0, <2>1, <2>3, <2>5, ChunkAllocatorAssumption DEF c0
  <2>7. \A c \in given' : c = Chunk(c.s)'
    BY <1>0, <2>6, SameCut
  <2>8. \A c, d \in given' : c.s < d.s => c.s + ChunkSize <= d.s
    BY <1>0, <2>1, <2>3, <2>5, ChunkAllocatorAssumption DEF CutOK, CutInv
  <2>9. CutInv'
    BY <1>0, <2>6, <2>7, <2>8 DEF CutInv
  <2> QED
    BY <2>4, <2>9 DEF CutOK
<1>2. ASSUME NEW w \in Workers, NextExhausted(w) \/ NextSkips(w) \/ CallNext(w) PROVE CutOK'
  BY <1>0, <1>2, NothingGiven DEF NextExhausted, NextSkips, CallNext
<1>3. CASE Joined \/ UNCHANGED vars
  BY <1>0, <1>3, NothingGiven DEF Joined, vars
<1> QED
  BY <1>1, <1>2, <1>3 DEF Next, Step

-----------------------------------------------------------------------------
(* The counter only takes multiples of the chunk size. *)
LEMMA MultipleIs == ASSUME NEW x \in Nat PROVE Multiple(x) <=> \E k \in Nat : x = ChunkSize * k
<1>1. ASSUME NEW k \in Nat, x = ChunkSize * k PROVE k \in 0 .. x
  BY <1>1, ChunkAllocatorAssumption
<1> QED
  BY <1>1 DEF Multiple

LEMMA MultipleMod == ASSUME NEW x \in Nat, Multiple(x) PROVE x % ChunkSize = 0
  BY ChunkAllocatorAssumption DEF Multiple

LEMMA MultipleNext == ASSUME NEW x \in Nat, Multiple(x) PROVE Multiple(x + ChunkSize)
<1>1. PICK k \in Nat : x = ChunkSize * k
  BY MultipleIs
<1>2. x + ChunkSize = ChunkSize * (k + 1) /\ x + ChunkSize \in Nat
  BY <1>1, ChunkAllocatorAssumption
<1> QED
  BY <1>2, MultipleIs

LEMMA NoMultipleBetween ==
  ASSUME NEW x \in Nat, NEW y \in Nat, Multiple(x), Multiple(y), x <= y, y < x + ChunkSize
  PROVE  y = x
<1>1. PICK j \in Nat : x = ChunkSize * j
  BY MultipleIs
<1>2. PICK k \in Nat : y = ChunkSize * k
  BY MultipleIs
<1>3. CASE k >= j + 1
  <2>1. ChunkSize * k >= ChunkSize * (j + 1)
    BY <1>3, ChunkAllocatorAssumption
  <2> QED
    BY <1>1, <1>2, <2>1, ChunkAllocatorAssumption
<1>4. CASE k <= j
  <2>1. ChunkSize * k <= ChunkSize * j
    BY <1>4, ChunkAllocatorAssumption
  <2> QED
    BY <1>1, <1>2, <2>1
<1> QED
  BY <1>3, <1>4

LEMMA InitInv == Init => IInv
<1> SUFFICES ASSUME Init PROVE IInv
  OBVIOUS
<1>1. Multiple(0)
  BY MultipleIs, ChunkAllocatorAssumption
<1>2. FetchInv
  BY <1>1 DEF Init, FetchInv
<1> QED
  BY <1>2, InitCut DEF IInv, CutOK

(* What each step does to the counter, the chunks and the workers. *)
LEMMA StepEffect ==
  ASSUME TypeOK, [Next]_vars
  PROVE  \/ /\ UNCHANGED <<next, given>>
            /\ \A w \in Workers : busy'[w] = "done" => busy[w] = "done"
         \/ /\ next' = next + ChunkSize
            /\ \/ /\ UNCHANGED given
                  /\ next >= total
               \/ /\ given' = given \cup {Chunk(next)}
                  /\ \A w \in Workers : busy'[w] = "done" => busy[w] = "done"
               \/ /\ UNCHANGED <<given, busy>>
                  /\ ~(ChunkBegin(next) < ChunkEnd(next))
<1>1. ASSUME NEW w \in Workers, NextExhausted(w)
      PROVE  next' = next + ChunkSize /\ UNCHANGED given /\ next >= total
  BY <1>1 DEF NextExhausted
<1>2. ASSUME NEW w \in Workers, NextGives(w)
      PROVE  /\ next' = next + ChunkSize /\ given' = given \cup {Chunk(next)}
             /\ \A v \in Workers : busy'[v] = "done" => busy[v] = "done"
  BY <1>2 DEF NextGives, TypeOK
<1>3. ASSUME NEW w \in Workers, NextSkips(w)
      PROVE  /\ next' = next + ChunkSize /\ UNCHANGED <<given, busy>>
             /\ ~(ChunkBegin(next) < ChunkEnd(next))
  BY <1>3 DEF NextSkips
<1>4. ASSUME NEW w \in Workers, CallNext(w)
      PROVE  /\ UNCHANGED <<next, given>>
             /\ \A v \in Workers : busy'[v] = "done" => busy[v] = "done"
  BY <1>4 DEF CallNext, TypeOK
<1>5. CASE Joined \/ UNCHANGED vars
  BY <1>5 DEF Joined, vars
<1> QED
  BY <1>1, <1>2, <1>3, <1>4, <1>5 DEF Next, Step

LEMMA FetchNext == ASSUME IInv, [Next]_vars PROVE FetchInv'
<1>0. /\ TypeOK /\ CutOK /\ FetchInv /\ next \in Nat /\ total \in Nat /\ next' \in Nat /\ next <= next'
      /\ total' = total /\ \A s : Chunk(s)' = Chunk(s)
  <2>1. TypeOK /\ CutOK /\ FetchInv /\ next \in Nat /\ total \in Nat
    BY ChunkAllocatorAssumption DEF IInv, CutOK, TypeOK
  <2>2. UNCHANGED <<total, text>>
    BY FileFixed
  <2>3. next' \in Nat /\ next <= next'
    BY <2>1, StepEffect, ChunkAllocatorAssumption
  <2> QED
    BY <2>1, <2>2, <2>3, SameCut
<1>1. \A s : ChunkBegin(s)' = ChunkBegin(s) /\ ChunkEnd(s)' = ChunkEnd(s)
  BY FileFixed DEF ChunkBegin, ChunkEnd, AfterNewline, Newlines
<1>2. Multiple(next') /\ Multiple(next)
  BY <1>0, StepEffect, MultipleNext DEF FetchInv
<1>3. \A c \in given' : Multiple(c.s)
  BY <1>0, StepEffect, ChunkFields DEF FetchInv
<1>4. ASSUME NEW s \in 0 .. total - 1, Multiple(s), s < next'
      PROVE  Chunk(s) \in given' \/ ~(ChunkBegin(s) < ChunkEnd(s))
  <2>1. CASE s < next
    <3>1. Chunk(s) \in given \/ ~(ChunkBegin(s) < ChunkEnd(s))
      BY <1>0, <1>4, <2>1 DEF FetchInv
    <3> QED
      BY <1>0, <3>1, StepEffect
  <2>2. CASE s >= next
    <3>1. s = next
      BY <1>0, <1>2, <1>4, <2>2, StepEffect, NoMultipleBetween
    <3> QED
      BY <1>0, <1>4, <3>1, StepEffect
  <2> QED
    BY <1>0, <2>1, <2>2
<1>5. ASSUME NEW w \in Workers, busy'[w] = "done" PROVE next' >= total
  <2>1. CASE busy[w] = "done"
    BY <1>0, <2>1 DEF FetchInv
  <2>2. CASE busy[w] # "done"
    BY <1>0, <1>5, <2>2, StepEffect
  <2> QED
    BY <2>1, <2>2
<1>6. \A x : Multiple(x)' <=> Multiple(x)
  BY DEF Multiple
<1> QED
  BY <1>0, <1>1, <1>2, <1>3, <1>4, <1>5, <1>6 DEF FetchInv, Multiple

LEMMA NextInv == IInv /\ [Next]_vars => IInv'
  BY NextCut, FetchNext DEF IInv, CutOK

(* The chunks handed out are those of the counter values fetched, which lie *)
(* a chunk apart: IInv is an invariant of the allocator.                    *)
THEOREM ChunkInvariance == Spec => []IInv
<1> QED
  BY InitInv, NextInv, PTL DEF Spec

(* Counter values a chunk apart give chunks that do not overlap. *)
LEMMA CutDisjoint == IInv => Disjoint
<1> SUFFICES ASSUME IInv, Lookahead <= ChunkSize, NEW c \in given, NEW d \in given, c # d
             PROVE  c.end <= d.begin \/ d.end <= c.begin
  BY DEF Disjoint
<1>1. /\ c.s \in Nat /\ d.s \in Nat /\ total \in Nat
      /\ c = Chunk(c.s) /\ d = Chunk(d.s) /\ c.s < total /\ d.s < total
  BY ChunkAllocatorAssumption DEF IInv, TypeOK, CutInv
<1>2. c.s < d.s \/ d.s < c.s
  BY <1>1
<1>3. /\ c.begin = ChunkBegin(c.s) /\ c.end = ChunkEnd(c.s)
      /\ d.begin = ChunkBegin(d.s) /\ d.end = ChunkEnd(d.s)
  BY <1>1, ChunkFields
<1>4. CASE c.s < d.s
  BY <1>1, <1>3, <1>4, ChunksApart DEF IInv, CutInv
<1>5. CASE d.s < c.s
  BY <1>1, <1>3, <1>5, ChunksApart DEF IInv, CutInv
<1> QED
  BY <1>2, <1>4, <1>5

(* No two chunks overlap, for every file, number of workers, chunk size and *)
(* lookahead up to it (ChunkAllocator::next).                               *)
THEOREM DisjointChunks == Spec => []Disjoint
<1> QED
  BY CutDisjoint, ChunkInvariance, PTL
-----------------------------------------------------------------------------
(* A window with a newline ends behind a newline. *)
LEMMA EndsBehindNewline ==
  ASSUME NEW from \in Nat, NEW len \in Nat, Newlines(from, len) # {}
  PROVE  text[AfterNewline(from, len) - 1] = NL
<1>1. Newlines(from, len) \in SUBSET Nat
  BY DEF Newlines
<1>2. Min(Newlines(from, len)) \in Newlines(from, len)
  BY <1>1, SmallestNat
<1>3. AfterNewline(from, len) - 1 = Min(Newlines(from, len))
  BY <1>1, <1>2 DEF AfterNewline
<1> QED
  BY <1>2, <1>3 DEF Newlines

(* The newlines in reach are in both windows that the allocator searches.   *)
LEMMA ReachIs ==
  ASSUME total \in Nat, NEW e \in Nat, e # 0, e < total, Multiple(e),
         NEW limit \in {Lookahead, ChunkSize}
  PROVE  /\ e \in Borders
         /\ Reach(e) \in Nat /\ AtMost(total - e, limit) \in Nat
         /\ Reach(e) <= AtMost(total - e, limit) /\ AtMost(total - e, limit) <= total - e
<1>1. e % ChunkSize = 0 /\ e \in 1 .. total - 1
  BY MultipleMod
<1>2. e \in Borders
  BY <1>1 DEF Borders
<1> QED
  BY <1>2, ChunkAllocatorAssumption DEF Reach, AtMost

(* With short lines both edges at a border are cut behind a newline, if the *)
(* border does not lie inside an unterminated last line.                    *)
LEMMA CutsBehindNewline ==
  ASSUME ShortLines, LastLineWhole, total \in Nat, NEW e \in Nat, e # 0, e < total, Multiple(e),
         NEW limit \in {Lookahead, ChunkSize}
  PROVE  text[AfterNewline(e, AtMost(total - e, limit)) - 1] = NL
<1> DEFINE here == AtMost(total - e, limit)
<1>1. /\ e \in Borders /\ Reach(e) \in Nat /\ here \in Nat
      /\ Reach(e) <= here /\ here <= total - e
  BY ReachIs
<1>2. CASE Newlines(e, here) # {}
  BY <1>1, <1>2, EndsBehindNewline
<1>3. CASE Newlines(e, here) = {}
  <2>1. Newlines(e, Reach(e)) \subseteq Newlines(e, here)
    BY <1>1 DEF Newlines
  <2>2. Reach(e) = total - e
    BY <1>1, <1>3, <2>1 DEF ShortLines
  <2>3. here = total - e
    BY <1>1, <2>2
  <2>4. text[e - 1] = NL
    BY <1>1, <1>3, <2>3 DEF LastLineWhole
  <2>5. AfterNewline(e, here) = e
    BY <1>3 DEF AfterNewline
  <2> QED
    BY <2>4, <2>5
<1> QED
  BY <1>2, <1>3

(* Edges are cut behind newlines. *)
LEMMA CutAligned == IInv => LineAligned
<1> SUFFICES ASSUME IInv, ShortLines, LastLineWhole, NEW c \in given
             PROVE  /\ c.begin = 0 \/ text[c.begin - 1] = NL
                    /\ c.end = total \/ text[c.end - 1] = NL
  BY DEF LineAligned
<1>1. c.s \in Nat /\ total \in Nat /\ c.s < total /\ c = Chunk(c.s) /\ Multiple(c.s)
  BY ChunkAllocatorAssumption DEF IInv, TypeOK, CutInv, FetchInv
<1>2. c.begin = ChunkBegin(c.s) /\ c.end = ChunkEnd(c.s)
  BY <1>1, ChunkFields
<1>3. c.begin = 0 \/ text[c.begin - 1] = NL
  <2>1. CASE c.s = 0
    BY <1>2, <2>1 DEF ChunkBegin
  <2>2. CASE c.s # 0
    <3> DEFINE n == AtMost(total - c.s, ChunkSize)
    <3>1. c.begin = AfterNewline(c.s, n)
      BY <1>2, <2>2 DEF ChunkBegin
    <3> QED
      BY <1>1, <2>2, <3>1, CutsBehindNewline
  <2> QED
    BY <2>1, <2>2
<1>4. c.end = total \/ text[c.end - 1] = NL
  <2> DEFINE e == c.s + ChunkSize
  <2>1. e \in Nat /\ e # 0 /\ Multiple(e)
    BY <1>1, MultipleNext, ChunkAllocatorAssumption
  <2>2. CASE e < total
    <3> DEFINE n == AtMost(total - e, Lookahead)
    <3>1. c.end = AfterNewline(e, n)
      BY <1>2, <2>2 DEF ChunkEnd, AtMost
    <3> QED
      BY <1>1, <2>1, <2>2, <3>1, CutsBehindNewline
  <2>3. CASE ~(e < total)
    BY <1>1, <1>2, <2>3 DEF ChunkEnd, AtMost
  <2> QED
    BY <2>2, <2>3
<1> QED
  BY <1>3, <1>4

(* On a file of short lines, no border inside an unterminated last line,    *)
(* every chunk begins and ends at a line boundary, for every number of      *)
(* workers, chunk size and lookahead.                                       *)
THEOREM AlignedChunks == Spec => []LineAligned
<1> QED
  BY CutAligned, ChunkInvariance, PTL
-----------------------------------------------------------------------------
(* With short lines one chunk ends where the next one begins. *)
LEMMA NoGap ==
  ASSUME ShortLines, total \in Nat, NEW e \in Nat, e # 0, e < total, Multiple(e)
  PROVE  AfterNewline(e, AtMost(total - e, Lookahead)) = AfterNewline(e, AtMost(total - e, ChunkSize))
<1> DEFINE m == AtMost(total - e, Lookahead)
           n == AtMost(total - e, ChunkSize)
           l == Reach(e)
<1>1. e \in Borders /\ m \in Nat /\ n \in Nat /\ l \in Nat /\ l <= m /\ l <= n
  BY ReachIs
<1>2. m <= total - e /\ n <= total - e
  BY ReachIs
<1>3. Newlines(e, l) # {} \/ l = total - e
  BY <1>1 DEF ShortLines
<1> HIDE DEF m, n, l
<1>4. CASE l = total - e
  BY <1>1, <1>2, <1>4 DEF m, n
<1>5. CASE Newlines(e, l) # {}
  <2>1. ASSUME NEW k \in Nat, l <= k
        PROVE  Min(Newlines(e, k)) = Min(Newlines(e, l)) /\ Newlines(e, k) # {}
    <3>1. Newlines(e, l) \subseteq Newlines(e, k) /\ Newlines(e, k) \in SUBSET Nat
      BY <1>1, <2>1 DEF Newlines
    <3>2. Min(Newlines(e, l)) \in Newlines(e, l) /\ \A y \in Newlines(e, l) : Min(Newlines(e, l)) <= y
      BY <1>5, <3>1, SmallestNat
    <3>3. Min(Newlines(e, k)) \in Newlines(e, k) /\ \A y \in Newlines(e, k) : Min(Newlines(e, k)) <= y
      BY <1>5, <3>1, SmallestNat
    <3>4. Min(Newlines(e, k)) <= Min(Newlines(e, l)) /\ Min(Newlines(e, l)) < e + l
      BY <1>1, <3>1, <3>2, <3>3 DEF Newlines
    <3>5. Min(Newlines(e, k)) \in Newlines(e, l)
      BY <1>1, <2>1, <3>1, <3>2, <3>3, <3>4 DEF Newlines
    <3> QED
      BY <1>5, <3>1, <3>2, <3>3, <3>4, <3>5
  <2>2. AfterNewline(e, m) = AfterNewline(e, n)
    BY <1>1, <2>1 DEF AfterNewline
  <2> QED
    BY <2>2 DEF m, n
<1> QED
  BY <1>3, <1>4, <1>5

(* Every byte of a file of short lines lies in the chunk of some counter    *)
(* value inside the file.                                                   *)
LEMMA SomeChunk ==
  ASSUME ShortLines, total \in Nat, NEW i \in 0 .. total - 1
  PROVE  \E s \in 0 .. total - 1 : Multiple(s) /\ ChunkBegin(s) <= i /\ i < ChunkEnd(s)
<1> DEFINE Past == {k \in Nat : ChunkSize * k >= total \/ ChunkBegin(ChunkSize * k) > i}
           k0 == Min(Past) - 1
           s == ChunkSize * k0
<1>1. ChunkSize * total >= total /\ ChunkSize * 0 = 0
  BY ChunkAllocatorAssumption
<1>2. Min(Past) \in Past /\ \A y \in Past : Min(Past) <= y
  BY <1>1, SmallestNat
<1>3. 0 \notin Past
  BY <1>1 DEF ChunkBegin
<1>4. k0 \in Nat /\ k0 \notin Past
  BY <1>2, <1>3
<1>5. s \in Nat /\ s < total /\ ChunkBegin(s) \in Nat /\ ChunkBegin(s) <= i
  <2>1. s \in Nat
    BY <1>4, ChunkAllocatorAssumption
  <2>2. s < total /\ ~(ChunkBegin(s) > i)
    BY <1>4, <2>1
  <2> QED
    BY <2>1, <2>2, EdgesInFile
<1>6. Multiple(s)
  BY <1>4, <1>5, MultipleIs
<1>7. s + ChunkSize = ChunkSize * (k0 + 1) /\ s + ChunkSize \in Nat /\ k0 + 1 = Min(Past)
  BY <1>2, <1>4, ChunkAllocatorAssumption
<1>8. s + ChunkSize >= total \/ ChunkBegin(s + ChunkSize) > i
  BY <1>2, <1>7
<1> HIDE DEF s
<1>9. i < ChunkEnd(s)
  <2>1. CASE s + ChunkSize >= total
    BY <1>5, <1>7, <2>1 DEF ChunkEnd, AtMost
  <2>2. CASE s + ChunkSize < total
    <3> DEFINE e == s + ChunkSize
    <3>1. e \in Nat /\ e # 0 /\ Multiple(e)
      BY <1>5, <1>6, <1>7, MultipleNext, ChunkAllocatorAssumption
    <3>2. ChunkEnd(s) = AfterNewline(e, AtMost(total - e, Lookahead))
      BY <2>2 DEF ChunkEnd, AtMost
    <3>3. ChunkBegin(e) = AfterNewline(e, AtMost(total - e, ChunkSize))
      BY <3>1 DEF ChunkBegin
    <3>4. ChunkBegin(e) > i
      BY <1>8, <1>7, <2>2
    <3> QED
      BY <2>2, <3>1, <3>2, <3>3, <3>4, NoGap
  <2> QED
    BY <1>7, <2>1, <2>2
<1> QED
  BY <1>5, <1>6, <1>9

(* No byte lies between the chunks. *)
LEMMA CutCovered == IInv => Covered
<1> SUFFICES ASSUME IInv, ShortLines, AllDone, NEW i \in 0 .. total - 1
             PROVE  InChunks(i)
  BY DEF Covered
<1>1. total \in Nat /\ next \in Nat /\ next >= total
  <2>1. PICK w \in Workers : TRUE
    BY ChunkAllocatorAssumption
  <2> QED
    BY <2>1, ChunkAllocatorAssumption DEF IInv, TypeOK, FetchInv, AllDone
<1>2. PICK s \in 0 .. total - 1 : Multiple(s) /\ ChunkBegin(s) <= i /\ i < ChunkEnd(s)
  BY <1>1, SomeChunk
<1>3. ChunkBegin(s) \in Nat /\ ChunkEnd(s) \in Nat
  BY <1>1, EdgesInFile
<1>4. Chunk(s) \in given
  BY <1>1, <1>2, <1>3 DEF IInv, FetchInv
<1> QED
  BY <1>2, <1>4, ChunkFields DEF InChunks

(* When all workers have ended, the chunks of a file of short lines are the *)
(* whole file, for every number of workers, chunk size and lookahead.       *)
THEOREM CoveredFile == Spec => []Covered
<1> QED
  BY CutCovered, ChunkInvariance, PTL
-----------------------------------------------------------------------------
(* A chunk that was handed out. *)
LEMMA ChunkGiven ==
  ASSUME IInv, NEW c \in given
  PROVE  /\ c = Chunk(c.s) /\ c.s \in Nat /\ c.s < total /\ Multiple(c.s) /\ total \in Nat
         /\ c.begin = ChunkBegin(c.s) /\ c.end = ChunkEnd(c.s)
         /\ c.begin \in Nat /\ c.end \in Nat /\ c.end <= total
<1>1. c = Chunk(c.s) /\ c.s \in Nat /\ c.s < total /\ Multiple(c.s) /\ total \in Nat
  BY ChunkAllocatorAssumption DEF IInv, TypeOK, CutInv, FetchInv
<1>2. c.begin = ChunkBegin(c.s) /\ c.end = ChunkEnd(c.s)
  BY <1>1, ChunkFields
<1>3. c.begin \in Nat /\ c.end \in Nat
  BY <1>1, <1>2, EdgesInFile
<1>4. ChunkEnd(c.s) <= total
  <2>1. PICK e \in Nat : e = c.s + ChunkSize
    BY <1>1, ChunkAllocatorAssumption
  <2>2. CASE e < total
    <3>1. PICK n \in Nat : n = AtMost(total - e, Lookahead) /\ e + n <= total
      BY <1>1, <2>1, <2>2, ChunkAllocatorAssumption DEF AtMost
    <3>2. AfterNewline(e, n) \in Nat /\ AfterNewline(e, n) <= e + n
      BY AfterNewlineBounds
    <3>3. ChunkEnd(c.s) = AfterNewline(e, n)
      BY <2>1, <2>2, <3>1 DEF ChunkEnd, AtMost
    <3> QED
      BY <1>1, <3>1, <3>2, <3>3
  <2>3. CASE ~(e < total)
    BY <1>1, <2>1, <2>3 DEF ChunkEnd, AtMost
  <2> QED
    BY <2>2, <2>3
<1> QED
  BY <1>1, <1>2, <1>3, <1>4

(* Chunks cut a chunk size apart do not overlap, on a file of short lines   *)
(* for any lookahead.                                                       *)
LEMMA EdgesApart ==
  ASSUME Lookahead <= ChunkSize \/ ShortLines, total \in Nat, NEW a \in Nat, NEW b \in Nat,
         Multiple(a), a + ChunkSize <= b, b < total
  PROVE  ChunkEnd(a) <= ChunkBegin(b)
<1>1. CASE Lookahead <= ChunkSize
  BY <1>1, ChunksApart
<1>2. CASE ShortLines
  <2>1. PICK e \in Nat : e = a + ChunkSize /\ e # 0 /\ e <= b /\ e < total /\ Multiple(e)
    BY MultipleNext, ChunkAllocatorAssumption
  <2>2. ChunkEnd(a) = AfterNewline(e, AtMost(total - e, ChunkSize))
    BY <1>2, <2>1, NoGap DEF ChunkEnd, AtMost
  <2>3. ChunkBegin(b) = AfterNewline(b, AtMost(total - b, ChunkSize))
    BY <2>1 DEF ChunkBegin
  <2>4. PICK m \in Nat, n \in Nat : /\ m = AtMost(total - e, ChunkSize)
                                   /\ n = AtMost(total - b, ChunkSize) /\ e + m <= b + n
    BY <2>1, ChunkAllocatorAssumption DEF AtMost
  <2>5. AfterNewline(e, m) <= AfterNewline(b, n)
    BY <2>1, <2>4, WindowsMeet
  <2> QED
    BY <2>2, <2>3, <2>4, <2>5
<1> QED
  BY <1>1, <1>2

LEMMA CutApart ==
  ASSUME IInv, Lookahead <= ChunkSize \/ ShortLines, NEW c \in given, NEW d \in given, c # d
  PROVE  c.end <= d.begin \/ d.end <= c.begin
<1>1. ASSUME NEW a \in given, NEW b \in given, a.s < b.s PROVE a.end <= b.begin
  <2>1. /\ a.s \in Nat /\ b.s \in Nat /\ total \in Nat /\ Multiple(a.s) /\ b.s < total
        /\ a.end = ChunkEnd(a.s) /\ b.begin = ChunkBegin(b.s)
    BY ChunkGiven
  <2>2. a.s + ChunkSize <= b.s
    BY <1>1 DEF IInv, CutInv
  <2>3. ChunkEnd(a.s) <= ChunkBegin(b.s)
    BY <2>1, <2>2, EdgesApart
  <2> QED
    BY <2>1, <2>3
<1>2. c.s \in Nat /\ d.s \in Nat /\ c = Chunk(c.s) /\ d = Chunk(d.s)
  BY ChunkGiven
<1>3. c.s < d.s \/ d.s < c.s
  BY <1>2
<1> QED
  BY <1>1, <1>3

-----------------------------------------------------------------------------
(* The vector primitives compute what a byte loop would.                    *)

LEMMA Quotient ==
    ASSUME NEW n \in Nat, NEW w \in Nat \ {0}
    PROVE  n \div w \in Nat /\ (n \div w) * w <= n /\ n < (n \div w) * w + w
  OBVIOUS

LEMMA ProductsApart ==
    ASSUME NEW k \in Nat, NEW m \in Nat, NEW w \in Nat, k < m
    PROVE  k * w \in Nat /\ m * w \in Nat /\ k * w + w <= m * w
<1>1. k * w \in Nat /\ m * w \in Nat
  OBVIOUS
<1>2. PICK d \in Nat : m = k + 1 + d
  <2>1. m - k - 1 \in Nat /\ m = k + 1 + (m - k - 1)
    OBVIOUS
  <2> QED
    BY <2>1
<1>3. m * w = k * w + w + d * w /\ d * w \in Nat
  BY <1>2
<1> QED
  BY <1>1, <1>3

LEMMA MaskIs ==
    ASSUME NEW bytes, NEW p \in Nat, NEW S, NEW j
    PROVE  j \in Mask64(bytes, p, S) <=> j \in 0 .. Block - 1 /\ bytes[p + j] \in S
<1>1. Half \in Nat /\ Half + Half = Block
  BY SimdScanAssumption DEF Half
<1>2. CASE Avx512
  BY <1>2 DEF Mask64, Compare
<1>3. CASE ~Avx512
  <2>1. Mask64(bytes, p, S) = {i \in 0 .. Half - 1 : bytes[p + i] \in S}
                \cup {i + Half : i \in {i \in 0 .. Half - 1 : bytes[p + Half + i] \in S}}
    BY <1>3 DEF Mask64, Compare
  <2>2. ASSUME j \in Mask64(bytes, p, S) PROVE j \in 0 .. Block - 1 /\ bytes[p + j] \in S
    <3>1. CASE j \in 0 .. Half - 1 /\ bytes[p + j] \in S
      BY <1>1, <3>1
    <3>2. ASSUME NEW i \in 0 .. Half - 1, bytes[p + Half + i] \in S, j = i + Half
          PROVE  j \in 0 .. Block - 1 /\ bytes[p + j] \in S
      <4>1. p + Half + i = p + j
        BY <1>1, <3>2
      <4> QED
        BY <1>1, <3>2, <4>1
    <3> QED
      BY <2>1, <2>2, <3>1, <3>2
  <2>3. ASSUME j \in 0 .. Block - 1, bytes[p + j] \in S PROVE j \in Mask64(bytes, p, S)
    <3>1. CASE j < Half
      BY <1>1, <2>1, <2>3, <3>1
    <3>2. CASE ~(j < Half)
      <4>1. PICK i \in 0 .. Half - 1 : j = i + Half
        <5>1. j - Half \in 0 .. Half - 1 /\ j = (j - Half) + Half
          BY <1>1, <2>3, <3>2
        <5> QED
          BY <5>1
      <4>2. p + Half + i = p + j
        BY <1>1, <4>1
      <4> QED
        BY <2>1, <2>3, <4>1, <4>2
    <3> QED
      BY <3>1, <3>2
  <2> QED
    BY <2>2, <2>3
<1> QED
  BY <1>2, <1>3, SimdScanAssumption

(* f is the first offset of from .. to - 1 with a byte of S, or "to". *)
FirstIn(f, bytes, S, from, to) ==
    /\ f \in from .. to
    /\ \A i \in from .. f - 1 : bytes[i] \notin S
    /\ f < to => bytes[f] \in S

LEMMA FindByte ==
    ASSUME NEW bytes, NEW S, NEW from \in Nat, NEW to \in Nat, from <= to
    PROVE  FirstIn(find_byte(bytes, S, from, to), bytes, S, from, to)
<1> DEFINE width == IF Avx512 THEN Block ELSE Half
           whole == (to - from) \div width
           mask(k) == Compare(bytes, from + k * width, width, S)
           hits == {k \in 0 .. whole - 1 : mask(k) # {}}
           rest == {i \in from + whole * width .. to - 1 : bytes[i] \in S} \cup {to}
           f == find_byte(bytes, S, from, to)
<1>1. width \in Nat \ {0}
  BY SimdScanAssumption DEF Half
<1>2. f = IF hits # {} THEN from + Min(hits) * width + Min(mask(Min(hits))) ELSE Min(rest)
  BY DEF find_byte
<1>3. \A k, j : j \in mask(k) <=> j \in 0 .. width - 1 /\ bytes[from + k * width + j] \in S
  BY DEF Compare
<1>4. to - from \in Nat
  OBVIOUS
<1> HIDE DEF width
<1>5. whole \in Nat /\ whole * width <= to - from /\ whole * width \in Nat
  BY <1>1, <1>4, Quotient
<1>6. hits \in SUBSET Nat /\ \A k \in Nat : k < whole => (k \in hits <=> mask(k) # {})
  <2> HIDE DEF mask, whole
  <2> QED
    BY <1>5
<1>7. \A k : mask(k) \in SUBSET Nat
  BY <1>1, <1>3
<1>8. \A i \in rest : i \in Nat
  <2> HIDE DEF whole
  <2> QED
    BY <1>5
<1>9. \A i : i \in rest <=> i = to \/ (i \in from + whole * width .. to - 1 /\ bytes[i] \in S)
  OBVIOUS
<1>10. \A k \in hits : k < whole
  <2> HIDE DEF mask, whole
  <2> QED
    BY <1>5
<1> HIDE DEF whole, mask, hits, rest
(* Where byte i is among the registers. *)
<1>11. ASSUME NEW i \in from .. to - 1, i < from + whole * width
       PROVE  \E k \in Nat, j \in 0 .. width - 1 : k < whole /\ i = from + k * width + j /\ k * width \in Nat
  <2>1. i - from \in Nat
    OBVIOUS
  <2>2. PICK k \in Nat : k * width <= i - from /\ i - from < k * width + width
    BY <1>1, <2>1, Quotient
  <2>3. k * width \in Nat
    BY <1>1
  <2>4. k < whole
    <3> SUFFICES ASSUME whole <= k PROVE FALSE
      BY <1>5
    <3>1. whole * width <= k * width
      <4>1. CASE whole = k
        BY <4>1, <2>3
      <4>2. CASE whole < k
        BY <1>1, <1>5, <2>3, <4>2, ProductsApart
      <4> QED
        BY <1>5, <4>1, <4>2
    <3>2. PICK x \in Nat : x = whole * width
      BY <1>5
    <3>3. PICK y \in Nat : y = k * width
      BY <2>3
    <3> QED
      BY <1>11, <2>2, <3>1, <3>2, <3>3
  <2>5. PICK j \in 0 .. width - 1 : i = from + k * width + j
    <3>1. PICK y \in Nat : y = k * width
      BY <2>3
    <3>2. i - from - y \in 0 .. width - 1 /\ i = from + y + (i - from - y)
      BY <1>1, <2>2, <3>1
    <3> QED
      BY <3>1, <3>2
  <2> QED
    BY <2>3, <2>4, <2>5
<1>12. CASE hits # {}
  <2>1. PICK m \in hits : m = Min(hits) /\ \A y \in hits : m <= y
    BY <1>6, <1>12, SmallestNat
  <2>2. m \in Nat /\ m < whole /\ mask(m) # {}
    BY <1>6, <1>10, <2>1
  <2>3. PICK j \in mask(m) : j = Min(mask(m)) /\ \A y \in mask(m) : j <= y
    BY <1>7, <2>2, SmallestNat
  <2>4. j \in 0 .. width - 1 /\ bytes[from + m * width + j] \in S
    BY <1>3, <2>3
  <2>5. PICK a \in Nat : a = m * width
    BY <1>1, <2>2
  <2>6. f = from + a + j
    BY <1>2, <1>12, <2>1, <2>3, <2>5
  <2>7. a + width <= to - from
    <3>1. m * width + width <= whole * width
      BY <1>1, <1>5, <2>2, ProductsApart
    <3> QED
      BY <1>1, <1>5, <2>5, <3>1
  <2>8. f \in from .. to - 1 /\ bytes[f] \in S
    BY <1>1, <2>4, <2>5, <2>6, <2>7
  <2>9. ASSUME NEW i \in from .. f - 1, bytes[i] \in S PROVE FALSE
    <3>1. i \in from .. to - 1 /\ i < from + whole * width
      <4>1. PICK b \in Nat : b = whole * width
        BY <1>5
      <4>2. a + width <= b
        BY <1>1, <1>5, <2>2, <2>5, <4>1, ProductsApart
      <4> QED
        BY <1>1, <2>4, <2>6, <2>8, <4>1, <4>2
    <3>2. PICK k \in Nat, l \in 0 .. width - 1 :
              k < whole /\ i = from + k * width + l /\ k * width \in Nat
      BY <1>11, <3>1
    <3>3. l \in mask(k)
      BY <1>3, <2>9, <3>2
    <3>4. k \in hits /\ m <= k
      BY <1>6, <2>1, <3>2, <3>3
    <3>5. CASE k = m
      <4>1. j <= l
        BY <2>3, <3>3, <3>5
      <4> QED
        BY <1>1, <2>4, <2>5, <2>6, <3>2, <3>5, <4>1
    <3>6. CASE m < k
      <4>1. PICK b \in Nat : b = k * width
        BY <3>2
      <4>2. a + width <= b
        BY <1>1, <2>2, <2>5, <3>6, <4>1, ProductsApart
      <4> QED
        BY <1>1, <2>4, <2>6, <3>2, <4>1, <4>2
    <3> QED
      BY <2>2, <3>4, <3>5, <3>6
  <2> HIDE DEF f
  <2> QED
    BY <2>8, <2>9 DEF FirstIn, f
<1>13. CASE hits = {}
  <2>0. rest \in SUBSET Nat /\ rest # {}
    BY <1>8, <1>9
  <2>1. PICK m \in rest : m = Min(rest) /\ \A y \in rest : m <= y
    BY <2>0, SmallestNat
  <2>2. f = m
    BY <1>2, <1>13, <2>1
  <2>3. PICK a \in Nat : a = whole * width /\ a <= to - from
    BY <1>5
  <2>4. m \in from .. to /\ (m < to => bytes[m] \in S)
    BY <1>9, <2>3
  <2>5. ASSUME NEW i \in from .. m - 1, bytes[i] \in S PROVE FALSE
    <3>1. i \in from .. to - 1 /\ i \in Nat
      BY <2>4
    <3>2. CASE i < from + a
      <4>1. PICK k \in Nat, l \in 0 .. width - 1 :
              k < whole /\ i = from + k * width + l /\ k * width \in Nat
        BY <1>11, <2>3, <3>1, <3>2
      <4>2. l \in mask(k)
        BY <1>3, <2>5, <4>1
      <4> QED
        BY <1>6, <1>13, <4>1, <4>2
    <3>3. CASE ~(i < from + a)
      <4>1. i \in rest
        BY <1>9, <2>3, <2>5, <3>1, <3>3
      <4> QED
        BY <2>1, <2>4, <4>1
    <3> QED
      BY <3>2, <3>3
  <2> HIDE DEF f
  <2> QED
    BY <2>2, <2>4, <2>5 DEF FirstIn, f
<1> HIDE DEF f
<1> QED
  BY <1>12, <1>13 DEF f

LEMMA FirstOnly ==
    ASSUME NEW bytes, NEW S, NEW from \in Nat, NEW to \in Nat, NEW f, NEW g,
           FirstIn(f, bytes, S, from, to), FirstIn(g, bytes, S, from, to)
    PROVE  f = g
  BY DEF FirstIn

LEMMA NextZeroIs ==
    ASSUME NEW bytes, NEW p \in Nat, NEW zero, NEW j
    PROVE  j \in NextZero(bytes, p, zero) <=> j \in 0 .. Block - 1 /\ bytes[p + j + 1] = zero
<1> DEFINE z0 == Mask64(bytes, p, {zero})
           z1 == Mask64(bytes, p + 1, {zero})
           m0 == z0 \cup {i + 1 : i \in z1 \ {Block - 1}}
<1>0. Block \in Nat \ {0} /\ p + 1 \in Nat
  BY SimdScanAssumption
<1>1. \A i : i \in z0 <=> i \in 0 .. Block - 1 /\ bytes[p + i] = zero
  BY MaskIs
<1>2. \A i : i \in z1 <=> i \in 0 .. Block - 1 /\ bytes[p + i + 1] = zero
  <2>1. \A i : i \in z1 <=> i \in 0 .. Block - 1 /\ bytes[(p + 1) + i] = zero
    <3>1. PICK q \in Nat : q = p + 1
      BY <1>0
    <3>2. \A i : i \in Mask64(bytes, q, {zero}) <=> i \in 0 .. Block - 1 /\ bytes[q + i] \in {zero}
      BY MaskIs
    <3> QED
      BY <3>1, <3>2
  <2>2. \A i \in 0 .. Block - 1 : (p + 1) + i = p + i + 1
    BY <1>0
  <2> HIDE DEF z1
  <2> QED
    BY <2>1, <2>2
<1>3. NextZero(bytes, p, zero) = {i - 1 : i \in m0 \ {0}} \cup (z1 \cap {Block - 1})
  BY DEF NextZero
<1> HIDE DEF z0, z1
<1>4. ASSUME NEW i \in m0 \ {0} PROVE i - 1 \in 0 .. Block - 1 /\ bytes[p + (i - 1) + 1] = zero
  <2>1. CASE i \in z0
    <3>1. i \in 1 .. Block - 1 /\ p + (i - 1) + 1 = p + i
      BY <1>0, <1>1, <1>4, <2>1
    <3> QED
      BY <1>0, <1>1, <2>1, <3>1
  <2>2. ASSUME NEW k \in z1 \ {Block - 1}, i = k + 1
        PROVE i - 1 \in 0 .. Block - 1 /\ bytes[p + (i - 1) + 1] = zero
    <3>1. i - 1 = k /\ k \in 0 .. Block - 1
      BY <1>0, <1>2, <2>2
    <3> QED
      BY <1>2, <2>2, <3>1
  <2> QED
    BY <1>4, <2>1, <2>2
<1>5. ASSUME j \in 0 .. Block - 1, bytes[p + j + 1] = zero PROVE j \in NextZero(bytes, p, zero)
  <2>1. j \in z1
    BY <1>2, <1>5
  <2>2. CASE j = Block - 1
    BY <1>3, <2>1, <2>2
  <2>3. CASE j # Block - 1
    <3>1. j + 1 \in m0 \ {0} /\ j = (j + 1) - 1
      BY <1>5, <2>1, <2>3
    <3> HIDE DEF m0
    <3> QED
      BY <1>3, <3>1
  <2> QED
    BY <2>2, <2>3
<1>6. ASSUME j \in NextZero(bytes, p, zero) PROVE j \in 0 .. Block - 1 /\ bytes[p + j + 1] = zero
  <2> HIDE DEF m0
  <2> QED
    BY <1>2, <1>3, <1>4, <1>6
<1> QED
  BY <1>5, <1>6

(* The whole blocks of a chunk are the bytes up to the tail. *)
LEMMA Blocks ==
    ASSUME NEW begin \in Nat, NEW end \in Nat, NEW more \in {0, 1}, begin + more <= end
    PROVE  LET tail == TailFrom(begin, end, more)
           IN  /\ tail \in begin .. end - more
               /\ \A i \in begin .. tail - 1 : \E j \in 0 .. Block - 1 : i = BlockOf(begin, i) + j
               /\ \A i \in begin .. tail - 1 : /\ BlockOf(begin, i) \in begin .. tail
                                             /\ BlockOf(begin, i) + Block <= tail
<1> DEFINE tail == TailFrom(begin, end, more)
<1>0. Block \in Nat \ {0} /\ end - begin - more \in Nat
  BY SimdScanAssumption
<1>1. PICK K \in Nat : K = (end - begin - more) \div Block /\ K * Block <= end - begin - more
  BY <1>0, Quotient
<1>2. PICK a \in Nat : a = K * Block /\ tail = begin + a /\ a <= end - begin - more
  BY <1>0, <1>1 DEF TailFrom
<1> HIDE DEF tail
<1>3. ASSUME NEW i \in begin .. tail - 1
      PROVE  /\ \E j \in 0 .. Block - 1 : i = BlockOf(begin, i) + j
             /\ BlockOf(begin, i) \in begin .. tail /\ BlockOf(begin, i) + Block <= tail
  <2>0. i - begin \in Nat
    BY <1>2
  <2>1. PICK k \in Nat : k = (i - begin) \div Block /\ k * Block <= i - begin /\ i - begin < k * Block + Block
    BY <1>0, <2>0, Quotient
  <2>2. PICK b \in Nat : b = k * Block /\ BlockOf(begin, i) = begin + b
    BY <1>0, <2>1 DEF BlockOf
  <2>3. b + Block <= a
    <3> SUFFICES ASSUME K <= k PROVE FALSE
      BY <1>0, <1>2, <2>2, ProductsApart
    <3>1. a <= b
      <4>1. CASE K = k
        BY <1>2, <2>2, <4>1
      <4>2. CASE K < k
        BY <1>0, <1>2, <2>2, <4>2, ProductsApart
      <4> QED
        BY <4>1, <4>2
    <3> QED
      BY <1>2, <2>1, <2>2, <3>1
  <2>4. i - begin - b \in 0 .. Block - 1 /\ i = BlockOf(begin, i) + (i - begin - b)
    BY <1>0, <2>1, <2>2
  <2>5. BlockOf(begin, i) \in begin .. tail /\ BlockOf(begin, i) + Block <= tail
    BY <1>0, <1>2, <2>2, <2>3
  <2> QED
    BY <2>4, <2>5
<1>4. tail \in begin .. end - more
  BY <1>2
<1> QED
  BY <1>3, <1>4 DEF tail
-----------------------------------------------------------------------------
(* What the loops find in one chunk.                                        *)

(* s lists the records of R, one per offset. *)
Lists(s, R) ==
    /\ s \in Seq(R) /\ DistinctOffsets(s) /\ ToSet(s) = R

(* R has at most one record per offset of begin .. end - 1. *)
Spread(R, begin, end) ==
    /\ R \in SUBSET [offset : begin .. end - 1, len : Nat \ {0}]
    /\ \A x, y \in R : x.offset = y.offset => x = y

LEMMA SpreadFinite ==
    ASSUME NEW begin \in Nat, NEW end \in Nat, NEW R, Spread(R, begin, end)
    PROVE  IsFiniteSet(R)
<1> DEFINE f == [x \in R |-> x.offset]
<1>1. IsFiniteSet(begin .. end - 1)
  BY FS_Interval
<1>2. f \in Injection(R, begin .. end - 1)
  BY DEF Spread, Injection, IsInjective
<1> HIDE DEF f
<1> QED
  BY <1>1, <1>2, FS_Injection

LEMMA InOrderLists ==
    ASSUME NEW begin \in Nat, NEW end \in Nat, NEW R, Spread(R, begin, end)
    PROVE  Lists(InOrder(R), R)
<1> DEFINE s == SetToSeq(R)
           t == SortedByOffset(s)
<1>0. IsFiniteSet(R)
  BY SpreadFinite
<1>1. /\ s \in Seq(R) /\ \A x \in R : \E k \in 1 .. Len(s) : s[k] = x
      /\ \A k, l \in 1 .. Len(s) : s[k] = s[l] => k = l
  BY <1>0, ListedSet
<1>2. \A x \in R : x.offset \in Nat
  BY DEF Spread
<1> HIDE DEF s
<1>3. Len(s) \in Nat /\ \A k \in 1 .. Len(s) : s[k] \in R
  BY <1>1
<1>4. DistinctOffsets(s)
  BY <1>1, <1>3 DEF DistinctOffsets, Spread
<1>5. /\ t \in Seq(R) /\ Len(t) = Len(s)
      /\ \A j \in 1 .. Len(s) : \E k \in 1 .. Len(s) : t[k] = s[j]
      /\ \A k, l \in 1 .. Len(s) : k < l => t[k].offset < t[l].offset
  BY <1>1, <1>2, <1>4, SortRecords
<1>6. InOrder(R) = t
  BY DEF InOrder, s
<1> HIDE DEF t
<1>7. DOMAIN t = 1 .. Len(s) /\ \A k \in 1 .. Len(s) : t[k] \in R /\ t[k].offset \in Nat
  BY <1>2, <1>3, <1>5
<1>8. DistinctOffsets(t)
  <2> SUFFICES ASSUME NEW p \in 1 .. Len(s), NEW q \in 1 .. Len(s), t[p].offset = t[q].offset
               PROVE  p = q
    BY <1>5 DEF DistinctOffsets
  <2>0. PICK n \in Nat : n = t[p].offset /\ n = t[q].offset
    BY <1>7
  <2>1. ~(p < q) /\ ~(q < p)
    <3>1. ~(n < n)
      BY <2>0
    <3> QED
      BY <1>5, <2>0, <3>1
  <2> QED
    BY <1>3, <2>1
<1>9. ToSet(t) = R
  <2>1. \A x \in R : \E k \in 1 .. Len(s) : t[k] = x
    BY <1>1, <1>5
  <2> QED
    BY <1>7, <2>1 DEF ToSet
<1> QED
  BY <1>5, <1>6, <1>8, <1>9 DEF Lists

(* Records of bytes, none of them empty. *)
Filled(s) == \A k \in 1 .. Len(s) : s[k] \in Pieces

(* s lists records that stand for different offsets of begin .. end - 1. *)
Tidy(s, begin, end) ==
    /\ s \in Seq(Records) /\ DistinctOffsets(s)
    /\ \A k \in 1 .. Len(s) : s[k].offset \in begin .. end - 1

LEMMA ListsTidy ==
    ASSUME NEW begin \in Nat, NEW end \in Nat, NEW R, Spread(R, begin, end), NEW s, Lists(s, R)
    PROVE  Tidy(s, begin, end) /\ Filled(s)
<1>1. R \in SUBSET Records /\ \A r \in R : r.offset \in begin .. end - 1 /\ r \in Pieces
  BY DEF Spread, Records, Pieces
<1>2. s \in Seq(R) /\ DistinctOffsets(s) /\ \A k \in 1 .. Len(s) : s[k] \in R
  BY DEF Lists
<1>3. s \in Seq(Records)
  BY <1>1, <1>2
<1> QED
  BY <1>1, <1>2, <1>3 DEF Tidy, Filled

(* g_grep reports the line at l .. q - 1 of a chunk. *)
GrepHit(bytes, begin, end, l, q) ==
    /\ l \in begin .. end - 1 /\ (l = begin \/ bytes[l - 1] = NL)
    /\ FirstIn(q, bytes, {NL}, l, end) /\ HasNeedle(bytes, l, q)

GrepHits(s, bytes, begin, end) ==
    \A r : r \in ToSet(s) <=> \E l, q : GrepHit(bytes, begin, end, l, q) /\ r = Rec(l, q)

LEMMA GrepLists ==
    ASSUME NEW bytes, NEW size, NEW begin \in Nat, NEW end \in Nat
    PROVE  /\ Tidy(GrepScan(bytes, size, begin, end), begin, end)
           /\ Filled(GrepScan(bytes, size, begin, end))
           /\ GrepHits(GrepScan(bytes, size, begin, end), bytes, begin, end)
<1> DEFINE lines == {l \in begin .. end - 1 : l = begin \/ bytes[l - 1] = NL}
           stop(l) == find_byte(bytes, {NL}, l, end)
           R == {Rec(l, stop(l)) : l \in {k \in lines : HasNeedle(bytes, k, stop(k))}}
<1>1. GrepScan(bytes, size, begin, end) = InOrder(R)
  BY DEF GrepScan
<1>2. ASSUME NEW l \in begin .. end - 1
      PROVE  FirstIn(stop(l), bytes, {NL}, l, end) /\ stop(l) \in l .. end
  <2>1. l \in Nat /\ l <= end
    OBVIOUS
  <2>2. FirstIn(stop(l), bytes, {NL}, l, end)
    BY <2>1, FindByte
  <2> HIDE DEF stop
  <2> QED
    BY <2>2 DEF FirstIn
<1> HIDE DEF stop
<1>3. \A l \in begin .. end - 1 : \A q : FirstIn(q, bytes, {NL}, l, end) => q = stop(l)
  BY <1>2, FirstOnly
<1>4. Spread(R, begin, end)
  <2>1. ASSUME NEW l \in begin .. end - 1, HasNeedle(bytes, l, stop(l))
        PROVE  Rec(l, stop(l)) \in [offset : begin .. end - 1, len : Nat \ {0}]
    <3>1. stop(l) \in l .. end
      BY <1>2
    <3>2. stop(l) - l >= Len(Needle) /\ Len(Needle) \in Nat \ {0}
      <4>1. Len(Needle) \in Nat \ {0}
        BY GToolsAssumption
      <4>2. PICK i \in l .. stop(l) - Len(Needle) : TRUE
        BY <2>1 DEF HasNeedle
      <4> QED
        BY <3>1, <4>1, <4>2
    <3>3. stop(l) - l \in Nat \ {0}
      BY <3>1, <3>2
    <3> QED
      BY <3>3 DEF Rec
  <2>2. \A l : Rec(l, stop(l)).offset = l
    BY DEF Rec
  <2> QED
    BY <2>1, <2>2 DEF Spread
<1>5. ASSUME NEW r PROVE r \in R <=> \E l, q : GrepHit(bytes, begin, end, l, q) /\ r = Rec(l, q)
  <2>1. ASSUME r \in R PROVE \E l, q : GrepHit(bytes, begin, end, l, q) /\ r = Rec(l, q)
    BY <1>2, <2>1 DEF GrepHit
  <2>2. ASSUME NEW l, NEW q, GrepHit(bytes, begin, end, l, q), r = Rec(l, q) PROVE r \in R
    BY <1>3, <2>2 DEF GrepHit
  <2> QED
    BY <2>1, <2>2
<1> HIDE DEF R
<1>6. Lists(InOrder(R), R)
  BY <1>4, InOrderLists
<1>7. Tidy(InOrder(R), begin, end) /\ Filled(InOrder(R)) /\ ToSet(InOrder(R)) = R
  BY <1>4, <1>6, ListsTidy DEF Lists
<1> QED
  BY <1>1, <1>5, <1>7 DEF GrepHits

(* g_strings reports the run at i .. q - 1 of a chunk. *)
StringsHit(bytes, size, begin, end, i, q) ==
    /\ i \in begin .. end - 1 /\ bytes[i] \in Printable
    /\ i = begin \/ bytes[i - 1] \notin Printable
    /\ q \in i .. end /\ \A j \in i .. q - 1 : bytes[j] \in Printable
    /\ q < end => bytes[q] \notin Printable
    /\ Reported(bytes, i, q, MinLen) /\ (q < end \/ end = size)

StringsHits(s, bytes, size, begin, end) ==
    \A r : r \in ToSet(s) <=> \E i, q : StringsHit(bytes, size, begin, end, i, q) /\ r = Rec(i, q)

LEMMA StringsLists ==
    ASSUME NEW bytes, NEW size, NEW begin \in Nat, NEW end \in Nat, begin < end
    PROVE  /\ Tidy(StringsScan(bytes, size, begin, end), begin, end)
           /\ Filled(StringsScan(bytes, size, begin, end))
           /\ StringsHits(StringsScan(bytes, size, begin, end), bytes, size, begin, end)
<1> DEFINE tail == TailFrom(begin, end, 0)
           masks == UNION {{p + j : j \in Mask64(bytes, p, Printable)} :
                              p \in {BlockOf(begin, i) : i \in begin .. tail - 1}}
           printable == masks \cup {i \in tail .. end - 1 : bytes[i] \in Printable}
           starts == {i \in printable : i - 1 \notin printable}
           stop(i) == Min({j \in i .. end : j \notin printable})
           R == {Rec(i, stop(i)) : i \in {k \in starts :
                    Reported(bytes, k, stop(k), MinLen) /\ (stop(k) < end \/ end = size)}}
<1>1. StringsScan(bytes, size, begin, end) = InOrder(R)
  BY DEF StringsScan
<1>2. /\ tail \in begin .. end
      /\ \A i \in begin .. tail - 1 : \E j \in 0 .. Block - 1 : i = BlockOf(begin, i) + j
      /\ \A i \in begin .. tail - 1 : BlockOf(begin, i) \in begin .. tail /\ BlockOf(begin, i) + Block <= tail
  <2>1. end - 0 = end /\ begin + 0 <= end
    OBVIOUS
  <2> QED
    BY <2>1, Blocks
<1> HIDE DEF tail
<1>3. \A x : x \in masks <=> x \in begin .. tail - 1 /\ bytes[x] \in Printable
  <2>1. ASSUME NEW x \in masks PROVE x \in begin .. tail - 1 /\ bytes[x] \in Printable
    <3>1. PICK i \in begin .. tail - 1 : \E j \in Mask64(bytes, BlockOf(begin, i), Printable) :
                                            x = BlockOf(begin, i) + j
      OBVIOUS
    <3>2. PICK p \in Nat : p = BlockOf(begin, i) /\ p >= begin /\ p + Block <= tail
      BY <1>2
    <3>3. PICK j \in Mask64(bytes, p, Printable) : x = p + j
      BY <3>1, <3>2
    <3>4. j \in 0 .. Block - 1 /\ bytes[p + j] \in Printable
      BY MaskIs
    <3>5. Block \in Nat /\ tail \in Nat
      BY <1>2, SimdScanAssumption
    <3> HIDE DEF masks
    <3>6. x \in begin .. tail - 1
      BY <3>2, <3>3, <3>4, <3>5
    <3> QED
      BY <3>3, <3>4, <3>6
  <2>2. ASSUME NEW x \in begin .. tail - 1, bytes[x] \in Printable PROVE x \in masks
    <3>1. PICK p \in Nat, j \in 0 .. Block - 1 : p = BlockOf(begin, x) /\ x = p + j
      BY <1>2
    <3>2. j \in Mask64(bytes, p, Printable)
      BY <2>2, <3>1, MaskIs
    <3> QED
      BY <3>1, <3>2
  <2> HIDE DEF masks
  <2> QED
    BY <2>1, <2>2
<1> HIDE DEF masks
<1>4. \A x : x \in printable <=> x \in begin .. end - 1 /\ bytes[x] \in Printable
  BY <1>2, <1>3
<1> HIDE DEF printable
<1>5. ASSUME NEW i \in begin .. end - 1
      PROVE  /\ stop(i) \in i .. end /\ \A j \in i .. stop(i) - 1 : bytes[j] \in Printable
             /\ stop(i) < end => bytes[stop(i)] \notin Printable
  <2> DEFINE T == {j \in i .. end : j \notin printable}
  <2>1. end \in T /\ T \in SUBSET Nat
    BY <1>4
  <2>2. T # {}
    BY <2>1
  <2>3. PICK m \in T : m = Min(T) /\ \A y \in T : m <= y
    BY <2>1, <2>2, SmallestNat
  <2>4. m \in i .. end /\ m \notin printable
    OBVIOUS
  <2>5. \A j \in i .. m - 1 : j \in printable
    <3>1. \A j \in i .. m - 1 : j \in i .. end /\ ~(m <= j)
      BY <2>4
    <3>2. \A j \in i .. m - 1 : j \notin T
      <4> HIDE DEF T
      <4> QED
        BY <2>3, <3>1
    <3> QED
      BY <3>1, <3>2
  <2>6. stop(i) = m
    BY <2>3
  <2> HIDE DEF T, stop
  <2> QED
    BY <1>4, <2>4, <2>5, <2>6
<1> HIDE DEF stop
<1>6. ASSUME NEW i \in begin .. end - 1, NEW q \in i .. end, \A j \in i .. q - 1 : bytes[j] \in Printable,
             q < end => bytes[q] \notin Printable
      PROVE  q = stop(i)
  <2>1. ~(q < stop(i))
    BY <1>5, <1>6
  <2>2. ~(stop(i) < q)
    BY <1>5, <1>6
  <2> QED
    BY <1>5, <2>1, <2>2
<1>7. \A i : i \in starts <=> /\ i \in begin .. end - 1 /\ bytes[i] \in Printable
                              /\ i = begin \/ bytes[i - 1] \notin Printable
  <2>1. ASSUME NEW i \in begin .. end - 1
        PROVE  i - 1 \notin printable <=> i = begin \/ bytes[i - 1] \notin Printable
    <3>1. i # begin => i - 1 \in begin .. end - 1
      OBVIOUS
    <3>2. i = begin => i - 1 \notin begin .. end - 1
      OBVIOUS
    <3> QED
      BY <1>4, <3>1, <3>2
  <2> QED
    BY <1>4, <2>1
<1> HIDE DEF starts
<1>11. \A i \in starts : i \in begin .. end - 1
  BY <1>7
<1>8. Spread(R, begin, end)
  <2>1. ASSUME NEW i \in begin .. end - 1, Reported(bytes, i, stop(i), MinLen)
        PROVE  Rec(i, stop(i)) \in [offset : begin .. end - 1, len : Nat \ {0}]
    <3>1. stop(i) \in i .. end /\ stop(i) - i >= MinLen /\ MinLen \in Nat \ {0}
      BY <1>5, <2>1, GToolsAssumption DEF Reported
    <3>2. stop(i) - i \in Nat \ {0}
      BY <3>1
    <3> QED
      BY <3>2 DEF Rec
  <2>2. \A i : Rec(i, stop(i)).offset = i
    BY DEF Rec
  <2>3. ASSUME NEW x \in R
        PROVE  \E i \in begin .. end - 1 : x = Rec(i, stop(i)) /\ Reported(bytes, i, stop(i), MinLen)
    BY <1>11
  <2> HIDE DEF R
  <2>4. R \in SUBSET [offset : begin .. end - 1, len : Nat \ {0}]
    BY <2>1, <2>3
  <2>5. ASSUME NEW x \in R, NEW y \in R, x.offset = y.offset PROVE x = y
    BY <2>2, <2>3, <2>5
  <2> QED
    BY <2>4, <2>5 DEF Spread
<1>9. ASSUME NEW r PROVE r \in R <=> \E i, q : StringsHit(bytes, size, begin, end, i, q) /\ r = Rec(i, q)
  <2>1. ASSUME r \in R PROVE \E i, q : StringsHit(bytes, size, begin, end, i, q) /\ r = Rec(i, q)
    <3>1. PICK i \in starts : /\ r = Rec(i, stop(i)) /\ Reported(bytes, i, stop(i), MinLen)
                              /\ stop(i) < end \/ end = size
      BY <2>1
    <3>a. PICK q : q = stop(i)
      OBVIOUS
    <3>b. /\ q \in i .. end /\ \A j \in i .. q - 1 : bytes[j] \in Printable
          /\ q < end => bytes[q] \notin Printable
      BY <1>5, <1>11, <3>1, <3>a
    <3>2. StringsHit(bytes, size, begin, end, i, stop(i))
      BY <1>7, <3>1, <3>a, <3>b DEF StringsHit
    <3> QED
      BY <3>1, <3>2
  <2>2. ASSUME NEW i, NEW q, StringsHit(bytes, size, begin, end, i, q), r = Rec(i, q) PROVE r \in R
    <3>1. q = stop(i) /\ i \in starts
      BY <1>6, <1>7, <2>2 DEF StringsHit
    <3> QED
      BY <2>2, <3>1 DEF StringsHit
  <2> QED
    BY <2>1, <2>2
<1> HIDE DEF R
<1>10. Lists(InOrder(R), R)
  BY <1>8, InOrderLists
<1>12. Tidy(InOrder(R), begin, end) /\ Filled(InOrder(R)) /\ ToSet(InOrder(R)) = R
  BY <1>8, <1>10, ListsTidy DEF Lists
<1> QED
  BY <1>1, <1>9, <1>12 DEF StringsHits

(* g_unicode reports the run of characters at i .. q - 1 of a chunk that    *)
(* begins at an even offset.                                                *)
UnicodeHit(bytes, size, begin, end, i, q) ==
    /\ i \in begin .. end - 2 /\ Pair(bytes, i)
    /\ i < begin + 2 \/ ~Pair(bytes, i - 2)
    /\ q \in i + 1 .. end
    /\ \A k \in i .. q - 1 : k <= end - 2 /\ k % 2 = i % 2 => Pair(bytes, k)
    /\ q = end \/ (q <= end - 2 /\ q % 2 = i % 2 /\ ~Pair(bytes, q))
    /\ Reported(bytes, i, q, 2 * MinChars) /\ (q < end \/ end = size)

(* The masks and the tail of a chunk together show every character.         *)
LEMMA PairsSeen ==
    ASSUME NEW bytes, NEW begin \in Nat, NEW end \in Nat, begin < end, NEW x
    PROVE  LET tail == TailFrom(begin, end, 1)
               masks == UNION {{p + j : j \in Mask64(bytes, p, Printable) \cap NextZero(bytes, p, Zero)} :
                                  p \in {BlockOf(begin, i) : i \in begin .. tail - 1}}
               pairs == masks \cup {i \in tail .. end - 2 : Pair(bytes, i)}
           IN  x \in pairs <=> x \in begin .. end - 2 /\ Pair(bytes, x)
<1> DEFINE tail == TailFrom(begin, end, 1)
           both(p) == Mask64(bytes, p, Printable) \cap NextZero(bytes, p, Zero)
           masks == UNION {{p + j : j \in both(p)} : p \in {BlockOf(begin, i) : i \in begin .. tail - 1}}
<1>1. /\ tail \in begin .. end - 1
      /\ \A i \in begin .. tail - 1 : \E j \in 0 .. Block - 1 : i = BlockOf(begin, i) + j
      /\ \A i \in begin .. tail - 1 : BlockOf(begin, i) \in begin .. tail /\ BlockOf(begin, i) + Block <= tail
  BY Blocks
<1> HIDE DEF tail
<1>2. ASSUME NEW p \in Nat, NEW j
      PROVE  j \in both(p) <=> /\ j \in 0 .. Block - 1 /\ bytes[p + j] \in Printable
                               /\ bytes[p + j + 1] = Zero
  BY MaskIs, NextZeroIs
<1> HIDE DEF both
<1>3. ASSUME x \in masks PROVE x \in begin .. tail - 1 /\ Pair(bytes, x)
  <2>1. PICK i \in begin .. tail - 1 : \E j \in both(BlockOf(begin, i)) : x = BlockOf(begin, i) + j
    BY <1>3
  <2>2. PICK p \in Nat : p = BlockOf(begin, i) /\ p >= begin /\ p + Block <= tail
    BY <1>1
  <2>3. PICK j \in both(p) : x = p + j
    BY <2>1, <2>2
  <2>4. j \in 0 .. Block - 1 /\ bytes[p + j] \in Printable /\ bytes[p + j + 1] = Zero
    BY <1>2
  <2>5. Block \in Nat /\ tail \in Nat
    BY <1>1, SimdScanAssumption
  <2> HIDE DEF masks
  <2>6. x \in begin .. tail - 1
    BY <2>2, <2>3, <2>4, <2>5
  <2> QED
    BY <2>3, <2>4, <2>6 DEF Pair
<1>4. ASSUME x \in begin .. tail - 1, Pair(bytes, x) PROVE x \in masks
  <2>1. PICK p \in Nat, j \in 0 .. Block - 1 : p = BlockOf(begin, x) /\ x = p + j
    BY <1>1, <1>4
  <2>2. j \in both(p)
    BY <1>2, <1>4, <2>1 DEF Pair
  <2> QED
    BY <1>4, <2>1, <2>2
<1> HIDE DEF masks
<1>5. x \in masks \cup {i \in tail .. end - 2 : Pair(bytes, i)}
         <=> x \in begin .. end - 2 /\ Pair(bytes, x)
  BY <1>1, <1>3, <1>4
<1> QED
  BY <1>5 DEF masks, both, tail

UnicodeHits(s, bytes, size, begin, end) ==
    \A r : r \in ToSet(s) <=> \E i, q : UnicodeHit(bytes, size, begin, end, i, q) /\ r = Rec(i, q)

LEMMA UnicodeLists ==
    ASSUME NEW bytes, NEW size, NEW begin \in Nat, NEW end \in Nat, begin < end
    PROVE  /\ Tidy(UnicodeScan(bytes, size, begin, end), begin, end)
           /\ Filled(UnicodeScan(bytes, size, begin, end))
           /\ begin % 2 = 0 =>
                 UnicodeHits(UnicodeScan(bytes, size, begin, end), bytes, size, begin, end)
<1> DEFINE tail == TailFrom(begin, end, 1)
           detector(i) == IF i < tail THEN (i - begin) % 2 ELSE i % 2
           masks == UNION {{p + j : j \in Mask64(bytes, p, Printable) \cap NextZero(bytes, p, Zero)} :
                              p \in {BlockOf(begin, i) : i \in begin .. tail - 1}}
           pairs == masks \cup {i \in tail .. end - 2 : Pair(bytes, i)}
           seen(q) == {i \in begin .. end - 2 : detector(i) = q}
           before(i) == {j \in seen(detector(i)) : j < i}
           starts == {i \in pairs : before(i) = {} \/ Max(before(i)) \notin pairs}
           rest(i) == {j \in seen(detector(i)) \ pairs : j > i} \cup {end}
           stop(i) == Min(rest(i))
           R == {Rec(i, stop(i)) : i \in {k \in starts :
                    /\ Reported(bytes, k, stop(k), 2 * MinChars)
                    /\ stop(k) < end \/ end = size}}
<1>1. UnicodeScan(bytes, size, begin, end) = InOrder(R)
  BY DEF UnicodeScan
<1>2. \A x : x \in pairs <=> x \in begin .. end - 2 /\ Pair(bytes, x)
  BY PairsSeen
<1> HIDE DEF pairs
<1>3. tail \in Nat
  <2>1. tail \in begin .. end - 1
    BY Blocks
  <2> QED
    BY <2>1
<1> HIDE DEF tail
<1>4. ASSUME begin % 2 = 0, NEW i \in begin .. end PROVE detector(i) = i % 2
  BY <1>3, <1>4
<1> HIDE DEF detector
<1>5. ASSUME NEW i \in begin .. end - 2
      PROVE  stop(i) \in rest(i) /\ stop(i) \in i + 1 .. end /\ \A y \in rest(i) : stop(i) <= y
  <2>1. rest(i) \in SUBSET Nat /\ rest(i) # {} /\ \A y \in rest(i) : y \in i + 1 .. end
    OBVIOUS
  <2> HIDE DEF rest
  <2>2. PICK m \in rest(i) : m = stop(i) /\ \A y \in rest(i) : m <= y
    BY <2>1, SmallestNat
  <2> QED
    BY <2>1, <2>2
<1>6. starts \in SUBSET (begin .. end - 2)
  BY <1>2
<1>7. Spread(R, begin, end)
  <2> HIDE DEF starts, stop
  <2>1. ASSUME NEW x \in R PROVE \E i \in begin .. end - 2 : x = Rec(i, stop(i))
    BY <1>6
  <2> HIDE DEF R
  <2>2. ASSUME NEW i \in begin .. end - 2
        PROVE  /\ Rec(i, stop(i)) \in [offset : begin .. end - 1, len : Nat \ {0}]
               /\ Rec(i, stop(i)).offset = i
    <3>1. stop(i) \in i + 1 .. end
      BY <1>5
    <3>2. stop(i) - i \in Nat \ {0}
      BY <3>1
    <3> QED
      BY <3>2 DEF Rec
  <2>3. R \in SUBSET [offset : begin .. end - 1, len : Nat \ {0}]
    BY <2>1, <2>2
  <2>4. ASSUME NEW x \in R, NEW y \in R, x.offset = y.offset PROVE x = y
    BY <2>1, <2>2, <2>4
  <2> QED
    BY <2>3, <2>4 DEF Spread
<1>8. Lists(InOrder(R), R)
  <2> HIDE DEF R
  <2> QED
    BY <1>7, InOrderLists
<1>9. ASSUME begin % 2 = 0, NEW r
      PROVE  r \in R <=> \E i, q : UnicodeHit(bytes, size, begin, end, i, q) /\ r = Rec(i, q)
  <2>1. \A i \in begin .. end - 2 : \A j :
            j \in seen(detector(i)) <=> j \in begin .. end - 2 /\ j % 2 = i % 2
    <3>1. \A i \in begin .. end - 2 : i \in begin .. end
      OBVIOUS
    <3> QED
      BY <1>4, <1>9, <3>1
  <2>2. ASSUME NEW i \in begin .. end - 2
        PROVE  i \in starts <=> Pair(bytes, i) /\ (i < begin + 2 \/ ~Pair(bytes, i - 2))
    <3>1. \A j : j \in before(i) <=> j \in begin .. i - 1 /\ j % 2 = i % 2
      <4> HIDE DEF seen
      <4> QED
        BY <2>1
    <3> HIDE DEF before
    <3>2. CASE i < begin + 2
      <4>1. before(i) = {}
        <5>1. ASSUME NEW j \in begin .. i - 1 PROVE j % 2 # i % 2
          <6>1. j = i - 1
            BY <3>2
          <6> QED
            BY <6>1
        <5> QED
          BY <3>1, <5>1
      <4> QED
        BY <1>2, <3>2, <4>1
    <3>3. CASE ~(i < begin + 2)
      <4>1. i - 2 \in before(i)
        BY <3>1, <3>3
      <4>2. \A j \in before(i) : j <= i - 2 /\ j \in Int
        <5>1. ASSUME NEW j \in begin .. i - 1, j % 2 = i % 2 PROVE j <= i - 2
          <6>1. j # i - 1
            BY <5>1
          <6> QED
            BY <6>1
        <5> QED
          BY <3>1, <5>1
      <4>3. Max(before(i)) = i - 2
        <5>1. \E x \in before(i) : \A y \in before(i) : x >= y
          BY <4>1, <4>2
        <5>2. Max(before(i)) \in before(i) /\ \A y \in before(i) : Max(before(i)) >= y
          BY <5>1, Zenon DEF Max
        <5> QED
          BY <4>1, <4>2, <5>2
      <4>4. i - 2 \in begin .. end - 2
        BY <3>3
      <4> QED
        BY <1>2, <3>3, <4>1, <4>3, <4>4
    <3> QED
      BY <3>2, <3>3
  <2>3. ASSUME NEW i \in begin .. end - 2, NEW j
        PROVE  j \in rest(i) <=> \/ j = end
                                 \/ j \in i + 1 .. end - 2 /\ j % 2 = i % 2 /\ ~Pair(bytes, j)
    <3>1. j \in seen(detector(i)) <=> j \in begin .. end - 2 /\ j % 2 = i % 2
      BY <2>1
    <3> HIDE DEF seen
    <3>2. j \in rest(i) <=> j = end \/ (j \in seen(detector(i)) /\ j \notin pairs /\ j > i)
      OBVIOUS
    <3> HIDE DEF rest
    <3>3. j \in begin .. end - 2 /\ j > i <=> j \in i + 1 .. end - 2
      OBVIOUS
    <3> QED
      BY <1>2, <3>1, <3>2, <3>3
  <2> HIDE DEF starts, stop, rest
  <2>4. ASSUME r \in R PROVE \E i, q : UnicodeHit(bytes, size, begin, end, i, q) /\ r = Rec(i, q)
    <3>1. PICK i \in starts : /\ r = Rec(i, stop(i)) /\ Reported(bytes, i, stop(i), 2 * MinChars)
                              /\ stop(i) < end \/ end = size
      BY <2>4
    <3>2. i \in begin .. end - 2 /\ Pair(bytes, i) /\ (i < begin + 2 \/ ~Pair(bytes, i - 2))
      BY <1>6, <2>2
    <3>3. PICK q : q = stop(i)
      OBVIOUS
    <3>4. q \in i + 1 .. end /\ q \in rest(i) /\ \A y \in rest(i) : q <= y
      BY <1>5, <3>2, <3>3
    <3>5. ASSUME NEW k \in i .. q - 1, k <= end - 2, k % 2 = i % 2 PROVE Pair(bytes, k)
      <4>1. CASE k = i
        BY <3>2, <4>1
      <4>2. CASE k # i
        <5>1. k \in i + 1 .. end - 2 /\ ~(q <= k)
          BY <3>2, <3>4, <3>5, <4>2
        <5> QED
          BY <2>3, <3>2, <3>4, <3>5, <5>1
      <4> QED
        BY <4>1, <4>2
    <3>6. q = end \/ (q <= end - 2 /\ q % 2 = i % 2 /\ ~Pair(bytes, q))
      BY <2>3, <3>2, <3>4
    <3>7. UnicodeHit(bytes, size, begin, end, i, q)
      BY <3>1, <3>2, <3>3, <3>4, <3>5, <3>6 DEF UnicodeHit
    <3> QED
      BY <3>1, <3>3, <3>7
  <2>5. ASSUME NEW i, NEW q, UnicodeHit(bytes, size, begin, end, i, q), r = Rec(i, q) PROVE r \in R
    <3>1. i \in begin .. end - 2 /\ i \in starts
      BY <2>2, <2>5 DEF UnicodeHit
    <3>2. PICK s : s = stop(i)
      OBVIOUS
    <3>3. s \in i + 1 .. end /\ s \in rest(i) /\ \A y \in rest(i) : s <= y
      BY <1>5, <3>1, <3>2
    <3>4. q \in rest(i) /\ q \in i + 1 .. end
      BY <2>3, <2>5, <3>1 DEF UnicodeHit
    <3>5. ~(s < q)
      <4> SUFFICES ASSUME s < q PROVE FALSE
        OBVIOUS
      <4>1. s # end /\ s \in i .. q - 1
        BY <3>1, <3>3, <3>4
      <4>2. s <= end - 2 /\ s % 2 = i % 2 /\ ~Pair(bytes, s)
        BY <2>3, <3>1, <3>3, <4>1
      <4> QED
        BY <2>5, <4>1, <4>2 DEF UnicodeHit
    <3>6. q = stop(i)
      BY <3>1, <3>2, <3>3, <3>4, <3>5
    <3> QED
      BY <2>5, <3>1, <3>6 DEF UnicodeHit
  <2> QED
    BY <2>4, <2>5
<1> HIDE DEF R
<1>10. Tidy(InOrder(R), begin, end) /\ Filled(InOrder(R)) /\ ToSet(InOrder(R)) = R
  BY <1>7, <1>8, ListsTidy DEF Lists
<1> QED
  BY <1>1, <1>9, <1>10 DEF UnicodeHits

(* g_hist increments for every byte of a chunk. *)
HistHits(s, bytes, begin, end) ==
    \A r : r \in ToSet(s) <=> \E i \in begin .. end - 1 : r = [offset |-> i, byte |-> bytes[i]]

LEMMA HistTidy ==
    ASSUME NEW bytes, NEW size, NEW begin \in Nat, NEW end \in Nat, begin < end,
           \A i \in begin .. end - 1 : bytes[i] \in Bytes
    PROVE  /\ Tidy(HistScan(bytes, size, begin, end), begin, end)
           /\ HistHits(HistScan(bytes, size, begin, end), bytes, begin, end)
<1> DEFINE s == HistScan(bytes, size, begin, end)
           n == end - begin
           rec(i) == [offset |-> i, byte |-> bytes[i]]
<1>0. n \in Nat
  OBVIOUS
<1>1. s = [i \in 1 .. n |-> rec(begin + i - 1)]
  BY DEF HistScan
<1>2. \A i \in begin .. end - 1 : rec(i) \in Records /\ rec(i).offset = i
  BY DEF Records
<1>3. \A i \in 1 .. n : begin + i - 1 \in begin .. end - 1
  OBVIOUS
<1> HIDE DEF s, rec
<1>4. \A i \in 1 .. n : s[i] = rec(begin + i - 1) /\ s[i] \in Records /\ s[i].offset = begin + i - 1
  BY <1>1, <1>2, <1>3
<1>5. s \in Seq(Records) /\ Len(s) = n /\ DOMAIN s = 1 .. n
  <2> HIDE DEF n
  <2>1. DOMAIN s = 1 .. n /\ s = [i \in 1 .. n |-> s[i]]
    BY <1>1
  <2> QED
    BY <1>0, <1>4, <2>1
<1>6. \A i, j \in 1 .. n : s[i].offset = s[j].offset => i = j
  BY <1>4
<1>7. Tidy(s, begin, end)
  BY <1>3, <1>4, <1>5, <1>6 DEF Tidy, DistinctOffsets
<1>8. ASSUME NEW i \in begin .. end - 1 PROVE rec(i) \in ToSet(s)
  <2>1. i - begin + 1 \in 1 .. n /\ begin + (i - begin + 1) - 1 = i
    OBVIOUS
  <2>2. s[i - begin + 1] = rec(i)
    BY <1>4, <2>1
  <2> QED
    BY <1>5, <2>1, <2>2 DEF ToSet
<1>9. ASSUME NEW r, r \in ToSet(s) PROVE \E i \in begin .. end - 1 : r = rec(i)
  BY <1>3, <1>4, <1>5, <1>9 DEF ToSet
<1> QED
  BY <1>7, <1>8, <1>9 DEF s, rec, HistHits

LEMMA ScanTidy ==
    ASSUME NEW t \in Tools, NEW bytes, NEW size, NEW begin \in Nat, NEW end \in Nat, begin < end,
           \A i \in begin .. end - 1 : bytes[i] \in Bytes
    PROVE  /\ Tidy(Scan(t, bytes, size, begin, end), begin, end)
           /\ t # "hist" => Filled(Scan(t, bytes, size, begin, end))
<1>1. CASE t = "grep"
  <2>1. Tidy(GrepScan(bytes, size, begin, end), begin, end) /\ Filled(GrepScan(bytes, size, begin, end))
    BY GrepLists
  <2> QED
    BY <1>1, <2>1 DEF Scan
<1>2. CASE t = "strings"
  <2>1. Tidy(StringsScan(bytes, size, begin, end), begin, end) /\ Filled(StringsScan(bytes, size, begin, end))
    BY StringsLists
  <2> QED
    BY <1>2, <2>1 DEF Scan
<1>3. CASE t = "hist"
  <2>1. Tidy(HistScan(bytes, size, begin, end), begin, end)
    BY HistTidy
  <2> QED
    BY <1>3, <2>1 DEF Scan
<1>4. CASE t = "unicode"
  <2>1. Tidy(UnicodeScan(bytes, size, begin, end), begin, end) /\ Filled(UnicodeScan(bytes, size, begin, end))
    BY UnicodeLists
  <2> QED
    BY <1>4, <2>1 DEF Scan
<1> QED
  BY <1>1, <1>2, <1>3, <1>4 DEF Tools
-----------------------------------------------------------------------------
(* Arenas.                                                                  *)

(* What was stored is part of what was found, in the same order. *)
LEMMA SelectKeeps ==
    ASSUME NEW S, NEW s \in Seq(S), NEW I \in SUBSET DOMAIN s
    PROVE  /\ Select(s, I) \in Seq(S)
           /\ \A i \in 1 .. Len(Select(s, I)) : \E k \in I : Select(s, I)[i] = s[k]
           /\ \A k \in I : \E i \in 1 .. Len(Select(s, I)) : Select(s, I)[i] = s[k]
           /\ DistinctOffsets(s) => DistinctOffsets(Select(s, I))
<1> DEFINE o == Ordered(I)
           t == Select(s, I)
<1>1. DOMAIN s = 1 .. Len(s) /\ Len(s) \in Nat /\ I \in SUBSET Nat /\ I \in SUBSET (1 .. Len(s))
  OBVIOUS
<1>2. IsFiniteSet(I)
  BY <1>1, UpTo, FS_Subset
<1>3. Enumerates(o, I)
  BY <1>1, <1>2, OrderedSet
<1>4. t = [i \in 1 .. Len(o) |-> s[o[i]]]
  BY DEF Select
<1> HIDE DEF o, t
<1>5. Len(o) \in Nat /\ \A i \in 1 .. Len(o) : o[i] \in I
  BY <1>3 DEF Enumerates
<1>6. t \in Seq(S) /\ Len(t) = Len(o) /\ \A i \in 1 .. Len(o) : t[i] = s[o[i]]
  BY <1>1, <1>4, <1>5
<1>7. ASSUME DistinctOffsets(s) PROVE DistinctOffsets(t)
  <2> SUFFICES ASSUME NEW p \in 1 .. Len(o), NEW q \in 1 .. Len(o), t[p].offset = t[q].offset
               PROVE  p = q
    BY <1>6 DEF DistinctOffsets
  <2>1. PICK x \in Nat : x = o[p] /\ x \in 1 .. Len(s)
    BY <1>1, <1>5
  <2>2. PICK y \in Nat : y = o[q] /\ y \in 1 .. Len(s)
    BY <1>1, <1>5
  <2>3. x = y
    BY <1>6, <1>7, <2>1, <2>2 DEF DistinctOffsets
  <2>4. ~(x < y) /\ ~(y < x)
    BY <2>3
  <2>5. ~(p < q) /\ ~(q < p)
    BY <1>3, <2>1, <2>2, <2>4 DEF Enumerates
  <2> QED
    BY <1>5, <2>5
<1>8. \A k \in I : \E i \in 1 .. Len(t) : t[i] = s[k]
  BY <1>3, <1>6 DEF Enumerates
<1>9. \A i \in 1 .. Len(t) : \E k \in I : t[i] = s[k]
  BY <1>5, <1>6
<1> QED
  BY <1>6, <1>7, <1>8, <1>9 DEF t

(* The number of records of a tidy sequence. *)
LEMMA TidyCount ==
    ASSUME NEW s, Len(s) \in Nat, DOMAIN s = 1 .. Len(s), DistinctOffsets(s)
    PROVE  IsFiniteSet(ToSet(s)) /\ Cardinality(ToSet(s)) = Len(s)
<1>1. IsFiniteSet(1 .. Len(s)) /\ Cardinality(1 .. Len(s)) = Len(s)
  BY UpTo
<1> DEFINE f == [k \in 1 .. Len(s) |-> s[k]]
<1>2. f \in Bijection(1 .. Len(s), ToSet(s))
  <2>1. f \in [1 .. Len(s) -> ToSet(s)] /\ IsInjective(f)
    BY DEF ToSet, IsInjective, DistinctOffsets
  <2>2. \A x \in ToSet(s) : \E k \in 1 .. Len(s) : f[k] = x
    BY DEF ToSet
  <2> HIDE DEF f
  <2> QED
    BY <2>1, <2>2 DEF Bijection, Injection, Surjection
<1>3. ExistsBijection(1 .. Len(s), ToSet(s))
  BY <1>2 DEF ExistsBijection
<1> QED
  BY <1>1, <1>3, FS_Bijection

Arenas == [Workers -> [recs : Seq(Records), count : Nat]]

LEMMA CountSumType == ASSUME NEW o \in Arenas PROVE CountSum(o) \in Nat
<1>1. IsFiniteSet(Workers) /\ Workers # {}
  BY PipelineAssumption, ChunkAllocatorAssumption
<1>2. PICK w \in Workers : TRUE
  BY <1>1
<1>3. \A v \in Workers : o[v].count \in Nat
  BY DEF Arenas
<1>4. \A v \in Workers : o[v].count = IF v = w THEN o[v].count + 0 ELSE o[v].count
  BY <1>3
<1>5. SumOf(o, Workers) \in Nat
  BY <1>1, <1>3, <1>4, SumOfGrows DEF Adds
<1> QED
  BY <1>5 DEF CountSum, SumOf

Appends(u, o, w, recs, stored) ==
    u = [o EXCEPT ![w] = [recs  |-> @.recs \o Select(recs, stored), count |-> @.count + Len(recs)]]

LEMMA AppendsType ==
    ASSUME NEW o \in Arenas, NEW w \in Workers, NEW recs \in Seq(Records),
           NEW stored \in SUBSET DOMAIN recs, NEW u, Appends(u, o, w, recs, stored)
    PROVE  u \in Arenas
<1>1. PICK t \in Seq(Records) : t = Select(recs, stored)
  BY SelectKeeps
<1>2. o[w].recs \in Seq(Records) /\ o[w].count + Len(recs) \in Nat
  BY DEF Arenas
<1>3. PICK a \in Seq(Records) : a = o[w].recs \o t
  BY <1>2, Concatenation
<1>4. u = [v \in Workers |-> u[v]] /\ \A v \in Workers : v # w => u[v] = o[v]
  BY DEF Arenas, Appends
<1>5. u[w] = [recs |-> a, count |-> o[w].count + Len(recs)]
  BY <1>1, <1>3 DEF Arenas, Appends
<1>6. [recs |-> a, count |-> o[w].count + Len(recs)] \in [recs : Seq(Records), count : Nat]
  BY <1>2
<1>7. \A v \in Workers : o[v] \in [recs : Seq(Records), count : Nat]
  BY DEF Arenas
<1>8. \A v \in Workers : u[v] \in [recs : Seq(Records), count : Nat]
  <2> SUFFICES ASSUME NEW v \in Workers PROVE u[v] \in [recs : Seq(Records), count : Nat]
    OBVIOUS
  <2>1. CASE v = w
    BY <1>5, <1>6, <2>1
  <2>2. CASE v # w
    BY <1>4, <1>7, <2>2
  <2> QED
    BY <2>1, <2>2
<1> QED
  BY <1>4, <1>8 DEF Arenas

(* A worker appends what it found in a chunk of its own. *)
LEMMA HoldingGrows ==
    ASSUME NEW o \in Arenas, NEW F, NEW lossy, Holding(o, F, lossy), NEW w \in Workers,
           NEW recs \in Seq(Records), DistinctOffsets(recs),
           \A k \in 1 .. Len(recs) : \A r \in F : r.offset # recs[k].offset,
           NEW stored \in SUBSET DOMAIN recs, lossy \/ stored = DOMAIN recs,
           NEW u, Appends(u, o, w, recs, stored)
    PROVE  Holding(u, F \cup ToSet(recs), lossy)
<1>1. PICK t \in Seq(Records) :
         /\ t = Select(recs, stored) /\ DistinctOffsets(t)
         /\ \A i \in 1 .. Len(t) : \E k \in stored : t[i] = recs[k]
         /\ \A k \in stored : \E i \in 1 .. Len(t) : t[i] = recs[k]
  BY SelectKeeps
<1>2. /\ Len(recs) \in Nat /\ DOMAIN recs = 1 .. Len(recs)
      /\ \A v \in Workers : o[v].recs \in Seq(Records) /\ o[v].count \in Nat
      /\ \A v \in Workers : DOMAIN o[v].recs = 1 .. Len(o[v].recs)
  BY DEF Arenas
<1>3. PICK a \in Seq(Records) : a = o[w].recs \o t /\ Appended(a, o[w].recs, t)
  BY <1>2, Concatenation
<1>4. /\ u[w].recs = a /\ u[w].count = o[w].count + Len(recs)
      /\ \A v \in Workers : v # w => u[v] = o[v]
  BY <1>1, <1>3 DEF Arenas, Appends
<1>6. \A v \in Workers : \A k \in 1 .. Len(o[v].recs) : o[v].recs[k] \in F
  BY <1>2 DEF Holding, ToSet
(* Where a record of the arenas comes from: an old place or a new one. *)
<1>7. ASSUME NEW v \in Workers, NEW i \in 1 .. Len(u[v].recs)
      PROVE  \/ i \in 1 .. Len(o[v].recs) /\ u[v].recs[i] = o[v].recs[i]
             \/ v = w /\ \E k \in 1 .. Len(t) : i = Len(o[w].recs) + k /\ u[v].recs[i] = t[k]
  <2>1. CASE v = w
    <3>1. u[v].recs = a /\ i \in 1 .. Len(a) /\ o[v] = o[w]
      BY <1>4, <2>1
    <3>2. i \in 1 .. Len(o[w].recs) => a[i] = o[w].recs[i]
      BY <1>3 DEF Appended
    <3>3. i \in 1 .. Len(o[w].recs) \/ \E k \in 1 .. Len(t) : i = Len(o[w].recs) + k
      BY <1>3, <3>1 DEF Appended
    <3>4. \A k \in 1 .. Len(t) : i = Len(o[w].recs) + k => a[i] = t[k]
      BY <1>3 DEF Appended
    <3> QED
      BY <2>1, <3>1, <3>2, <3>3, <3>4
  <2>2. CASE v # w
    BY <1>4, <2>2
  <2> QED
    BY <2>1, <2>2
<1>8. ASSUME NEW k \in 1 .. Len(t)
      PROVE  t[k] \in ToSet(recs) /\ \A r \in F : r.offset # t[k].offset
  BY <1>1, <1>2 DEF ToSet
<1>9. \A v \in Workers : DOMAIN u[v].recs = 1 .. Len(u[v].recs)
  BY <1>2, <1>3, <1>4
<1>10. ASSUME NEW v \in Workers PROVE ToSet(u[v].recs) \subseteq F \cup ToSet(recs)
  <2> SUFFICES ASSUME NEW r \in ToSet(u[v].recs) PROVE r \in F \cup ToSet(recs)
    OBVIOUS
  <2>1. PICK i \in 1 .. Len(u[v].recs) : r = u[v].recs[i]
    BY <1>9 DEF ToSet
  <2>2. CASE i \in 1 .. Len(o[v].recs) /\ u[v].recs[i] = o[v].recs[i]
    BY <1>6, <2>1, <2>2
  <2>3. CASE \E k \in 1 .. Len(t) : u[v].recs[i] = t[k]
    BY <1>8, <2>1, <2>3
  <2>4. \/ i \in 1 .. Len(o[v].recs) /\ u[v].recs[i] = o[v].recs[i]
        \/ \E k \in 1 .. Len(t) : u[v].recs[i] = t[k]
    BY <1>7, Zenon
  <2> QED
    BY <2>2, <2>3, <2>4, Zenon
<1>17. ASSUME NEW v \in Workers, NEW x \in Workers,
              NEW i \in 1 .. Len(o[v].recs), NEW j \in 1 .. Len(o[x].recs),
              o[v].recs[i].offset = o[x].recs[j].offset
       PROVE  v = x /\ i = j
  <2>1. i \in DOMAIN o[v].recs /\ j \in DOMAIN o[x].recs
    BY <1>2
  <2> QED
    BY <1>17, <2>1, Zenon DEF Holding
<1>11. ASSUME NEW v \in Workers, NEW x \in Workers,
              NEW i \in 1 .. Len(u[v].recs), NEW j \in 1 .. Len(u[x].recs),
              u[v].recs[i].offset = u[x].recs[j].offset
       PROVE  v = x /\ i = j
  <2>1. CASE i \in 1 .. Len(o[v].recs) /\ u[v].recs[i] = o[v].recs[i]
    <3>1. CASE j \in 1 .. Len(o[x].recs) /\ u[x].recs[j] = o[x].recs[j]
      <4>1. o[v].recs[i].offset = o[x].recs[j].offset
        BY <1>11, <2>1, <3>1, Zenon
      <4> QED
        <5>1. i \in 1 .. Len(o[v].recs)
          BY <2>1
        <5>2. j \in 1 .. Len(o[x].recs)
          BY <3>1
        <5> QED
          BY <1>17, <4>1, <5>1, <5>2, Zenon
    <3>2. CASE x = w /\ \E k \in 1 .. Len(t) : j = Len(o[w].recs) + k /\ u[x].recs[j] = t[k]
      BY <1>6, <1>8, <1>11, <2>1, <3>2
    <3> QED
      BY <1>7, <3>1, <3>2
  <2>2. CASE v = w /\ \E k \in 1 .. Len(t) : i = Len(o[w].recs) + k /\ u[v].recs[i] = t[k]
    <3>1. CASE j \in 1 .. Len(o[x].recs) /\ u[x].recs[j] = o[x].recs[j]
      BY <1>6, <1>8, <1>11, <2>2, <3>1
    <3>2. CASE x = w /\ \E k \in 1 .. Len(t) : j = Len(o[w].recs) + k /\ u[x].recs[j] = t[k]
      BY <1>1, <1>11, <2>2, <3>2 DEF DistinctOffsets
    <3> QED
      BY <1>7, <3>1, <3>2
  <2> QED
    BY <1>7, <2>1, <2>2
<1>12. ASSUME ~lossy, NEW r \in F \cup ToSet(recs)
       PROVE  \E v \in Workers : r \in ToSet(u[v].recs)
  <2>1. CASE r \in F
    <3>1. PICK v \in Workers : r \in ToSet(o[v].recs)
      BY <1>12, <2>1 DEF Holding
    <3>2. PICK k \in 1 .. Len(o[v].recs) : r = o[v].recs[k]
      BY <1>2, <3>1 DEF ToSet
    <3>3. k \in 1 .. Len(u[v].recs) /\ u[v].recs[k] = r
      BY <1>3, <1>4, <3>2 DEF Appended
    <3> QED
      BY <1>9, <3>3 DEF ToSet
  <2>2. CASE r \in ToSet(recs)
    <3>1. PICK k \in 1 .. Len(t) : t[k] = r
      BY <1>1, <1>12, <2>2 DEF ToSet
    <3>2. Len(o[w].recs) + k \in 1 .. Len(a) /\ a[Len(o[w].recs) + k] = r
      BY <1>3, <3>1 DEF Appended
    <3> QED
      BY <1>4, <1>9, <3>2 DEF ToSet
  <2> QED
    BY <2>1, <2>2
<1>13. /\ IsFiniteSet(F \cup ToSet(recs))
       /\ Cardinality(F \cup ToSet(recs)) = Cardinality(F) + Len(recs)
  <2>1. IsFiniteSet(ToSet(recs)) /\ Cardinality(ToSet(recs)) = Len(recs)
    BY <1>2, TidyCount
  <2>2. F \cap ToSet(recs) = {}
    BY <1>2 DEF ToSet
  <2>3. IsFiniteSet(F)
    BY DEF Holding
  <2>4. Cardinality(F \cup ToSet(recs)) = Cardinality(F) + Cardinality(ToSet(recs)) - Cardinality(F \cap ToSet(recs))
    BY <2>1, <2>3, FS_Union
  <2>5. Cardinality(F \cap ToSet(recs)) = 0 /\ Cardinality(F) \in Nat
    BY <2>2, <2>3, FS_EmptySet, FS_CardinalityType
  <2>6. IsFiniteSet(F \cup ToSet(recs))
    BY <2>1, <2>3, FS_Union
  <2> QED
    BY <1>2, <2>1, <2>4, <2>5, <2>6
<1>14. CountSum(u) = CountSum(o) + Len(recs)
  <2>1. \A v \in Workers : u[v].count = IF v = w THEN o[v].count + Len(recs) ELSE o[v].count
    BY <1>4
  <2>2. IsFiniteSet(Workers)
    BY PipelineAssumption
  <2>3. SumOf(u, Workers) = SumOf(o, Workers) + Len(recs)
    <3>1. PICK n \in Nat : n = Len(recs)
      BY <1>2
    <3>2. \A v \in Workers : o[v].count \in Nat
      BY <1>2
    <3>3. \A v \in Workers : u[v].count = IF v = w THEN o[v].count + n ELSE o[v].count
      BY <2>1, <3>1
    <3>5. Adds(u, o, w, n, Workers)
      BY <3>2, <3>3 DEF Adds
    <3>4. SumOf(u, Workers) = SumOf(o, Workers) + n
      BY <2>2, <3>5, SumOfGrows
    <3> QED
      BY <3>1, <3>4
  <2> QED
    BY <2>3 DEF CountSum, SumOf
<1>15. CountSum(u) = Cardinality(F \cup ToSet(recs))
  <2>1. CountSum(o) = Cardinality(F)
    BY DEF Holding
  <2> QED
    BY <1>13, <1>14, <2>1
<1>16. Holding(u, F \cup ToSet(recs), lossy)
  <2>1. \A v, x \in Workers : \A i \in DOMAIN u[v].recs, j \in DOMAIN u[x].recs :
           u[v].recs[i].offset = u[x].recs[j].offset => v = x /\ i = j
    <3> SUFFICES ASSUME NEW v \in Workers, NEW x \in Workers,
                        NEW i \in DOMAIN u[v].recs, NEW j \in DOMAIN u[x].recs,
                        u[v].recs[i].offset = u[x].recs[j].offset
                 PROVE  v = x /\ i = j
      BY Zenon
    <3>1. i \in 1 .. Len(u[v].recs) /\ j \in 1 .. Len(u[x].recs)
      BY <1>9
    <3> QED
      BY <1>11, <3>1
  <2>2. lossy \/ \A r \in F \cup ToSet(recs) : \E v \in Workers : r \in ToSet(u[v].recs)
    BY <1>12
  <2> QED
    BY <1>10, <1>13, <1>15, <2>1, <2>2, Zenon DEF Holding
<1> QED
  BY <1>16

(* Nothing found yet. *)
LEMMA HoldingNothing ==
    ASSUME NEW lossy, NEW o, o = [w \in Workers |-> [recs |-> <<>>, count |-> 0]]
    PROVE  o \in Arenas /\ Holding(o, {}, lossy) /\ CountSum(o) = 0
<1>1. o \in Arenas /\ \A w \in Workers : o[w].recs = <<>> /\ o[w].count = 0
  BY DEF Arenas
<1>2. SumOf(o, Workers) = 0
  BY <1>1, PipelineAssumption, SumOfZero
<1>3. CountSum(o) = 0
  BY <1>2 DEF CountSum, SumOf
<1>4. IsFiniteSet({}) /\ Cardinality({}) = 0
  BY FS_EmptySet
<1>5. \A w \in Workers : DOMAIN o[w].recs = {}
  BY <1>1
<1>6. \A w \in Workers : ToSet(o[w].recs) \subseteq {}
  BY <1>5 DEF ToSet
<1> QED
  BY <1>1, <1>3, <1>4, <1>5, <1>6 DEF Holding
-----------------------------------------------------------------------------
(* The joined arenas.                                                       *)

(* The records of all arenas, each once. *)
Joint(s, o) ==
    /\ s \in Seq(Records)
    /\ \A k \in 1 .. Len(s) : \E w \in Workers : s[k] \in ToSet(o[w].recs)
    /\ \A w \in Workers : \A r \in ToSet(o[w].recs) : \E k \in 1 .. Len(s) : s[k] = r
    /\ (\A v, w \in Workers : \A i \in DOMAIN o[v].recs, j \in DOMAIN o[w].recs :
           o[v].recs[i].offset = o[w].recs[j].offset => v = w /\ i = j)
         => DistinctOffsets(s)

LEMMA RecordOffsets == \A r \in Records : r.offset \in Nat
  BY DEF Records

LEMMA AllRecordsJoint ==
    ASSUME out \in Arenas
    PROVE  Joint(AllRecords, out)
<1> DEFINE order == Ordered(Workers)
           s == [i \in 1 .. Len(order) |-> out[order[i]].recs]
<1>1. Enumerates(order, Workers) /\ Workers # {}
  BY PipelineAssumption, ChunkAllocatorAssumption, OrderedSet
<1>2. AllRecords = FlattenSeq(s)
  BY DEF AllRecords
<1> HIDE DEF order
<1>3. /\ Len(order) \in Nat /\ \A i \in 1 .. Len(order) : order[i] \in Workers
      /\ \A w \in Workers : \E i \in 1 .. Len(order) : order[i] = w
  BY <1>1 DEF Enumerates
<1>4. \A w \in Workers : out[w].recs \in Seq(Records) /\ DOMAIN out[w].recs = 1 .. Len(out[w].recs)
  BY DEF Arenas
<1>5. /\ s \in Seq(Seq(Records)) /\ Len(s) = Len(order)
      /\ \A i \in 1 .. Len(s) : order[i] \in Workers /\ s[i] = out[order[i]].recs
  BY <1>3, <1>4
<1>6. s # <<>>
  <2>1. PICK i \in 1 .. Len(order) : TRUE
    BY <1>1, <1>3
  <2>2. Len(s) # 0
    BY <1>3, <1>5, <2>1
  <2> HIDE DEF s
  <2> QED
    BY <2>2
<1> HIDE DEF s
<1>7. PICK t \in Seq(Records) : /\ t = FlattenSeq(s) /\ Holds(t, s, Len(s))
                                /\ Separate(s) => DistinctOffsets(t)
  BY <1>5, <1>6, FlattenRecords
<1>8. \A k \in 1 .. Len(t) : \E w \in Workers : t[k] \in ToSet(out[w].recs)
  <2> SUFFICES ASSUME NEW k \in 1 .. Len(t) PROVE \E w \in Workers : t[k] \in ToSet(out[w].recs)
    OBVIOUS
  <2>0. PICK i \in 1 .. Len(s) : \E j \in 1 .. Len(s[i]) : t[k] = s[i][j]
    BY <1>7 DEF Holds
  <2>1. PICK j \in 1 .. Len(s[i]) : t[k] = s[i][j]
    BY <2>0
  <2>2. PICK w \in Workers : s[i] = out[w].recs
    BY <1>5
  <2> QED
    BY <1>4, <2>1, <2>2 DEF ToSet
<1>9. \A w \in Workers : \A r \in ToSet(out[w].recs) : \E k \in 1 .. Len(t) : t[k] = r
  <2> SUFFICES ASSUME NEW w \in Workers, NEW r \in ToSet(out[w].recs) PROVE \E k \in 1 .. Len(t) : t[k] = r
    OBVIOUS
  <2>1. PICK i \in 1 .. Len(s) : s[i] = out[w].recs
    BY <1>3, <1>5
  <2>2. PICK j \in 1 .. Len(s[i]) : s[i][j] = r
    BY <1>4, <2>1 DEF ToSet
  <2> QED
    BY <1>7, <2>2 DEF Holds
<1>10. ASSUME \A v, w \in Workers : \A i \in DOMAIN out[v].recs, j \in DOMAIN out[w].recs :
                 out[v].recs[i].offset = out[w].recs[j].offset => v = w /\ i = j
       PROVE  DistinctOffsets(t)
  <2>1. ASSUME NEW k \in 1 .. Len(s), NEW l \in 1 .. Len(s), NEW i \in 1 .. Len(s[k]), NEW j \in 1 .. Len(s[l]),
               s[k][i].offset = s[l][j].offset
        PROVE  k = l /\ i = j
    <3>1. PICK v \in Workers : v = order[k] /\ s[k] = out[v].recs
      BY <1>5
    <3>2. PICK w \in Workers : w = order[l] /\ s[l] = out[w].recs
      BY <1>5
    <3>3. i \in DOMAIN out[v].recs /\ j \in DOMAIN out[w].recs
      BY <1>4, <3>1, <3>2
    <3>4. out[v].recs[i].offset = out[w].recs[j].offset
      BY <2>1, <3>1, <3>2, Zenon
    <3>5. v = w /\ i = j
      BY <1>10, <3>3, <3>4, Zenon
    <3>6. k \in 1 .. Len(order) /\ l \in 1 .. Len(order)
      BY <1>5
    <3>7. ~(v < v)
      BY PipelineAssumption
    <3>8. ~(k < l) /\ ~(l < k)
      BY <1>1, <3>1, <3>2, <3>5, <3>6, <3>7 DEF Enumerates
    <3> QED
      BY <1>3, <3>5, <3>6, <3>8
  <2>2. Separate(s)
    BY <2>1 DEF Separate
  <2> QED
    BY <1>7, <2>2
<1> QED
  BY <1>2, <1>7, <1>8, <1>9, <1>10, Zenon DEF Joint

(* Offsets grow. *)
Ascends(s) == \A k, l \in 1 .. Len(s) : k < l => s[k].offset < s[l].offset

LEMMA AscendsDistinct ==
    ASSUME NEW s \in Seq(Records), Ascends(s)
    PROVE  DistinctOffsets(s)
<1> SUFFICES ASSUME NEW p \in 1 .. Len(s), NEW q \in 1 .. Len(s), s[p].offset = s[q].offset
             PROVE  p = q
  BY DEF DistinctOffsets
<1>1. PICK n \in Nat : n = s[p].offset /\ n = s[q].offset
  BY RecordOffsets
<1>2. ~(n < n)
  OBVIOUS
<1>3. ~(p < q) /\ ~(q < p)
  BY <1>1, <1>2 DEF Ascends
<1> QED
  BY <1>3

LEMMA MergedJoint ==
    ASSUME out \in Arenas
    PROVE  /\ Joint(Merged, out)
           /\ tool \in {"strings", "unicode"} => (DistinctOffsets(AllRecords) => Ascends(Merged))
<1>1. PICK s \in Seq(Records) : s = AllRecords /\ Joint(s, out)
  BY AllRecordsJoint DEF Joint
<1>2. CASE tool \notin {"strings", "unicode"}
  BY <1>1, <1>2 DEF Merged
<1>3. CASE tool \in {"strings", "unicode"}
  <2>1. PICK t \in Seq(Records) :
           /\ t = SortedByOffset(s) /\ Len(t) = Len(s)
           /\ \A k \in 1 .. Len(s) : \E j \in 1 .. Len(s) : t[k] = s[j]
           /\ \A j \in 1 .. Len(s) : \E k \in 1 .. Len(s) : t[k] = s[j]
           /\ DistinctOffsets(s) => \A k, l \in 1 .. Len(s) : k < l => t[k].offset < t[l].offset
    BY RecordOffsets, SortRecords
  <2>2. Merged = t
    BY <1>1, <1>3, <2>1 DEF Merged
  <2>3. DistinctOffsets(s) => Ascends(t)
    BY <2>1 DEF Ascends
  <2>4. \A k \in 1 .. Len(t) : \E w \in Workers : t[k] \in ToSet(out[w].recs)
    BY <1>1, <2>1 DEF Joint
  <2>5. ASSUME NEW w \in Workers, NEW r \in ToSet(out[w].recs) PROVE \E k \in 1 .. Len(t) : t[k] = r
    <3>1. PICK j \in 1 .. Len(s) : s[j] = r
      BY <1>1 DEF Joint
    <3> QED
      BY <2>1, <3>1
  <2>6. Joint(t, out)
    <3>1. DistinctOffsets(s) => DistinctOffsets(t)
      BY <2>3, AscendsDistinct
    <3> QED
      BY <1>1, <2>4, <2>5, <3>1, Zenon DEF Joint
  <2> QED
    BY <1>1, <2>2, <2>3, <2>6
<1> QED
  BY <1>2, <1>3
-----------------------------------------------------------------------------
(* PipeIInv is inductive.                                                   *)

LEMMA ArenasType == PipeTypeOK <=> /\ tool \in Calls /\ out \in Arenas
                                  /\ result \in [done : BOOLEAN, ok : BOOLEAN, recs : Seq(Records), count : Nat]
  BY DEF PipeTypeOK, Arenas

LEMMA PipeInitInv == PipeInit => PipeIInv
<1> SUFFICES ASSUME PipeInit PROVE PipeIInv
  OBVIOUS
<1>1. Init /\ IInv
  BY InitInv DEF PipeInit
<1>2. out \in Arenas /\ (\A lossy : Holding(out, {}, lossy)) /\ CountSum(out) = 0
  BY HoldingNothing DEF PipeInit
<1>3. \A w \in Workers : out[w].recs = <<>>
  BY DEF PipeInit
<1>4. PipeTypeOK
  <2>1. \/ result = [done |-> FALSE, ok |-> FALSE, recs |-> <<>>, count |-> 0]
        \/ result = [done |-> TRUE, ok |-> TRUE, recs |-> <<>>, count |-> 0]
    <3>1. CASE total = 0
      BY <3>1 DEF PipeInit, NotDone
    <3>2. CASE total # 0
      BY <3>2 DEF PipeInit, NotDone
    <3> QED
      BY <3>1, <3>2
  <2>2. <<>> \in Seq(Records)
    OBVIOUS
  <2>3. result \in [done : BOOLEAN, ok : BOOLEAN, recs : Seq(Records), count : Nat]
    <3>1. ASSUME NEW b \in BOOLEAN, NEW s \in Seq(Records), NEW n \in Nat
          PROVE  [done |-> b, ok |-> b, recs |-> s, count |-> n]
                    \in [done : BOOLEAN, ok : BOOLEAN, recs : Seq(Records), count : Nat]
      OBVIOUS
    <3>2. TRUE \in BOOLEAN /\ FALSE \in BOOLEAN /\ 0 \in Nat
      OBVIOUS
    <3> QED
      BY <2>1, <2>2, <3>1, <3>2, Zenon
  <2>4. tool \in Calls
    BY DEF PipeInit
  <2> QED
    BY <1>2, <2>3, <2>4, ArenasType
<1>5. Merged = <<>>
  <2>1. Joint(Merged, out)
    BY <1>2, MergedJoint
  <2>2. PICK s : s = Merged /\ s \in Seq(Records) /\ \A k \in 1 .. Len(s) : \E w \in Workers : s[k] \in ToSet(out[w].recs)
    BY <2>1 DEF Joint
  <2>3. \A w \in Workers : ToSet(out[w].recs) = {}
    BY <1>3 DEF ToSet
  <2>4. Len(s) = 0
    BY <2>2, <2>3
  <2> QED
    BY <2>2, <2>4
<1>6. AnswerInv
  <2>1. (result.done => total = 0) /\ result.recs = <<>> /\ result.count = 0
    BY DEF PipeInit, NotDone
  <2> QED
    BY <1>2, <1>5, <2>1 DEF AnswerInv
<1>7. WorkInv /\ Counted
  <2>1. \A w \in Workers : ToSet(out[w].recs) = {}
    BY <1>3 DEF ToSet
  <2> QED
    BY <1>3, <2>1 DEF PipeInit, Init, WorkInv, Counted, Stored
<1>8. AllFound = {}
  BY DEF PipeInit, Init, AllFound, Finished
<1>9. ArenaInv /\ HeldOnce
  BY <1>2, <1>8 DEF ArenaInv, PipeInit, Init, HeldOnce
<1> QED
  BY <1>1, <1>4, <1>6, <1>7, <1>9 DEF PipeIInv

(* A chunk of a file of bytes. *)
LEMMA ChunkFound ==
    ASSUME PipeIInv, NEW c \in given
    PROVE  /\ Tidy(Scan(tool, text, total, c.begin, c.end), c.begin, c.end)
           /\ tool # "hist" => Filled(Scan(tool, text, total, c.begin, c.end))
           /\ c.begin \in Nat /\ c.end \in Nat /\ c.begin < c.end
<1>1. c.begin \in Nat /\ c.end \in Nat /\ c.end <= total /\ total \in Nat
  BY ChunkGiven DEF PipeIInv
<1>2. c.begin < c.end
  BY DEF PipeIInv, WorkInv
<1>3. text \in [0 .. total - 1 -> Bytes] /\ tool \in Tools
  BY PipelineAssumption DEF PipeIInv, IInv, TypeOK, PipeTypeOK
<1>4. \A i \in c.begin .. c.end - 1 : text[i] \in Bytes
  BY <1>1, <1>3
<1> QED
  BY <1>1, <1>2, <1>3, <1>4, ScanTidy

(* No two chunks report the same record. *)
LEMMA FoundApart ==
    ASSUME PipeIInv, Apart, NEW c \in given, NEW d \in given, c # d,
           NEW k \in 1 .. Len(Scan(tool, text, total, c.begin, c.end)), NEW r \in Found(d)
    PROVE  r.offset # Scan(tool, text, total, c.begin, c.end)[k].offset
<1>1. PICK s : s = Scan(tool, text, total, c.begin, c.end) /\ Tidy(s, c.begin, c.end)
  BY ChunkFound
<1>2. PICK t : t = Scan(tool, text, total, d.begin, d.end) /\ Tidy(t, d.begin, d.end)
  BY ChunkFound
<1>3. c.begin \in Nat /\ c.end \in Nat /\ d.begin \in Nat /\ d.end \in Nat
  BY ChunkFound
<1>4. c.end <= d.begin \/ d.end <= c.begin
  BY CutApart DEF PipeIInv, Apart
<1>5. s[k].offset \in c.begin .. c.end - 1
  BY <1>1 DEF Tidy
<1>6. PICK j \in 1 .. Len(t) : r = t[j]
  BY <1>2 DEF Found, ToSet, Tidy
<1>7. r.offset \in d.begin .. d.end - 1
  BY <1>2, <1>6 DEF Tidy
<1>8. r.offset # s[k].offset
  BY <1>3, <1>4, <1>5, <1>7
<1> QED
  BY <1>1, <1>8

(* Chunks of one begin are the same. *)
LEMMA SameBegin ==
    ASSUME PipeIInv, Apart, NEW c \in given, NEW d \in given, c.begin = d.begin
    PROVE  c = d
<1>1. c.begin \in Nat /\ c.end \in Nat /\ c.begin < c.end /\ d.begin \in Nat /\ d.end \in Nat /\ d.begin < d.end
  BY ChunkFound
<1>2. c # d => c.end <= d.begin \/ d.end <= c.begin
  BY CutApart DEF PipeIInv, Apart
<1> QED
  BY <1>1, <1>2

LEMMA PipeStepNext == PipeStep \/ UNCHANGED pipeVars => [Next]_vars /\ UNCHANGED <<total, text, tool>>
<1>1. PipeStep \/ UNCHANGED pipeVars => [Next]_vars /\ UNCHANGED tool
  BY DEF PipeStep, WorkerStep, ScanChunk, Merge, MergeFails, pipeVars, Next, Step
<1> QED
  BY <1>1, FileFixed

LEMMA SameFound == ASSUME UNCHANGED <<total, text, tool>>, NEW c PROVE Found(c)' = Found(c)
  BY DEF Found

(* No chunk is finished. *)
LEMMA NothingFound ==
    ASSUME ArenaInv, UNCHANGED <<total, text, tool, out, Finished>>
    PROVE  ArenaInv'
<1>1. PICK F : F = AllFound
  OBVIOUS
<1>2. AllFound' = F
  <2>1. \A c : Found(c)' = Found(c)
    BY SameFound
  <2> QED
    BY <1>1, <2>1 DEF AllFound
<1>3. PICK o : o = out
  OBVIOUS
<1>4. o = out' /\ Holding(o, F, tool \in MayFail)
  BY <1>1, <1>3 DEF ArenaInv
<1> QED
  BY <1>2, <1>4 DEF ArenaInv

(* Nobody gives back a chunk or takes one. *)
LEMMA NothingTaken ==
    ASSUME PipeIInv, UNCHANGED <<total, text, tool, given, cur, out>>,
           \A w \in Workers : busy'[w] = "chunk" <=> busy[w] = "chunk"
    PROVE  WorkInv' /\ (Apart => HeldOnce' /\ ArenaInv')
<1>0. WorkInv /\ (Apart => HeldOnce /\ ArenaInv)
  BY DEF PipeIInv
<1>1. \A c : \A w \in Workers : HasChunk(w, c)' <=> HasChunk(w, c)
  BY DEF HasChunk
<1>2. Finished' = Finished
  BY <1>1 DEF Finished
<1>3. WorkInv'
  BY <1>0, <1>1 DEF WorkInv
<1>4. HeldOnce => HeldOnce'
  BY <1>1 DEF HeldOnce
<1> QED
  BY <1>0, <1>2, <1>3, <1>4, NothingFound

(* A worker takes a chunk, which is a new one. *)
LEMMA ChunkTaken ==
    ASSUME PipeIInv, NEW w \in Workers, NextGives(w), UNCHANGED <<tool, out>>
    PROVE  WorkInv' /\ (Apart => HeldOnce' /\ ArenaInv')
<1> DEFINE c == Chunk(next)
<1>0. WorkInv /\ IInv
  BY DEF PipeIInv
<1>1. /\ UNCHANGED <<total, text>> /\ given' = given \cup {c}
      /\ busy[w] = "next" /\ busy'[w] = "chunk" /\ cur'[w] = [begin |-> c.begin, end |-> c.end]
      /\ \A v \in Workers : v # w => busy'[v] = busy[v] /\ cur'[v] = cur[v]
      /\ next < total /\ c.begin < c.end
  BY <1>0, ChunkFields DEF NextGives, file, IInv, TypeOK
<1>2. total \in Nat /\ next \in Nat /\ c.begin = ChunkBegin(next) /\ c.begin \in Nat
  BY <1>0, <1>1, ChunkFields, EdgesInFile, ChunkAllocatorAssumption DEF IInv, TypeOK
<1>3. ASSUME Apart, NEW d \in given PROVE d.begin # c.begin
  <2>1. d.s \in Nat /\ Multiple(d.s) /\ d.end = ChunkEnd(d.s) /\ d.begin \in Nat /\ d.end \in Nat
    BY <1>0, ChunkGiven
  <2>2. d.begin < d.end /\ d.s + ChunkSize <= next
    BY <1>0 DEF WorkInv, IInv, CutInv
  <2>3. ChunkEnd(d.s) <= ChunkBegin(next)
    BY <1>1, <1>2, <1>3, <2>1, <2>2, EdgesApart DEF Apart
  <2> QED
    BY <1>2, <2>1, <2>2, <2>3
<1> HIDE DEF c
<1>4. ASSUME NEW d, NEW v \in Workers, v # w PROVE HasChunk(v, d)' <=> HasChunk(v, d)
  BY <1>1, <1>4 DEF HasChunk
<1>6. PICK e : e = c
  OBVIOUS
<1>7. HasChunk(w, e)'
  BY <1>1, <1>6 DEF HasChunk
<1>8. WorkInv'
  <2>1. \A d \in given' : d.begin < d.end
    BY <1>0, <1>1 DEF WorkInv
  <2>2. ASSUME NEW v \in Workers, busy'[v] = "chunk" PROVE \E d \in given' : HasChunk(v, d)'
    <3>1. CASE v = w
      BY <1>1, <1>6, <1>7, <3>1
    <3>2. CASE v # w
      <4>1. PICK d \in given : HasChunk(v, d)
        BY <1>0, <1>1, <2>2, <3>2 DEF WorkInv
      <4> QED
        BY <1>1, <1>4, <3>2, <4>1
    <3> QED
      BY <3>1, <3>2
  <2> QED
    BY <2>1, <2>2 DEF WorkInv
<1>9. ASSUME Apart PROVE HeldOnce' /\ ArenaInv'
  <2>0. HeldOnce /\ ArenaInv
    BY <1>9 DEF PipeIInv
  <2>1. ASSUME NEW d \in given PROVE ~HasChunk(w, d) /\ ~HasChunk(w, d)'
    <3>1. [begin |-> c.begin, end |-> c.end] # [begin |-> d.begin, end |-> d.end]
      BY <1>3, <1>9
    <3> QED
      BY <1>1, <3>1 DEF HasChunk
  <2>2. ASSUME NEW v \in Workers, v # w PROVE ~HasChunk(v, e)'
    <3> SUFFICES ASSUME HasChunk(v, e) PROVE FALSE
      BY <1>4, <2>2
    <3>1. PICK d \in given : HasChunk(v, d)
      BY <1>0 DEF WorkInv, HasChunk
    <3>2. [begin |-> e.begin, end |-> e.end] = [begin |-> d.begin, end |-> d.end]
      BY <3>1 DEF HasChunk
    <3>3. e.begin = d.begin
      BY <3>2
    <3> QED
      BY <1>3, <1>6, <1>9, <3>3
  <2>3. Finished' = Finished
    <3>1. ASSUME NEW d \in given
          PROVE  (\A v \in Workers : ~HasChunk(v, d)') <=> (\A v \in Workers : ~HasChunk(v, d))
      BY <1>4, <2>1
    <3> QED
      BY <1>1, <1>6, <1>7, <3>1 DEF Finished
  <2>4. ASSUME NEW d \in given', NEW v \in Workers, NEW x \in Workers, HasChunk(v, d)', HasChunk(x, d)'
        PROVE  v = x
    <3>1. CASE d = e
      BY <2>2, <2>4, <3>1
    <3>2. CASE d \in given
      <4>1. v # w /\ x # w
        BY <2>1, <2>4, <3>2
      <4>2. HasChunk(v, d) /\ HasChunk(x, d)
        BY <1>4, <2>4, <4>1
      <4> QED
        BY <2>0, <3>2, <4>2 DEF HeldOnce
    <3> QED
      BY <1>1, <1>6, <3>1, <3>2
  <2>5. HeldOnce'
    BY <2>4 DEF HeldOnce
  <2> QED
    BY <1>1, <2>0, <2>3, <2>5, NothingFound
<1> QED
  BY <1>8, <1>9

(* A worker is through with its chunk. *)
LEMMA ChunkScanned ==
    ASSUME PipeIInv, NEW w \in Workers, ScanChunk(w)
    PROVE  out' \in Arenas /\ WorkInv' /\ Counted' /\ (Apart => HeldOnce' /\ ArenaInv')
<1>0. WorkInv /\ IInv /\ out \in Arenas
  BY ArenasType DEF PipeIInv
<1>1. /\ UNCHANGED <<total, text, tool, given, cur>>
      /\ busy[w] = "chunk" /\ busy'[w] = "next"
      /\ \A v \in Workers : v # w => busy'[v] = busy[v]
  BY <1>0 DEF ScanChunk, CallNext, file, IInv, TypeOK
<1>2. PICK c \in given : HasChunk(w, c)
  BY <1>0, <1>1 DEF WorkInv
<1>3. cur[w].begin = c.begin /\ cur[w].end = c.end
  BY <1>2 DEF HasChunk
<1>4. PICK recs : recs = Scan(tool, text, total, c.begin, c.end) /\ Tidy(recs, c.begin, c.end)
  BY ChunkFound
<1>5. PICK stored \in SUBSET DOMAIN recs : /\ tool \in MayFail \/ stored = DOMAIN recs
                                          /\ Appends(out', out, w, recs, stored)
  BY <1>3, <1>4 DEF ScanChunk, Appends
<1>6. \A d : \A v \in Workers : HasChunk(v, d)' <=> v # w /\ HasChunk(v, d)
  BY <1>1 DEF HasChunk
<1>7. PICK o \in Arenas : o = out
  BY <1>0
<1>8. PICK u : u = out'
  OBVIOUS
<1>9. recs \in Seq(Records) /\ DistinctOffsets(recs) /\ Appends(u, o, w, recs, stored)
  BY <1>4, <1>5, <1>7, <1>8 DEF Tidy
<1>10. out' \in Arenas
  BY <1>8, <1>9, AppendsType
<1>11. WorkInv'
  <2>1. ASSUME NEW v \in Workers, busy'[v] = "chunk" PROVE \E d \in given' : HasChunk(v, d)'
    <3>1. v # w /\ busy[v] = "chunk"
      BY <1>1, <2>1
    <3>2. PICK d \in given : HasChunk(v, d)
      BY <1>0, <3>1 DEF WorkInv
    <3> QED
      BY <1>1, <1>6, <3>1, <3>2
  <2>2. \A d \in given' : d.begin < d.end
    BY <1>0, <1>1 DEF WorkInv
  <2> QED
    BY <2>1, <2>2 DEF WorkInv
<1>12. ASSUME Apart PROVE HeldOnce' /\ ArenaInv'
  <2>0. HeldOnce /\ ArenaInv
    BY <1>12 DEF PipeIInv
  <2>1. HeldOnce'
    BY <1>1, <1>6, <2>0 DEF HeldOnce
  <2>2. Finished' = Finished \cup {c}
    <3>1. ASSUME NEW d \in given, d # c PROVE ~HasChunk(w, d)
      <4> SUFFICES ASSUME HasChunk(w, d) PROVE FALSE
        OBVIOUS
      <4>1. [begin |-> c.begin, end |-> c.end] = [begin |-> d.begin, end |-> d.end]
        BY <1>2 DEF HasChunk
      <4>2. c.begin = d.begin
        BY <4>1
      <4> QED
        BY <1>12, <3>1, <4>2, SameBegin
    <3>2. \A v \in Workers : v # w => ~HasChunk(v, c)
      BY <1>2, <2>0 DEF HeldOnce
    <3> QED
      BY <1>1, <1>2, <1>6, <3>1, <3>2 DEF Finished
  <2>3. PICK F : F = AllFound
    OBVIOUS
  <2>4. AllFound' = F \cup ToSet(recs)
    <3>1. \A d : Found(d)' = Found(d)
      BY <1>1, SameFound
    <3>2. AllFound' = UNION {Found(d) : d \in Finished \cup {c}}
      BY <2>2, <3>1 DEF AllFound
    <3>3. Found(c) = ToSet(recs)
      BY <1>4 DEF Found
    <3> QED
      BY <2>3, <3>2, <3>3 DEF AllFound
  <2>5. ASSUME NEW k \in 1 .. Len(recs), NEW r \in F PROVE r.offset # recs[k].offset
    <3>1. PICK d \in Finished : r \in Found(d)
      BY <2>3 DEF AllFound
    <3>2. d \in given /\ d # c
      BY <1>2, <3>1 DEF Finished
    <3> QED
      BY <1>4, <1>12, <3>1, <3>2, FoundApart
  <2>6. PICK lossy : lossy = (tool \in MayFail)
    OBVIOUS
  <2>7. Holding(o, F, lossy) /\ (lossy \/ stored = DOMAIN recs)
    BY <1>5, <1>7, <2>0, <2>3, <2>6 DEF ArenaInv
  <2>8. Holding(u, F \cup ToSet(recs), lossy)
    BY <1>9, <2>5, <2>7, HoldingGrows
  <2>9. ArenaInv'
    BY <1>1, <1>8, <2>4, <2>6, <2>8 DEF ArenaInv
  <2> QED
    BY <2>1, <2>9
<1>13. Counted'
  <2>0. \A v \in Workers : Stored(o[v], tool)
    BY <1>7 DEF PipeIInv, Counted
  <2> SUFFICES ASSUME NEW v \in Workers PROVE Stored(u[v], tool)
    BY <1>1, <1>8 DEF Counted
  <2>1. CASE v = w
    <3>1. PICK t \in Seq(Records) : /\ t = Select(recs, stored)
                                   /\ \A i \in 1 .. Len(t) : \E k \in stored : t[i] = recs[k]
      BY <1>9, SelectKeeps
    <3>2. PICK a : a = o[w].recs \o t /\ Appended(a, o[w].recs, t) /\ a \in Seq(Records)
      BY Concatenation DEF Arenas
    <3>3. /\ u[w].recs = a /\ u[w].count = o[w].count + Len(recs)
          /\ o[w].recs \in Seq(Records) /\ o[w].count \in Nat
      BY <1>9, <3>1, <3>2 DEF Appends, Arenas
    <3>4. ASSUME u[w].count = 0 PROVE u[w].recs = <<>>
      <4>1. Len(recs) = 0 /\ o[w].count = 0
        BY <1>9, <3>3, <3>4
      <4>2. stored = {}
        BY <1>9, <4>1
      <4>3. t = <<>>
        BY <3>1, <4>2
      <4>4. o[w].recs = <<>>
        BY <2>0, <4>1 DEF Stored
      <4> QED
        BY <3>2, <3>3, <4>3, <4>4
    <3>5. ASSUME tool # "hist", NEW k \in 1 .. Len(a) PROVE a[k] \in Pieces
      <4>1. Filled(recs)
        BY <1>4, <3>5, ChunkFound
      <4>2. \A i \in 1 .. Len(o[w].recs) : o[w].recs[i] \in Pieces
        BY <2>0, <3>3, <3>5 DEF Stored, ToSet
      <4>3. \A i \in 1 .. Len(t) : t[i] \in Pieces
        BY <1>9, <3>1, <4>1 DEF Filled
      <4>4. \/ k \in 1 .. Len(o[w].recs) /\ a[k] = o[w].recs[k]
            \/ \E i \in 1 .. Len(t) : a[k] = t[i]
        BY <3>2 DEF Appended
      <4> QED
        BY <4>2, <4>3, <4>4
    <3>6. tool # "hist" => ToSet(a) \subseteq Pieces
      BY <3>2, <3>5 DEF ToSet
    <3> QED
      BY <2>1, <3>3, <3>4, <3>6 DEF Stored
  <2>2. CASE v # w
    <3>1. u[v] = o[v]
      BY <1>9, <2>2 DEF Appends, Arenas
    <3> QED
      BY <2>0, <3>1
  <2> QED
    BY <2>1, <2>2
<1> QED
  BY <1>10, <1>11, <1>12, <1>13

(* The workers stop: the caller may put the answer together. *)
LEMMA MergeType ==
    ASSUME PipeTypeOK, Merge \/ MergeFails
    PROVE  PipeTypeOK'
<1>1. out \in Arenas /\ tool \in Calls /\ out' = out /\ tool' = tool
  BY ArenasType DEF Merge, MergeFails
<1>2. result' \in [done : BOOLEAN, ok : BOOLEAN, recs : Seq(Records), count : Nat]
  <2>1. ASSUME NEW a \in BOOLEAN, NEW b \in BOOLEAN, NEW s \in Seq(Records), NEW n \in Nat
        PROVE  [done |-> a, ok |-> b, recs |-> s, count |-> n]
                  \in [done : BOOLEAN, ok : BOOLEAN, recs : Seq(Records), count : Nat]
    OBVIOUS
  <2>2. CASE Merge
    <3>1. Merged \in Seq(Records)
      BY <1>1, MergedJoint DEF Joint
    <3>2. CountSum(out) \in Nat
      BY <1>1, CountSumType
    <3>3. result' = [done |-> TRUE, ok |-> TRUE, recs |-> Merged, count |-> CountSum(out)]
      BY <2>2 DEF Merge
    <3> QED
      BY <2>1, <3>1, <3>2, <3>3
  <2>3. CASE MergeFails
    <3>1. result' = [done |-> TRUE, ok |-> FALSE, recs |-> <<>>, count |-> 0]
      BY <2>3 DEF MergeFails, NotDone
    <3>2. <<>> \in Seq(Records) /\ 0 \in Nat
      OBVIOUS
    <3> QED
      BY <2>1, <3>1, <3>2
  <2> QED
    BY <2>2, <2>3
<1>3. out' \in Arenas
  BY <1>1
<1> QED
  BY <1>1, <1>2, <1>3 DEF PipeTypeOK, Arenas

LEMMA PipeNextInv ==
    ASSUME PipeIInv, PipeStep \/ UNCHANGED pipeVars
    PROVE  PipeIInv'
<1>1. IInv /\ PipeTypeOK /\ Counted /\ AnswerInv /\ out \in Arenas
  BY ArenasType DEF PipeIInv
<1>2. IInv' /\ UNCHANGED <<total, text, tool>>
  BY <1>1, PipeStepNext, NextInv
<1>3. Apart' <=> Apart
  BY <1>2 DEF Apart, ShortLines, Borders, Reach, Newlines
<1>4. ASSUME UNCHANGED out PROVE Merged' = Merged
  BY <1>2, <1>4 DEF Merged, AllRecords
<1>9. ASSUME UNCHANGED out PROVE Counted'
  <2>1. PICK o : o = out /\ \A w \in Workers : Stored(o[w], tool)
    BY <1>1 DEF Counted
  <2> QED
    BY <1>2, <1>9, <2>1 DEF Counted
(* A worker's step leaves the answer alone. *)
<1>5. ASSUME ~result.done, UNCHANGED result, out' \in Arenas PROVE PipeTypeOK' /\ AnswerInv'
  BY <1>1, <1>2, <1>5 DEF PipeTypeOK, Arenas, AnswerInv
<1>6. CASE UNCHANGED pipeVars
  <2>1. UNCHANGED <<vars, file, tool, out, result>>
    BY <1>6 DEF pipeVars, vars
  <2>2. WorkInv' /\ (Apart => HeldOnce' /\ ArenaInv')
    BY <2>1, NothingTaken DEF vars, file
  <2>3. PipeTypeOK'
    BY <1>1, <2>1 DEF PipeTypeOK
  <2>4. AnswerInv'
    BY <1>1, <1>4, <2>1 DEF AnswerInv, AllDone, vars, file
  <2> QED
    BY <1>2, <1>3, <1>9, <2>1, <2>2, <2>3, <2>4 DEF PipeIInv
<1>7. ASSUME NEW w \in Workers, ~result.done, WorkerStep(w) PROVE PipeIInv'
  <2>1. CASE ScanChunk(w)
    <3>1. out' \in Arenas /\ WorkInv' /\ Counted' /\ (Apart => HeldOnce' /\ ArenaInv')
      BY <2>1, ChunkScanned
    <3>2. PipeTypeOK' /\ AnswerInv'
      BY <1>5, <1>7, <2>1, <3>1 DEF ScanChunk
    <3> QED
      BY <1>2, <1>3, <3>1, <3>2 DEF PipeIInv
  <2>2. CASE NextGives(w) /\ UNCHANGED <<tool, out, result>>
    <3>1. WorkInv' /\ (Apart => HeldOnce' /\ ArenaInv')
      BY <2>2, ChunkTaken
    <3>2. PipeTypeOK' /\ AnswerInv'
      BY <1>1, <1>5, <1>7, <2>2
    <3> QED
      BY <1>2, <1>3, <1>9, <2>2, <3>1, <3>2 DEF PipeIInv
  <2>3. CASE (NextExhausted(w) \/ NextSkips(w)) /\ UNCHANGED <<tool, out, result>>
    <3>1. /\ UNCHANGED <<given, cur, out>>
          /\ \A v \in Workers : busy'[v] = "chunk" <=> busy[v] = "chunk"
      BY <1>1, <2>3 DEF NextExhausted, NextSkips, IInv, TypeOK
    <3>2. WorkInv' /\ (Apart => HeldOnce' /\ ArenaInv')
      BY <1>2, <3>1, NothingTaken
    <3>3. PipeTypeOK' /\ AnswerInv'
      BY <1>1, <1>5, <1>7, <2>3
    <3> QED
      BY <1>2, <1>3, <1>9, <2>3, <3>2, <3>3 DEF PipeIInv
  <2> QED
    BY <1>7, <2>1, <2>2, <2>3 DEF WorkerStep
<1>8. ASSUME Merge \/ MergeFails PROVE PipeIInv'
  <2>1. UNCHANGED <<vars, file, tool, out>> /\ AllDone
    BY <1>8 DEF Merge, MergeFails, vars
  <2>2. WorkInv' /\ (Apart => HeldOnce' /\ ArenaInv')
    BY <2>1, NothingTaken DEF vars, file
  <2>3. PipeTypeOK'
    BY <1>1, <1>8, MergeType
  <2>4. AnswerInv'
    <3>1. AllDone' /\ Merged' = Merged /\ CountSum(out') = CountSum(out)
      BY <1>4, <2>1 DEF AllDone, vars
    <3>2. CASE Merge
      <4>1. result'.recs = Merged /\ result'.count = CountSum(out)
        BY <3>2 DEF Merge
      <4>2. CountSum(out)' = CountSum(out)
        BY <2>1
      <4>3. result'.ok
        BY <3>2 DEF Merge
      <4> QED
        BY <3>1, <4>1, <4>2, <4>3 DEF AnswerInv
    <3>3. CASE MergeFails
      <4>1. ~result'.ok /\ result'.recs = <<>> /\ result'.count = 0
        BY <3>3 DEF MergeFails, NotDone
      <4> QED
        BY <4>1 DEF AnswerInv
    <3> QED
      BY <1>8, <3>2, <3>3
  <2> QED
    BY <1>2, <1>3, <1>9, <2>1, <2>2, <2>3, <2>4 DEF PipeIInv
<1> QED
  BY <1>6, <1>7, <1>8 DEF PipeStep

(* Whatever the workers do in whatever order, the arenas hold what the      *)
(* loops find in the chunks that are finished: PipeIInv is an invariant of  *)
(* the scan and its callers.                                                *)
THEOREM PipeInvariance == ClientSpec => []PipeIInv
<1>1. ClientInit => PipeIInv
  BY PipeInitInv DEF ClientInit
<1>2. PipeIInv /\ [ClientNext]_allVars => PipeIInv'
  <2>1. [ClientNext]_allVars => PipeStep \/ UNCHANGED pipeVars
    BY DEF ClientNext, ClientStep, Receive, Count, GiveUp, Decode, Free, FileGone, Over, allVars
  <2> QED
    BY <2>1, PipeNextInv
<1> QED
  BY <1>1, <1>2, PTL DEF ClientSpec
-----------------------------------------------------------------------------
(* The answers.                                                             *)

(* What the loops find in all the chunks. *)
AllGiven == UNION {Found(c) : c \in given}

LEMMA AnswerFound ==
    ASSUME PipeIInv, Apart, NEW t, Answered(t)
    PROVE  /\ result.recs \in Seq(Records) /\ DistinctOffsets(result.recs)
           /\ ToSet(result.recs) \subseteq AllGiven
           /\ IsFiniteSet(AllGiven) /\ result.count = Cardinality(AllGiven)
           /\ Complete <=> ToSet(result.recs) = AllGiven
           /\ tool \notin MayFail => Complete
           /\ tool \in {"strings", "unicode"} => Ascends(result.recs)
           /\ AllDone \/ total = 0
<1>1. /\ tool = t /\ out \in Arenas /\ Holding(out, AllFound, tool \in MayFail)
      /\ AllDone \/ total = 0
      /\ result.recs = Merged /\ result.count = CountSum(out)
  BY ArenasType DEF PipeIInv, AnswerInv, Answered, ArenaInv
<1>2. AllFound = AllGiven
  <2>1. CASE AllDone
    <3>1. Finished = given
      BY <2>1 DEF AllDone, Finished, HasChunk
    <3> QED
      BY <3>1 DEF AllFound, AllGiven
  <2>2. CASE total = 0
    <3>1. ASSUME NEW c \in given PROVE FALSE
      <4>1. c.s \in Nat /\ c.s < total
        BY ChunkGiven DEF PipeIInv
      <4> QED
        BY <2>2, <4>1
    <3> QED
      BY <3>1 DEF AllFound, AllGiven, Finished
  <2> QED
    BY <1>1, <2>1, <2>2
<1>3. PICK F : F = AllGiven
  OBVIOUS
<1>4. PICK lossy : lossy = (tool \in MayFail)
  OBVIOUS
<1>5. Holding(out, F, lossy)
  BY <1>1, <1>2, <1>3, <1>4
<1>6. /\ IsFiniteSet(F) /\ CountSum(out) = Cardinality(F)
      /\ \A w \in Workers : ToSet(out[w].recs) \subseteq F
      /\ lossy \/ \A r \in F : \E w \in Workers : r \in ToSet(out[w].recs)
  BY <1>5, Zenon DEF Holding
<1>7. \A v, w \in Workers : \A i \in DOMAIN out[v].recs, j \in DOMAIN out[w].recs :
          out[v].recs[i].offset = out[w].recs[j].offset => v = w /\ i = j
  BY <1>5, Zenon DEF Holding
<1>8. PICK s \in Seq(Records) : s = Merged /\ Joint(s, out)
  BY <1>1, MergedJoint DEF Joint
<1>9. /\ DistinctOffsets(s)
      /\ tool \in {"strings", "unicode"} => Ascends(s)
  <2>1. DistinctOffsets(s)
    BY <1>7, <1>8, Zenon DEF Joint
  <2>2. DistinctOffsets(AllRecords)
    <3>1. Joint(AllRecords, out)
      BY <1>1, AllRecordsJoint
    <3> QED
      BY <1>7, <3>1, Zenon DEF Joint
  <2> QED
    BY <1>1, <1>8, <2>1, <2>2, MergedJoint
<1>10. /\ Len(s) \in Nat /\ DOMAIN s = 1 .. Len(s)
       /\ \A k \in 1 .. Len(s) : \E w \in Workers : s[k] \in ToSet(out[w].recs)
       /\ \A w \in Workers : \A r \in ToSet(out[w].recs) : \E k \in 1 .. Len(s) : s[k] = r
  BY <1>8 DEF Joint
<1>11. ToSet(s) \subseteq F
  BY <1>6, <1>10 DEF ToSet
<1>12. Cardinality(ToSet(s)) = Len(s) /\ IsFiniteSet(ToSet(s))
  BY <1>9, <1>10, TidyCount
<1>13. Len(s) = Cardinality(F) <=> ToSet(s) = F
  <2>1. Cardinality(F) = Cardinality(ToSet(s)) => F = ToSet(s)
    <3>1. PICK T \in SUBSET F : T = ToSet(s)
      BY <1>11
    <3> QED
      BY <1>6, <3>1, FS_Subset
  <2> QED
    BY <1>12, <2>1
<1>14. ~lossy => ToSet(s) = F
  BY <1>6, <1>10, <1>11 DEF ToSet
<1>15. Complete <=> ToSet(s) = F
  BY <1>1, <1>6, <1>8, <1>13 DEF Complete
<1> QED
  BY <1>1, <1>3, <1>4, <1>6, <1>8, <1>9, <1>11, <1>14, <1>15

(* A chunk. *)
LEMMA ChunkBounds ==
    ASSUME PipeIInv, NEW c \in given
    PROVE  c.begin \in Nat /\ c.end \in Nat /\ c.begin < c.end /\ c.end <= total
  BY ChunkFound, ChunkGiven DEF PipeIInv

(* A chunk of a file that is cut between lines only. *)
LEMMA ChunkOfLines ==
    ASSUME PipeIInv, ShortLines, LastLineWhole, NEW c \in given
    PROVE  /\ c.begin \in Nat /\ c.end \in Nat /\ c.begin < c.end /\ c.end <= total
           /\ c.begin = 0 \/ text[c.begin - 1] = NL
           /\ c.end = total \/ text[c.end - 1] = NL
<1>1. c.begin \in Nat /\ c.end \in Nat /\ c.begin < c.end /\ c.end <= total
  BY ChunkBounds
<1>2. /\ c.begin = 0 \/ text[c.begin - 1] = NL
      /\ c.end = total \/ text[c.end - 1] = NL
  BY CutAligned DEF PipeIInv, LineAligned
<1> QED
  BY <1>1, <1>2

(* Every byte of the file is in a chunk when the answer is there. *)
LEMMA AllInChunks ==
    ASSUME PipeIInv, ShortLines, AllDone \/ total = 0, NEW i \in 0 .. total - 1
    PROVE  \E c \in given : c.begin <= i /\ i < c.end
<1>1. IInv /\ total # 0
  BY DEF PipeIInv
<1> QED
  BY <1>1, CutCovered DEF Covered, InChunks

LEMMA FileType == PipeIInv => total \in Nat /\ (\A i \in 0 .. total - 1 : text[i] \in Bytes) /\ tool \in Tools
  BY PipelineAssumption DEF PipeIInv, IInv, TypeOK, PipeTypeOK

LEMMA HistAnswer == PipeIInv => HistExact
<1> SUFFICES ASSUME PipeIInv, Answered("hist"), ShortLines, NEW b \in Bytes
             PROVE  Bar(b) = Cardinality({i \in 0 .. total - 1 : text[i] = b})
  BY DEF HistExact
<1>1. PICK s \in Seq(Records) : s = result.recs
  BY AnswerFound DEF Apart
<1>2. tool = "hist" /\ tool \notin MayFail
  BY PipelineAssumption DEF Answered
<1>3. DistinctOffsets(s) /\ ToSet(s) = AllGiven /\ (AllDone \/ total = 0)
  BY <1>1, <1>2, AnswerFound DEF Apart
<1>4. total \in Nat /\ \A i \in 0 .. total - 1 : text[i] \in Bytes
  BY FileType
<1>5. ASSUME NEW c \in given, NEW r
      PROVE  r \in Found(c) <=> \E i \in c.begin .. c.end - 1 : r = [offset |-> i, byte |-> text[i]]
  <2>0. c.begin \in Nat /\ c.end \in Nat /\ c.begin < c.end /\ c.end <= total
    BY ChunkBounds
  <2>1. PICK from \in Nat, to \in Nat : from = c.begin /\ to = c.end /\ from < to /\ to <= total
    BY <2>0
  <2>2. Found(c) = ToSet(HistScan(text, total, from, to))
    BY <1>2, <2>1 DEF Found, Scan
  <2>3. \A i \in from .. to - 1 : text[i] \in Bytes
    BY <1>4, <2>1
  <2>4. HistHits(HistScan(text, total, from, to), text, from, to)
    BY <2>1, <2>3, HistTidy
  <2> QED
    BY <2>1, <2>2, <2>4 DEF HistHits
<1>6. ASSUME NEW r
      PROVE  r \in AllGiven <=> \E i \in 0 .. total - 1 : r = [offset |-> i, byte |-> text[i]]
  <2>1. ASSUME r \in AllGiven PROVE \E i \in 0 .. total - 1 : r = [offset |-> i, byte |-> text[i]]
    <3>1. PICK c \in given : r \in Found(c)
      BY <2>1 DEF AllGiven
    <3>2. PICK i \in c.begin .. c.end - 1 : r = [offset |-> i, byte |-> text[i]]
      BY <1>5, <3>1
    <3>3. i \in 0 .. total - 1
      BY <1>4, <3>2, ChunkBounds
    <3> QED
      BY <3>2, <3>3
  <2>2. ASSUME NEW i \in 0 .. total - 1, r = [offset |-> i, byte |-> text[i]] PROVE r \in AllGiven
    <3>1. PICK c \in given : c.begin <= i /\ i < c.end
      BY <1>3, AllInChunks
    <3>2. i \in c.begin .. c.end - 1
      BY <3>1, ChunkBounds
    <3> QED
      BY <1>5, <2>2, <3>2 DEF AllGiven
  <2> QED
    BY <2>1, <2>2
<1> DEFINE I == {k \in DOMAIN s : s[k].byte = b}
           P == {i \in 0 .. total - 1 : text[i] = b}
           f == [k \in I |-> s[k].offset]
<1>7. DOMAIN s = 1 .. Len(s) /\ Len(s) \in Nat
  OBVIOUS
<1>8. \A k \in 1 .. Len(s) : \E i \in 0 .. total - 1 : s[k] = [offset |-> i, byte |-> text[i]]
  BY <1>3, <1>6, <1>7 DEF ToSet
<1>9. \A i \in 0 .. total - 1 : \E k \in 1 .. Len(s) : s[k] = [offset |-> i, byte |-> text[i]]
  BY <1>3, <1>6, <1>7 DEF ToSet
<1>10. f \in Bijection(I, P)
  <2>1. \A k \in I : f[k] \in P
    BY <1>7, <1>8
  <2>2. \A k, l \in I : f[k] = f[l] => k = l
    BY <1>3, <1>7 DEF DistinctOffsets
  <2>3. ASSUME NEW i \in P PROVE \E k \in I : f[k] = i
    <3>1. PICK k \in 1 .. Len(s) : s[k] = [offset |-> i, byte |-> text[i]]
      BY <1>9
    <3>2. s[k].offset = i /\ s[k].byte = b
      BY <3>1
    <3> QED
      BY <1>7, <3>2
  <2>4. f = [k \in I |-> f[k]]
    OBVIOUS
  <2> HIDE DEF f, I, P
  <2> QED
    BY <2>1, <2>2, <2>3, <2>4 DEF Bijection, Injection, Surjection, IsInjective
<1>11. IsFiniteSet(I)
  <2>1. I \in SUBSET (1 .. Len(s)) /\ IsFiniteSet(1 .. Len(s))
    BY <1>7, UpTo
  <2> QED
    BY <2>1, FS_Subset
<1>12. Cardinality(I) = Cardinality(P)
  <2> HIDE DEF f, I, P
  <2> QED
    BY <1>10, <1>11, FS_Bijection DEF ExistsBijection
<1> QED
  BY <1>1, <1>12 DEF Bar

LEMMA GrepAnswer == PipeIInv => GrepExact
<1> DEFINE lineSet == {lr \in (0 .. total) \X (0 .. total) :
                          /\ lr[1] <= lr[2] /\ lr[1] < total
                          /\ Maximal(Bytes \ {NL}, lr[1], lr[2])
                          /\ HasNeedle(text, lr[1], lr[2])}
<1>1. Hits = {Rec(lr[1], lr[2]) : lr \in lineSet}
  BY DEF Hits
<1> SUFFICES ASSUME PipeIInv, Answered("grep"), ShortLines, LastLineWhole
             PROVE  ToSet(result.recs) = Hits /\ Complete /\ result.count = Cardinality(Hits)
  BY DEF GrepExact
<1>2. tool = "grep" /\ tool \notin MayFail
  BY PipelineAssumption DEF Answered
<1>3. /\ Complete /\ ToSet(result.recs) = AllGiven /\ result.count = Cardinality(AllGiven)
      /\ AllDone \/ total = 0
  BY <1>2, AnswerFound DEF Apart
<1>4. total \in Nat /\ \A i \in 0 .. total - 1 : text[i] \in Bytes
  BY FileType
<1>5. ASSUME NEW c \in given, NEW r
      PROVE  r \in Found(c) <=> \E l, q : GrepHit(text, c.begin, c.end, l, q) /\ r = Rec(l, q)
  <2>1. PICK from \in Nat, to \in Nat : from = c.begin /\ to = c.end
    BY ChunkOfLines
  <2>2. Found(c) = ToSet(GrepScan(text, total, from, to))
    BY <1>2, <2>1 DEF Found, Scan
  <2>3. GrepHits(GrepScan(text, total, from, to), text, from, to)
    BY GrepLists
  <2> QED
    BY <2>1, <2>2, <2>3 DEF GrepHits
<1>6. ASSUME NEW r \in AllGiven PROVE r \in Hits
  <2>1. PICK c \in given : r \in Found(c)
    BY DEF AllGiven
  <2>2. PICK l, q : GrepHit(text, c.begin, c.end, l, q) /\ r = Rec(l, q)
    BY <1>5, <2>1
  <2>3. /\ c.begin \in Nat /\ c.end \in Nat /\ c.begin < c.end /\ c.end <= total
        /\ c.begin = 0 \/ text[c.begin - 1] = NL
        /\ c.end = total \/ text[c.end - 1] = NL
    BY ChunkOfLines
  <2>4. /\ l \in c.begin .. c.end - 1 /\ q \in l .. c.end
        /\ \A i \in l .. q - 1 : text[i] # NL
        /\ q < c.end => text[q] = NL
        /\ l = c.begin \/ text[l - 1] = NL
        /\ HasNeedle(text, l, q)
    BY <2>2 DEF GrepHit, FirstIn
  <2>5. q = total \/ text[q] = NL
    <3>1. ASSUME q = c.end, c.end # total PROVE FALSE
      BY <2>3, <2>4, <3>1
    <3> QED
      BY <2>3, <2>4, <3>1
  <2>6. Maximal(Bytes \ {NL}, l, q)
    BY <1>4, <2>3, <2>4, <2>5 DEF Maximal
  <2>7. <<l, q>> \in lineSet
    BY <1>4, <2>3, <2>4, <2>6
  <2> QED
    BY <1>1, <2>2, <2>7
<1>7. ASSUME NEW r \in Hits PROVE r \in AllGiven
  <2>1. PICK l \in 0 .. total, q \in 0 .. total :
           /\ l <= q /\ l < total /\ r = Rec(l, q)
           /\ Maximal(Bytes \ {NL}, l, q) /\ HasNeedle(text, l, q)
    BY <1>1
  <2>2. PICK c \in given : c.begin <= l /\ l < c.end
    BY <1>3, <1>4, <2>1, AllInChunks
  <2>3. /\ c.begin \in Nat /\ c.end \in Nat /\ c.begin < c.end /\ c.end <= total
        /\ c.end = total \/ text[c.end - 1] = NL
    BY ChunkOfLines
  <2>4. /\ \A i \in l .. q - 1 : text[i] # NL
        /\ l = 0 \/ text[l - 1] = NL
        /\ q = total \/ text[q] = NL
    <3>1. l # 0 => l - 1 \in 0 .. total - 1
      BY <1>4, <2>1
    <3>2. q # total => q \in 0 .. total - 1
      BY <1>4, <2>1
    <3> QED
      BY <1>4, <2>1, <3>1, <3>2 DEF Maximal
  <2>5. q <= c.end
    <3> SUFFICES ASSUME c.end < q PROVE FALSE
      BY <2>1, <2>3
    <3>1. c.end - 1 \in l .. q - 1 /\ c.end # total
      BY <1>4, <2>1, <2>2, <2>3
    <3> QED
      BY <2>3, <2>4, <3>1
  <2>6. FirstIn(q, text, {NL}, l, c.end)
    BY <1>4, <2>1, <2>2, <2>3, <2>4, <2>5 DEF FirstIn
  <2>7. GrepHit(text, c.begin, c.end, l, q)
    BY <2>1, <2>2, <2>3, <2>4, <2>6 DEF GrepHit
  <2> QED
    BY <1>5, <2>1, <2>7 DEF AllGiven
<1>8. AllGiven = Hits
  BY <1>6, <1>7
<1> QED
  BY <1>3, <1>8

LEMMA StringsAnswer == PipeIInv => StringsExact
<1> DEFINE runSet == {ab \in (0 .. total) \X (0 .. total) :
                         /\ ab[1] < ab[2]
                         /\ Maximal(Printable, ab[1], ab[2])
                         /\ Reported(text, ab[1], ab[2], MinLen)}
<1>1. PrintableRuns = {Rec(ab[1], ab[2]) : ab \in runSet}
  BY DEF PrintableRuns
<1> SUFFICES ASSUME PipeIInv, Answered("strings"), ShortLines, LastLineWhole
             PROVE  /\ ToSet(result.recs) \subseteq PrintableRuns
                    /\ Complete => ToSet(result.recs) = PrintableRuns
                    /\ Ascending
                    /\ result.count = Cardinality(PrintableRuns)
  BY DEF StringsExact
<1>2. tool = "strings"
  BY DEF Answered
<1>3. /\ ToSet(result.recs) \subseteq AllGiven /\ (Complete <=> ToSet(result.recs) = AllGiven)
      /\ result.count = Cardinality(AllGiven) /\ Ascends(result.recs)
      /\ result.recs \in Seq(Records) /\ (AllDone \/ total = 0)
  BY <1>2, AnswerFound DEF Apart
<1>4. total \in Nat /\ \A i \in 0 .. total - 1 : text[i] \in Bytes
  BY FileType
<1>5. ASSUME NEW c \in given, NEW r
      PROVE  r \in Found(c) <=> \E i, q : StringsHit(text, total, c.begin, c.end, i, q) /\ r = Rec(i, q)
  <2>0. c.begin \in Nat /\ c.end \in Nat /\ c.begin < c.end
    BY ChunkOfLines
  <2>1. PICK from \in Nat, to \in Nat : from = c.begin /\ to = c.end /\ from < to
    BY <2>0
  <2>2. Found(c) = ToSet(StringsScan(text, total, from, to))
    BY <1>2, <2>1 DEF Found, Scan
  <2>3. StringsHits(StringsScan(text, total, from, to), text, total, from, to)
    BY <2>1, StringsLists
  <2> QED
    BY <2>1, <2>2, <2>3 DEF StringsHits
<1>6. NL \notin Printable
  BY GToolsAssumption
<1>7. ASSUME NEW r \in AllGiven PROVE r \in PrintableRuns
  <2>1. PICK c \in given : r \in Found(c)
    BY DEF AllGiven
  <2>2. PICK a, b : StringsHit(text, total, c.begin, c.end, a, b) /\ r = Rec(a, b)
    BY <1>5, <2>1
  <2>3. /\ c.begin \in Nat /\ c.end \in Nat /\ c.begin < c.end /\ c.end <= total
        /\ c.begin = 0 \/ text[c.begin - 1] = NL
    BY ChunkOfLines
  <2>4. /\ a \in c.begin .. c.end - 1 /\ text[a] \in Printable /\ b \in a .. c.end
        /\ a = c.begin \/ text[a - 1] \notin Printable
        /\ \A i \in a .. b - 1 : text[i] \in Printable
        /\ b < c.end => text[b] \notin Printable
        /\ b < c.end \/ c.end = total
        /\ Reported(text, a, b, MinLen)
    BY <2>2 DEF StringsHit
  <2>5. a < b
    BY <2>3, <2>4
  <2>6. a = 0 \/ text[a - 1] \notin Printable
    BY <1>6, <2>3, <2>4
  <2>7. b = total \/ text[b] \notin Printable
    BY <2>3, <2>4
  <2>8. Maximal(Printable, a, b)
    BY <2>4, <2>6, <2>7 DEF Maximal
  <2>9. a \in 0 .. total /\ b \in 0 .. total
    BY <1>4, <2>3, <2>4
  <2>10. <<a, b>> \in runSet
    BY <2>4, <2>5, <2>8, <2>9
  <2> QED
    BY <1>1, <2>2, <2>10
<1>8. ASSUME NEW r \in PrintableRuns PROVE r \in AllGiven
  <2>1. PICK a \in 0 .. total, b \in 0 .. total :
           /\ a < b /\ r = Rec(a, b)
           /\ Maximal(Printable, a, b) /\ Reported(text, a, b, MinLen)
    BY <1>1
  <2>2. PICK c \in given : c.begin <= a /\ a < c.end
    BY <1>3, <1>4, <2>1, AllInChunks
  <2>3. /\ c.begin \in Nat /\ c.end \in Nat /\ c.begin < c.end /\ c.end <= total
        /\ c.end = total \/ text[c.end - 1] = NL
    BY ChunkOfLines
  <2>4. /\ \A i \in a .. b - 1 : text[i] \in Printable
        /\ a = 0 \/ text[a - 1] \notin Printable
        /\ b = total \/ text[b] \notin Printable
    BY <2>1 DEF Maximal
  <2>5. b < c.end \/ (b = c.end /\ c.end = total)
    <3> SUFFICES ASSUME c.end <= b, ~(b = c.end /\ c.end = total) PROVE FALSE
      BY <1>4, <2>1, <2>3
    <3>1. c.end - 1 \in a .. b - 1 /\ c.end # total
      BY <1>4, <2>1, <2>2, <2>3
    <3> QED
      BY <1>6, <2>3, <2>4, <3>1
  <2>6. /\ a \in c.begin .. c.end - 1 /\ b \in a .. c.end
        /\ a = c.begin \/ text[a - 1] \notin Printable
        /\ b < c.end => text[b] \notin Printable
        /\ b < c.end \/ c.end = total
        /\ text[a] \in Printable
    BY <1>4, <2>1, <2>2, <2>3, <2>4, <2>5
  <2>7. StringsHit(text, total, c.begin, c.end, a, b)
    BY <2>1, <2>4, <2>6 DEF StringsHit
  <2> QED
    BY <1>5, <2>1, <2>7 DEF AllGiven
<1>9. AllGiven = PrintableRuns
  BY <1>7, <1>8
<1>10. Ascending
  <2>1. Len(result.recs) \in Nat
    BY <1>3
  <2> QED
    BY <1>3, <2>1 DEF Ascending, Ascends
<1> QED
  BY <1>3, <1>9, <1>10

(* g_grep reports the lines that contain the needle, each once, whatever    *)
(* the chunks and the interleaving: on every file with short lines of which *)
(* no border cuts an unterminated last line, for any number of workers and  *)
(* any chunk size and lookahead.                                            *)
THEOREM GrepLines == ClientSpec => []GrepExact
  BY GrepAnswer, PipeInvariance, PTL

(* g_strings reports the printable runs that pass its filters, each once,   *)
(* in ascending order, and counts them all, also when appends fail; on the  *)
(* same files.                                                              *)
THEOREM StringsRuns == ClientSpec => []StringsExact
  BY StringsAnswer, PipeInvariance, PTL

(* g_hist counts every byte once, on every file with short lines.           *)
THEOREM HistBytes == ClientSpec => []HistExact
  BY HistAnswer, PipeInvariance, PTL
-----------------------------------------------------------------------------
(* UTF-16.                                                                  *)

(* The entropy filter lets every UTF-16 string pass. *)
NoneDense ==
    \A bytes \in Seq(Bytes) : (\A i \in DOMAIN bytes : i % 2 = 0 => bytes[i] = Zero) => ~Dense(bytes)

(* The string of n characters at offset i that g_unicode should find. *)
UnicodeRun(from, to, i, n) ==
    /\ i \in from .. to /\ n \in MinChars .. total /\ i + 2 * n <= to
    /\ \A k \in 0 .. n - 1 : Pair(text, i + 2 * k)
    /\ i < from + 2 \/ ~Pair(text, i - 2)
    /\ i + 2 * n + 1 >= to \/ ~Pair(text, i + 2 * n)

LEMMA UnicodeRunsAre ==
    ASSUME NEW from, NEW to, NEW x
    PROVE  x \in UnicodeRuns(from, to) <=>
              \E i, n : UnicodeRun(from, to, i, n) /\ x = [offset |-> i, chars |-> n]
<1> DEFINE D == {r \in (from .. to) \X (MinChars .. total) :
            /\ r[1] + 2 * r[2] <= to
            /\ \A k \in 0 .. r[2] - 1 : Pair(text, r[1] + 2 * k)
            /\ r[1] < from + 2 \/ ~Pair(text, r[1] - 2)
            /\ r[1] + 2 * r[2] + 1 >= to \/ ~Pair(text, r[1] + 2 * r[2])}
<1>1. UnicodeRuns(from, to) = {[offset |-> r[1], chars |-> r[2]] : r \in D}
  BY DEF UnicodeRuns
<1>2. ASSUME NEW i, NEW n PROVE <<i, n>> \in D <=> UnicodeRun(from, to, i, n)
  BY DEF UnicodeRun
<1>3. \A r \in D : r = <<r[1], r[2]>>
  OBVIOUS
<1> HIDE DEF D
<1>4. ASSUME x \in UnicodeRuns(from, to)
      PROVE  \E i, n : UnicodeRun(from, to, i, n) /\ x = [offset |-> i, chars |-> n]
  <2>1. PICK r \in D : x = [offset |-> r[1], chars |-> r[2]]
    BY <1>1, <1>4
  <2>2. UnicodeRun(from, to, r[1], r[2])
    BY <1>2, <1>3
  <2> QED
    BY <2>1, <2>2
<1>5. ASSUME NEW i, NEW n, UnicodeRun(from, to, i, n), x = [offset |-> i, chars |-> n]
      PROVE  x \in UnicodeRuns(from, to)
  <2>1. PICK r \in D : r = <<i, n>>
    BY <1>2, <1>5
  <2>2. r[1] = i /\ r[2] = n
    BY <2>1
  <2> QED
    BY <1>1, <1>5, <2>2
<1> QED
  BY <1>4, <1>5

LEMMA Halves ==
    ASSUME NEW n \in Nat
    PROVE  /\ (2 * n) \div 2 = n /\ (2 * n + 1) \div 2 = n
           /\ \E m \in Nat : m = n \div 2 /\ (n = 2 * m \/ n = 2 * m + 1)
<1>1. n \div 2 \in Nat /\ (n = 2 * (n \div 2) \/ n = 2 * (n \div 2) + 1)
  OBVIOUS
<1>2. (2 * n) \div 2 = n /\ (2 * n + 1) \div 2 = n
  OBVIOUS
<1> QED
  BY <1>1, <1>2

(* Offsets of one alignment. *)
LEMMA SameParity ==
    ASSUME NEW i \in Nat, NEW k \in Nat, i <= k
    PROVE  k % 2 = i % 2 <=> \E m \in Nat : k = i + 2 * m
<1>1. ASSUME k % 2 = i % 2 PROVE \E m \in Nat : k = i + 2 * m
  <2>1. PICK d \in Nat : k = i + d
    <3>1. k - i \in Nat /\ k = i + (k - i)
      OBVIOUS
    <3> QED
      BY <3>1
  <2>2. PICK m \in Nat : d = 2 * m \/ d = 2 * m + 1
    BY Halves
  <2>3. d = 2 * m
    BY <1>1, <2>1, <2>2
  <2> QED
    BY <2>1, <2>3
<1>2. ASSUME NEW m \in Nat, k = i + 2 * m PROVE k % 2 = i % 2
  BY <1>2
<1> QED
  BY <1>1, <1>2

(* A record of g_unicode is a string, and a string gives a record. *)
LEMMA HitIsRun ==
    ASSUME total \in Nat, NEW from \in Nat, NEW to \in Nat, to <= total, NEW i \in Nat, NEW q \in Nat,
           UnicodeHit(text, total, from, to, i, q)
    PROVE  /\ Rec(i, q).offset = i /\ UnicodeRun(from, to, i, Rec(i, q).len \div 2)
           /\ to = total \/ i + 2 * (Rec(i, q).len \div 2) + 2 <= to
<1>1. /\ from <= i /\ i <= to - 2 /\ i + 1 <= q /\ q <= to
      /\ q = to \/ (q <= to - 2 /\ q % 2 = i % 2)
      /\ q - i >= 2 * MinChars /\ (q < to \/ to = total)
  BY DEF UnicodeHit, Reported
<1>2. /\ i < from + 2 \/ ~Pair(text, i - 2)
      /\ \A k \in i .. q - 1 : k <= to - 2 /\ k % 2 = i % 2 => Pair(text, k)
      /\ q = to \/ ~Pair(text, q)
  BY DEF UnicodeHit
<1>3. PICK d \in Nat : d = q - i /\ q = i + d
  BY <1>1
<1>4. PICK n \in Nat : n = d \div 2 /\ (d = 2 * n \/ d = 2 * n + 1)
  BY Halves
<1>5. Rec(i, q).offset = i /\ Rec(i, q).len \div 2 = n
  BY <1>3, <1>4 DEF Rec
<1>6. MinChars \in Nat /\ MinChars <= n /\ n <= total /\ i + 2 * n <= to
  BY <1>1, <1>3, <1>4, GToolsAssumption
<1>7. ASSUME NEW k \in 0 .. n - 1 PROVE Pair(text, i + 2 * k)
  <2>1. PICK j \in Nat : j = i + 2 * k
    OBVIOUS
  <2>2. j \in i .. q - 1 /\ j <= to - 2
    BY <1>1, <1>3, <1>4, <2>1
  <2>3. j % 2 = i % 2
    BY <2>1, <2>2, SameParity
  <2> QED
    BY <1>2, <2>1, <2>2, <2>3
<1>8. q # to => q = i + 2 * n
  <2>1. ASSUME q # to PROVE q = i + 2 * n
    <3>1. PICK m \in Nat : q = i + 2 * m
      BY <1>1, <2>1, SameParity
    <3> QED
      BY <1>3, <1>4, <3>1
  <2> QED
    BY <2>1
<1>9. i + 2 * n + 1 >= to \/ ~Pair(text, i + 2 * n)
  <2>1. CASE q = to
    BY <1>3, <1>4, <2>1
  <2>2. CASE q # to
    BY <1>2, <1>8, <2>2
  <2> QED
    BY <2>1, <2>2
<1>10. to = total \/ i + 2 * n + 2 <= to
  BY <1>1, <1>8
<1>11. UnicodeRun(from, to, i, n)
  <2>1. i \in from .. to /\ n \in MinChars .. total
    BY <1>1, <1>6
  <2> QED
    BY <1>2, <1>6, <1>7, <1>9, <2>1 DEF UnicodeRun
<1> QED
  BY <1>5, <1>10, <1>11

LEMMA RunIsHit ==
    ASSUME total \in Nat, NoneDense, \A i \in 0 .. total - 1 : text[i] \in Bytes,
           NEW from \in Nat, NEW to \in Nat, to <= total, NEW i \in Nat, NEW n \in Nat,
           UnicodeRun(from, to, i, n), to = total \/ i + 2 * n + 2 <= to
    PROVE  \E q \in Nat : UnicodeHit(text, total, from, to, i, q) /\ Rec(i, q).len \div 2 = n
<1>0. MinChars \in Nat \ {0}
  BY GToolsAssumption
<1>1. from <= i /\ 1 <= n /\ MinChars <= n /\ i + 2 * n <= to
  <2>1. i \in from .. to /\ n \in MinChars .. total /\ i + 2 * n <= to
    BY DEF UnicodeRun
  <2> QED
    BY <1>0, <2>1
<1>2. /\ \A k \in 0 .. n - 1 : Pair(text, i + 2 * k)
      /\ i < from + 2 \/ ~Pair(text, i - 2)
      /\ i + 2 * n + 1 >= to \/ ~Pair(text, i + 2 * n)
  BY DEF UnicodeRun
<1>3. PICK q \in Nat : /\ i + 1 <= q /\ q <= to
                       /\ q = i + 2 * n \/ q = i + 2 * n + 1
                       /\ q = to \/ (q + 2 <= to /\ q = i + 2 * n)
                       /\ q < to \/ to = total
  <2>1. CASE i + 2 * n + 2 <= to
    <3>1. PICK q \in Nat : q = i + 2 * n
      OBVIOUS
    <3>2. i + 1 <= q /\ q <= to /\ q + 2 <= to /\ q < to
      BY <1>1, <2>1, <3>1
    <3> QED
      BY <3>1, <3>2
  <2>2. CASE ~(i + 2 * n + 2 <= to)
    <3>1. to = total /\ i + 1 <= to /\ (to = i + 2 * n \/ to = i + 2 * n + 1)
      BY <1>1, <2>2
    <3> QED
      BY <3>1
  <2> QED
    BY <2>1, <2>2
<1>4. Pair(text, i)
  <2>1. i + 2 * 0 = i /\ 0 \in 0 .. n - 1
    BY <1>1
  <2> QED
    BY <1>2, <2>1
<1>5. ASSUME NEW k \in i .. q - 1, k <= to - 2, k % 2 = i % 2 PROVE Pair(text, k)
  <2>0. k \in Nat /\ i <= k
    OBVIOUS
  <2>1. PICK m \in Nat : k = i + 2 * m
    BY <1>5, <2>0, SameParity
  <2>2. m \in 0 .. n - 1
    BY <1>1, <1>3, <1>5, <2>1
  <2> QED
    BY <1>2, <2>1, <2>2
<1>6. q = to \/ (q <= to - 2 /\ q % 2 = i % 2 /\ ~Pair(text, q))
  <2>1. CASE q = to
    BY <2>1
  <2>2. CASE q # to
    <3>1. q + 2 <= to /\ q = i + 2 * n /\ i <= q
      BY <1>3, <2>2
    <3>2. q % 2 = i % 2
      BY <3>1, SameParity
    <3>3. ~(i + 2 * n + 1 >= to)
      BY <3>1
    <3> QED
      BY <1>2, <3>1, <3>2, <3>3
  <2> QED
    BY <2>1, <2>2
<1>7. PICK d \in Nat : d = q - i /\ q = i + d /\ (d = 2 * n \/ d = 2 * n + 1)
  BY <1>3
<1>8. Reported(text, i, q, 2 * MinChars)
  <2> DEFINE s == [j \in 1 .. q - i |-> text[i + j - 1]]
  <2>1. \A j \in 1 .. d : i + j - 1 \in 0 .. total - 1
    BY <1>3, <1>7
  <2>2. s \in Seq(Bytes) /\ DOMAIN s = 1 .. d
    <3>1. s = [j \in 1 .. d |-> text[i + j - 1]]
      BY <1>7
    <3>2. \A j \in 1 .. d : text[i + j - 1] \in Bytes
      BY <2>1
    <3> HIDE DEF s
    <3> QED
      BY <3>1, <3>2
  <2>3. ASSUME NEW j \in 1 .. d, j % 2 = 0 PROVE s[j] = Zero
    <3>1. PICK m \in Nat : j = 2 * m
      <4>1. j \in Nat
        OBVIOUS
      <4>2. PICK m \in Nat : j = 2 * m \/ j = 2 * m + 1
        BY <4>1, Halves
      <4> QED
        BY <2>3, <4>2
    <3>2. PICK k \in 0 .. n - 1 : m = k + 1
      <4>1. m - 1 \in 0 .. n - 1 /\ m = (m - 1) + 1
        BY <1>7, <3>1
      <4> QED
        BY <4>1
    <3>3. i + j - 1 = i + 2 * k + 1
      BY <3>1, <3>2
    <3>4. s[j] = text[i + 2 * k + 1]
      BY <1>7, <3>3
    <3> HIDE DEF s
    <3> QED
      BY <1>2, <3>4 DEF Pair
  <2>4. ~Dense(s)
    <3> HIDE DEF s
    <3> QED
      BY <2>2, <2>3 DEF NoneDense
  <2>5. q - i >= 2 * MinChars
    BY <1>0, <1>1, <1>7
  <2> QED
    BY <2>4, <2>5 DEF Reported
<1>9. UnicodeHit(text, total, from, to, i, q)
  <2>1. i \in from .. to - 2 /\ q \in i + 1 .. to
    BY <1>1, <1>3
  <2> QED
    BY <1>2, <1>3, <1>4, <1>5, <1>6, <1>8, <2>1 DEF UnicodeHit
<1>10. Rec(i, q).len \div 2 = n
  <2>1. Rec(i, q).len = d
    BY <1>7 DEF Rec
  <2>2. d \div 2 = n
    BY <1>7, Halves
  <2> QED
    BY <2>1, <2>2
<1> QED
  BY <1>9, <1>10

LEMMA UnicodeAnswer ==
    ASSUME Lookahead <= ChunkSize, NoneDense, PipeIInv
    PROVE  UnicodeExact
<1> DEFINE inside(c) == {r \in ToSet(result.recs) : c.begin <= r.offset /\ r.offset < c.end}
           strings(c) == {[offset |-> r.offset, chars |-> r.len \div 2] : r \in inside(c)}
           known(c) == {r \in UnicodeRuns(c.begin, c.end) :
                           c.end = total \/ r.offset + 2 * r.chars + 2 <= c.end}
<1> SUFFICES ASSUME Answered("unicode"), Complete
             PROVE  Ascending /\ \A c \in {d \in given : d.begin % 2 = 0} : strings(c) = known(c)
  BY DEF UnicodeExact
<1>1. tool = "unicode" /\ Apart
  BY DEF Answered, Apart
<1>2. ToSet(result.recs) = AllGiven /\ Ascends(result.recs) /\ result.recs \in Seq(Records)
  BY <1>1, AnswerFound
<1>3. total \in Nat /\ \A i \in 0 .. total - 1 : text[i] \in Bytes
  BY FileType
<1>4. Ascending
  <2>1. Len(result.recs) \in Nat
    BY <1>2
  <2> QED
    BY <1>2, <2>1 DEF Ascending, Ascends
<1>5. ASSUME NEW c \in given PROVE inside(c) = Found(c)
  <2>1. PICK s : s = Scan(tool, text, total, c.begin, c.end) /\ Tidy(s, c.begin, c.end)
    BY ChunkFound
  <2>2. \A r \in Found(c) : c.begin <= r.offset /\ r.offset < c.end
    <3>1. c.begin \in Nat /\ c.end \in Nat
      BY ChunkFound
    <3>2. \A r \in Found(c) : \E k \in 1 .. Len(s) : r = s[k]
      BY <2>1 DEF Found, ToSet, Tidy
    <3> QED
      BY <2>1, <3>1, <3>2 DEF Tidy
  <2>3. ASSUME NEW r \in AllGiven, c.begin <= r.offset, r.offset < c.end PROVE r \in Found(c)
    <3>1. PICK d \in given : r \in Found(d)
      BY DEF AllGiven
    <3>2. PICK t : t = Scan(tool, text, total, d.begin, d.end) /\ Tidy(t, d.begin, d.end)
      BY ChunkFound
    <3>3. PICK k \in 1 .. Len(t) : r = t[k]
      BY <3>1, <3>2 DEF Found, ToSet, Tidy
    <3>4. r.offset \in d.begin .. d.end - 1
      BY <3>2, <3>3 DEF Tidy
    <3>5. c.begin \in Nat /\ c.end \in Nat /\ d.begin \in Nat /\ d.end \in Nat
      BY ChunkFound
    <3>6. c # d => c.end <= d.begin \/ d.end <= c.begin
      BY <1>1, CutApart DEF PipeIInv, Apart
    <3>7. c = d
      BY <2>3, <3>4, <3>5, <3>6
    <3> QED
      BY <3>1, <3>7
  <2>4. Found(c) \subseteq AllGiven
    BY DEF AllGiven
  <2> QED
    BY <1>2, <2>2, <2>3, <2>4
<1> HIDE DEF inside
<1>6. ASSUME NEW c \in given, c.begin % 2 = 0 PROVE strings(c) = known(c)
  <2>0. c.begin \in Nat /\ c.end \in Nat /\ c.begin < c.end /\ c.end <= total
    BY ChunkFound, ChunkGiven DEF PipeIInv
  <2>1. PICK from \in Nat, to \in Nat : from = c.begin /\ to = c.end /\ from < to /\ to <= total /\ from % 2 = 0
    BY <1>6, <2>0
  <2>2. inside(c) = ToSet(UnicodeScan(text, total, from, to))
    BY <1>1, <1>5, <2>1 DEF Found, Scan
  <2>3. UnicodeHits(UnicodeScan(text, total, from, to), text, total, from, to)
    BY <2>1, UnicodeLists
  <2>4. \A r : r \in inside(c) <=> \E i, q : UnicodeHit(text, total, from, to, i, q) /\ r = Rec(i, q)
    BY <2>2, <2>3 DEF UnicodeHits
  <2>5. ASSUME NEW x \in strings(c) PROVE x \in known(c)
    <3>1. PICK r \in inside(c) : x = [offset |-> r.offset, chars |-> r.len \div 2]
      OBVIOUS
    <3>2. PICK i, q : UnicodeHit(text, total, from, to, i, q) /\ r = Rec(i, q)
      BY <2>4
    <3>3. i \in Nat /\ q \in Nat
      BY <2>1, <3>2 DEF UnicodeHit
    <3>4. PICK n : n = r.len \div 2
      OBVIOUS
    <3>5. r.offset = i /\ UnicodeRun(from, to, i, n) /\ (to = total \/ i + 2 * n + 2 <= to)
      BY <1>3, <2>1, <3>2, <3>3, <3>4, HitIsRun
    <3>6. x = [offset |-> i, chars |-> n]
      BY <3>1, <3>4, <3>5
    <3>7. x \in UnicodeRuns(from, to) /\ x.offset = i /\ x.chars = n
      BY <3>5, <3>6, UnicodeRunsAre
    <3> QED
      BY <2>1, <3>5, <3>7
  <2>6. ASSUME NEW x \in known(c) PROVE x \in strings(c)
    <3>1. x \in UnicodeRuns(from, to) /\ (to = total \/ x.offset + 2 * x.chars + 2 <= to)
      BY <2>1
    <3>2. PICK i, n : UnicodeRun(from, to, i, n) /\ x = [offset |-> i, chars |-> n]
      BY <3>1, UnicodeRunsAre
    <3>3. i \in Nat /\ n \in Nat
      BY <1>3, <2>1, <3>2, GToolsAssumption DEF UnicodeRun
    <3>4. to = total \/ i + 2 * n + 2 <= to
      BY <3>1, <3>2
    <3>5. PICK q \in Nat : UnicodeHit(text, total, from, to, i, q) /\ Rec(i, q).len \div 2 = n
      BY <1>3, <2>1, <3>2, <3>3, <3>4, RunIsHit
    <3>6. PICK r \in inside(c) : r = Rec(i, q)
      BY <2>4, <3>5
    <3>7. r.offset = i /\ r.len \div 2 = n
      BY <3>5, <3>6 DEF Rec
    <3> QED
      BY <3>2, <3>7
  <2> HIDE DEF strings, known
  <2> QED
    BY <2>5, <2>6
<1> HIDE DEF strings, known
<1> QED
  BY <1>4, <1>6

(* g_unicode reports the UTF-16 strings of the chunks that begin at an even *)
(* offset, each once and in ascending order, however the SIMD blocks cut    *)
(* them: where the lookahead is no larger than a chunk, as in every tool,   *)
(* and the entropy filter lets UTF-16 pass.                                 *)
THEOREM UnicodeStrings ==
    ASSUME Lookahead <= ChunkSize, NoneDense
    PROVE  ClientSpec => []UnicodeExact
<1>1. PipeIInv => UnicodeExact
  BY UnicodeAnswer
<1> QED
  BY <1>1, PipeInvariance, PTL
-----------------------------------------------------------------------------
(* The callers.                                                             *)

(* Records of bytes come from every tool but g_hist. *)
LEMMA ResultPieces ==
    ASSUME PipeIInv, result.done, tool # "hist"
    PROVE  result.recs \in Seq(Pieces)
<1>1. CASE ~result.ok
  <2>1. result.recs = <<>>
    BY <1>1 DEF PipeIInv, AnswerInv
  <2> QED
    BY <2>1
<1>2. CASE result.ok
  <2>1. result.recs = Merged /\ out \in Arenas
    BY <1>2, ArenasType DEF PipeIInv, AnswerInv
  <2>2. PICK s \in Seq(Records) : s = Merged /\ Joint(s, out)
    BY <2>1, MergedJoint DEF Joint
  <2>3. \A w \in Workers : ToSet(out[w].recs) \subseteq Pieces
    BY DEF PipeIInv, Counted, Stored
  <2>4. \A k \in 1 .. Len(s) : s[k] \in Pieces
    BY <2>2, <2>3 DEF Joint
  <2> QED
    BY <2>1, <2>2, <2>4
<1> QED
  BY <1>1, <1>2

(* The count of no record. *)
LEMMA SumIsZero ==
    ASSUME NEW o \in Arenas, CountSum(o) = 0, NEW w \in Workers
    PROVE  o[w].count = 0
<1>1. PICK n \in Nat : n = o[w].count
  BY DEF Arenas
<1> DEFINE z == [v \in Workers |-> [recs |-> o[v].recs, count |-> IF v = w THEN 0 ELSE o[v].count]]
<1>2. \A v \in Workers : z[v].count = (IF v = w THEN 0 ELSE o[v].count) /\ o[v].count \in Nat
  BY DEF Arenas
<1> HIDE DEF z
<1>3. \A v \in Workers : z[v].count \in Nat /\ o[v].count = IF v = w THEN z[v].count + n ELSE z[v].count
  BY <1>1, <1>2
<1>4. Adds(o, z, w, n, Workers)
  BY <1>3 DEF Adds
<1>5. SumOf(z, Workers) \in Nat /\ SumOf(o, Workers) = SumOf(z, Workers) + n
  BY <1>4, SumOfGrows, PipelineAssumption
<1>6. SumOf(o, Workers) = 0
  BY DEF CountSum, SumOf
<1> QED
  BY <1>1, <1>5, <1>6

LEMMA NothingCounted ==
    ASSUME PipeIInv, result.done, result.count = 0
    PROVE  result.recs = <<>>
<1>1. CASE ~result.ok
  BY <1>1 DEF PipeIInv, AnswerInv
<1>2. CASE result.ok
  <2>1. result.recs = Merged /\ CountSum(out) = 0 /\ out \in Arenas
    BY <1>2, ArenasType DEF PipeIInv, AnswerInv
  <2>2. PICK s \in Seq(Records) : s = Merged /\ Joint(s, out)
    BY <2>1, MergedJoint DEF Joint
  <2>3. \A w \in Workers : out[w].recs = <<>>
    BY <2>1, SumIsZero DEF PipeIInv, Counted, Stored
  <2>4. \A w \in Workers : ToSet(out[w].recs) = {}
    BY <2>3 DEF ToSet
  <2>5. Len(s) = 0
    <3>1. \A k \in 1 .. Len(s) : FALSE
      BY <2>2, <2>4 DEF Joint
    <3> QED
      BY <3>1
  <2> QED
    BY <2>1, <2>2, <2>5
<1> QED
  BY <1>1, <1>2

(* What can stand in a buffer of g_grep. *)
Chars == {text[i] : i \in Nat} \cup {Zero}

LEMMA LineType ==
    ASSUME NEW r \in Pieces
    PROVE  Line(r) \in Seq(Chars) /\ Len(Line(r)) = r.len /\ Len(Line(r)) # 0
<1>1. r.offset \in Nat /\ r.len \in Nat /\ r.len # 0
  BY DEF Pieces
<1>2. \A i \in 1 .. r.len : text[r.offset + i - 1] \in Chars
  BY <1>1 DEF Chars
<1> QED
  BY <1>1, <1>2 DEF Line

(* The pieces of the buffer of g_grep. *)
Ended == [i \in 1 .. Len(result.recs) |-> Line(result.recs[i]) \o <<Zero>>]

LEMMA EndedType ==
    ASSUME result.recs \in Seq(Pieces)
    PROVE  /\ Ended \in Seq(Seq(Chars)) /\ Len(Ended) = Len(result.recs)
           /\ \A i \in 1 .. Len(result.recs) : Ended[i] = Line(result.recs[i]) \o <<Zero>>
<1>1. Len(result.recs) \in Nat /\ \A i \in 1 .. Len(result.recs) : result.recs[i] \in Pieces
  OBVIOUS
<1>2. <<Zero>> \in Seq(Chars)
  BY DEF Chars
<1>3. \A i \in 1 .. Len(result.recs) : Line(result.recs[i]) \o <<Zero>> \in Seq(Chars)
  BY <1>1, <1>2, LineType
<1> QED
  BY <1>1, <1>3 DEF Ended

LEMMA BufferType ==
    ASSUME PipeIInv, result.done, tool \in Wrapped
    PROVE  /\ Len(Buffer) \in Nat
           /\ Len(Buffer) = 0 <=> result.recs = <<>>
<1>1. result.recs \in Seq(Pieces)
  BY ResultPieces DEF Wrapped
<1>2. CASE tool = "strings"
  BY <1>1, <1>2 DEF Buffer
<1>3. CASE tool = "grep"
  <2>1. Buffer = FlattenSeq(Ended)
    BY <1>3 DEF Buffer, Ended
  <2>2. PICK s \in Seq(Seq(Chars)) : /\ s = Ended /\ Len(s) = Len(result.recs)
                                    /\ \A i \in 1 .. Len(s) : s[i] = Line(result.recs[i]) \o <<Zero>>
    BY <1>1, EndedType
  <2>3. CASE s = <<>>
    <3>1. FlattenSeq(s) = <<>>
      BY <2>3 DEF FlattenSeq
    <3>2. result.recs = <<>>
      BY <1>1, <2>2, <2>3
    <3> QED
      BY <2>1, <2>2, <3>1, <3>2
  <2>4. CASE s # <<>>
    <3>1. PICK t \in Seq(Chars) : t = FlattenSeq(s) /\ Holds(t, s, Len(s))
      BY <2>4, FlattenRecords
    <3>2. 1 \in 1 .. Len(s)
      BY <2>4
    <3>3. 1 \in 1 .. Len(s[1])
      <4>0. s[1] = Line(result.recs[1]) \o <<Zero>>
        BY <2>2, <3>2, Zenon
      <4>1. s[1] = Line(result.recs[1]) \o <<Zero>> /\ result.recs[1] \in Pieces
        BY <1>1, <2>2, <3>2, <4>0
      <4>2. Line(result.recs[1]) \in Seq(Chars)
        BY <4>1, LineType
      <4>3. Len(s[1]) = Len(Line(result.recs[1])) + 1
        BY <4>1, <4>2
      <4> QED
        BY <4>2, <4>3
    <3>4. Len(t) # 0
      BY <3>1, <3>2, <3>3 DEF Holds
    <3>5. result.recs # <<>>
      BY <2>2, <3>2
    <3> QED
      BY <2>1, <2>2, <3>1, <3>4, <3>5
  <2> QED
    BY <2>3, <2>4
<1> QED
  BY <1>2, <1>3 DEF Wrapped

LEMMA ClientInitInv == ClientInit => ClientIInv /\ BuffersFreed
<1> SUFFICES ASSUME ClientInit PROVE ClientIInv /\ BuffersFreed
  OBVIOUS
<1>1. PipeIInv
  BY PipeInitInv DEF ClientInit
<1>2. ClientInv /\ BuffersFreed
  BY DEF ClientInit, ClientInv, BuffersFreed
<1> QED
  BY <1>1, <1>2 DEF ClientIInv

(* The answer is final. *)
LEMMA ClientStepScan ==
    [ClientNext]_allVars => \/ PipeStep /\ UNCHANGED clientVars
                            \/ ClientStep /\ UNCHANGED pipeVars
                            \/ UNCHANGED allVars
  BY DEF ClientNext, ClientStep, Receive, Count, GiveUp, Decode, Free, FileGone, Over

LEMMA ScanGoesOn == PipeStep => ~result.done
  BY DEF PipeStep, Merge, MergeFails

LEMMA SameBuffer == UNCHANGED pipeVars => Buffer' = Buffer /\ UNCHANGED <<tool, result>>
  BY DEF pipeVars, vars, file, Buffer, Line

LEMMA ClientNextInv ==
    ASSUME ClientIInv, BuffersFreed, [ClientNext]_allVars
    PROVE  ClientIInv' /\ BuffersFreed'
<1>1. PipeIInv /\ ClientInv
  BY DEF ClientIInv
<1>2. PipeIInv'
  <2>1. PipeStep \/ UNCHANGED pipeVars
    BY ClientStepScan DEF allVars
  <2> QED
    BY <1>1, <2>1, PipeNextInv
<1>3. CASE PipeStep /\ UNCHANGED clientVars
  <2>1. stage = "tool" /\ stage' = "tool" /\ UNCHANGED <<arena, read, value>>
    BY <1>1, <1>3, ScanGoesOn DEF ClientInv, clientVars
  <2>2. ClientInv' /\ BuffersFreed'
    BY <1>1, <2>1 DEF ClientInv, BuffersFreed
  <2> QED
    BY <1>2, <2>2 DEF ClientIInv
<1>4. CASE UNCHANGED allVars
  <2>1. UNCHANGED <<client, stage, raw, arena, read, value>> /\ UNCHANGED pipeVars
    BY <1>4 DEF allVars, clientVars
  <2>2. ClientInv' /\ BuffersFreed'
    BY <1>1, <2>1, SameBuffer DEF ClientInv, BuffersFreed
  <2> QED
    BY <1>2, <2>2 DEF ClientIInv
<1>5. CASE ClientStep /\ UNCHANGED pipeVars
  <2>1. Buffer' = Buffer /\ UNCHANGED <<tool, result>>
    BY <1>5, SameBuffer
  <2>2. CASE Receive
    <3>1. /\ stage = "tool" /\ stage' = "got" /\ result.done /\ tool \in Wrapped
          /\ client' \in {"python", "cli", "rust"} /\ UNCHANGED <<read, value>>
          /\ raw' = CAbi!GResult(result.ok, Len(Buffer), result.count)
          /\ arena' = CAbi!ArenaOf(raw')
      BY <2>2 DEF Receive
    <3>2. ClientInv' /\ BuffersFreed'
      BY <1>1, <2>1, <3>1 DEF ClientInv, BuffersFreed
    <3> QED
      BY <1>2, <3>2 DEF ClientIInv
  <2>3. CASE Count
    <3>1. /\ stage = "tool" /\ stage' = "over" /\ result.done /\ tool \in Wrapped
          /\ UNCHANGED arena
      BY <2>3 DEF Count
    <3>2. ClientInv' /\ BuffersFreed'
      BY <1>1, <2>1, <3>1 DEF ClientInv, BuffersFreed
    <3> QED
      BY <1>2, <3>2 DEF ClientIInv
  <2>4. CASE GiveUp
    <3>1. stage = "got" /\ stage' = "over" /\ NoData /\ UNCHANGED <<client, arena>>
      BY <2>4 DEF GiveUp
    <3>2. /\ client \in {"python", "cli", "rust"} /\ result.done /\ tool \in Wrapped
          /\ raw = CAbi!GResult(result.ok, Len(Buffer), result.count) /\ arena = CAbi!ArenaOf(raw)
      BY <1>1, <3>1 DEF ClientInv
    <3>3. Len(Buffer) \in Nat /\ (Len(Buffer) = 0 <=> result.recs = <<>>)
      BY <1>1, <3>2, BufferType
    <3>4. CASE ~result.ok
      <4>1. arena = "none"
        BY <3>2, <3>4 DEF CAbi!GResult, CAbi!ArenaOf, CAbi!NullResult
      <4>2. ClientInv' /\ BuffersFreed'
        BY <2>1, <3>1, <3>2, <4>1 DEF ClientInv, BuffersFreed
      <4> QED
        BY <1>2, <4>2 DEF ClientIInv
    <3>5. CASE result.ok
      <4>1. /\ raw.owner /\ raw.count = result.count
            /\ raw.data <=> Len(Buffer) > 0
            /\ arena = IF raw.data THEN "buffer" ELSE "object"
        BY <3>2, <3>5 DEF CAbi!GResult, CAbi!ArenaOf
      <4>2. client # "rust" /\ result.recs = <<>>
        <5>1. CASE client # "rust" /\ ~raw.data
          BY <3>3, <4>1, <5>1
        <5>2. CASE client = "python" /\ tool = "strings" /\ raw.count = 0
          BY <1>1, <3>2, <4>1, <5>2, NothingCounted
        <5> QED
          BY <3>1, <5>1, <5>2 DEF NoData
      <4>3. arena = "object"
        BY <3>3, <4>1, <4>2
      <4>4. ClientInv' /\ BuffersFreed'
        BY <2>1, <3>1, <3>2, <3>5, <4>2, <4>3 DEF ClientInv, BuffersFreed
      <4> QED
        BY <1>2, <4>4 DEF ClientIInv
    <3> QED
      BY <3>4, <3>5
  <2>5. CASE Decode
    <3>1. stage = "got" /\ stage' = "decoded" /\ UNCHANGED <<client, raw, arena>>
      BY <2>5 DEF Decode
    <3>2. ClientInv' /\ BuffersFreed'
      BY <1>1, <2>1, <3>1 DEF ClientInv, BuffersFreed
    <3> QED
      BY <1>2, <3>2 DEF ClientIInv
  <2>6. CASE Free \/ FileGone
    <3>1. /\ stage \in {"got", "decoded"} /\ stage' \in {"over", "failed"}
          /\ arena' = CAbi!AfterFree(raw, arena)
      BY <2>6 DEF Free, FileGone
    <3>2. arena = CAbi!ArenaOf(raw) /\ result.done /\ tool \in Wrapped
      BY <1>1, <3>1 DEF ClientInv
    <3>3. arena' = "none"
      BY <3>1, <3>2 DEF CAbi!AfterFree, CAbi!ArenaOf
    <3>4. ClientInv' /\ BuffersFreed'
      BY <2>1, <3>1, <3>2, <3>3 DEF ClientInv, BuffersFreed
    <3> QED
      BY <1>2, <3>4 DEF ClientIInv
  <2> QED
    BY <1>5, <2>2, <2>3, <2>4, <2>5, <2>6 DEF ClientStep
<1> QED
  BY <1>3, <1>4, <1>5, ClientStepScan

(* The scan and its callers keep ClientIInv: an answer is final, and what   *)
(* the caller holds belongs to it.                                          *)
THEOREM ClientInvariance == ClientSpec => []ClientIInv
<1>1. ClientSpec => [](ClientIInv /\ BuffersFreed)
  <2>1. (ClientIInv /\ BuffersFreed) /\ [ClientNext]_allVars => (ClientIInv /\ BuffersFreed)'
    BY ClientNextInv
  <2> QED
    BY <2>1, ClientInitInv, PTL DEF ClientSpec
<1> QED
  BY <1>1, PTL

(* Every caller that got a buffer gives it back. *)
THEOREM BuffersGivenBack == ClientSpec => []BuffersFreed
<1>1. ClientSpec => [](ClientIInv /\ BuffersFreed)
  <2>1. (ClientIInv /\ BuffersFreed) /\ [ClientNext]_allVars => (ClientIInv /\ BuffersFreed)'
    BY ClientNextInv
  <2> QED
    BY <2>1, ClientInitInv, PTL DEF ClientSpec
<1> QED
  BY <1>1, PTL
-----------------------------------------------------------------------------
(* What the callers return.                                                 *)

(* Each part is the sequence, which holds no NUL, with a NUL behind it. *)
Terminated(parts, q) ==
    \A k \in 1 .. Len(q) : /\ Len(parts[k]) = Len(q[k]) + 1
                           /\ parts[k][Len(q[k]) + 1] = Zero
                           /\ \A j \in 1 .. Len(q[k]) : parts[k][j] = q[k][j] /\ q[k][j] # Zero

(* Sequences with a NUL behind each, joined, are the C strings they were    *)
(* made of.                                                                 *)
LEMMA ZeroEnds ==
    ASSUME NEW S, NEW q \in Seq(Seq(S)), NEW parts \in Seq(Seq(S)), Len(parts) = Len(q),
           Terminated(parts, q)
    PROVE  CStrings(FlattenSeq(parts)) = q
<1> DEFINE n == Len(q)
<1>1. n \in Nat /\ Len(parts) = n /\ \A k \in 1 .. n : q[k] \in Seq(S) /\ Len(q[k]) \in Nat
  OBVIOUS
<1> USE DEF Terminated
<1>0. PICK t \in Seq(S) : t = FlattenSeq(parts) /\ \E e : Cuts(e, t, parts, n)
  BY <1>1, FlatCuts
<1>3. PICK e : t = FlattenSeq(parts) /\ Cuts(e, t, parts, n)
  BY <1>0
<1> DEFINE Z == {i \in DOMAIN t : t[i] = Zero}
           o == [k \in 1 .. n |-> e[k]]
<1>4. /\ DOMAIN t = 1 .. Len(t) /\ Len(t) \in Nat /\ \A k \in 0 .. n : e[k] \in Nat
      /\ \A k \in 1 .. n : k \in 0 .. n /\ k - 1 \in 0 .. n
  <2>1. DOMAIN t = 1 .. Len(t) /\ Len(t) \in Nat
    OBVIOUS
  <2>2. e \in [0 .. n -> Nat]
    BY <1>3 DEF Cuts
  <2>3. \A k \in 1 .. n : k \in 0 .. n /\ k - 1 \in 0 .. n
    BY <1>1
  <2> HIDE DEF n
  <2> QED
    BY <2>1, <2>2, <2>3
<1>5. ASSUME NEW k \in 1 .. n
      PROVE  /\ e[k] = e[k - 1] + Len(q[k]) + 1 /\ e[k] \in 1 .. Len(t)
             /\ t[e[k]] = Zero
             /\ \A j \in 1 .. Len(q[k]) : t[e[k - 1] + j] = q[k][j]
  <2>1. PICK x \in Nat, y \in Nat, l \in Nat : x = e[k - 1] /\ y = e[k] /\ l = Len(q[k])
    BY <1>1, <1>4
  <2>2. Len(parts[k]) = l + 1 /\ y = x + (l + 1) /\ l + 1 \in 1 .. Len(parts[k])
    BY <1>3, <2>1 DEF Cuts
  <2>3. t[x + (l + 1)] = parts[k][l + 1]
    BY <1>3, <2>1, <2>2 DEF Cuts
  <2>4. \A j \in 1 .. l : t[x + j] = q[k][j]
    <3>1. \A j \in 1 .. l : j \in 1 .. Len(parts[k])
      BY <2>2
    <3> QED
      BY <1>3, <2>1, <3>1 DEF Cuts
  <2>5. y <= Len(t)
    <3>1. k < n => e[k] <= e[n]
      BY <1>3, <1>4 DEF Cuts
    <3>2. e[n] = Len(t) /\ k <= n
      BY <1>3 DEF Cuts
    <3> QED
      BY <1>4, <2>1, <3>1, <3>2
  <2>6. t[y] = Zero
    BY <2>1, <2>2, <2>3
  <2>7. y = x + l + 1 /\ y \in 1 .. Len(t)
    BY <1>4, <2>2, <2>5
  <2> QED
    BY <2>1, <2>4, <2>6, <2>7
<1>6. ASSUME NEW i \in Z PROVE \E k \in 1 .. n : o[k] = i
  <2>1. i \in 1 .. Len(t) /\ t[i] = Zero
    BY <1>4
  <2>0. PICK k \in 1 .. n : \E j \in 1 .. Len(parts[k]) : i = e[k - 1] + j
    BY <1>3, <2>1 DEF Cuts
  <2>2. PICK j \in 1 .. Len(parts[k]) : i = e[k - 1] + j
    BY <2>0
  <2>3. j \notin 1 .. Len(q[k])
    BY <1>5, <2>1, <2>2
  <2>4. j = Len(q[k]) + 1
    BY <1>1, <2>3
  <2>5. i = e[k]
    <3>1. PICK x \in Nat, y \in Nat, l \in Nat : x = e[k - 1] /\ y = e[k] /\ l = Len(q[k])
      BY <1>1, <1>4
    <3>2. y = x + l + 1 /\ i = x + j /\ j = l + 1
      BY <1>5, <2>2, <2>4, <3>1
    <3> QED
      BY <3>1, <3>2
  <2> QED
    BY <2>5
<1>7. \A k \in 1 .. n : o[k] \in Z
  BY <1>4, <1>5
<1>8. ASSUME NEW k \in 1 .. n, NEW l \in 1 .. n, k < l PROVE o[k] < o[l]
  <2>1. PICK x \in Nat, y \in Nat, z \in Nat, m \in Nat :
          x = e[k] /\ y = e[l - 1] /\ z = e[l] /\ m = Len(q[l])
    BY <1>1, <1>4
  <2>2. z = y + m + 1
    BY <1>5, <2>1
  <2>3. x <= y
    <3>1. CASE k = l - 1
      BY <2>1, <3>1
    <3>2. CASE k # l - 1
      <4>1. k < l - 1 /\ k \in 0 .. n /\ l - 1 \in 0 .. n
        BY <1>4, <1>8, <3>2
      <4> QED
        BY <1>3, <2>1, <4>1 DEF Cuts
    <3> QED
      BY <3>1, <3>2
  <2>4. o[k] = x /\ o[l] = z
    BY <2>1
  <2>5. x < z
    BY <2>2, <2>3
  <2> QED
    BY <2>4, <2>5
<1>9. \A k \in 1 .. n : o[k] \in Nat
  BY <1>4
<1>10. IsFiniteSet(Z) /\ Z \in SUBSET Nat /\ Cardinality(Z) = n
  <2>1. o \in [1 .. n -> Z]
    BY <1>7
  <2>2. ASSUME NEW k \in 1 .. n, NEW l \in 1 .. n, o[k] = o[l] PROVE k = l
    <3>1. ~(o[k] < o[l]) /\ ~(o[l] < o[k])
      BY <1>9, <2>2
    <3>2. ~(k < l) /\ ~(l < k)
      BY <1>8, <3>1
    <3> QED
      BY <3>2
  <2> HIDE DEF o, Z
  <2>3. o \in Bijection(1 .. n, Z)
    BY <1>6, <2>1, <2>2 DEF Bijection, Injection, Surjection, IsInjective
  <2>4. ExistsBijection(1 .. n, Z)
    BY <2>3 DEF ExistsBijection
  <2>5. IsFiniteSet(Z) /\ Cardinality(Z) = n
    BY <1>1, <2>4, FS_NatBijection, FS_CountingElements
  <2>6. Z \in SUBSET Nat
    BY <1>4 DEF Z
  <2> QED
    BY <2>5, <2>6
<1>11. o \in Seq(Z) /\ Len(o) = n
  BY <1>1, <1>7
<1> HIDE DEF o, Z
<1>12. Enumerates(o, Z)
  BY <1>1, <1>6, <1>8, <1>10, <1>11 DEF Enumerates
<1>13. Ordered(Z) = o
  BY <1>10, <1>12, OrderedSet, EnumeratedOnce
<1> DEFINE c == [k \in 1 .. Len(o) |-> SubSeq(t, IF k = 1 THEN 1 ELSE o[k - 1] + 1, o[k] - 1)]
<1>14. CStrings(t) = c
  BY <1>13 DEF CStrings, Z
<1>15. ASSUME NEW k \in 1 .. n PROVE c[k] = q[k]
  <2>1. PICK x \in Nat, y \in Nat, l \in Nat : x = e[k - 1] /\ y = e[k] /\ l = Len(q[k])
    BY <1>1, <1>4
  <2>2. y = x + l + 1 /\ y <= Len(t) /\ \A j \in 1 .. l : t[x + j] = q[k][j]
    <3>1. /\ e[k] = e[k - 1] + Len(q[k]) + 1 /\ e[k] \in 1 .. Len(t)
          /\ \A j \in 1 .. Len(q[k]) : t[e[k - 1] + j] = q[k][j]
      BY <1>5, Zenon
    <3>2. \A j \in 1 .. l : t[x + j] = q[k][j]
      BY <2>1, <3>1, Zenon
    <3>3. y = x + l + 1 /\ y \in 1 .. Len(t)
      BY <2>1, <3>1, Zenon
    <3> QED
      BY <3>2, <3>3
  <2>3. o[k] = y /\ k \in 1 .. Len(o)
    BY <1>11, <2>1 DEF o
  <2>4. (IF k = 1 THEN 1 ELSE o[k - 1] + 1) = x + 1
    <3>1. CASE k = 1
      BY <1>3, <2>1, <3>1 DEF Cuts
    <3>2. CASE k # 1
      <4>1. k - 1 \in 1 .. n
        BY <3>2
      <4> QED
        BY <2>1, <3>2, <4>1 DEF o
    <3> QED
      BY <3>1, <3>2
  <2>5. c[k] = SubSeq(t, x + 1, y - 1)
    BY <2>3, <2>4
  <2>6. SubSeq(t, x + 1, x + l) = [j \in 1 .. l |-> t[x + j]]
    BY <1>4, <2>2, SubSeqIs
  <2>7. PICK p \in Seq(S) : p = q[k] /\ Len(p) = l /\ \A j \in 1 .. l : t[x + j] = p[j]
    BY <1>1, <2>1, <2>2
  <2>8. [j \in 1 .. l |-> t[x + j]] = p
    <3>1. p = [j \in 1 .. Len(p) |-> p[j]]
      OBVIOUS
    <3>2. [j \in 1 .. l |-> t[x + j]] = [j \in 1 .. Len(p) |-> p[j]]
      BY <2>7
    <3> QED
      BY <3>1, <3>2
  <2>9. y - 1 = x + l
    BY <2>2
  <2> QED
    BY <2>5, <2>6, <2>7, <2>8, <2>9
<1>16. c = [k \in 1 .. n |-> q[k]]
  BY <1>11, <1>15
<1>17. [k \in 1 .. n |-> q[k]] = q
  BY <1>1
<1> QED
  BY <1>3, <1>14, <1>16, <1>17

(* To select every element is to select nothing away. *)
LEMMA SelectAll ==
    ASSUME NEW S, NEW s \in Seq(S)
    PROVE  Select(s, DOMAIN s) = s
<1> DEFINE o == [k \in 1 .. Len(s) |-> k]
<1>1. DOMAIN s = 1 .. Len(s) /\ Len(s) \in Nat
  OBVIOUS
<1>2. IsFiniteSet(1 .. Len(s)) /\ Cardinality(1 .. Len(s)) = Len(s) /\ 1 .. Len(s) \in SUBSET Nat
  BY <1>1, UpTo
<1>3. o \in Seq(1 .. Len(s)) /\ Len(o) = Len(s) /\ \A k \in 1 .. Len(s) : o[k] = k
  BY <1>1
<1> HIDE DEF o
<1>4. Enumerates(o, 1 .. Len(s))
  BY <1>1, <1>2, <1>3 DEF Enumerates
<1>5. Ordered(1 .. Len(s)) = o
  BY <1>2, <1>4, OrderedSet, EnumeratedOnce
<1>6. Select(s, DOMAIN s) = [i \in 1 .. Len(o) |-> s[o[i]]]
  BY <1>1, <1>5 DEF Select
<1>7. [i \in 1 .. Len(o) |-> s[o[i]]] = [i \in 1 .. Len(s) |-> s[i]]
  BY <1>3
<1> QED
  BY <1>6, <1>7

(* What a caller c should have read and returned. *)
ReturnsExact(c, rd, v) ==
    /\ rd <= Len(Buffer)
    /\ c = "count" => v = <<IF result.ok THEN Len(result.recs) ELSE -1>>
    /\ c # "count" /\ tool = "strings" => v = result.recs
    /\ c # "count" /\ tool = "grep" /\ NoZeros => v = Lines

Trusted(c) == Complete \/ c \in {"cli", "rust"}

LEMMA ClientExactIs ==
    ASSUME stage \in {"decoded", "over"} => tool \in Wrapped
    PROVE  ClientExact <=>
               (stage \in {"decoded", "over"} /\ Trusted(client) => ReturnsExact(client, read, value))
  BY Zenon DEF ClientExact, ReturnsExact, Trusted, Wrapped

(* The strings decoded from the buffer of g_grep. *)
LEMMA BufferLines ==
    ASSUME PipeIInv, result.done, tool = "grep", NoZeros
    PROVE  /\ Buffer \in Seq(Chars) /\ CStrings(Buffer) = Lines
           /\ Select(Lines, {k \in DOMAIN Lines : Lines[k] # <<>>}) = Lines
<1>1. result.recs \in Seq(Pieces) /\ Buffer = FlattenSeq(Ended)
  BY ResultPieces DEF Buffer, Ended
<1>2. PICK n \in Nat : /\ n = Len(result.recs) /\ \A k \in 1 .. n : result.recs[k] \in Pieces
                       /\ \A k \in 1 .. n : result.recs[k] \in ToSet(result.recs)
  BY <1>1 DEF ToSet
<1>3. PICK parts \in Seq(Seq(Chars)) : /\ parts = Ended /\ Len(parts) = n
                                       /\ \A k \in 1 .. n : parts[k] = Line(result.recs[k]) \o <<Zero>>
  BY <1>1, <1>2, EndedType
<1>4. /\ \A k \in 1 .. n : Line(result.recs[k]) \in Seq(Chars) /\ Len(Line(result.recs[k])) # 0
      /\ Zero \in Chars
  BY <1>2, LineType DEF Chars
<1>5. PICK q \in Seq(Seq(Chars)) : q = Lines /\ Len(q) = n /\ \A k \in 1 .. n : q[k] = Line(result.recs[k])
  <2> DEFINE q == [k \in 1 .. n |-> Line(result.recs[k])]
  <2>1. \A k \in 1 .. n : Line(result.recs[k]) \in Seq(Chars)
    BY <1>4
  <2>2. q \in Seq(Seq(Chars)) /\ Len(q) = n /\ \A k \in 1 .. n : q[k] = Line(result.recs[k])
    BY <2>1
  <2>3. q = Lines
    BY <1>2 DEF Lines
  <2> QED
    BY <2>2, <2>3
<1>6. ASSUME NEW k \in 1 .. n
      PROVE  /\ Len(parts[k]) = Len(q[k]) + 1 /\ parts[k][Len(q[k]) + 1] = Zero
             /\ \A j \in 1 .. Len(q[k]) : parts[k][j] = q[k][j] /\ q[k][j] # Zero
  <2>1. PICK l \in Seq(Chars) : l = q[k] /\ l = Line(result.recs[k])
    BY <1>4, <1>5
  <2>2. parts[k] = l \o <<Zero>>
    BY <1>3, <2>1
  <2>3. <<Zero>> \in Seq(Chars) /\ Len(<<Zero>>) = 1 /\ <<Zero>>[1] = Zero
    BY <1>4
  <2>4. Appended(l \o <<Zero>>, l, <<Zero>>)
    BY <2>3, Concatenation
  <2>5. Zero \notin ToSet(l)
    BY <1>2, <2>1 DEF NoZeros
  <2>6. \A j \in 1 .. Len(l) : l[j] # Zero
    BY <2>5 DEF ToSet
  <2>7. /\ Len(l \o <<Zero>>) = Len(l) + 1 /\ (l \o <<Zero>>)[Len(l) + 1] = Zero
        /\ \A j \in 1 .. Len(l) : (l \o <<Zero>>)[j] = l[j]
    BY <2>3, <2>4 DEF Appended
  <2> QED
    BY <2>1, <2>2, <2>6, <2>7
<1>7. CStrings(FlattenSeq(parts)) = q
  <2>1. Terminated(parts, q)
    BY <1>5, <1>6 DEF Terminated
  <2>2. Len(parts) = Len(q) /\ Zero \in Chars
    BY <1>3, <1>4, <1>5
  <2> QED
    BY <2>1, <2>2, ZeroEnds
<1>8. FlattenSeq(parts) \in Seq(Chars)
  BY <1>3, <1>6, FlatCuts
<1>9. Select(q, {k \in DOMAIN q : q[k] # <<>>}) = q
  <2>1. \A k \in DOMAIN q : q[k] # <<>>
    BY <1>4, <1>5
  <2>2. {k \in DOMAIN q : q[k] # <<>>} = DOMAIN q
    BY <2>1
  <2> QED
    BY <2>2, SelectAll
<1> QED
  BY <1>1, <1>3, <1>5, <1>7, <1>8, <1>9

(* Decode copies out what the caller should return. *)
LEMMA DecodeExact ==
    ASSUME ClientIInv, stage = "got", ~NoData, Trusted(client)
    PROVE  ReturnsExact(client, Extent, Decoded)
<1>1. /\ PipeIInv /\ result.done /\ tool \in Wrapped /\ client \in {"python", "cli", "rust"}
      /\ raw = CAbi!GResult(result.ok, Len(Buffer), result.count)
  BY DEF ClientIInv, ClientInv
<1>2. CASE tool = "strings"
  <2>1. result.recs \in Seq(Pieces) /\ Buffer = result.recs
    BY <1>1, <1>2, ResultPieces DEF Buffer
  <2>2. Extent = Len(Buffer)
    <3>1. CASE result.ok
      BY <1>1, <1>2, <2>1, <3>1 DEF Extent, CAbi!GResult, Trusted, Complete
    <3>2. CASE ~result.ok
      <4>1. result.recs = <<>>
        BY <1>1, <3>2 DEF PipeIInv, AnswerInv
      <4> QED
        BY <1>1, <2>1, <3>2, <4>1 DEF Extent, CAbi!GResult, CAbi!NullResult
    <3> QED
      BY <3>1, <3>2
  <2>3. PICK s \in Seq(Pieces) : s = Buffer
    BY <2>1
  <2>4. Decoded = [i \in 1 .. Len(s) |-> IF i <= Len(s) THEN s[i] ELSE "junk"]
    BY <1>2, <2>2, <2>3 DEF Decoded
  <2>5. Decoded = s
    BY <2>4
  <2>6. Extent <= Len(Buffer)
    BY <2>2, <2>3
  <2> QED
    BY <1>1, <1>2, <2>1, <2>3, <2>5, <2>6 DEF ReturnsExact
<1>3. CASE tool = "grep"
  <2>1. Extent = Len(Buffer) /\ Len(Buffer) \in Nat
    <3>1. Len(Buffer) \in Nat /\ (Len(Buffer) = 0 <=> result.recs = <<>>)
      BY <1>1, BufferType
    <3>2. CASE result.ok
      BY <1>1, <1>3, <3>1, <3>2 DEF Extent, CAbi!GResult
    <3>3. CASE ~result.ok
      <4>1. result.recs = <<>>
        BY <1>1, <3>3 DEF PipeIInv, AnswerInv
      <4> QED
        BY <1>1, <1>3, <3>1, <3>3, <4>1 DEF Extent, CAbi!GResult, CAbi!NullResult
    <3> QED
      BY <3>2, <3>3
  <2>2. ASSUME NoZeros PROVE Decoded = Lines
    <3>1. PICK b \in Seq(Chars) : /\ b = Buffer /\ CStrings(b) = Lines
                                  /\ Select(Lines, {k \in DOMAIN Lines : Lines[k] # <<>>}) = Lines
      BY <1>1, <1>3, <2>2, BufferLines
    <3> DEFINE buf == [i \in 1 .. Extent |-> IF i <= Len(Buffer) THEN Buffer[i] ELSE "junk"]
    <3>2. buf = b
      BY <2>1, <3>1
    <3> HIDE DEF buf
    <3>3. Decoded = IF client # "python" THEN CStrings(buf)
                    ELSE Select(CStrings(buf), {k \in DOMAIN CStrings(buf) : CStrings(buf)[k] # <<>>})
      BY <1>3 DEF Decoded, buf
    <3> QED
      BY <3>1, <3>2, <3>3
  <2> QED
    BY <1>1, <1>3, <2>1, <2>2 DEF ReturnsExact
<1> QED
  BY <1>1, <1>2, <1>3 DEF Wrapped

(* A caller that gives up has nothing to return. *)
LEMMA GiveUpExact ==
    ASSUME ClientIInv, stage = "got", NoData
    PROVE  ReturnsExact(client, read, value)
<1>1. /\ PipeIInv /\ result.done /\ tool \in Wrapped /\ client \in {"python", "cli", "rust"}
      /\ raw = CAbi!GResult(result.ok, Len(Buffer), result.count)
      /\ read = 0 /\ value = <<>>
  BY DEF ClientIInv, ClientInv
<1>2. Len(Buffer) \in Nat /\ (Len(Buffer) = 0 <=> result.recs = <<>>)
  BY <1>1, BufferType
<1>3. result.recs = <<>>
  <2>1. CASE ~result.ok
    BY <1>1, <2>1 DEF PipeIInv, AnswerInv
  <2>2. CASE result.ok
    <3>1. raw.count = result.count /\ (raw.data <=> Len(Buffer) > 0)
      BY <1>1, <2>2 DEF CAbi!GResult
    <3>2. CASE ~raw.data
      BY <1>2, <3>1, <3>2
    <3>3. CASE raw.count = 0
      BY <1>1, <3>1, <3>3, NothingCounted
    <3> QED
      BY <3>2, <3>3 DEF NoData
  <2> QED
    BY <2>1, <2>2
<1>4. Lines = <<>>
  BY <1>3 DEF Lines
<1> QED
  BY <1>1, <1>2, <1>3, <1>4 DEF ReturnsExact

LEMMA ClientExactNext ==
    ASSUME ClientIInv, ClientExact, [ClientNext]_allVars
    PROVE  ClientExact'
<1>1. PipeIInv /\ ClientInv
  BY DEF ClientIInv
<1>2. CASE PipeStep /\ UNCHANGED clientVars
  <2>1. stage' = "tool"
    BY <1>1, <1>2, ScanGoesOn DEF ClientInv, clientVars
  <2> QED
    BY <2>1 DEF ClientExact
<1>3. CASE UNCHANGED pipeVars /\ (ClientStep \/ UNCHANGED allVars)
  <2>1. UNCHANGED <<tool, result, text>> /\ Buffer' = Buffer
    BY <1>3, SameBuffer DEF pipeVars, vars, file
  <2>2. Lines' = Lines /\ (NoZeros' <=> NoZeros) /\ (Complete' <=> Complete)
    BY <2>1 DEF Lines, NoZeros, Line, Complete
  <2>3. ASSUME stage' \in {"decoded", "over"}, tool \in Wrapped,
               NEW c, NEW rd, NEW v, c = client', rd = read', v = value',
               Trusted(c) => ReturnsExact(c, rd, v)
        PROVE  ClientExact'
    BY <2>1, <2>2, <2>3 DEF ClientExact, Trusted, ReturnsExact, Wrapped
  <2>4. CASE stage' \notin {"decoded", "over"}
    BY <2>4 DEF ClientExact
  <2>5. CASE UNCHANGED <<client, stage, read, value>> /\ stage \in {"decoded", "over"}
    <3>1. tool \in Wrapped
      BY <1>1, <2>5 DEF ClientInv
    <3>2. Trusted(client) => ReturnsExact(client, read, value)
      BY <2>5, <3>1, ClientExactIs
    <3> QED
      BY <2>3, <2>5, <3>1, <3>2
  <2>6. CASE Receive
    BY <2>4, <2>6 DEF Receive
  <2>7. CASE Count
    <3>1. /\ stage = "tool" /\ result.done /\ tool \in Wrapped /\ client' = "count" /\ read' = read
          /\ value' = <<IF result.ok THEN result.count ELSE -1>>
      BY <2>7 DEF Count
    <3>2. read = 0 /\ Len(Buffer) \in Nat
      BY <1>1, <3>1, BufferType DEF ClientInv
    <3>3. PICK v : v = value'
      OBVIOUS
    <3>4. Trusted("count") => ReturnsExact("count", 0, v)
      BY <3>1, <3>2, <3>3 DEF Trusted, Complete, ReturnsExact
    <3> QED
      BY <2>3, <2>4, <3>1, <3>2, <3>3, <3>4
  <2>8. CASE GiveUp
    <3>1. stage = "got" /\ NoData /\ UNCHANGED <<client, read, value>>
      BY <2>8 DEF GiveUp
    <3>2. ReturnsExact(client, read, value) /\ tool \in Wrapped
      BY <1>1, <3>1, GiveUpExact DEF ClientInv
    <3> QED
      BY <2>3, <2>4, <3>1, <3>2
  <2>9. CASE Decode
    <3>1. stage = "got" /\ ~NoData /\ client' = client /\ read' = Extent /\ value' = Decoded
      BY <2>9 DEF Decode
    <3>2. (Trusted(client) => ReturnsExact(client, Extent, Decoded)) /\ tool \in Wrapped
      BY <1>1, <3>1, DecodeExact DEF ClientInv
    <3> QED
      BY <2>3, <2>4, <3>1, <3>2
  <2>10. CASE Free
    <3>1. stage = "decoded" /\ UNCHANGED <<client, read, value>>
      BY <2>10 DEF Free
    <3>2. tool \in Wrapped
      BY <1>1, <3>1 DEF ClientInv
    <3>3. Trusted(client) => ReturnsExact(client, read, value)
      BY <3>1, <3>2, ClientExactIs
    <3> QED
      BY <2>3, <2>4, <3>1, <3>2, <3>3
  <2>11. CASE FileGone
    BY <2>4, <2>11 DEF FileGone
  <2>12. CASE UNCHANGED allVars
    BY <2>4, <2>5, <2>12 DEF allVars, clientVars
  <2> QED
    BY <1>3, <2>6, <2>7, <2>8, <2>9, <2>10, <2>11, <2>12 DEF ClientStep
<1>4. UNCHANGED allVars => UNCHANGED pipeVars
  BY DEF allVars
<1> QED
  BY <1>2, <1>3, <1>4, ClientStepScan

(* Every caller returns what the tool found: the lines, the records or      *)
(* their number, and none reads beyond the buffer.                          *)
THEOREM CallersExact == ClientSpec => []ClientExact
<1>1. ClientInit => ClientExact
  BY DEF ClientInit, ClientExact
<1>2. ClientIInv /\ ClientExact /\ [ClientNext]_allVars => ClientExact'
  BY ClientExactNext
<1> QED
  BY <1>1, <1>2, ClientInvariance, PTL DEF ClientSpec
=============================================================================
