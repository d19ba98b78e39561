--------------------------- MODULE Analyze_proofs ---------------------------
(***************************************************************************)
(* The block tools and the Rust functions over them, for files of any      *)
(* size, any block size and any number of threads.                         *)
(***************************************************************************)
EXTENDS AnalyzeClient, Sorting_proofs, SequenceTheorems

LEMMA FileType ==
    ASSUME NEW f \in Files
    PROVE  f \in Seq(Bytes) /\ Len(f) \in 0 .. MaxTotal /\ DOMAIN f = 1 .. Len(f)
  BY AnalyzeAssumption DEF Files

LEMMA BlockSizeType ==
    ASSUME req \in Requests, req.op \in {"entropy", "diff", "recon"}
    PROVE  BlockSize \in Nat \ {0}
<1>1. req.block \in Int
  BY AnalyzeAssumption DEF Requests
<1>2. CASE req.op = "entropy"
  BY <1>1, <1>2, AnalyzeAssumption DEF BlockSize
<1>3. CASE req.op = "diff"
  BY <1>1, <1>3, AnalyzeAssumption DEF BlockSize
<1>4. CASE req.op = "recon"
  BY <1>1, <1>4, AnalyzeAssumption DEF BlockSize
<1> QED
  BY <1>2, <1>3, <1>4

(* The number of blocks: the last one begins inside the file and no block   *)
(* is missing.                                                              *)
LEMMA BlocksCount ==
    ASSUME NEW f \in Files, NEW bs \in Nat \ {0}
    PROVE  /\ Blocks(f, bs) \in Nat
           /\ Len(f) <= Blocks(f, bs) * bs
           /\ Blocks(f, bs) * bs < Len(f) + bs
<1> DEFINE n == Len(f) + bs - 1
           q == n \div bs
<1>1. n \in Nat
  BY FileType
<1> HIDE DEF n
<1>2. q \in Nat /\ q * bs <= n /\ n < (q + 1) * bs
  BY <1>1
<1> HIDE DEF q
<1>3. (q + 1) * bs = q * bs + bs
  BY <1>2
<1>4. Len(f) \in Nat /\ q * bs \in Int
  BY <1>2, FileType
<1>5. Len(f) <= q * bs /\ q * bs < Len(f) + bs
  BY <1>2, <1>3, <1>4 DEF n
<1> QED
  BY <1>2, <1>5 DEF Blocks, q, n

LEMMA BlockAtType ==
    ASSUME NEW f \in Files, NEW o \in Nat, o < Len(f), NEW bs \in Nat \ {0}
    PROVE  BlockAt(f, o, bs) \in Seq(Bytes)
<1>1. f \in Seq(Bytes) /\ Len(f) \in Nat
  BY FileType
<1>2. Least(bs, Len(f) - o) \in Nat /\ o + Least(bs, Len(f) - o) <= Len(f)
  BY <1>1 DEF Least
<1> QED
  BY <1>1, <1>2 DEF BlockAt

LEMMA RunType ==
    ASSUME NEW oa \in Nat, NEW ob \in Nat, NEW len \in Nat,
           NEW st \in {"CHANGED", "DELETED", "INSERTED"}
    PROVE  Run(oa, ob, len, st) \in DiffRecord /\ (len < LenSize => Run(oa, ob, len, st).len = len)
<1>1. len % LenSize \in Nat /\ (len < LenSize => len % LenSize = len)
  BY AnalyzeAssumption
<1> QED
  BY <1>1 DEF Run, DiffRecord

LEMMA GroupedType ==
    ASSUME runs \in Seq(DiffRecord), BlockSize \in Nat, NEW boff \in Nat
    PROVE  Grouped(boff) \in Seq(DiffRecord)
<1>1. Run(boff, boff, BlockSize, "CHANGED") \in DiffRecord
  BY RunType
<1>2. CASE runs # <<>> /\ Last(runs).ob + Last(runs).len = boff
  <2>1. Len(runs) \in 1 .. Len(runs) /\ runs[Len(runs)] \in DiffRecord
    <3>1. Len(runs) \in Nat \ {0}
      BY <1>2, EmptySeq
    <3> QED
      BY <3>1
  <2>2. (runs[Len(runs)].len + BlockSize) % LenSize \in Nat
    <3>1. runs[Len(runs)].len \in Nat
      BY <2>1 DEF DiffRecord
    <3>2. LenSize \in Nat \ {0}
      BY AnalyzeAssumption
    <3> QED
      BY <3>1, <3>2
  <2> DEFINE len == (runs[Len(runs)].len + BlockSize) % LenSize
             ext == [runs[Len(runs)] EXCEPT !.len = len]
  <2>3. Grouped(boff) = [runs EXCEPT ![Len(runs)] = ext]
    BY <1>2 DEF Grouped
  <2> HIDE DEF len
  <2>4. ext \in DiffRecord
    BY <2>1, <2>2 DEF DiffRecord, len
  <2> HIDE DEF ext
  <2> QED
    BY <2>1, <2>3, <2>4
<1>3. CASE ~(runs # <<>> /\ Last(runs).ob + Last(runs).len = boff)
  BY <1>1, <1>3 DEF Grouped
<1> QED
  BY <1>2, <1>3

LEMMA EmitType ==
    ASSUME TypeOK, req.op = "recon", start # -1, Emit(i - start)
    PROVE  /\ runs' \in Seq(StringRecord) /\ count' \in Nat /\ lost' \in BOOLEAN
<1>1. [offset |-> start, len |-> i - start] \in StringRecord
  BY DEF TypeOK, StringRecord
<1>2. runs \in Seq(StringRecord) /\ count \in Nat /\ lost \in BOOLEAN
  BY DEF TypeOK
<1>3. Append(runs, [offset |-> start, len |-> i - start]) \in Seq(StringRecord)
  BY <1>1, <1>2
<1>4. runs' \in Seq(StringRecord)
  BY <1>2, <1>3 DEF Emit
<1>5. count' \in Nat
  BY <1>2 DEF Emit
<1>6. lost' \in BOOLEAN
  BY <1>2, Zenon DEF Emit
<1> QED
  BY <1>4, <1>5, <1>6

LEMMA InitType == Init => TypeOK
<1> SUFFICES ASSUME Init PROVE TypeOK
  OBVIOUS
<1>1. req \in Requests
  BY DEF Init
<1>2. <<>> \in Files
  BY AnalyzeAssumption DEF Files
<1>3. a \in Files /\ b \in Files
  BY <1>2 DEF Init
<1>4. off \in [Threads -> Nat]
  <2>1. CASE req.op = "entropy"
    <3>1. BlockSize \in Nat
      BY <1>1, <2>1, BlockSizeType
    <3>2. \A w \in Threads : w * BlockSize \in Nat
      BY <3>1, AnalyzeAssumption DEF Threads
    <3> QED
      BY <2>1, <3>2 DEF Init
  <2>2. CASE req.op # "entropy"
    BY <2>2 DEF Init
  <2> QED
    BY <2>1, <2>2
<1>5. arenas \in [Threads -> Seq(BlockRecord)]
  BY DEF Init
<1>6. lost \in BOOLEAN
  BY Zenon DEF Init
<1>7. runs \in IF req.op = "diff" THEN Seq(DiffRecord) ELSE Seq(StringRecord)
  BY DEF Init
<1> QED
  BY <1>1, <1>3, <1>4, <1>5, <1>6, <1>7 DEF Init, TypeOK

LEMMA NextType == TypeOK /\ [Next]_vars => TypeOK'
<1> SUFFICES ASSUME TypeOK, [Next]_vars PROVE TypeOK'
  OBVIOUS
<1> USE DEF call, work
<1>1. ASSUME UNCHANGED <<call, work>>, pc' \in {"open", "work", "done"} PROVE TypeOK'
  BY <1>1 DEF TypeOK
<1>2. ASSUME OpenFails \/ OpenEmpty \/ Open \/ EntropyMerge \/ Slice \/ DiffReturn
               \/ ReconReturn \/ ListSections
      PROVE  TypeOK'
  BY <1>1, <1>2 DEF OpenFails, OpenEmpty, Open, EntropyMerge, Slice, DiffReturn, ReconReturn,
     ListSections, ReserveFails, Fail, Answer, Return
<1>3. ASSUME NEW w \in Threads, EntropyStep(w) PROVE TypeOK'
  <2>1. BlockSize \in Nat \ {0} /\ NThreads * BlockSize \in Nat
    BY <1>3, BlockSizeType, AnalyzeAssumption DEF TypeOK, EntropyStep
  <2>2. off' \in [Threads -> Nat]
    BY <1>3, <2>1 DEF TypeOK, EntropyStep
  <2>3. [offset |-> off[w], bytes |-> BlockAt(a, off[w], BlockSize)] \in BlockRecord
    BY <1>3, <2>1, BlockAtType DEF TypeOK, EntropyStep, BlockRecord
  <2>4. arenas' \in [Threads -> Seq(BlockRecord)]
    <3> DEFINE rec == [offset |-> off[w], bytes |-> BlockAt(a, off[w], BlockSize)]
    <3>1. arenas' = arenas \/ arenas' = [arenas EXCEPT ![w] = Append(@, rec)]
      BY <1>3 DEF EntropyStep
    <3>2. rec \in BlockRecord /\ arenas \in [Threads -> Seq(BlockRecord)]
      BY <2>3 DEF TypeOK
    <3> HIDE DEF rec
    <3>3. Append(arenas[w], rec) \in Seq(BlockRecord)
      BY <3>2
    <3> QED
      BY <3>1, <3>2, <3>3
  <2>5. lost' \in BOOLEAN
    BY <1>3, Zenon DEF TypeOK, EntropyStep
  <2> QED
    BY <1>3, <2>2, <2>4, <2>5 DEF TypeOK, EntropyStep
<1>4. CASE DiffBlock
  <2>1. BlockSize \in Nat /\ i * BlockSize \in Nat /\ i + 1 \in Nat
    BY <1>4, BlockSizeType DEF TypeOK, DiffBlock
  <2>2. Grouped(i * BlockSize) \in Seq(DiffRecord)
    BY <1>4, <2>1, GroupedType DEF TypeOK, DiffBlock
  <2>3. runs' \in Seq(DiffRecord)
    BY <1>4, <2>2 DEF TypeOK, DiffBlock
  <2> QED
    BY <1>4, <2>1, <2>3 DEF TypeOK, DiffBlock
<1>5. CASE ReconByte
  <2>1. i' \in Nat /\ (start' = -1 \/ start' \in 0 .. i')
    BY <1>5 DEF TypeOK, ReconByte
  <2>2. runs' \in Seq(StringRecord) /\ count' \in Nat /\ lost' \in BOOLEAN
    <3>1. runs \in Seq(StringRecord) /\ count \in Nat /\ lost \in BOOLEAN
      BY <1>5 DEF TypeOK, ReconByte
    <3>2. UNCHANGED <<runs, count, lost>> \/ (start # -1 /\ Emit(i - start))
      BY <1>5 DEF ReconByte
    <3>3. CASE UNCHANGED <<runs, count, lost>>
      BY <3>1, <3>3
    <3>4. CASE start # -1 /\ Emit(i - start)
      BY <1>5, <3>4, EmitType DEF ReconByte
    <3> QED
      BY <3>2, <3>3, <3>4
  <2> QED
    BY <1>5, <2>1, <2>2 DEF TypeOK, ReconByte
<1>6. CASE ReconEnd
  <2>1. runs' \in Seq(StringRecord) /\ count' \in Nat /\ lost' \in BOOLEAN
    BY <1>6, EmitType DEF ReconEnd
  <2> QED
    BY <1>6, <2>1 DEF TypeOK, ReconEnd
<1>7. CASE UNCHANGED vars
  BY <1>7 DEF TypeOK, vars
<1> QED
  BY <1>2, <1>3, <1>4, <1>5, <1>6, <1>7 DEF Next

-----------------------------------------------------------------------------
(* The answer. *)

LEMMA InitResult == Init => ResultInv
  BY DEF Init, ResultInv, NoAnswer

LEMMA SameDue ==
    ASSUME UNCHANGED <<call, work>>, NEW r
    PROVE  Due(r)' <=> Due(r)
<1> USE DEF call, work
<1>1. NothingToDo' = NothingToDo /\ SliceLen' = SliceLen /\ BlockSize' = BlockSize
  BY DEF NothingToDo, SliceLen, BlockSize
<1>2. Common' = Common /\ BlockMap' = BlockMap
  BY <1>1 DEF Common, BlockMap
<1>3. TailRun' = TailRun
  BY <1>1, <1>2 DEF TailRun
<1> QED
  BY <1>1, <1>2, <1>3, Zenon DEF Due

(* A call that has not answered fails or gives the answer due. *)
LEMMA ReturnResult ==
    ASSUME NEW r, Return(r), r = NoAnswer \/ (r.ok /\ Due(r))
    PROVE  ResultInv'
<1>1. result' = r /\ pc' = "done" /\ UNCHANGED <<call, work>>
  BY DEF Return
<1>2. r = NoAnswer \/ (r.ok /\ Due(r)')
  BY <1>1, SameDue
<1>3. CASE r = NoAnswer
  BY <1>1, <1>3 DEF ResultInv, NoAnswer
<1>4. CASE r.ok /\ Due(r)'
  <2>1. (\A s : s = r => Due(s))'
    BY <1>4
  <2> QED
    BY <1>1, <1>4, <2>1 DEF ResultInv
<1> QED
  BY <1>2, <1>3, <1>4

LEMMA FailResult == Fail => ResultInv'
  BY ReturnResult DEF Fail, NoAnswer

LEMMA AnswerResult ==
    ASSUME NEW recs, NEW n, NEW blocks, Answer(recs, n, blocks), Due(Given(recs, n, blocks))
    PROVE  ResultInv'
  BY ReturnResult DEF Answer, Given

(* Work that is not over has no answer yet. *)
LEMMA WorkResult ==
    ASSUME ResultInv, pc # "done", UNCHANGED <<call, result>>, pc' = "work" => ~NothingToDo
    PROVE  ResultInv'
<1>1. NothingToDo' = NothingToDo
  BY DEF NothingToDo, call
<1> QED
  BY <1>1 DEF ResultInv, NoAnswer

LEMMA NextResult == ResultInv /\ [Next]_vars => ResultInv'
<1> SUFFICES ASSUME ResultInv, [Next]_vars PROVE ResultInv'
  OBVIOUS
<1>1. CASE OpenFails
  BY <1>1, FailResult DEF OpenFails
<1>2. CASE OpenEmpty
  BY <1>2, AnswerResult DEF OpenEmpty, Due
<1>3. CASE Open
  BY <1>3, WorkResult DEF Open
<1>4. ASSUME NEW w \in Threads, EntropyStep(w) PROVE ResultInv'
  BY <1>4, WorkResult DEF EntropyStep, ResultInv
<1>5. CASE EntropyMerge
  <2>1. Due(Given(Concatenated(arenas), Len(Concatenated(arenas)), <<>>))
    BY <1>5 DEF EntropyMerge, Due, ResultInv
  <2> QED
    BY <1>5, <2>1, AnswerResult, FailResult DEF EntropyMerge, ReserveFails
<1>6. CASE Slice
  <2>1. Due(Given([k \in 1 .. SliceLen |-> Xor(a[req.offset + k], req.key)], SliceLen, <<>>))
    BY <1>6 DEF Slice, Due, ResultInv
  <2> QED
    BY <1>6, <2>1, AnswerResult, FailResult DEF Slice, ReserveFails
<1>7. CASE DiffBlock
  BY <1>7, WorkResult DEF DiffBlock, ResultInv
<1>8. CASE DiffReturn
  <2>1. Due(Given(runs \o TailRun, Len(runs \o TailRun), <<>>))
    BY <1>8 DEF DiffReturn, Due, ResultInv
  <2> QED
    BY <1>8, <2>1, AnswerResult, FailResult DEF DiffReturn, ReserveFails
<1>9. CASE ReconByte
  BY <1>9, WorkResult DEF ReconByte, ResultInv
<1>10. CASE ReconEnd
  BY <1>10, WorkResult DEF ReconEnd, ResultInv
<1>11. CASE ReconReturn
  <2>1. Due(Given(runs, count, BlockMap))
    BY <1>11 DEF ReconReturn, Due, ResultInv
  <2> QED
    BY <1>11, <2>1, AnswerResult, FailResult DEF ReconReturn, ReserveFails
<1>12. CASE ListSections
  <2>1. Due(Given(SectionRecords(req.img), Len(SectionRecords(req.img)), <<>>))
    BY <1>12 DEF ListSections, Due, ResultInv
  <2> QED
    BY <1>12, <2>1, AnswerResult, FailResult DEF ListSections, ReserveFails
<1>13. CASE UNCHANGED vars
  <2>1. UNCHANGED <<call, work, result, pc>>
    BY <1>13 DEF vars, call, work
  <2>2. NothingToDo' = NothingToDo
    BY <2>1 DEF NothingToDo, call
  <2>3. PICK r : r = result
    OBVIOUS
  <2>4. Due(r)' <=> Due(r)
    BY <2>1, SameDue
  <2>5. (\A s : s = r => (Due(s) <=> Due(r)))'
    OBVIOUS
  <2> QED
    BY <2>1, <2>2, <2>3, <2>4, <2>5 DEF ResultInv, NoAnswer
<1> QED
  BY <1>1, <1>2, <1>3, <1>4, <1>5, <1>6, <1>7, <1>8, <1>9, <1>10, <1>11, <1>12, <1>13 DEF Next

-----------------------------------------------------------------------------
(* g_diff *)

LEMMA EndsBefore ==
    ASSUME NEW x \in Nat, NEW m \in Nat, NEW y \in Nat, NEW l \in Nat, NEW to \in Int,
           x + m < y, y + l < to
    PROVE  x + m < to
  OBVIOUS

LEMMA Times ==
    ASSUME NEW bs \in Nat \ {0}, NEW x \in Int, NEW y \in Int
    PROVE  /\ x * bs \in Int /\ (x + y) * bs = x * bs + y * bs
           /\ x * bs < y * bs <=> x < y
           /\ x * bs <= y * bs <=> x <= y
           /\ x * bs = y * bs <=> x = y
<1>1. x * bs \in Int /\ (x + y) * bs = x * bs + y * bs
  OBVIOUS
<1>2. ASSUME NEW u \in Int, NEW v \in Int, u < v PROVE u * bs < v * bs
  <2>1. (v - u) * bs > 0
    BY <1>2
  <2> QED
    BY <2>1
<1> QED
  BY <1>1, <1>2

LEMMA CoversBlocks ==
    ASSUME BlockSize \in Nat \ {0}, NEW f \in Nat, NEW m \in Nat, NEW k \in Nat,
           NEW r, WholeBlocks(r, f, m)
    PROVE  /\ Covers(r, k) <=> f <= k /\ k < f + m
           /\ r.ob + r.len = (f + m) * BlockSize
<1>1. r.st = "CHANGED" /\ r.oa = f * BlockSize /\ r.ob = r.oa /\ r.len = m * BlockSize
  BY DEF WholeBlocks
<1>2. r.oa + r.len = (f + m) * BlockSize
  BY <1>1, Times
<1>3. f + m \in Int
  OBVIOUS
<1> QED
  BY <1>1, <1>2, <1>3, Times DEF Covers

(* The common blocks end in both files, or as much as a block behind. *)
LEMMA CommonBlocks ==
    ASSUME TypeOK, req.op = "diff"
    PROVE  /\ BlockSize \in Nat \ {0} /\ Common \in Nat
           /\ Common * BlockSize < Len(a) + BlockSize
           /\ Common * BlockSize < Len(b) + BlockSize
           /\ Common = Blocks(a, BlockSize) \/ Common = Blocks(b, BlockSize)
           /\ Common <= Blocks(a, BlockSize) /\ Common <= Blocks(b, BlockSize)
<1>1. BlockSize \in Nat \ {0}
  BY BlockSizeType DEF TypeOK
<1> DEFINE p == Blocks(a, BlockSize)
           q == Blocks(b, BlockSize)
<1>2. /\ p \in Nat /\ p * BlockSize < Len(a) + BlockSize
      /\ q \in Nat /\ q * BlockSize < Len(b) + BlockSize
  BY <1>1, BlocksCount DEF TypeOK
<1>3. Common = Least(p, q)
  BY DEF Common
<1> HIDE DEF p, q
<1>4. Common \in Nat /\ Common <= p /\ Common <= q /\ (Common = p \/ Common = q)
  BY <1>2, <1>3 DEF Least
<1>5. Common * BlockSize <= p * BlockSize /\ Common * BlockSize <= q * BlockSize
  BY <1>1, <1>2, <1>4, Times
<1>6. Len(a) \in Nat /\ Len(b) \in Nat
  BY FileType DEF TypeOK
<1> QED
  BY <1>1, <1>2, <1>4, <1>5, <1>6, Times DEF p, q

(* While lengths fit, the common blocks do. *)
LEMMA FittingLength ==
    ASSUME TypeOK, req.op = "diff", DiffFits, NEW m \in 1 .. Common
    PROVE  m * BlockSize \in Nat /\ m * BlockSize < LenSize /\ (m * BlockSize) % LenSize = m * BlockSize
<1>1. m * BlockSize \in Nat /\ m * BlockSize <= Common * BlockSize
  BY CommonBlocks, Times
<1>2. Len(a) \in Nat /\ LenSize \in Nat \ {0} /\ Common * BlockSize \in Int
  BY FileType, AnalyzeAssumption, CommonBlocks, Times DEF TypeOK
<1>3. m * BlockSize < LenSize
  BY <1>1, <1>2, CommonBlocks DEF DiffFits
<1> QED
  BY <1>1, <1>2, <1>3

LEMMA InitDiff == Init => DiffInv
<1> SUFFICES ASSUME Init, req.op = "diff", DiffFits PROVE DiffInv
  BY DEF DiffInv
<1>1. i = 0 /\ runs = <<>>
  BY DEF Init
<1>2. 0 <= Common
  BY InitType, CommonBlocks
<1> QED
  BY <1>1, <1>2 DEF DiffInv, Groups

LEMMA SameGroups ==
    ASSUME UNCHANGED call
    PROVE  /\ DiffFits' <=> DiffFits
           /\ \A r, n : Groups(r, n)' <=> Groups(r, n)
<1> USE DEF call
<1>1. BlockSize' = BlockSize
  BY DEF BlockSize
<1>2. Common' = Common /\ (DiffFits' <=> DiffFits)
  BY <1>1 DEF Common, DiffFits
<1>3. Differing' = Differing
  BY <1>1, <1>2 DEF Differing
<1>4. /\ \A r, k : Covers(r, k)' <=> Covers(r, k)
      /\ \A r, f, m : WholeBlocks(r, f, m)' <=> WholeBlocks(r, f, m)
  BY <1>1 DEF Covers, WholeBlocks
<1>5. ASSUME NEW r, NEW n PROVE Groups(r, n)' <=> Groups(r, n)
  BY <1>1, <1>2, <1>3, <1>4, Zenon DEF Groups
<1> QED
  BY <1>2, <1>5

LEMMA GroupsOf ==
    ASSUME NEW r, NEW n, n <= Common,
           \A j \in DOMAIN r : \E f \in 0 .. n - 1 : \E m \in 1 .. n - f : WholeBlocks(r[j], f, m),
           \A j, l \in DOMAIN r : j < l => r[j].ob + r[j].len < r[l].ob,
           \A k \in 0 .. n - 1 : k \in Differing <=> \E j \in DOMAIN r : Covers(r[j], k)
    PROVE  Groups(r, n)
  BY Zenon DEF Groups

(* One more block that is the same in both files. *)
LEMMA GroupsSame ==
    ASSUME TypeOK, req.op = "diff", DiffFits, i < Common, Groups(runs, i), i \notin Differing
    PROVE  Groups(runs, i + 1)
<1>1. i \in Nat /\ Common \in Nat /\ BlockSize \in Nat \ {0}
  BY CommonBlocks DEF TypeOK
<1>2. ASSUME NEW j \in DOMAIN runs
      PROVE  /\ \E f \in 0 .. i : \E m \in 1 .. i + 1 - f : WholeBlocks(runs[j], f, m)
             /\ ~Covers(runs[j], i)
  <2>1. PICK f \in 0 .. i - 1 : \E m \in 1 .. i - f : WholeBlocks(runs[j], f, m)
    BY DEF Groups
  <2>2. PICK m \in 1 .. i - f : WholeBlocks(runs[j], f, m)
    BY <2>1
  <2>3. f \in 0 .. i /\ m \in 1 .. i + 1 - f /\ f + m <= i
    BY <1>1
  <2> QED
    BY <1>1, <2>2, <2>3, CoversBlocks
<1>3. ASSUME NEW k \in 0 .. i
      PROVE  k \in Differing <=> \E j \in DOMAIN runs : Covers(runs[j], k)
  BY <1>1, <1>2 DEF Groups
<1>4. PICK e : e = i + 1 /\ e <= Common /\ e - 1 = i
  BY <1>1
<1>5. \A j, l \in DOMAIN runs : j < l => runs[j].ob + runs[j].len < runs[l].ob
  BY DEF Groups
<1>6. \A j \in DOMAIN runs :
         \E f \in 0 .. e - 1 : \E m \in 1 .. e - f : WholeBlocks(runs[j], f, m)
  BY <1>2, <1>4
<1>7. \A k \in 0 .. e - 1 : k \in Differing <=> \E j \in DOMAIN runs : Covers(runs[j], k)
  BY <1>3, <1>4
<1>8. Groups(runs, e)
  BY <1>4, <1>5, <1>6, <1>7, GroupsOf, Zenon
<1> QED
  BY <1>4, <1>8

(* The last range grows by a block. *)
LEMMA GroupsGrow ==
    ASSUME TypeOK, req.op = "diff", DiffFits, i < Common, Groups(runs, i), i \in Differing,
           runs # <<>>, Last(runs).ob + Last(runs).len = i * BlockSize
    PROVE  Groups(Grouped(i * BlockSize), i + 1)
<1> DEFINE n   == Len(runs)
           new == Grouped(i * BlockSize)
<1>1. i \in Nat /\ Common \in Nat /\ BlockSize \in Nat \ {0}
  BY CommonBlocks DEF TypeOK
<1>2. n \in Nat \ {0} /\ DOMAIN runs = 1 .. n /\ runs \in Seq(DiffRecord)
  BY EmptySeq DEF TypeOK
<1>3. Last(runs) = runs[n] /\ Grouped(i * BlockSize)
                                = [runs EXCEPT ![n].len = (@ + BlockSize) % LenSize]
  BY DEF Last, Grouped
<1> HIDE DEF n
<1>4. PICK f \in 0 .. i - 1 : \E m \in 1 .. i - f : WholeBlocks(runs[n], f, m)
  BY <1>2 DEF Groups
<1>5. PICK m \in 1 .. i - f : WholeBlocks(runs[n], f, m)
  BY <1>4
<1>6. f + m = i
  <2>1. f \in Nat /\ m \in Nat /\ f + m \in Int
    BY <1>1
  <2>2. runs[n].ob + runs[n].len = (f + m) * BlockSize
    BY <1>1, <1>5, <2>1, CoversBlocks
  <2>3. (f + m) * BlockSize = i * BlockSize
    BY <1>3, <2>2
  <2> QED
    BY <1>1, <2>1, <2>3, Times
<1>7. (runs[n].len + BlockSize) % LenSize = (m + 1) * BlockSize
  <2>1. runs[n].len = m * BlockSize /\ m \in Nat /\ m + 1 \in 1 .. Common
    BY <1>1, <1>5, <1>6 DEF WholeBlocks
  <2>2. m * BlockSize + BlockSize = (m + 1) * BlockSize
    BY <1>1, <2>1
  <2> QED
    BY <2>1, <2>2, FittingLength
<1> DEFINE ext == [runs[n] EXCEPT !.len = (m + 1) * BlockSize]
<1>8. new = [runs EXCEPT ![n] = ext]
  BY <1>3, <1>7
<1>9. /\ DOMAIN new = 1 .. n
      /\ \A j \in 1 .. n : j # n => new[j] = runs[j]
      /\ WholeBlocks(new[n], f, m + 1)
  <2>1. n \in 1 .. n
    BY <1>2
  <2>2. WholeBlocks(ext, f, m + 1)
    BY <1>5 DEF WholeBlocks
  <2> HIDE DEF ext, new
  <2> QED
    BY <1>2, <1>8, <2>1, <2>2
<1> HIDE DEF new
<1>10. \A j \in 1 .. n : new[j].ob = runs[j].ob
  BY <1>5, <1>9 DEF WholeBlocks
<1>11. ASSUME NEW j \in 1 .. n
       PROVE  \E g \in 0 .. i : \E h \in 1 .. i + 1 - g : WholeBlocks(new[j], g, h)
  <2>1. CASE j = n
    <3>1. f \in 0 .. i /\ m + 1 \in 1 .. i + 1 - f
      BY <1>1
    <3> QED
      BY <1>9, <2>1, <3>1
  <2>2. CASE j # n
    <3>1. PICK g \in 0 .. i - 1 : \E h \in 1 .. i - g : WholeBlocks(runs[j], g, h)
      BY <1>2 DEF Groups
    <3>2. PICK h \in 1 .. i - g : WholeBlocks(runs[j], g, h)
      BY <3>1
    <3>3. g \in 0 .. i /\ h \in 1 .. i + 1 - g
      BY <1>1
    <3> QED
      BY <1>9, <2>2, <3>2, <3>3
  <2> QED
    BY <2>1, <2>2
<1>12. ASSUME NEW j \in 1 .. n, NEW l \in 1 .. n, j < l
       PROVE  new[j].ob + new[j].len < new[l].ob
  <2>1. j # n
    BY <1>2, <1>12
  <2> QED
    BY <1>2, <1>9, <1>10, <1>12, <2>1 DEF Groups
<1>13. ASSUME NEW k \in 0 .. i
       PROVE  k \in Differing <=> \E j \in 1 .. n : Covers(new[j], k)
  <2>1. Covers(new[n], k) <=> f <= k /\ k < f + (m + 1)
    <3>1. f \in Nat /\ m + 1 \in Nat /\ k \in Nat
      BY <1>1
    <3> QED
      BY <1>1, <1>9, <3>1, CoversBlocks
  <2>2. Covers(runs[n], k) <=> f <= k /\ k < f + m
    BY <1>1, <1>5, CoversBlocks
  <2>3. n \in 1 .. n
    BY <1>2
  <2>4. CASE k = i
    BY <1>1, <1>6, <2>1, <2>3, <2>4
  <2>5. CASE k # i
    <3>1. k \in 0 .. i - 1
      BY <1>1, <2>5
    <3>2. k \in Differing <=> \E j \in 1 .. n : Covers(runs[j], k)
      BY <1>2, <3>1 DEF Groups
    <3>3. Covers(new[n], k) <=> Covers(runs[n], k)
      BY <1>1, <1>6, <2>1, <2>2, <3>1
    <3> QED
      BY <1>9, <3>2, <3>3
  <2> QED
    BY <2>4, <2>5
<1>14. PICK e : e = i + 1 /\ e <= Common /\ e - 1 = i
  BY <1>1
<1>15. \A j \in DOMAIN new :
         \E g \in 0 .. e - 1 : \E h \in 1 .. e - g : WholeBlocks(new[j], g, h)
  BY <1>9, <1>11, <1>14
<1>16. \A j, l \in DOMAIN new : j < l => new[j].ob + new[j].len < new[l].ob
  BY <1>9, <1>12
<1>17. \A k \in 0 .. e - 1 : k \in Differing <=> \E j \in DOMAIN new : Covers(new[j], k)
  BY <1>9, <1>13, <1>14
<1>18. Groups(new, e)
  BY <1>14, <1>15, <1>16, <1>17, GroupsOf, Zenon
<1> QED
  BY <1>14, <1>18 DEF new

(* A new range of one block. *)
LEMMA GroupsAppend ==
    ASSUME TypeOK, req.op = "diff", DiffFits, i < Common, Groups(runs, i), i \in Differing,
           ~(runs # <<>> /\ Last(runs).ob + Last(runs).len = i * BlockSize)
    PROVE  Groups(Grouped(i * BlockSize), i + 1)
<1> DEFINE n   == Len(runs)
           r   == Run(i * BlockSize, i * BlockSize, BlockSize, "CHANGED")
           new == Append(runs, r)
<1>1. i \in Nat /\ Common \in Nat /\ BlockSize \in Nat \ {0}
  BY CommonBlocks DEF TypeOK
<1>2. n \in Nat /\ DOMAIN runs = 1 .. n /\ runs \in Seq(DiffRecord)
  BY DEF TypeOK
<1>3. Grouped(i * BlockSize) = new
  BY Zenon DEF Grouped
<1>4. WholeBlocks(r, i, 1)
  <2>1. 1 \in 1 .. Common /\ 1 * BlockSize = BlockSize
    BY <1>1
  <2>2. BlockSize % LenSize = 1 * BlockSize
    BY <2>1, FittingLength
  <2> QED
    BY <2>2 DEF WholeBlocks, Run
<1>5. runs # <<>> => runs[n].ob + runs[n].len # i * BlockSize
  BY DEF Last
<1>6. DOMAIN new = 1 .. n + 1 /\ new[n + 1] = r /\ \A j \in 1 .. n : new[j] = runs[j]
  <2>1. r \in DiffRecord
    BY <1>1, Times, RunType
  <2> HIDE DEF r
  <2> QED
    BY <1>2, <2>1
<1>7. n > 0 => runs # <<>>
  OBVIOUS
<1> HIDE DEF n, r, new
<1>8. ASSUME NEW j \in 1 .. n
      PROVE  \E g \in 0 .. i : \E h \in 1 .. i - g :
                /\ WholeBlocks(runs[j], g, h) /\ h \in 1 .. i + 1 - g /\ g + h <= i
                /\ runs[j].ob + runs[j].len = (g + h) * BlockSize
                /\ ~Covers(runs[j], i)
  <2>1. PICK g \in 0 .. i - 1 : \E h \in 1 .. i - g : WholeBlocks(runs[j], g, h)
    BY <1>2 DEF Groups
  <2>2. PICK h \in 1 .. i - g : WholeBlocks(runs[j], g, h)
    BY <2>1
  <2>3. g \in Nat /\ h \in Nat /\ g \in 0 .. i /\ h \in 1 .. i + 1 - g /\ g + h <= i
    BY <1>1
  <2> QED
    BY <1>1, <2>2, <2>3, CoversBlocks
<1>9. ASSUME NEW j \in 1 .. n PROVE runs[j].ob + runs[j].len < i * BlockSize
  <2>1. n \in 1 .. n /\ n > 0
    BY <1>2
  <2>2. PICK g \in 0 .. i : \E h \in 1 .. i - g :
           g + h <= i /\ runs[n].ob + runs[n].len = (g + h) * BlockSize
    BY <1>8, <2>1
  <2>3. PICK h \in 1 .. i - g : g + h <= i /\ runs[n].ob + runs[n].len = (g + h) * BlockSize
    BY <2>2
  <2>4. g + h \in Int
    OBVIOUS
  <2>5. runs[n].ob + runs[n].len < i * BlockSize
    BY <1>1, <1>5, <1>7, <2>1, <2>3, <2>4, Times
  <2>6. CASE j = n
    BY <2>5, <2>6
  <2>7. CASE j # n
    <3>1. runs[j].ob + runs[j].len < runs[n].ob
      BY <1>2, <2>1, <2>7 DEF Groups
    <3>2. /\ runs[j].ob \in Nat /\ runs[j].len \in Nat
          /\ runs[n].ob \in Nat /\ runs[n].len \in Nat
      <4>1. runs[j] \in DiffRecord /\ runs[n] \in DiffRecord
        BY <1>2, <2>1 DEF n
      <4> QED
        BY <4>1 DEF DiffRecord
    <3>3. PICK to \in Int : to = i * BlockSize
      BY <1>1, Times
    <3>4. runs[n].ob + runs[n].len < to
      BY <2>5, <3>3
    <3>5. runs[j].ob + runs[j].len < to
      BY <3>1, <3>2, <3>4, EndsBefore
    <3> QED
      BY <3>3, <3>5
  <2> QED
    BY <2>6, <2>7
<1>10. PICK e : e = i + 1 /\ e <= Common /\ e - 1 = i
  BY <1>1
<1>11. \A j \in DOMAIN new :
         \E g \in 0 .. e - 1 : \E h \in 1 .. e - g : WholeBlocks(new[j], g, h)
  <2> SUFFICES ASSUME NEW j \in 1 .. n + 1
               PROVE  \E g \in 0 .. i : \E h \in 1 .. i + 1 - g : WholeBlocks(new[j], g, h)
    BY <1>6, <1>10
  <2>1. CASE j = n + 1
    <3>1. i \in 0 .. i /\ 1 \in 1 .. i + 1 - i
      BY <1>1
    <3> QED
      BY <1>4, <1>6, <2>1, <3>1
  <2>2. CASE j # n + 1
    <3>1. j \in 1 .. n
      BY <1>2, <2>2
    <3> QED
      BY <1>6, <1>8, <3>1
  <2> QED
    BY <2>1, <2>2
<1>12. \A j, l \in DOMAIN new : j < l => new[j].ob + new[j].len < new[l].ob
  <2> SUFFICES ASSUME NEW j \in 1 .. n + 1, NEW l \in 1 .. n + 1, j < l
               PROVE  new[j].ob + new[j].len < new[l].ob
    BY <1>6
  <2>1. j \in 1 .. n /\ (l = n + 1 \/ l \in 1 .. n)
    BY <1>2
  <2>2. CASE l = n + 1
    BY <1>4, <1>6, <1>9, <2>1, <2>2 DEF WholeBlocks
  <2>3. CASE l \in 1 .. n
    BY <1>2, <1>6, <2>1, <2>3 DEF Groups
  <2> QED
    BY <2>1, <2>2, <2>3
<1>13. \A k \in 0 .. e - 1 : k \in Differing <=> \E j \in DOMAIN new : Covers(new[j], k)
  <2> SUFFICES ASSUME NEW k \in 0 .. i
               PROVE  k \in Differing <=> \E j \in 1 .. n + 1 : Covers(new[j], k)
    BY <1>6, <1>10
  <2>1. Covers(new[n + 1], k) <=> k = i
    <3>1. k \in Nat /\ 1 \in Nat
      BY <1>1
    <3>2. Covers(r, k) <=> i <= k /\ k < i + 1
      BY <1>1, <1>4, <3>1, CoversBlocks
    <3> QED
      BY <1>1, <1>6, <3>2
  <2>2. n + 1 \in 1 .. n + 1 /\ \A j \in 1 .. n + 1 : j = n + 1 \/ j \in 1 .. n
    BY <1>2
  <2>3. CASE k = i
    BY <2>1, <2>2, <2>3
  <2>4. CASE k # i
    <3>1. k \in 0 .. i - 1
      BY <1>1, <2>4
    <3>2. k \in Differing <=> \E j \in 1 .. n : Covers(runs[j], k)
      BY <1>2, <3>1 DEF Groups
    <3>3. \A j \in 1 .. n : j \in 1 .. n + 1
      BY <1>2
    <3> QED
      BY <1>6, <2>1, <2>2, <2>4, <3>2, <3>3
  <2> QED
    BY <2>3, <2>4
<1>14. Groups(new, e)
  BY <1>10, <1>11, <1>12, <1>13, GroupsOf, Zenon
<1> QED
  BY <1>3, <1>10, <1>14 DEF new

LEMMA NextDiff == TypeOK /\ DiffInv /\ [Next]_vars => DiffInv'
<1> SUFFICES ASSUME TypeOK, DiffInv, [Next]_vars, req'.op = "diff", DiffFits' PROVE Groups(runs, i)'
  BY DEF DiffInv
<1>1. PICK r, n : r = runs' /\ n = i'
  OBVIOUS
<1>2. UNCHANGED call
  BY DEF Next, OpenFails, OpenEmpty, Open, EntropyStep, EntropyMerge, Slice, DiffBlock, DiffReturn,
     ReconByte, ReconEnd, ReconReturn, ListSections, ReserveFails, Fail, Answer, Return, vars, call
<1>3. req.op = "diff" /\ DiffFits /\ Groups(runs, i)
  BY <1>2, SameGroups DEF DiffInv, call
<1>4. Groups(r, n)
  <2>1. CASE DiffBlock
    <3>1. i < Common /\ n = i + 1 /\ i \in Nat /\ Common \in Nat
      BY <1>1, <2>1, <1>3, CommonBlocks DEF DiffBlock, TypeOK
    <3>2. i \in 0 .. Common - 1
      BY <3>1
    <3>3. /\ i \notin Differing => r = runs
          /\ i \in Differing => r = Grouped(i * BlockSize)
      BY <1>1, <2>1, <3>2 DEF DiffBlock, Differing
    <3>4. CASE i \notin Differing
      BY <1>3, <3>1, <3>3, <3>4, GroupsSame
    <3>5. CASE i \in Differing /\ runs # <<>> /\ Last(runs).ob + Last(runs).len = i * BlockSize
      BY <1>3, <3>1, <3>3, <3>5, GroupsGrow
    <3>6. CASE i \in Differing /\ ~(runs # <<>> /\ Last(runs).ob + Last(runs).len = i * BlockSize)
      BY <1>3, <3>1, <3>3, <3>6, GroupsAppend
    <3> QED
      BY <3>4, <3>5, <3>6
  <2>2. CASE ~DiffBlock
    <3>1. UNCHANGED <<runs, i>>
      BY <1>3, <2>2 DEF Next, OpenFails, OpenEmpty, Open, EntropyStep, EntropyMerge, Slice, DiffReturn,
         ReconByte, ReconEnd, ReconReturn, ListSections, ReserveFails, Fail, Answer, Return, vars, work
    <3> QED
      BY <1>1, <1>3, <3>1
  <2> QED
    BY <2>1, <2>2
<1>5. Groups(r, n)'
  BY <1>2, <1>4, SameGroups
<1>6. (\A s, m : s = r /\ m = n => Groups(s, m))'
  BY <1>5
<1> QED
  BY <1>1, <1>6

-----------------------------------------------------------------------------
(* g_entropy_profile *)

(* The blocks of a thread are behind each other and no other thread has     *)
(* them.                                                                    *)
LEMMA Turns ==
    ASSUME TypeOK, req.op = "entropy", NEW w \in Threads, NEW m \in Nat
    PROVE  /\ Turn(w, m) \in Nat /\ m <= Turn(w, m)
           /\ Turn(w, m + 1) = Turn(w, m) + NThreads * BlockSize
           /\ \A l \in Nat : Turn(w, l) < Turn(w, m) <=> l < m
           /\ \A v \in Threads, l \in Nat : Turn(v, l) = Turn(w, m) => v = w /\ l = m
<1>1. BlockSize \in Nat \ {0}
  BY BlockSizeType DEF TypeOK
<1>2. NThreads \in Nat \ {0} /\ \A v \in Threads : v \in Nat /\ v < NThreads
  BY AnalyzeAssumption DEF Threads
<1> DEFINE nr(v, l) == v + l * NThreads
<1>3. \A v \in Threads, l \in Nat : nr(v, l) \in Nat
  BY <1>2
<1>4. \A v \in Threads, l \in Nat : Turn(v, l) = nr(v, l) * BlockSize
  BY DEF Turn
<1>5. m <= nr(w, m)
  <2>1. m <= m * NThreads /\ m * NThreads \in Nat
    BY <1>2
  <2> QED
    BY <1>2, <2>1
<1>6. nr(w, m + 1) = nr(w, m) + NThreads
  <2>1. (m + 1) * NThreads = m * NThreads + NThreads /\ m * NThreads \in Nat
    BY <1>2
  <2> QED
    BY <1>2, <2>1
<1>7. ASSUME NEW v \in Threads, NEW l \in Nat, NEW u \in Threads, NEW k \in Nat, l < k
      PROVE  nr(v, l) < nr(u, k)
  <2>1. (l + 1) * NThreads <= k * NThreads /\ (l + 1) * NThreads = l * NThreads + NThreads
    BY <1>2, <1>7, Times
  <2>2. l * NThreads \in Nat /\ k * NThreads \in Nat
    BY <1>2
  <2> QED
    BY <1>2, <2>1, <2>2
<1>8. ASSUME NEW v \in Threads, NEW l \in Nat PROVE nr(v, l) = nr(w, m) => v = w /\ l = m
  <2>1. nr(v, l) = nr(w, m) => l = m
    <3>1. (l < m => nr(v, l) < nr(w, m)) /\ (m < l => nr(w, m) < nr(v, l))
      BY <1>7
    <3> HIDE DEF nr
    <3> QED
      BY <1>3, <3>1
  <2>2. m * NThreads \in Nat
    BY <1>2
  <2> QED
    BY <1>2, <2>1, <2>2
<1> HIDE DEF nr
<1>9. nr(w, m) <= nr(w, m) * BlockSize /\ nr(w, m) * BlockSize \in Nat
  BY <1>1, <1>3
<1>10. (nr(w, m) + NThreads) * BlockSize = nr(w, m) * BlockSize + NThreads * BlockSize
  BY <1>1, <1>2, <1>3, Times
<1>11. ASSUME NEW l \in Nat PROVE Turn(w, l) < Turn(w, m) <=> l < m
  <2>1. (l < m => nr(w, l) < nr(w, m)) /\ (m < l => nr(w, m) < nr(w, l))
    BY <1>7
  <2>2. nr(w, l) < nr(w, m) <=> l < m
    BY <1>3, <2>1
  <2> QED
    BY <1>1, <1>3, <1>4, <2>2, Times
<1>12. ASSUME NEW v \in Threads, NEW l \in Nat, Turn(v, l) = Turn(w, m) PROVE v = w /\ l = m
  <2>1. nr(v, l) = nr(w, m)
    <3>1. PICK x \in Int, y \in Int : x = nr(v, l) /\ y = nr(w, m)
      BY <1>3
    <3>2. x * BlockSize = y * BlockSize
      BY <1>4, <1>12, <3>1
    <3>3. x = y
      BY <1>1, <3>2, Times
    <3> QED
      BY <3>1, <3>3
  <2> QED
    BY <1>8, <2>1
<1> QED
  <2>1. Turn(w, m) = nr(w, m) * BlockSize /\ Turn(w, m + 1) = nr(w, m + 1) * BlockSize
    BY <1>4
  <2> QED
    BY <1>3, <1>5, <1>6, <1>9, <1>10, <1>11, <1>12, <2>1

LEMMA InitEntropy == Init => EntropyInv
<1> SUFFICES ASSUME Init, req.op = "entropy", NEW w \in Threads
             PROVE  off[w] = Turn(w, 0) /\ Visited(arenas[w], ~lost, w, 0) /\ 0 \in 0 .. Len(a)
  BY DEF EntropyInv
<1>1. off[w] = w * BlockSize /\ arenas[w] = <<>>
  BY DEF Init
<1>2. w \in Nat /\ NThreads \in Nat
  BY AnalyzeAssumption DEF Threads
<1>3. w + 0 * NThreads = w
  BY <1>2
<1>4. Len(a) \in Nat
  BY InitType, FileType DEF TypeOK
<1>5. DOMAIN arenas[w] = {} /\ 0 .. 0 - 1 = {}
  BY <1>1
<1>6. Visited(arenas[w], ~lost, w, 0)
  BY <1>5, Zenon DEF Visited
<1> QED
  BY <1>1, <1>3, <1>4, <1>6 DEF Turn

LEMMA SameVisited ==
    ASSUME UNCHANGED call
    PROVE  /\ BlockSize' = BlockSize
           /\ \A w, m : Turn(w, m)' = Turn(w, m)
           /\ \A r, c, w, m : Visited(r, c, w, m)' <=> Visited(r, c, w, m)
<1> USE DEF call
<1>1. BlockSize' = BlockSize
  BY DEF BlockSize
<1>2. \A w, m : Turn(w, m)' = Turn(w, m)
  BY <1>1 DEF Turn
<1>3. ASSUME NEW r, NEW c, NEW w, NEW m PROVE Visited(r, c, w, m)' <=> Visited(r, c, w, m)
  BY <1>1, <1>2, Zenon DEF Visited
<1> QED
  BY <1>1, <1>2, <1>3

(* A record that was lost before is no matter to the others. *)
LEMMA VisitedLess ==
    ASSUME NEW r, NEW c, NEW w, NEW m, Visited(r, c, w, m)
    PROVE  Visited(r, FALSE, w, m)
  BY Zenon DEF Visited

(* Nor is one that is lost now. *)
LEMMA VisitedSkip ==
    ASSUME NEW r, NEW c, NEW w, NEW m \in Nat, Visited(r, c, w, m), Turn(w, m) < Len(a)
    PROVE  Visited(r, FALSE, w, m + 1)
<1> DEFINE n == m + 1
<1>1. \A l \in 0 .. m - 1 : l \in 0 .. n - 1
  OBVIOUS
<1>2. \A l \in 0 .. n - 1 : l \in 0 .. m - 1 \/ l = m
  OBVIOUS
<1> HIDE DEF n
<1>3. Visited(r, FALSE, w, n)
  BY <1>1, <1>2, Zenon DEF Visited
<1> QED
  BY <1>3 DEF n

(* The record of the block that the thread is at goes behind the others. *)
LEMMA VisitedAppend ==
    ASSUME TypeOK, req.op = "entropy", NEW w \in Threads, NEW m \in Nat, NEW r \in Seq(BlockRecord),
           NEW c, Visited(r, c, w, m), Turn(w, m) < Len(a)
    PROVE  Visited(Append(r, [offset |-> Turn(w, m), bytes |-> BlockAt(a, Turn(w, m), BlockSize)]),
                   c, w, m + 1)
<1> DEFINE rec == [offset |-> Turn(w, m), bytes |-> BlockAt(a, Turn(w, m), BlockSize)]
           new == Append(r, rec)
           n   == Len(r)
<1>1. rec.offset = Turn(w, m)
  OBVIOUS
<1>2. /\ n \in Nat /\ DOMAIN r = 1 .. n /\ DOMAIN new = 1 .. n + 1
      /\ \A j \in 1 .. n : new[j] = r[j]
      /\ new[n + 1] = rec
  <2> HIDE DEF rec
  <2>1. n \in Nat /\ DOMAIN r = 1 .. n
    OBVIOUS
  <2>2. Len(new) = n + 1 /\ \A j \in 1 .. n : new[j] = r[j]
    BY <2>1
  <2>3. new[n + 1] = rec /\ DOMAIN new = 1 .. n + 1
    BY <2>1
  <2> QED
    BY <2>1, <2>2, <2>3
<1> HIDE DEF new, n
<1>3. /\ \A l \in 0 .. m - 1 : Turn(w, l) < Len(a)
      /\ \A j \in 1 .. n : \E l \in 0 .. m - 1 :
            r[j] = [offset |-> Turn(w, l), bytes |-> BlockAt(a, Turn(w, l), BlockSize)]
      /\ \A j, k \in 1 .. n : j < k => r[j].offset < r[k].offset
      /\ c => \A l \in 0 .. m - 1 : \E j \in 1 .. n : r[j].offset = Turn(w, l)
  BY <1>2 DEF Visited
<1>0. PICK e : e = m + 1
  OBVIOUS
<1>4. /\ \A l \in 0 .. e - 1 : l \in 0 .. m - 1 \/ l = m
      /\ m \in 0 .. e - 1 /\ \A l \in 0 .. m - 1 : l \in 0 .. e - 1
  BY <1>0
<1>5. /\ \A j \in 1 .. n + 1 : j \in 1 .. n \/ j = n + 1
      /\ n + 1 \in 1 .. n + 1 /\ \A j \in 1 .. n : j \in 1 .. n + 1 /\ ~(n + 1 < j)
  BY <1>2
<1>6. \A l \in 0 .. e - 1 : Turn(w, l) < Len(a)
  BY <1>3, <1>4
<1>7. ASSUME NEW j \in 1 .. n + 1
      PROVE  \E l \in 0 .. e - 1 :
                 new[j] = [offset |-> Turn(w, l), bytes |-> BlockAt(a, Turn(w, l), BlockSize)]
  <2>1. CASE j \in 1 .. n
    BY <1>2, <1>3, <1>4, <2>1, Zenon
  <2>2. CASE j = n + 1
    BY <1>2, <1>4, <2>2, Zenon
  <2> QED
    BY <1>5, <2>1, <2>2
<1>8. ASSUME NEW j \in 1 .. n PROVE r[j].offset < Turn(w, m)
  <2>1. PICK l \in 0 .. m - 1 : r[j] = [offset |-> Turn(w, l), bytes |-> BlockAt(a, Turn(w, l), BlockSize)]
    BY <1>3
  <2>2. r[j].offset = Turn(w, l) /\ l \in Nat /\ l < m
    BY <2>1
  <2> QED
    BY <2>2, Turns
<1>9. ASSUME NEW j \in 1 .. n + 1, NEW k \in 1 .. n + 1, j < k PROVE new[j].offset < new[k].offset
  <2>1. j \in 1 .. n
    BY <1>2, <1>9
  <2>2. CASE k \in 1 .. n
    BY <1>2, <1>3, <1>9, <2>1, <2>2
  <2>3. CASE k = n + 1
    BY <1>1, <1>2, <1>8, <2>1, <2>3
  <2> QED
    BY <1>5, <2>2, <2>3
<1>10. ASSUME c, NEW l \in 0 .. e - 1 PROVE \E j \in 1 .. n + 1 : new[j].offset = Turn(w, l)
  <2>1. CASE l = m
    BY <1>1, <1>2, <1>5, <2>1
  <2>2. CASE l \in 0 .. m - 1
    <3>1. PICK j \in 1 .. n : r[j].offset = Turn(w, l)
      BY <1>3, <1>10, <2>2
    <3> QED
      BY <1>2, <1>5, <3>1
  <2> QED
    BY <1>4, <2>1, <2>2
<1>11. Visited(new, c, w, e)
  <2>1. PICK D : D = 1 .. n + 1
    OBVIOUS
  <2>2. D = DOMAIN new
    BY <1>2, <2>1
  <2>3. \A j \in D : \E l \in 0 .. e - 1 :
            new[j] = [offset |-> Turn(w, l), bytes |-> BlockAt(a, Turn(w, l), BlockSize)]
    BY <1>7, <2>1, Zenon
  <2>4. \A j, k \in D : j < k => new[j].offset < new[k].offset
    BY <1>9, <2>1
  <2>5. c => \A l \in 0 .. e - 1 : \E j \in D : new[j].offset = Turn(w, l)
    BY <1>10, <2>1, Zenon
  <2> QED
    BY <1>6, <2>2, <2>3, <2>4, <2>5, Zenon DEF Visited
<1> QED
  BY <1>0, <1>11 DEF new

LEMMA NextEntropy == TypeOK /\ EntropyInv /\ [Next]_vars => EntropyInv'
<1> SUFFICES ASSUME TypeOK, EntropyInv, [Next]_vars, req'.op = "entropy", NEW w \in Threads
             PROVE  (\E m \in 0 .. Len(a) : off[w] = Turn(w, m) /\ Visited(arenas[w], ~lost, w, m))'
  BY DEF EntropyInv
<1>1. UNCHANGED call
  BY DEF Next, OpenFails, OpenEmpty, Open, EntropyStep, EntropyMerge, Slice, DiffBlock, DiffReturn,
     ReconByte, ReconEnd, ReconReturn, ListSections, ReserveFails, Fail, Answer, Return, vars, call
<1>2. req.op = "entropy" /\ a' = a
  BY <1>1 DEF call
<1>3. PICK m \in 0 .. Len(a) : off[w] = Turn(w, m) /\ Visited(arenas[w], ~lost, w, m)
  BY <1>2 DEF EntropyInv
<1>4. m \in Nat /\ Len(a) \in Nat
  BY FileType DEF TypeOK
<1>5. PICK r, c : r = arenas'[w] /\ (c <=> ~lost')
  OBVIOUS
<1>6. ASSUME NEW n \in 0 .. Len(a), off'[w] = Turn(w, n), Visited(r, c, w, n)
      PROVE  (\E k \in 0 .. Len(a) : off[w] = Turn(w, k) /\ Visited(arenas[w], ~lost, w, k))'
  <2>1. Visited(r, c, w, n)' /\ Turn(w, n)' = Turn(w, n)
    BY <1>1, <1>6, SameVisited
  <2>2. (\A s, d : s = r /\ d = c => Visited(s, d, w, n))'
    BY <2>1
  <2> QED
    BY <1>2, <1>5, <1>6, <2>1, <2>2
<1>7. CASE \E v \in Threads : EntropyStep(v)
  <2>1. PICK v \in Threads : EntropyStep(v)
    BY <1>7
  <2>2. CASE v # w
    <3>1. off'[w] = off[w] /\ arenas'[w] = arenas[w] /\ (lost' = lost \/ lost' = TRUE)
      BY <2>1, <2>2 DEF EntropyStep, TypeOK
    <3>2. CASE lost' = lost
      BY <1>3, <1>5, <1>6, <3>1, <3>2
    <3>3. CASE lost' = TRUE
      <4>1. Visited(r, FALSE, w, m)
        BY <1>3, <1>5, <3>1, VisitedLess
      <4> QED
        BY <1>3, <1>5, <1>6, <3>1, <3>3, <4>1
    <3> QED
      BY <3>1, <3>2, <3>3
  <2>3. CASE v = w
    <3>1. off[w] < Len(a) /\ off'[w] = off[w] + NThreads * BlockSize
      BY <2>1, <2>3 DEF EntropyStep, TypeOK
    <3>2. off'[w] = Turn(w, m + 1)
      BY <1>2, <1>3, <1>4, <3>1, Turns
    <3>3. m + 1 \in 0 .. Len(a)
      BY <1>2, <1>3, <1>4, <3>1, Turns
    <3>4. Visited(r, c, w, m + 1)
      <4>1. CASE lost' = TRUE /\ arenas' = arenas
        <5>1. Visited(arenas[w], FALSE, w, m + 1)
          BY <1>3, <1>4, <3>1, VisitedSkip
        <5> QED
          BY <1>5, <4>1, <5>1
      <4>2. CASE /\ lost' = lost
                 /\ arenas' = [arenas EXCEPT ![w] = Append(@,
                                [offset |-> off[w], bytes |-> BlockAt(a, off[w], BlockSize)])]
        <5>1. r = Append(arenas[w], [offset |-> Turn(w, m), bytes |-> BlockAt(a, Turn(w, m), BlockSize)])
          BY <1>3, <1>5, <4>2 DEF TypeOK
        <5>2. arenas[w] \in Seq(BlockRecord)
          BY DEF TypeOK
        <5>3. Visited(r, ~lost, w, m + 1)
          BY <1>2, <1>3, <1>4, <3>1, <5>1, <5>2, VisitedAppend
        <5> QED
          BY <1>5, <4>2, <5>3
      <4> QED
        BY <2>1, <2>3, <4>1, <4>2 DEF EntropyStep
    <3> QED
      BY <1>6, <3>2, <3>3, <3>4
  <2> QED
    BY <2>2, <2>3
<1>8. CASE ~\E v \in Threads : EntropyStep(v)
  <2>1. UNCHANGED <<off, arenas, lost>>
    BY <1>2, <1>8 DEF Next, OpenFails, OpenEmpty, Open, EntropyMerge, Slice, DiffBlock, DiffReturn,
       ReconByte, ReconEnd, ReconReturn, ListSections, ReserveFails, Fail, Answer, Return, vars, work
  <2> QED
    BY <1>3, <1>5, <1>6, <2>1
<1> QED
  BY <1>7, <1>8

-----------------------------------------------------------------------------
(* g_recon *)

(* There is one maximal run at an offset. *)
LEMMA OneString ==
    ASSUME a \in Files, NEW o \in Nat, NEW m \in Nat, NEW n \in Nat, Maximal(o, m), Maximal(o, n)
    PROVE  m = n
<1>1. Len(a) \in Nat
  BY FileType
<1>2. ASSUME NEW x \in Nat, NEW y \in Nat, Maximal(o, x), Maximal(o, y) PROVE ~(x < y)
  <2> SUFFICES ASSUME x < y PROVE FALSE
    OBVIOUS
  <2>1. x + 1 \in 1 .. y /\ o + x # Len(a) /\ o + (x + 1) = o + x + 1
    BY <1>1, <1>2 DEF Maximal
  <2>2. a[o + (x + 1)] \in Printable
    BY <1>2, <2>1 DEF Maximal
  <2>3. a[o + x + 1] \notin Printable
    BY <1>2, <2>1 DEF Maximal
  <2> QED
    BY <2>1, <2>2, <2>3
<1> QED
  BY <1>2

LEMMA StringType ==
    ASSUME a \in Files, NEW r \in Strings
    PROVE  /\ r.offset \in Nat /\ r.len \in Nat /\ 1 <= r.len
           /\ r.offset < Len(a) /\ a[r.offset + 1] \in Printable
           /\ Maximal(r.offset, r.len) /\ r = [offset |-> r.offset, len |-> r.len]
<1>1. Len(a) \in Nat /\ MinLen \in Nat \ {0}
  BY FileType, AnalyzeAssumption
<1>2. r \in [offset : 0 .. Len(a), len : MinLen .. Len(a)] /\ Maximal(r.offset, r.len)
  BY DEF Strings
<1>3. r.offset \in Nat /\ r.len \in Nat /\ 1 <= r.len /\ r = [offset |-> r.offset, len |-> r.len]
  BY <1>1, <1>2
<1>4. 1 \in 1 .. r.len /\ r.offset + r.len <= Len(a)
  BY <1>2, <1>3 DEF Maximal
<1>5. a[r.offset + 1] \in Printable
  BY <1>2, <1>4 DEF Maximal
<1> QED
  BY <1>1, <1>2, <1>3, <1>4, <1>5

LEMMA FiniteStrings ==
    ASSUME a \in Files, NEW o
    PROVE  IsFiniteSet(StringsBefore(o)) /\ Cardinality(StringsBefore(o)) \in Nat
<1> DEFINE S == StringsBefore(o)
           f == [r \in S |-> r.offset + 1]
<1>1. Len(a) \in Nat
  BY FileType
<1>2. \A r \in S : r \in Strings
  BY DEF StringsBefore
<1> HIDE DEF S
<1>3. \A r \in S : r.offset + 1 \in 1 .. Len(a)
  BY <1>1, <1>2, StringType
<1>4. f \in [S -> 1 .. Len(a)]
  BY <1>3
<1>5. ASSUME NEW r \in S, NEW q \in S, f[r] = f[q] PROVE r = q
  <2>1. r.offset = q.offset
    BY <1>2, <1>5, StringType
  <2>2. r.len = q.len
    BY <1>2, <2>1, StringType, OneString
  <2> QED
    BY <1>2, <2>1, <2>2, StringType
<1> HIDE DEF f
<1>6. f \in Injection(S, 1 .. Len(a))
  BY <1>4, <1>5 DEF Injection, IsInjective
<1>7. IsFiniteSet(1 .. Len(a))
  BY <1>1, UpTo
<1>8. IsFiniteSet(S)
  BY <1>6, <1>7, FS_Injection
<1>9. Cardinality(S) \in Nat
  BY <1>8, FS_CardinalityType
<1> QED
  BY <1>8, <1>9 DEF S

(* Inside a printable run no string begins. *)
LEMMA NoneInside ==
    ASSUME a \in Files, NEW st \in Nat, NEW n \in Nat, Detector(n, st), NEW r \in Strings, st <= r.offset, r.offset <= n
    PROVE  r.offset = st
<1>1. r.offset \in Nat /\ Maximal(r.offset, r.len)
  BY StringType
<1>2. ASSUME st < r.offset PROVE FALSE
  <2>1. r.offset \in st + 1 .. n
    BY <1>1, <1>2
  <2>2. a[r.offset] \in Printable
    BY <2>1 DEF Detector
  <2> QED
    BY <1>1, <1>2, <2>2 DEF Maximal
<1> QED
  BY <1>1, <1>2

(* The string that ends at byte n is the only one between its start and n. *)
LEMMA StringEnds ==
    ASSUME a \in Files, NEW st \in Nat, NEW n \in Nat, Detector(n, st),
           n = Len(a) \/ a[n + 1] \notin Printable, NEW o \in {n, n + 1}
    PROVE  LET r == [offset |-> st, len |-> n - st]
           IN  /\ n - st >= MinLen => r \in Strings /\ StringsBefore(o) = StringsBefore(st) \cup {r}
               /\ ~(n - st >= MinLen) => StringsBefore(o) = StringsBefore(st)
<1> DEFINE r == [offset |-> st, len |-> n - st]
<1>1. Len(a) \in Nat /\ MinLen \in Nat \ {0} /\ st < n /\ n <= Len(a) /\ st < o /\ n - st \in Nat
  BY FileType, AnalyzeAssumption DEF Detector
<1>2. Maximal(st, n - st)
  <2>1. ASSUME NEW k \in 1 .. n - st PROVE a[st + k] \in Printable
    <3>1. st + k \in st + 1 .. n
      BY <1>1
    <3> QED
      BY <3>1 DEF Detector
  <2>2. st + (n - st) = n
    BY <1>1
  <2> QED
    BY <1>1, <2>1, <2>2 DEF Maximal, Detector
<1>3. ASSUME NEW q \in Strings, q.offset < o, ~(q.offset < st) PROVE q = r
  <2>1. q.offset \in Nat /\ q.len \in Nat /\ Maximal(q.offset, q.len) /\ q = [offset |-> q.offset, len |-> q.len]
    BY StringType
  <2>2. st <= q.offset /\ q.offset <= n
    BY <1>3, <2>1
  <2>3. q.offset = st
    BY <2>2, NoneInside
  <2>4. q.len = n - st
    BY <1>1, <1>2, <2>1, <2>3, OneString
  <2> QED
    BY <2>1, <2>3, <2>4
<1>4. ASSUME NEW q \in StringsBefore(st) PROVE q \in StringsBefore(o)
  <2>1. q \in Strings /\ q.offset < st /\ q.offset \in Nat
    BY StringType DEF StringsBefore
  <2> QED
    BY <1>1, <2>1 DEF StringsBefore
<1>5. r.offset = st /\ r.len = n - st
  OBVIOUS
<1>6. r \in Strings <=> n - st >= MinLen
  BY <1>1, <1>2, <1>5 DEF Strings
<1> HIDE DEF r
<1>7. \A q \in StringsBefore(o) : q \in StringsBefore(st) \/ q = r
  BY <1>3 DEF StringsBefore
<1>8. r \in Strings => r \in StringsBefore(o)
  BY <1>1, <1>5 DEF StringsBefore
<1>9. \A q \in StringsBefore(o) : q \in Strings
  BY DEF StringsBefore
<1> QED
  BY <1>4, <1>6, <1>7, <1>8, <1>9 DEF r

LEMMA SameCollected ==
    ASSUME UNCHANGED call
    PROVE  /\ \A n, st : Detector(n, st)' <=> Detector(n, st)
           /\ \A r, n, c, o : Collected(r, n, c, o)' <=> Collected(r, n, c, o)
<1> USE DEF call
<1>1. \A o, n : Maximal(o, n)' <=> Maximal(o, n)
  BY DEF Maximal
<1>2. Strings' = Strings
  BY <1>1 DEF Strings
<1>3. \A o : StringsBefore(o)' = StringsBefore(o)
  BY <1>2 DEF StringsBefore
<1>4. Sample' = Sample
  BY <1>2, <1>3 DEF Sample
<1>5. ASSUME NEW r, NEW n, NEW c, NEW o PROVE Collected(r, n, c, o)' <=> Collected(r, n, c, o)
  BY <1>3, <1>4, Zenon DEF Collected
<1>6. ASSUME NEW n, NEW st PROVE Detector(n, st)' <=> Detector(n, st)
  BY Zenon DEF Detector
<1> QED
  BY <1>5, <1>6

LEMMA InitRecon == Init => ReconInv
<1> SUFFICES ASSUME Init, req.op = "recon" PROVE ReconInv
  BY DEF ReconInv
<1>1. i = 0 /\ start = -1 /\ runs = <<>> /\ count = 0 /\ a \in Files /\ Len(a) \in Nat
  BY InitType, FileType DEF Init, TypeOK
<1>2. StringsBefore(0) = {}
  BY <1>1, StringType DEF StringsBefore
<1>3. Cardinality(StringsBefore(0)) = 0 /\ MaxStrings \in Nat
  BY <1>2, FS_EmptySet, AnalyzeAssumption
<1>4. Least(MaxStrings, Cardinality(StringsBefore(0))) = 0
  BY <1>3 DEF Least
<1>5. \A r \in Sample : ~(r.offset < 0)
  BY <1>1, StringType DEF Sample
<1>6. Collected(runs, count, ~lost, 0)
  BY <1>1, <1>4, <1>5 DEF Collected
<1> QED
  BY <1>1, <1>6 DEF ReconInv, Detector

(* The same strings stay before a later offset if none begins in between. *)
LEMMA CollectedMoves ==
    ASSUME a \in Files, NEW r, NEW n, NEW c, NEW o \in Nat, NEW p \in Nat, o <= p, Collected(r, n, c, o),
           \A q \in Strings : q.offset < p => q.offset < o
    PROVE  Collected(r, n, c, p)
<1>1. \A q \in Strings : q.offset \in Nat
  BY StringType
<1>2. \A q \in Strings : q.offset < o <=> q.offset < p
  BY <1>1
<1>3. StringsBefore(o) = StringsBefore(p)
  BY <1>2 DEF StringsBefore
<1>4. \A q \in Sample : q \in Strings
  BY DEF Sample
<1> QED
  BY <1>2, <1>3, <1>4, Zenon DEF Collected

(* The string r from st on is counted and stored, or lost, or over the cap. *)
LEMMA CollectedEmits ==
    ASSUME a \in Files, NEW st \in Nat, NEW len, NEW r, r = [offset |-> st, len |-> len],
           NEW recs \in Seq(StringRecord), NEW n \in Nat, NEW c, Collected(recs, n, c, st), st < Len(a),
           r \in Strings, NEW o \in Nat, st < o, StringsBefore(o) = StringsBefore(st) \cup {r}
    PROVE  /\ n < MaxStrings => Collected(Append(recs, r), n + 1, c, o) /\ Collected(recs, n + 1, FALSE, o)
           /\ ~(n < MaxStrings) => Collected(recs, n, c, o)
<1> DEFINE C == Cardinality(StringsBefore(st))
<1>1. C \in Nat /\ IsFiniteSet(StringsBefore(st)) /\ MaxStrings \in Nat
  BY FiniteStrings, AnalyzeAssumption
<1>2. r.offset = st
  OBVIOUS
<1>3. r \notin StringsBefore(st)
  BY <1>2 DEF StringsBefore
<1>4. Cardinality(StringsBefore(o)) = C + 1
  BY <1>1, <1>3, FS_AddElement
<1>5. n = Least(MaxStrings, C)
  BY DEF Collected
<1>6. r \in Sample <=> C < MaxStrings
  BY <1>2 DEF Sample
<1> HIDE DEF C
<1>7. (n < MaxStrings <=> C < MaxStrings)
      /\ Least(MaxStrings, C + 1) = IF n < MaxStrings THEN n + 1 ELSE n
  BY <1>1, <1>5 DEF Least
<1>8. \A q \in Sample : q \in Strings /\ q.offset \in Nat
  BY StringType DEF Sample
<1>9. \A q \in Sample : q.offset < o => q.offset < st \/ q = r
  BY <1>8 DEF StringsBefore
<1>10. \A q \in Sample : q.offset < st => q.offset < o
  BY <1>8
<1>11. ASSUME NEW d, d => c /\ ~(n < MaxStrings), NEW k, k = IF n < MaxStrings THEN n + 1 ELSE n
       PROVE  Collected(recs, k, d, o)
  <2>1. k = Least(MaxStrings, Cardinality(StringsBefore(o)))
    BY <1>4, <1>7, <1>11
  <2>2. \A j \in DOMAIN recs : recs[j] \in Sample /\ recs[j].offset < o
    BY <1>10 DEF Collected
  <2>3. ASSUME d, NEW q \in Sample, q.offset < o PROVE \E j \in DOMAIN recs : recs[j] = q
    BY <1>6, <1>7, <1>9, <1>11, <2>3 DEF Collected
  <2>4. \A j, l \in DOMAIN recs : j < l => recs[j].offset < recs[l].offset
    BY DEF Collected
  <2> QED
    BY <2>1, <2>2, <2>3, <2>4, Zenon DEF Collected
<1>12. ASSUME n < MaxStrings PROVE Collected(Append(recs, r), n + 1, c, o)
  <2> DEFINE new == Append(recs, r)
             m   == Len(recs)
  <2>1. m \in Nat /\ DOMAIN recs = 1 .. m
    OBVIOUS
  <2> HIDE DEF m
  <2>2. Len(new) = m + 1 /\ DOMAIN new = 1 .. m + 1 /\ \A j \in 1 .. m : new[j] = recs[j]
    BY <2>1 DEF m
  <2>3. new[m + 1] = r
    BY <2>1 DEF m
  <2> HIDE DEF new
  <2>4. /\ \A j \in 1 .. m : recs[j] \in Sample /\ recs[j].offset < st
        /\ \A j, l \in 1 .. m : j < l => recs[j].offset < recs[l].offset
        /\ c => \A q \in Sample : q.offset < st => \E j \in 1 .. m : recs[j] = q
    BY <2>1 DEF Collected
  <2>5. /\ \A j \in 1 .. m + 1 : j \in 1 .. m \/ j = m + 1
        /\ m + 1 \in 1 .. m + 1 /\ \A j \in 1 .. m : j \in 1 .. m + 1 /\ ~(m + 1 < j)
        /\ ~(m + 1 < m + 1)
    BY <2>1
  <2>6. PICK D, k : D = DOMAIN new /\ D = 1 .. m + 1 /\ k = n + 1
    BY <2>2
  <2>7. k = Least(MaxStrings, Cardinality(StringsBefore(o)))
    BY <1>4, <1>7, <1>12, <2>6
  <2>8. \A j \in D : new[j] \in Sample /\ new[j].offset < o
    BY <1>2, <1>6, <1>7, <1>10, <1>12, <2>2, <2>3, <2>4, <2>5, <2>6
  <2>9. ASSUME NEW j \in D, NEW l \in D, j < l PROVE new[j].offset < new[l].offset
    <3>1. j \in 1 .. m
      BY <2>5, <2>6, <2>9
    <3>2. CASE l \in 1 .. m
      BY <2>2, <2>4, <2>9, <3>1, <3>2
    <3>3. CASE l = m + 1
      BY <1>2, <2>2, <2>3, <2>4, <3>1, <3>3
    <3> QED
      BY <2>5, <2>6, <3>2, <3>3
  <2>10. ASSUME c, NEW q \in Sample, q.offset < o PROVE \E j \in D : new[j] = q
    <3>1. CASE q = r
      BY <2>3, <2>5, <2>6, <3>1
    <3>2. CASE q.offset < st
      <4>1. PICK j \in 1 .. m : recs[j] = q
        BY <2>4, <2>10, <3>2
      <4> QED
        BY <2>2, <2>5, <2>6, <4>1
    <3> QED
      BY <1>9, <2>10, <3>1, <3>2
  <2>11. Collected(new, k, c, o)
    BY <2>6, <2>7, <2>8, <2>9, <2>10, Zenon DEF Collected
  <2> QED
    BY <2>6, <2>11 DEF new
<1> QED
  BY <1>11, <1>12

(* The end of a string, at a byte that is not printable or at the end. *)
LEMMA EmitRecon ==
    ASSUME TypeOK, req.op = "recon", ReconInv, start # -1,
           i = Len(a) \/ a[i + 1] \notin Printable, Emit(i - start),
           NEW o \in {i, i + 1}, NEW r, NEW n, r = runs', n = count'
    PROVE  \A c : c = (~lost') => Collected(r, n, c, o)
<1>1. /\ a \in Files /\ Len(a) \in Nat /\ i \in Nat /\ start \in Nat /\ count \in Nat
      /\ runs \in Seq(StringRecord) /\ MinLen \in Nat /\ lost \in BOOLEAN
  BY FileType, AnalyzeAssumption DEF TypeOK
<1>2. Detector(i, start) /\ Collected(runs, count, ~lost, start)
  BY DEF ReconInv
<1>3. start < i /\ start < Len(a) /\ start < o /\ o \in Nat
  BY <1>1, <1>2 DEF Detector
<1>4. PICK e : e = [offset |-> start, len |-> i - start]
  OBVIOUS
<1>5. /\ i - start >= MinLen => e \in Strings /\ StringsBefore(o) = StringsBefore(start) \cup {e}
      /\ ~(i - start >= MinLen) => StringsBefore(o) = StringsBefore(start)
  BY <1>1, <1>2, <1>4, StringEnds
<1> SUFFICES ASSUME NEW c, c = (~lost') PROVE Collected(r, n, c, o)
  OBVIOUS
<1>6. CASE i - start >= MinLen /\ count < MaxStrings
  <2>1. Collected(Append(runs, e), count + 1, ~lost, o) /\ Collected(runs, count + 1, FALSE, o)
    BY <1>1, <1>2, <1>3, <1>4, <1>5, <1>6, CollectedEmits
  <2>2. n = count + 1 /\ ((r = Append(runs, e) /\ lost' = lost) \/ (r = runs /\ lost' = TRUE))
    BY <1>4, <1>6 DEF Emit
  <2>3. CASE r = Append(runs, e) /\ lost' = lost
    <3>1. c = (~lost)
      BY <2>3, Zenon
    <3> QED
      BY <2>1, <2>2, <2>3, <3>1, Zenon
  <2>4. CASE r = runs /\ lost' = TRUE
    <3>1. c = FALSE
      BY <2>4, Zenon
    <3> QED
      BY <2>1, <2>2, <2>4, <3>1, Zenon
  <2> QED
    BY <2>2, <2>3, <2>4
<1>7. CASE i - start >= MinLen /\ ~(count < MaxStrings)
  <2>1. Collected(runs, count, ~lost, o)
    BY <1>1, <1>2, <1>3, <1>4, <1>5, <1>7, CollectedEmits
  <2>2. r = runs /\ n = count /\ lost' = lost
    BY <1>7 DEF Emit
  <2>3. c = (~lost)
    BY <2>2, Zenon
  <2> QED
    BY <2>1, <2>2, <2>3, Zenon
<1>8. CASE ~(i - start >= MinLen)
  <2>1. \A q \in Strings : q.offset < o => q.offset < start
    BY <1>5, <1>8 DEF StringsBefore
  <2>2. Collected(runs, count, ~lost, o)
    BY <1>1, <1>2, <1>3, <2>1, CollectedMoves
  <2>3. r = runs /\ n = count /\ lost' = lost
    BY <1>8 DEF Emit
  <2>4. c = (~lost)
    BY <2>3, Zenon
  <2> QED
    BY <2>2, <2>3, <2>4, Zenon
<1> QED
  BY <1>6, <1>7, <1>8

LEMMA NextRecon == TypeOK /\ ReconInv /\ [Next]_vars => ReconInv'
<1> SUFFICES ASSUME TypeOK, ReconInv, [Next]_vars, req'.op = "recon"
             PROVE  (Detector(i, start) /\ Collected(runs, count, ~lost, IF start = -1 THEN i ELSE start))'
  BY DEF ReconInv
<1>1. UNCHANGED call
  BY DEF Next, OpenFails, OpenEmpty, Open, EntropyStep, EntropyMerge, Slice, DiffBlock, DiffReturn,
     ReconByte, ReconEnd, ReconReturn, ListSections, ReserveFails, Fail, Answer, Return, vars, call
<1>2. req.op = "recon" /\ Detector(i, start)
      /\ Collected(runs, count, ~lost, IF start = -1 THEN i ELSE start)
  BY <1>1 DEF call, ReconInv
<1>3. a \in Files /\ Len(a) \in Nat /\ i \in Nat /\ (start = -1 \/ start \in Nat) /\ -1 \notin Nat
  BY FileType DEF TypeOK
<1>4. PICK k, st, r, n, c : k = i' /\ st = start' /\ r = runs' /\ n = count' /\ c = (~lost')
  OBVIOUS
<1>5. PICK o : o = IF st = -1 THEN k ELSE st
  OBVIOUS
<1>6. Detector(k, st) /\ Collected(r, n, c, o)
  <2>1. CASE ReconByte /\ a[i + 1] \in Printable
    <3>1. i < Len(a) /\ k = i + 1 /\ st = (IF start = -1 THEN i ELSE start) /\ r = runs /\ n = count /\ lost' = lost
      BY <1>4, <2>1 DEF ReconByte
    <3>2. o = IF start = -1 THEN i ELSE start
      BY <1>3, <1>5, <3>1
    <3>3. Detector(k, st)
      <4>0. start # -1 => start \in Nat /\ start < i
        BY <1>2, <1>3 DEF Detector
      <4>1. st \in Nat /\ st < k /\ k <= Len(a) /\ st # -1
        <5>1. CASE start = -1
          BY <1>3, <3>1, <5>1
        <5>2. CASE start # -1
          BY <1>3, <3>1, <4>0, <5>2
        <5> QED
          BY <5>1, <5>2
      <4>2. ASSUME NEW l \in st + 1 .. k PROVE a[l] \in Printable
        <5>1. CASE l = i + 1
          BY <2>1, <5>1
        <5>2. CASE l # i + 1
          <6>1. l \in st + 1 .. i
            BY <1>3, <3>1, <4>1, <5>2
          <6>2. start # -1 /\ l \in start + 1 .. i
            BY <1>3, <3>1, <6>1
          <6> QED
            BY <1>2, <6>2 DEF Detector
        <5> QED
          BY <5>1, <5>2
      <4>3. st = 0 \/ a[st] \notin Printable
        BY <1>2, <1>3, <3>1 DEF Detector
      <4> QED
        BY <4>1, <4>2, <4>3 DEF Detector
    <3> QED
      BY <1>2, <1>4, <3>1, <3>2, <3>3
  <2>2. CASE ReconByte /\ a[i + 1] \notin Printable /\ start # -1
    <3>1. i < Len(a) /\ k = i + 1 /\ st = -1 /\ Emit(i - start)
      BY <1>4, <2>2 DEF ReconByte
    <3>2. Collected(r, n, c, o)
      BY <1>2, <1>4, <1>5, <2>2, <3>1, EmitRecon
    <3>3. Detector(k, st)
      BY <1>3, <2>2, <3>1 DEF Detector
    <3> QED
      BY <3>2, <3>3
  <2>3. CASE ReconByte /\ a[i + 1] \notin Printable /\ start = -1
    <3>1. i < Len(a) /\ k = i + 1 /\ st = -1 /\ r = runs /\ n = count /\ lost' = lost
      BY <1>4, <2>3 DEF ReconByte
    <3>2. Detector(k, st)
      BY <1>3, <2>3, <3>1 DEF Detector
    <3>3. ASSUME NEW q \in Strings, q.offset < i + 1 PROVE q.offset < i
      <4>1. q.offset \in Nat /\ a[q.offset + 1] \in Printable
        BY <1>3, StringType
      <4>2. q.offset # i
        BY <2>3, <4>1
      <4> QED
        BY <1>3, <3>3, <4>1, <4>2
    <3>4. Collected(runs, count, ~lost, i)
      BY <1>2, <2>3
    <3>5. i + 1 \in Nat /\ i <= i + 1 /\ o = i + 1
      BY <1>3, <1>5, <3>1
    <3>6. Collected(runs, count, ~lost, o)
      BY <1>3, <3>3, <3>4, <3>5, CollectedMoves
    <3> QED
      BY <1>4, <3>1, <3>2, <3>6
  <2>4. CASE ReconEnd
    <3>1. i = Len(a) /\ start # -1 /\ k = i /\ st = -1 /\ Emit(i - start)
      BY <1>4, <2>4 DEF ReconEnd
    <3>2. Collected(r, n, c, o)
      BY <1>2, <1>4, <1>5, <3>1, EmitRecon
    <3>3. Detector(k, st)
      BY <1>3, <3>1 DEF Detector
    <3> QED
      BY <3>2, <3>3
  <2>5. CASE ~ReconByte /\ ~ReconEnd
    <3>1. UNCHANGED <<i, start, runs, count, lost>>
      BY <1>2, <2>5 DEF Next, OpenFails, OpenEmpty, Open, EntropyStep, EntropyMerge, Slice, DiffBlock, DiffReturn,
         ReconReturn, ListSections, ReserveFails, Fail, Answer, Return, vars, work
    <3> QED
      BY <1>2, <1>4, <1>5, <3>1
  <2> QED
    BY <2>1, <2>2, <2>3, <2>4, <2>5
<1>7. Detector(k, st)' /\ Collected(r, n, c, o)'
  BY <1>1, <1>6, SameCollected
<1>8. (\A kk, ss, rr, nn, cc, oo : kk = k /\ ss = st /\ rr = r /\ nn = n /\ cc = c /\ oo = o
          => Detector(kk, ss) /\ Collected(rr, nn, cc, oo))'
  BY <1>7
<1>9. o = (IF start' = -1 THEN i' ELSE start')
  BY <1>4, <1>5
<1> QED
  BY <1>4, <1>8, <1>9

LEMMA InitIInv == Init => IInv
  BY InitType, InitResult, InitDiff, InitEntropy, InitRecon DEF IInv

LEMMA NextIInv == IInv /\ [Next]_vars => IInv'
  BY NextType, NextResult, NextDiff, NextEntropy, NextRecon DEF IInv

-----------------------------------------------------------------------------
(* What the tools answer *)

(* The blocks are the ones that begin inside the file. *)
LEMMA InBlocks ==
    ASSUME NEW f \in Files, NEW bs \in Nat \ {0}, NEW k \in Nat
    PROVE  k * bs \in Nat /\ (k * bs < Len(f) <=> k < Blocks(f, bs))
<1> DEFINE n == Blocks(f, bs)
<1>1. n \in Nat /\ Len(f) <= n * bs /\ n * bs < Len(f) + bs /\ Len(f) \in Nat
  BY BlocksCount, FileType
<1> HIDE DEF n
<1>2. n * bs \in Int /\ k * bs \in Nat
  BY <1>1
<1>3. ASSUME k < n PROVE k * bs < Len(f)
  <2>1. (k + 1) * bs <= n * bs /\ (k + 1) * bs = k * bs + bs
    BY <1>1, <1>3, Times
  <2> QED
    BY <1>1, <1>2, <2>1
<1>4. ASSUME n <= k PROVE ~(k * bs < Len(f))
  <2>1. n * bs <= k * bs
    BY <1>1, <1>4, Times
  <2> QED
    BY <1>1, <1>2, <2>1
<1> QED
  BY <1>1, <1>2, <1>3, <1>4 DEF n

LEMMA SplitSeq ==
    ASSUME NEW S, NEW f \in Seq(S), NEW x \in 0 .. Len(f), NEW y \in x .. Len(f)
    PROVE  SubSeq(f, 1, x) \o SubSeq(f, x + 1, y) = SubSeq(f, 1, y)
<1> DEFINE s == SubSeq(f, 1, x)
           t == SubSeq(f, x + 1, y)
           u == SubSeq(f, 1, y)
<1>1. Len(f) \in Nat /\ x \in Nat /\ y \in Nat /\ x <= y /\ y <= Len(f)
  OBVIOUS
<1>2. s \in Seq(S) /\ Len(s) = x /\ \A k \in 1 .. x : s[k] = f[k]
  BY <1>1
<1>3. t \in Seq(S) /\ Len(t) = y - x /\ \A k \in 1 .. y - x : t[k] = f[x + k]
  BY <1>1
<1>4. u \in Seq(S) /\ Len(u) = y /\ \A k \in 1 .. y : u[k] = f[k]
  BY <1>1
<1> HIDE DEF s, t, u
<1>5. s \o t \in Seq(S) /\ Appended(s \o t, s, t)
  <2>1. s \in Seq(S) /\ t \in Seq(S)
    BY <1>2, <1>3
  <2> QED
    BY <2>1, Concatenation
<1>6. PICK v : v = s \o t
  OBVIOUS
<1>7. v \in Seq(S) /\ Len(v) = y
  BY <1>1, <1>2, <1>3, <1>5, <1>6 DEF Appended
<1>8. ASSUME NEW k \in 1 .. y PROVE v[k] = u[k]
  <2>1. CASE k \in 1 .. x
    BY <1>1, <1>2, <1>4, <1>5, <1>6, <2>1 DEF Appended
  <2>2. CASE k \notin 1 .. x
    <3>1. PICK l \in 1 .. y - x : k = x + l
      <4>1. k - x \in 1 .. y - x /\ k = x + (k - x)
        BY <1>1, <2>2
      <4> QED
        BY <4>1
    <3>2. v[x + l] = t[l]
      BY <1>2, <1>3, <1>5, <1>6 DEF Appended
    <3> QED
      BY <1>3, <1>4, <3>1, <3>2
  <2> QED
    BY <2>1, <2>2
<1>9. v = u
  BY <1>4, <1>7, <1>8
<1> QED
  BY <1>6, <1>9 DEF s, t, u

(* The bytes of the blocks of a file, one behind the other, are the file. *)
LEMMA TileBlocks ==
    ASSUME a \in Files, a # <<>>, BlockSize \in Nat \ {0}, NEW recs, Len(recs) = Blocks(a, BlockSize),
           \A k \in 1 .. Len(recs) : recs[k] = [offset |-> (k - 1) * BlockSize,
                                               bytes  |-> BlockAt(a, (k - 1) * BlockSize, BlockSize)]
    PROVE  Tile(recs)
<1> DEFINE bs == BlockSize
           n  == Len(recs)
           s  == [k \in 1 .. n |-> recs[k].bytes]
<1>1. a \in Seq(Bytes) /\ Len(a) \in Nat /\ Len(a) # 0
  BY FileType
<1>2. n \in Nat /\ Len(a) <= n * bs
  BY BlocksCount
<1>3. bs \in Nat \ {0} /\ \A k \in 1 .. n : recs[k].offset = (k - 1) * bs /\ s[k] = BlockAt(a, (k - 1) * bs, bs)
  OBVIOUS
<1>4. \A k \in 1 .. n : (k - 1) * bs \in Nat /\ (k - 1) * bs < Len(a)
  <2> SUFFICES ASSUME NEW k \in 1 .. n PROVE (k - 1) * bs \in Nat /\ (k - 1) * bs < Len(a)
    OBVIOUS
  <2>1. k - 1 \in Nat /\ k - 1 < n
    BY <1>2
  <2> QED
    BY <2>1, InBlocks
<1>5. Len(s) = n
  BY <1>2
<1>6. n # 0
  BY <1>1, <1>2, <1>3
<1> HIDE DEF bs, n, s
<1>7. PICK f : Joins(f, s, n) /\ FlattenSeq(s) = f[n]
  BY <1>2, <1>5, <1>6, FlattenJoins
<1> DEFINE P(k) == f[k] = SubSeq(a, 1, Least(k * bs, Len(a)))
           T == {k \in 1 .. n : ~P(k)}
<1>8. ASSUME NEW k \in 1 .. n
      PROVE  /\ Least(k * bs, Len(a)) \in (k - 1) * bs .. Len(a)
             /\ s[k] = SubSeq(a, (k - 1) * bs + 1, Least(k * bs, Len(a)))
  <2>1. PICK x \in Nat, y \in Int : x = (k - 1) * bs /\ y = k * bs
    BY <1>2, <1>3, <1>4
  <2>2. y = x + bs
    BY <1>2, <1>3, <2>1
  <2>3. s[k] = SubSeq(a, x + 1, x + Least(bs, Len(a) - x)) /\ x < Len(a)
    BY <1>3, <1>4, <2>1 DEF BlockAt
  <2>4. x + Least(bs, Len(a) - x) = Least(y, Len(a)) /\ Least(y, Len(a)) \in x .. Len(a)
    BY <1>1, <1>3, <2>2, <2>3 DEF Least
  <2> QED
    BY <2>1, <2>3, <2>4
<1>9. T = {}
  <2> SUFFICES ASSUME T # {} PROVE FALSE
    OBVIOUS
  <2>1. T \in SUBSET Nat
    BY <1>2
  <2>2. PICK k \in T : \A y \in T : k <= y
    BY <2>1, LeastNat
  <2>3. k \in 1 .. n /\ ~P(k)
    OBVIOUS
  <2>4. CASE k = 1
    <3>1. f[1] = s[1] /\ (1 - 1) * bs + 1 = 1
      BY <1>3, <1>7, <2>3, <2>4 DEF Joins
    <3> QED
      BY <1>8, <2>3, <2>4, <3>1
  <2>5. CASE k # 1
    <3>1. PICK j \in 1 .. n : k = j + 1 /\ j = k - 1 /\ ~(k <= j)
      <4>1. k - 1 \in 1 .. n /\ k = (k - 1) + 1 /\ ~(k <= k - 1)
        BY <1>2, <2>3, <2>5
      <4> QED
        BY <4>1
    <3>2. P(j)
      <4>1. j \notin T
        <5> HIDE DEF T
        <5> QED
          BY <2>2, <3>1
      <4> QED
        BY <4>1
    <3>3. f[k] = f[j] \o s[k]
      BY <1>7, <2>3, <2>5, <3>1 DEF Joins
    <3>4. PICK x \in Nat, y \in Int : x = j * bs /\ y = Least(k * bs, Len(a))
      <4>1. (k - 1) * bs \in Nat /\ Least(k * bs, Len(a)) \in (k - 1) * bs .. Len(a)
        BY <1>4, <1>8, <2>3
      <4>2. j * bs \in Nat
        BY <3>1, <4>1
      <4>3. Least(k * bs, Len(a)) \in Int
        <5> DEFINE y == Least(k * bs, Len(a))
                   x == (k - 1) * bs
        <5> HIDE DEF x, y
        <5>1. x \in Nat /\ y \in x .. Len(a)
          BY <4>1 DEF x, y
        <5> QED
          BY <1>1, <5>1 DEF y
      <4> QED
        BY <4>2, <4>3
    <3>5. x < Len(a) /\ y \in x .. Len(a) /\ s[k] = SubSeq(a, x + 1, y)
      BY <1>4, <1>8, <2>3, <3>1, <3>4
    <3>6. f[j] = SubSeq(a, 1, x)
      BY <1>1, <3>2, <3>4, <3>5 DEF Least
    <3>7. x \in 0 .. Len(a)
      BY <1>1, <3>5
    <3>8. SubSeq(a, 1, x) \o SubSeq(a, x + 1, y) = SubSeq(a, 1, y)
      BY <1>1, <3>5, <3>7, SplitSeq
    <3> QED
      BY <2>3, <3>3, <3>4, <3>5, <3>6, <3>8
  <2> QED
    BY <2>4, <2>5
<1>10. P(n) /\ Least(n * bs, Len(a)) = Len(a)
  <2>1. n \in 1 .. n /\ n * bs \in Int
    BY <1>2, <1>3, <1>6
  <2> QED
    BY <1>1, <1>2, <1>9, <2>1 DEF Least
<1>11. FlattenSeq(s) = a
  BY <1>1, <1>7, <1>10
<1> QED
  BY <1>3, <1>11 DEF Tile, s, n, bs

(* An ascending enumeration of 0 .. m-1 takes them one by one. *)
ListsAll(g, n, m) ==
    /\ g \in [1 .. n -> 0 .. m - 1]
    /\ \A p, q \in 1 .. n : p < q => g[p] < g[q]
    /\ \A k \in 0 .. m - 1 : \E p \in 1 .. n : g[p] = k

LEMMA Enumerated ==
    ASSUME NEW n \in Nat, NEW m \in Nat, NEW g, ListsAll(g, n, m)
    PROVE  n = m /\ \A p \in 1 .. n : g[p] = p - 1
<1> USE DEF ListsAll
<1> DEFINE T == {p \in 1 .. n : g[p] # p - 1}
<1>1. T = {}
  <2> SUFFICES ASSUME T # {} PROVE FALSE
    OBVIOUS
  <2>1. T \in SUBSET Nat
    OBVIOUS
  <2>2. PICK p \in T : \A y \in T : p <= y
    BY <2>1, LeastNat
  <2>3. p \in 1 .. n /\ g[p] # p - 1 /\ g[p] \in 0 .. m - 1
    OBVIOUS
  <2>4. \A q \in 1 .. n : q < p => g[q] = q - 1
    <3> SUFFICES ASSUME NEW q \in 1 .. n, q < p PROVE q \notin T
      OBVIOUS
    <3> HIDE DEF T
    <3> QED
      BY <2>2, <2>3
  <2>5. p - 1 < g[p]
    <3>1. CASE p = 1
      BY <2>3, <3>1
    <3>2. CASE p # 1
      <4>1. p - 1 \in 1 .. n /\ p - 1 < p
        BY <2>3, <3>2
      <4>2. g[p - 1] = p - 1 - 1 /\ g[p - 1] < g[p]
        BY <2>3, <2>4, <4>1
      <4> QED
        BY <2>3, <4>2
    <3> QED
      BY <3>1, <3>2
  <2>6. p - 1 \in 0 .. m - 1
    BY <2>3, <2>5
  <2>7. PICK q \in 1 .. n : g[q] = p - 1
    BY <2>6
  <2>8. CASE q < p
    BY <2>3, <2>4, <2>7, <2>8
  <2>9. CASE q = p
    BY <2>3, <2>7, <2>9
  <2>10. CASE p < q
    BY <2>3, <2>5, <2>7, <2>10
  <2> QED
    BY <2>3, <2>8, <2>9, <2>10
<1>2. \A p \in 1 .. n : g[p] = p - 1
  BY <1>1
<1>3. n <= m
  <2>1. CASE n = 0
    BY <2>1
  <2>2. CASE n # 0
    <3>1. n \in 1 .. n
      BY <2>2
    <3>2. g[n] \in 0 .. m - 1 /\ g[n] = n - 1
      BY <1>2, <3>1
    <3> QED
      BY <3>2
  <2> QED
    BY <2>1, <2>2
<1>4. m <= n
  <2>1. CASE m = 0
    BY <2>1
  <2>2. CASE m # 0
    <3>1. m - 1 \in 0 .. m - 1
      BY <2>2
    <3>2. PICK p \in 1 .. n : g[p] = m - 1
      BY <3>1
    <3> QED
      BY <1>2, <3>2
  <2> QED
    BY <2>1, <2>2
<1> QED
  BY <1>2, <1>3, <1>4

(* Every block is some thread's. *)
LEMMA EveryTurn ==
    ASSUME TypeOK, req.op = "entropy", NEW k \in Nat
    PROVE  \E w \in Threads : \E l \in Nat : k * BlockSize = Turn(w, l)
<1>1. NThreads \in Nat \ {0} /\ Threads = 0 .. NThreads - 1
  BY AnalyzeAssumption DEF Threads
<1> DEFINE Reached(j) == \E w \in Threads : \E l \in Nat : j = w + l * NThreads
           T == {j \in Nat : ~Reached(j)}
<1>2. T = {}
  <2> SUFFICES ASSUME T # {} PROVE FALSE
    OBVIOUS
  <2>1. PICK j \in T : \A y \in T : j <= y
    BY LeastNat
  <2>2. j \in Nat /\ ~Reached(j)
    OBVIOUS
  <2>3. j # 0
    <3>1. 0 \in Threads /\ 0 \in Nat /\ 0 = 0 + 0 * NThreads
      BY <1>1
    <3>2. Reached(0)
      BY <3>1
    <3> QED
      BY <2>2, <3>2
  <2>4. Reached(j - 1)
    <3>1. j - 1 \in Nat /\ ~(j <= j - 1)
      BY <2>2, <2>3
    <3>2. j - 1 \notin T
      <4> HIDE DEF T
      <4> QED
        BY <2>1, <3>1
    <3> QED
      BY <3>1, <3>2
  <2>5. PICK w \in Threads, l \in Nat : j - 1 = w + l * NThreads
    BY <2>4
  <2>6. PICK x \in Nat : x = l * NThreads /\ (l + 1) * NThreads = x + NThreads
    <3>1. l * NThreads \in Nat /\ (l + 1) * NThreads = l * NThreads + NThreads
      BY <1>1
    <3> QED
      BY <3>1
  <2>7. CASE w + 1 \in Threads
    <3>1. j = (w + 1) + l * NThreads
      BY <1>1, <2>2, <2>5, <2>6
    <3>2. Reached(j)
      BY <2>7, <3>1
    <3> QED
      BY <2>2, <3>2
  <2>8. CASE w + 1 \notin Threads
    <3>1. w + 1 = NThreads
      BY <1>1, <2>8
    <3>2. j = 0 + (l + 1) * NThreads /\ 0 \in Threads /\ l + 1 \in Nat
      BY <1>1, <2>2, <2>5, <2>6, <3>1
    <3>3. Reached(j)
      BY <3>2
    <3> QED
      BY <2>2, <3>3
  <2> QED
    BY <2>7, <2>8
<1>3. Reached(k)
  BY <1>2
<1> QED
  BY <1>3 DEF Turn

(* The arenas of the threads, one behind the other. *)
LEMMA Arenas ==
    ASSUME TypeOK, EntropyInv, req.op = "entropy"
    PROVE  LET s == [k \in 1 .. NThreads |-> arenas[k - 1]]
           IN  s \in Seq(Seq(BlockRecord)) /\ s # <<>> /\ Len(s) = NThreads /\ Separate(s)
<1> DEFINE s == [k \in 1 .. NThreads |-> arenas[k - 1]]
<1>1. NThreads \in Nat \ {0} /\ \A k \in 1 .. NThreads : k - 1 \in Threads
  BY AnalyzeAssumption DEF Threads
<1>2. \A k \in 1 .. NThreads : s[k] = arenas[k - 1] /\ s[k] \in Seq(BlockRecord)
  BY <1>1 DEF TypeOK
<1>3. s \in Seq(Seq(BlockRecord)) /\ Len(s) = NThreads
  BY <1>1, <1>2
<1>4. s # <<>>
  BY <1>1, <1>3
<1> HIDE DEF s
<1>5. ASSUME NEW k \in 1 .. NThreads, NEW l \in 1 .. NThreads,
             NEW x \in 1 .. Len(s[k]), NEW y \in 1 .. Len(s[l]), s[k][x].offset = s[l][y].offset
      PROVE  k = l /\ x = y
  <2>1. PICK v \in Threads : v = k - 1 /\ s[k] = arenas[v]
    BY <1>1, <1>2
  <2>2. PICK w \in Threads : w = l - 1 /\ s[l] = arenas[w]
    BY <1>1, <1>2
  <2>3. PICK m \in 0 .. Len(a) : Visited(arenas[v], ~lost, v, m)
    BY DEF EntropyInv
  <2>4. PICK n \in 0 .. Len(a) : Visited(arenas[w], ~lost, w, n)
    BY DEF EntropyInv
  <2>5. x \in DOMAIN arenas[v] /\ y \in DOMAIN arenas[w] /\ x \in Nat /\ y \in Nat
    <3>1. arenas[v] \in Seq(BlockRecord) /\ arenas[w] \in Seq(BlockRecord)
      BY DEF TypeOK
    <3> QED
      BY <2>1, <2>2, <3>1
  <2>6. PICK c \in 0 .. m - 1 :
            arenas[v][x] = [offset |-> Turn(v, c), bytes |-> BlockAt(a, Turn(v, c), BlockSize)]
    BY <2>3, <2>5 DEF Visited
  <2>7. PICK d \in 0 .. n - 1 :
            arenas[w][y] = [offset |-> Turn(w, d), bytes |-> BlockAt(a, Turn(w, d), BlockSize)]
    BY <2>4, <2>5 DEF Visited
  <2>8. Turn(v, c) = Turn(w, d) /\ c \in Nat /\ d \in Nat
    BY <1>5, <2>1, <2>2, <2>6, <2>7
  <2>9. v = w
    BY <2>8, Turns
  <2>10. k = l
    BY <1>1, <2>1, <2>2, <2>9
  <2>11. \A p, q \in DOMAIN arenas[v] : p < q => arenas[v][p].offset < arenas[v][q].offset
    BY <2>3 DEF Visited
  <2>12. arenas[v][x].offset = arenas[v][y].offset /\ arenas[v][x].offset \in Nat
    <3>1. Turn(v, c) \in Nat
      BY <2>8, Turns
    <3>2. arenas[v][x].offset = Turn(v, c)
      BY <2>6
    <3>3. arenas[v][x].offset = arenas[v][y].offset
      BY <1>5, <2>1, <2>2, <2>9
    <3> QED
      BY <3>1, <3>2, <3>3
  <2>13. ~(x < y) /\ ~(y < x)
    BY <2>5, <2>9, <2>11, <2>12
  <2> QED
    BY <2>5, <2>10, <2>13
<1>6. \A k, l \in 1 .. NThreads : \A x \in 1 .. Len(s[k]) : \A y \in 1 .. Len(s[l]) :
        s[k][x].offset = s[l][y].offset => k = l /\ x = y
  BY <1>5, Zenon
<1>7. Separate(s)
  BY <1>3, <1>6, Zenon DEF Separate
<1> QED
  BY <1>3, <1>4, <1>7, Zenon DEF s

(* What the threads have found, when they are through, is in ascending      *)
(* order the blocks of the file.                                            *)
LEMMA SortedBlocks ==
    ASSUME TypeOK, EntropyInv, req.op = "entropy", \A w \in Threads : off[w] >= Len(a)
    PROVE  LET recs == Concatenated(arenas)
           IN  /\ recs \in Seq(BlockRecord)
               /\ \A p, q \in 1 .. Len(recs) : p < q => recs[p].offset < recs[q].offset
               /\ \A p \in 1 .. Len(recs) : \E k \in 0 .. Blocks(a, BlockSize) - 1 :
                     recs[p] = [offset |-> k * BlockSize, bytes |-> BlockAt(a, k * BlockSize, BlockSize)]
               /\ ~lost => \A k \in 0 .. Blocks(a, BlockSize) - 1 :
                             \E p \in 1 .. Len(recs) : recs[p].offset = k * BlockSize
<1> DEFINE s    == [k \in 1 .. NThreads |-> arenas[k - 1]]
           flat == FlattenSeq(s)
           recs == Concatenated(arenas)
           bs   == BlockSize
           B    == Blocks(a, bs)
<1>1. bs \in Nat \ {0} /\ B \in Nat /\ Len(a) \in Nat
  <2>1. a \in Files /\ bs \in Nat \ {0}
    BY BlockSizeType DEF TypeOK
  <2> HIDE DEF bs
  <2>2. Blocks(a, bs) \in Nat
    BY <2>1, BlocksCount, Zenon
  <2>3. Len(a) \in 0 .. MaxTotal
    BY <2>1, FileType, Zenon
  <2> QED
    BY <2>1, <2>2, <2>3
<1>2. NThreads \in Nat \ {0} /\ (\A k \in 1 .. NThreads : k - 1 \in Threads)
      /\ \A w \in Threads : w + 1 \in 1 .. NThreads /\ s[w + 1] = arenas[w] /\ w \in Nat
  BY AnalyzeAssumption DEF Threads
<1>3. s \in Seq(Seq(BlockRecord)) /\ s # <<>> /\ Len(s) = NThreads /\ Separate(s)
  BY Arenas
<1>4. \A k \in 1 .. NThreads : s[k] = arenas[k - 1]
  OBVIOUS
<1>5. recs = SortedByOffset(flat)
  BY DEF Concatenated
<1> HIDE DEF s, flat, recs, bs, B
<1>6. flat \in Seq(BlockRecord) /\ Holds(flat, s, NThreads) /\ DistinctOffsets(flat)
  BY <1>3, FlattenRecords DEF flat
<1>7. \A x \in BlockRecord : x.offset \in Nat
  BY DEF BlockRecord
<1>8. /\ recs \in Seq(BlockRecord) /\ Len(recs) = Len(flat)
      /\ \A k \in 1 .. Len(flat) : \E j \in 1 .. Len(flat) : recs[k] = flat[j]
      /\ \A j \in 1 .. Len(flat) : \E k \in 1 .. Len(flat) : recs[k] = flat[j]
      /\ \A k, l \in 1 .. Len(flat) : k < l => recs[k].offset < recs[l].offset
  <2>1. flat \in Seq(BlockRecord)
    BY <1>6
  <2> QED
    BY <1>5, <1>6, <1>7, <2>1, SortRecords
<1>9. ASSUME NEW p \in 1 .. Len(recs)
      PROVE  \E k \in 0 .. B - 1 : recs[p] = [offset |-> k * bs, bytes |-> BlockAt(a, k * bs, bs)]
  <2>1. PICK q \in 1 .. Len(flat) : recs[p] = flat[q]
    BY <1>8
  <2>2. PICK k \in 1 .. NThreads : \E j \in 1 .. Len(s[k]) : flat[q] = s[k][j]
    BY <1>6 DEF Holds
  <2>3. PICK w \in Threads : w = k - 1 /\ s[k] = arenas[w]
    BY <1>2, <1>4
  <2>4. PICK j \in 1 .. Len(arenas[w]) : recs[p] = arenas[w][j]
    BY <2>1, <2>2, <2>3
  <2>5. j \in DOMAIN arenas[w]
    BY DEF TypeOK
  <2>6. PICK m \in 0 .. Len(a) : Visited(arenas[w], ~lost, w, m)
    BY DEF EntropyInv
  <2>7. PICK l \in 0 .. m - 1 :
            arenas[w][j] = [offset |-> Turn(w, l), bytes |-> BlockAt(a, Turn(w, l), BlockSize)]
    BY <2>5, <2>6 DEF Visited
  <2>8. Turn(w, l) < Len(a) /\ l \in Nat
    BY <2>6 DEF Visited
  <2>9. PICK z \in Nat : z = w + l * NThreads
    <3>1. w + l * NThreads \in Nat
      BY <1>2, <2>8
    <3> QED
      BY <3>1
  <2>10. Turn(w, l) = z * bs
    BY <2>9 DEF Turn, bs
  <2>11. z < B
    BY <1>1, <2>8, <2>10, InBlocks DEF TypeOK, B
  <2>12. z \in 0 .. B - 1
    BY <1>1, <2>11
  <2> QED
    BY <2>4, <2>7, <2>10, <2>12 DEF bs
<1>10. ASSUME ~lost, NEW k \in 0 .. B - 1 PROVE \E p \in 1 .. Len(recs) : recs[p].offset = k * bs
  <2>1. k \in Nat /\ k < B
    BY <1>1
  <2>2. k * bs < Len(a)
    BY <1>1, <2>1, InBlocks DEF TypeOK, B
  <2>3. PICK w \in Threads, l \in Nat : k * bs = Turn(w, l)
    BY <2>1, EveryTurn DEF bs
  <2>4. PICK m \in 0 .. Len(a) : off[w] = Turn(w, m) /\ Visited(arenas[w], ~lost, w, m)
    BY DEF EntropyInv
  <2>5. l < m
    <3>0. m \in Nat /\ l \in Nat
      BY <1>1
    <3>1. m \in Nat /\ Turn(w, m) \in Nat /\ Turn(w, l) \in Nat /\ Turn(w, m) >= Len(a)
      <4>1. Turn(w, m) \in Nat /\ Turn(w, l) \in Nat
        BY <3>0, Turns
      <4> QED
        BY <2>4, <3>0, <4>1
    <3>2. Turn(w, l) < Turn(w, m)
      BY <1>1, <2>2, <2>3, <3>1
    <3> QED
      BY <3>1, <3>2, Turns
  <2>6. PICK j \in DOMAIN arenas[w] : arenas[w][j].offset = Turn(w, l)
    BY <1>10, <2>4, <2>5 DEF Visited
  <2>7. j \in 1 .. Len(s[w + 1]) /\ s[w + 1][j].offset = k * bs
    BY <1>2, <2>3, <2>6 DEF TypeOK
  <2>8. PICK q \in 1 .. Len(flat) : flat[q] = s[w + 1][j]
    BY <1>2, <1>6, <2>7 DEF Holds
  <2>9. PICK p \in 1 .. Len(flat) : recs[p] = flat[q]
    BY <1>8
  <2> QED
    BY <1>8, <2>7, <2>8, <2>9
<1>11. \A p, q \in 1 .. Len(recs) : p < q => recs[p].offset < recs[q].offset
  BY <1>8
<1> QED
  BY <1>8, <1>9, <1>10, <1>11 DEF recs, B, bs

LEMMA EntropyAnswer == IInv => EntropyExact
<1> SUFFICES ASSUME IInv, Answered("entropy") PROVE EntropyExact
  BY DEF EntropyExact
<1>1. TypeOK /\ EntropyInv /\ req.op = "entropy" /\ Due(result)
  BY DEF IInv, ResultInv, Answered
<1>2. CASE NothingToDo
  <2>1. a = <<>> /\ result.recs = <<>>
    BY <1>1, <1>2 DEF Due, NothingToDo, Given
  <2>2. [k \in 1 .. Len(result.recs) |-> result.recs[k].bytes] = <<>>
    BY <2>1
  <2>3. FlattenSeq(<<>>) = <<>>
    BY DEF FlattenSeq
  <2> QED
    BY <2>1, <2>2, <2>3 DEF EntropyExact, Tile
<1>3. CASE ~NothingToDo
  <2> DEFINE recs == result.recs
             bs   == BlockSize
             B    == Blocks(a, bs)
             n    == Len(recs)
  <2>1. (\A w \in Threads : off[w] >= Len(a)) /\ recs = Concatenated(arenas)
    BY <1>1, <1>3 DEF Due, Given
  <2>2. /\ recs \in Seq(BlockRecord)
        /\ \A p, q \in 1 .. n : p < q => recs[p].offset < recs[q].offset
        /\ \A p \in 1 .. n : \E k \in 0 .. B - 1 :
              recs[p] = [offset |-> k * bs, bytes |-> BlockAt(a, k * bs, bs)]
        /\ ~lost => \A k \in 0 .. B - 1 : \E p \in 1 .. n : recs[p].offset = k * bs
    BY <1>1, <2>1, SortedBlocks
  <2>3. bs \in Nat \ {0} /\ B \in Nat /\ n \in Nat
    <3>1. a \in Files /\ bs \in Nat \ {0}
      BY <1>1, BlockSizeType DEF TypeOK
    <3>2. n \in Nat
      BY <2>2
    <3> HIDE DEF bs, n
    <3> QED
      BY <3>1, <3>2, BlocksCount
  <2> HIDE DEF recs, bs, B, n
  <2>4. ASSUME NEW k \in 1 .. n - 1 PROVE recs[k].offset < recs[k + 1].offset
    <3>1. k \in 1 .. n /\ k + 1 \in 1 .. n /\ k < k + 1
      BY <2>3
    <3> QED
      BY <2>2, <3>1
  <2>5. ASSUME ~lost PROVE Tile(recs)
    <3> DEFINE g == [p \in 1 .. n |-> CHOOSE k \in 0 .. B - 1 :
                        recs[p] = [offset |-> k * bs, bytes |-> BlockAt(a, k * bs, bs)]]
    <3>1. ASSUME NEW p \in 1 .. n
          PROVE  /\ g[p] \in 0 .. B - 1
                 /\ recs[p] = [offset |-> g[p] * bs, bytes |-> BlockAt(a, g[p] * bs, bs)]
      BY <2>2
    <3>2. g \in [1 .. n -> 0 .. B - 1]
      BY <3>1
    <3> HIDE DEF g
    <3>3. ASSUME NEW p \in 1 .. n PROVE recs[p].offset = g[p] * bs /\ g[p] \in Int
      <4>1. PICK k \in 0 .. B - 1 : k = g[p] /\ recs[p] = [offset |-> k * bs, bytes |-> BlockAt(a, k * bs, bs)]
        BY <3>1, Zenon
      <4>2. recs[p].offset = k * bs
        BY <4>1
      <4> QED
        BY <2>3, <4>1, <4>2
    <3>4. ASSUME NEW p \in 1 .. n, NEW q \in 1 .. n, p < q PROVE g[p] < g[q]
      BY <2>2, <2>3, <3>3, <3>4, Times
    <3>5. ASSUME NEW k \in 0 .. B - 1 PROVE \E p \in 1 .. n : g[p] = k
      <4>1. PICK p \in 1 .. n : g[p] * bs = k * bs
        BY <2>2, <2>5, <3>3
      <4>2. g[p] \in Int /\ k \in Int
        BY <2>3, <3>3
      <4>3. g[p] = k
        BY <2>3, <4>1, <4>2, Times
      <4> QED
        BY <4>3
    <3>6. n = B /\ \A p \in 1 .. n : g[p] = p - 1
      <4>1. ListsAll(g, n, B)
        BY <3>2, <3>4, <3>5 DEF ListsAll
      <4> QED
        BY <2>3, <4>1, Enumerated
    <3>7. \A p \in 1 .. n : recs[p] = [offset |-> (p - 1) * bs, bytes |-> BlockAt(a, (p - 1) * bs, bs)]
      BY <3>1, <3>6
    <3>8. a # <<>>
      BY <1>1, <1>3 DEF NothingToDo
    <3> QED
      BY <1>1, <2>3, <3>6, <3>7, <3>8, TileBlocks DEF TypeOK, n, B, bs
  <2> QED
    BY <2>4, <2>5 DEF EntropyExact, recs, n
<1> QED
  BY <1>2, <1>3

LEMMA ReconAnswer == IInv => ReconExact
<1> SUFFICES ASSUME IInv, Answered("recon"), a # <<>> PROVE ReconExact
  BY DEF ReconExact
<1>1. TypeOK /\ ReconInv /\ req.op = "recon" /\ Due(result) /\ ~NothingToDo
  BY DEF IInv, ResultInv, Answered, NothingToDo
<1>2. i = Len(a) /\ start = -1 /\ result = Given(runs, count, BlockMap)
  BY <1>1 DEF Due
<1>3. result.recs = runs /\ result.count = count /\ result.blocks = BlockMap
  BY <1>2 DEF Given
<1>4. a \in Files /\ Len(a) \in Nat /\ BlockSize \in Nat \ {0}
  BY <1>1, FileType, BlockSizeType DEF TypeOK
<1>5. Collected(runs, count, ~lost, Len(a))
  BY <1>1, <1>2 DEF ReconInv
<1>6. \A r \in Strings : r.offset < Len(a)
  BY <1>4, StringType
<1>7. StringsBefore(Len(a)) = Strings /\ \A r \in Sample : r.offset < Len(a)
  BY <1>6 DEF StringsBefore, Sample
<1>8. Tile(BlockMap)
  <2> DEFINE n == Blocks(a, BlockSize)
  <2>1. n \in Nat
    BY <1>4, BlocksCount
  <2>2. Len(BlockMap) = n /\ \A k \in 1 .. n :
            BlockMap[k] = [offset |-> (k - 1) * BlockSize, bytes |-> BlockAt(a, (k - 1) * BlockSize, BlockSize)]
    BY <2>1 DEF BlockMap
  <2> QED
    BY <1>4, <2>2, TileBlocks
<1>9. /\ count = Least(MaxStrings, Cardinality(Strings))
      /\ \A j, k \in DOMAIN runs : j < k => runs[j].offset < runs[k].offset
      /\ \A j \in DOMAIN runs : runs[j] \in Sample
      /\ ~lost => \A r \in Sample : \E j \in DOMAIN runs : runs[j] = r
  BY <1>5, <1>7 DEF Collected
<1> QED
  BY <1>3, <1>8, <1>9 DEF ReconExact

(* What is left of the longer file, and nothing else. *)
LEMMA Rest ==
    ASSUME TypeOK, req.op = "diff", DiffFits
    PROVE  LET from == Common * BlockSize
               rest == {[oa |-> from, ob |-> 0, len |-> n, st |-> "DELETED"]
                          : n \in {Len(a) - from} \ (-BlockSize .. 0)}
                       \cup
                       {[oa |-> 0, ob |-> from, len |-> n, st |-> "INSERTED"]
                          : n \in {Len(b) - from} \ (-BlockSize .. 0)}
           IN  \/ TailRun = <<>> /\ rest = {}
               \/ \E r \in DiffRecord : r.st # "CHANGED" /\ TailRun = <<r>> /\ rest = {r}
<1> DEFINE from == Common * BlockSize
           p    == Blocks(a, BlockSize)
           q    == Blocks(b, BlockSize)
           dels == {[oa |-> from, ob |-> 0, len |-> n, st |-> "DELETED"]
                       : n \in {Len(a) - from} \ (-BlockSize .. 0)}
           ins  == {[oa |-> 0, ob |-> from, len |-> n, st |-> "INSERTED"]
                       : n \in {Len(b) - from} \ (-BlockSize .. 0)}
<1>1. /\ BlockSize \in Nat \ {0} /\ Common \in Nat
      /\ from < Len(a) + BlockSize /\ from < Len(b) + BlockSize
      /\ Common = p \/ Common = q
      /\ Common <= p /\ Common <= q
  BY CommonBlocks
<1>2. /\ p \in Nat /\ Len(a) <= p * BlockSize /\ p * BlockSize < Len(a) + BlockSize
      /\ q \in Nat /\ Len(b) <= q * BlockSize /\ q * BlockSize < Len(b) + BlockSize
  BY <1>1, BlocksCount DEF TypeOK
<1>3. Len(a) \in Nat /\ Len(b) \in Nat /\ LenSize \in Nat \ {0}
  BY FileType, AnalyzeAssumption DEF TypeOK
<1>4. from \in Nat
  BY <1>1
<1>5. TailRun = CASE p > Common -> <<Run(from, 0, Len(a) - from, "DELETED")>>
                  [] q > Common -> <<Run(0, from, Len(b) - from, "INSERTED")>>
                  [] OTHER -> <<>>
  BY DEF TailRun
<1>6. (p > Common => (Common + 1) * BlockSize <= p * BlockSize)
        /\ (q > Common => (Common + 1) * BlockSize <= q * BlockSize)
  BY <1>1, <1>2, Times
<1>7. (Common + 1) * BlockSize = from + BlockSize
  BY <1>1
<1>8. (p > Common <=> Len(a) > from) /\ (q > Common <=> Len(b) > from)
  <2>1. p = Common => Len(a) <= from
    BY <1>2
  <2>2. q = Common => Len(b) <= from
    BY <1>2
  <2>3. p * BlockSize \in Int /\ q * BlockSize \in Int
    BY <1>1, <1>2, Times
  <2> HIDE DEF from, p, q
  <2> QED
    BY <1>1, <1>2, <1>3, <1>4, <1>6, <1>7, <2>1, <2>2, <2>3
<1> HIDE DEF from, p, q
<1>9. /\ dels = IF Len(a) > from THEN {[oa |-> from, ob |-> 0, len |-> Len(a) - from, st |-> "DELETED"]} ELSE {}
      /\ ins = IF Len(b) > from THEN {[oa |-> 0, ob |-> from, len |-> Len(b) - from, st |-> "INSERTED"]} ELSE {}
  <2>1. Len(a) - from \in -BlockSize .. 0 <=> ~(Len(a) > from)
    BY <1>1, <1>3, <1>4
  <2>2. Len(b) - from \in -BlockSize .. 0 <=> ~(Len(b) > from)
    BY <1>1, <1>3, <1>4
  <2> QED
    BY <2>1, <2>2
<1>10. /\ Len(a) > from => Len(a) - from \in Nat /\ (Len(a) - from) % LenSize = Len(a) - from
       /\ Len(b) > from => Len(b) - from \in Nat /\ (Len(b) - from) % LenSize = Len(b) - from
  <2>1. Len(a) < LenSize /\ Len(b) < LenSize
    BY <1>1, <1>3 DEF DiffFits
  <2>2. ASSUME NEW n \in Nat, n < LenSize, n > from
        PROVE  n - from \in Nat /\ (n - from) % LenSize = n - from
    <3>1. n - from \in Nat /\ n - from < LenSize
      BY <1>3, <1>4, <2>2
    <3>2. PICK m \in Nat : m = n - from
      BY <3>1
    <3>3. m % LenSize = m
      BY <1>3, <3>1, <3>2
    <3> QED
      BY <3>2, <3>3
  <2> QED
    BY <1>3, <2>1, <2>2
<1>11. CASE p > Common
  <2>1. Len(a) > from /\ ~(Len(b) > from) /\ ~(q > Common)
    BY <1>1, <1>2, <1>8, <1>11
  <2> DEFINE r == [oa |-> from, ob |-> 0, len |-> Len(a) - from, st |-> "DELETED"]
  <2>2. r \in DiffRecord /\ r.st # "CHANGED"
    BY <1>4, <1>10, <2>1 DEF DiffRecord
  <2>3. TailRun = <<r>>
    BY <1>5, <1>10, <1>11, <2>1 DEF Run
  <2>4. dels \cup ins = {r}
    BY <1>9, <2>1
  <2> QED
    BY <2>2, <2>3, <2>4 DEF from
<1>12. CASE q > Common
  <2>1. Len(b) > from /\ ~(Len(a) > from) /\ ~(p > Common)
    BY <1>1, <1>2, <1>8, <1>12
  <2> DEFINE r == [oa |-> 0, ob |-> from, len |-> Len(b) - from, st |-> "INSERTED"]
  <2>2. r \in DiffRecord /\ r.st # "CHANGED"
    BY <1>4, <1>10, <2>1 DEF DiffRecord
  <2>3. TailRun = <<r>>
    BY <1>5, <1>10, <1>12, <2>1 DEF Run
  <2>4. dels \cup ins = {r}
    BY <1>9, <2>1
  <2> QED
    BY <2>2, <2>3, <2>4 DEF from
<1>13. CASE ~(p > Common) /\ ~(q > Common)
  BY <1>5, <1>8, <1>9, <1>13 DEF from
<1> QED
  BY <1>11, <1>12, <1>13

(* The ranges that cover a block: one when it differs, otherwise none. *)
LEMMA OneRange ==
    ASSUME TypeOK, req.op = "diff", DiffFits, Groups(runs, Common), NEW k \in 0 .. Common - 1
    PROVE  Cardinality({j \in DOMAIN runs : Covers(runs[j], k)}) = IF k \in Differing THEN 1 ELSE 0
<1> DEFINE C == {j \in DOMAIN runs : Covers(runs[j], k)}
<1>1. Common \in Nat /\ BlockSize \in Nat \ {0}
  BY CommonBlocks
<1>2. k \in Differing <=> C # {}
  BY DEF Groups
<1>3. CASE k \notin Differing
  BY <1>2, <1>3, FS_EmptySet
<1>4. CASE k \in Differing
  <2>1. PICK j \in C : TRUE
    BY <1>2, <1>4
  <2>2. ASSUME NEW l \in C, NEW m \in C, l < m PROVE FALSE
    <3>1. l \in DOMAIN runs /\ m \in DOMAIN runs /\ Covers(runs[l], k) /\ Covers(runs[m], k)
      OBVIOUS
    <3>2. runs[l].ob + runs[l].len < runs[m].ob
      BY <2>2, <3>1 DEF Groups
    <3>3. runs[l].oa = runs[l].ob /\ runs[m].oa = runs[m].ob
      BY <3>1 DEF Groups, WholeBlocks
    <3>4. runs[l].ob \in Nat /\ runs[l].len \in Nat /\ runs[m].ob \in Nat
      <4>1. runs[l] \in DiffRecord /\ runs[m] \in DiffRecord
        BY <3>1 DEF TypeOK
      <4> QED
        BY <4>1 DEF DiffRecord
    <3>5. k * BlockSize \in Int
      BY <1>1
    <3> HIDE DEF C
    <3> QED
      BY <3>1, <3>2, <3>3, <3>4, <3>5 DEF Covers
  <2>3. \A l \in C : l \in Int
    BY DEF TypeOK
  <2>4. C = {j}
    BY <2>1, <2>2, <2>3
  <2> QED
    BY <1>4, <2>4, FS_Singleton
<1> QED
  BY <1>3, <1>4

(* What g_diff has put together is what DiffExact asks for. *)
LEMMA DiffAnswer == IInv => DiffExact
<1> SUFFICES ASSUME IInv, Answered("diff"), DiffFits PROVE DiffExact
  BY DEF DiffExact
<1> DEFINE n       == Len(runs)
           recs    == result.recs
           changed == {j \in DOMAIN recs : recs[j].st = "CHANGED"}
           from    == Common * BlockSize
           rest    == {[oa |-> from, ob |-> 0, len |-> m, st |-> "DELETED"]
                          : m \in {Len(a) - from} \ (-BlockSize .. 0)}
                      \cup
                      {[oa |-> 0, ob |-> from, len |-> m, st |-> "INSERTED"]
                          : m \in {Len(b) - from} \ (-BlockSize .. 0)}
<1>1. TypeOK /\ req.op = "diff" /\ result.ok /\ Groups(runs, i)
  BY DEF IInv, Answered, DiffInv
<1>2. i = Common /\ recs = runs \o TailRun
  BY <1>1 DEF IInv, ResultInv, Due, NothingToDo, Given
<1>3. Groups(runs, Common)
  BY <1>1, <1>2
<1>4. runs \in Seq(DiffRecord) /\ n \in Nat /\ DOMAIN runs = 1 .. n
  BY <1>1 DEF TypeOK
<1>5. \A j \in 1 .. n : runs[j].st = "CHANGED" /\ runs[j].oa = runs[j].ob
  BY <1>3, <1>4 DEF Groups, WholeBlocks
<1>6. \A k \in 0 .. Common - 1 :
         Cardinality({j \in 1 .. n : Covers(runs[j], k)}) = IF k \in Differing THEN 1 ELSE 0
  BY <1>1, <1>3, <1>4, OneRange
<1>7. \A j, l \in 1 .. n : j < l => runs[j].ob + runs[j].len < runs[l].ob
  BY <1>3, <1>4 DEF Groups
<1>8. \/ TailRun = <<>> /\ rest = {}
      \/ \E r \in DiffRecord : r.st # "CHANGED" /\ TailRun = <<r>> /\ rest = {r}
  BY <1>1, Rest
<1> HIDE DEF n, recs, rest
<1> DEFINE WithRest == /\ changed = 1 .. n /\ \A j \in 1 .. n : recs[j] = runs[j]
                       /\ DOMAIN recs \ changed \subseteq {Len(recs)}
                       /\ {recs[j] : j \in DOMAIN recs \ changed} = rest
<1>9. WithRest
  <2>1. CASE TailRun = <<>> /\ rest = {}
    <3>1. recs = runs
      BY <1>2, <1>4, <2>1
    <3> QED
      BY <1>4, <1>5, <2>1, <3>1
  <2>2. ASSUME NEW r \in DiffRecord, r.st # "CHANGED", TailRun = <<r>>, rest = {r} PROVE WithRest
    <3>1. recs = Append(runs, r)
      BY <1>2, <1>4, <2>2
    <3>2. Len(recs) = n + 1 /\ DOMAIN recs = 1 .. n + 1
      BY <1>4, <3>1 DEF n
    <3>3. \A j \in 1 .. n : recs[j] = runs[j]
      BY <1>4, <3>1 DEF n
    <3>4. recs[n + 1] = r
      BY <1>4, <3>1 DEF n
    <3>5. changed = 1 .. n
      BY <1>4, <1>5, <2>2, <3>2, <3>3, <3>4
    <3>6. DOMAIN recs \ changed = {n + 1}
      BY <1>4, <3>2, <3>5
    <3> QED
      BY <2>2, <3>2, <3>3, <3>4, <3>5, <3>6
  <2> QED
    BY <1>8, <2>1, <2>2
<1>10. ASSUME NEW k \in 0 .. Common - 1
       PROVE  Cardinality({j \in DOMAIN recs : Covers(recs[j], k)}) = IF k \in Differing THEN 1 ELSE 0
  <2>1. {j \in DOMAIN recs : Covers(recs[j], k)} = {j \in 1 .. n : Covers(runs[j], k)}
    <3>1. ASSUME NEW j \in DOMAIN recs, Covers(recs[j], k) PROVE j \in 1 .. n /\ Covers(runs[j], k)
      <4>1. j \in changed
        BY <3>1 DEF Covers
      <4> QED
        BY <1>9, <3>1, <4>1
    <3>2. ASSUME NEW j \in 1 .. n, Covers(runs[j], k) PROVE j \in DOMAIN recs /\ Covers(recs[j], k)
      BY <1>9, <3>2
    <3> QED
      BY <3>1, <3>2
  <2> QED
    BY <1>6, <2>1
<1>11. \A j \in changed : recs[j].oa = recs[j].ob
  BY <1>5, <1>9
<1>12. \A j, l \in changed : j < l => recs[j].ob + recs[j].len < recs[l].ob
  BY <1>7, <1>9
<1> QED
  BY <1>9, <1>10, <1>11, <1>12 DEF DiffExact, recs, rest

-----------------------------------------------------------------------------
(* g_bytes and g_xor *)

LEMMA XorTwice ==
    ASSUME NEW x \in Bytes, NEW k \in Bytes
    PROVE  Xor(Xor(x, k), k) = x
  BY DEF Bytes, Xor

LEMMA SliceAnswer == IInv => SliceExact
<1> SUFFICES ASSUME IInv, Answered("slice") PROVE SliceExact
  BY DEF SliceExact
<1> DEFINE wanted == {k \in 0 .. Len(a) - 1 :
                        k >= req.offset /\ (req.len = 0 \/ k < req.offset + req.len)}
<1>1. TypeOK /\ req.op = "slice" /\ result.ok /\ Due(result)
  BY DEF IInv, ResultInv, Answered
<1>2. req.offset \in Nat /\ req.len \in Nat /\ req.key \in Bytes
  BY <1>1, SectionsAssumption DEF TypeOK, Requests
<1>3. a \in Seq(Bytes) /\ Len(a) \in Nat
  BY <1>1, FileType DEF TypeOK
<1>4. CASE NothingToDo
  <2>1. req.offset >= Len(a)
    BY <1>1, <1>4 DEF NothingToDo
  <2>2. result.recs = <<>> /\ result.count = 0
    BY <1>1, <1>4 DEF Due, Given
  <2>3. wanted = {}
    BY <1>2, <1>3, <2>1
  <2> QED
    BY <2>2, <2>3, FS_EmptySet DEF SliceExact
<1>5. CASE ~NothingToDo
  <2> DEFINE n == SliceLen
  <2>1. req.offset < Len(a)
    BY <1>1, <1>2, <1>3, <1>5 DEF NothingToDo
  <2>2. /\ result.recs = [k \in 1 .. n |-> Xor(a[req.offset + k], req.key)]
        /\ result.count = n
    BY <1>1, <1>5 DEF Due, Given
  <2>3. /\ n \in Nat \ {0} /\ req.offset + n <= Len(a)
        /\ req.len # 0 => n = req.len \/ (n < req.len /\ req.offset + n = Len(a))
        /\ req.len = 0 => req.offset + n = Len(a)
    BY <1>2, <1>3, <2>1 DEF SliceLen
  <2> HIDE DEF n
  <2>4. wanted = req.offset .. req.offset + n - 1
    BY <1>2, <1>3, <2>3
  <2>5. Cardinality(wanted) = n
    <3>1. PICK lo, hi \in Int : lo = req.offset /\ hi = req.offset + n - 1 /\ lo <= hi /\ hi - lo + 1 = n
      BY <1>2, <2>3
    <3>2. Cardinality(lo .. hi) = IF lo > hi THEN 0 ELSE hi - lo + 1
      BY FS_Interval, Zenon
    <3>3. Cardinality(lo .. hi) = n
      BY <3>1, <3>2
    <3> QED
      BY <2>4, <3>1, <3>3
  <2>6. Len(result.recs) = n
    BY <2>2, <2>3
  <2>7. ASSUME NEW k \in wanted
        PROVE  Xor(result.recs[k - req.offset + 1], req.key) = a[k + 1]
    <3>1. k - req.offset + 1 \in 1 .. n /\ req.offset + (k - req.offset + 1) = k + 1
      BY <1>2, <2>3, <2>4
    <3>2. a[k + 1] \in Bytes
      BY <1>2, <1>3, <2>3, <2>4
    <3>3. result.recs[k - req.offset + 1] = Xor(a[k + 1], req.key)
      BY <2>2, <3>1
    <3> QED
      BY <1>2, <3>2, <3>3, XorTwice
  <2> QED
    BY <2>2, <2>5, <2>6, <2>7 DEF SliceExact
<1> QED
  BY <1>4, <1>5

-----------------------------------------------------------------------------
(* g_sections *)

(* Inside the file the distance to its end does not wrap. *)
LEMMA WithinIs ==
    ASSUME NEW size \in 0 .. WordSize - 1, NEW p \in 0 .. size, NEW n \in Nat, within(size, p, n)
    PROVE  p + n <= size
<1>1. WordSize \in Nat \ {0}
  BY SectionsAssumption
<1>2. (size - p) % WordSize = size - p
  BY <1>1
<1> QED
  BY <1>2 DEF within

(* The entries of a table that fits are in the file. *)
LEMMA EntriesInFile ==
    ASSUME NEW at \in Nat, NEW each \in Nat, NEW size \in Nat, NEW num \in Nat, NEW k \in 0 .. num - 1,
           EntrySize <= each, at + num * each <= size
    PROVE  at + k * each \in Nat /\ at + k * each + EntrySize <= size
<1>1. EntrySize \in Nat
  BY SectionsAssumption
<1>2. (k + 1) * each <= num * each /\ (k + 1) * each = k * each + each
  <2>1. CASE each = 0
    BY <2>1
  <2>2. CASE each # 0
    BY <2>2, Times
  <2> QED
    BY <2>1, <2>2
<1>3. k * each \in Nat /\ num * each \in Nat
  OBVIOUS
<1> QED
  BY <1>1, <1>2, <1>3

LEMMA MeasuredInFile ==
    ASSUME NEW img \in Images, img.kind # "other"
    PROVE  0 <= Measured(img).from /\ Measured(img).to <= img.size
<1>1. img.size \in Nat /\ img.off \in Nat /\ img.sz \in Nat
  BY SectionsAssumption
<1> QED
  BY <1>1 DEF Measured, Span

(* The headers, the table and the measured bytes.                           *)
LEMMA TableReadsInFile ==
    ASSUME NEW img \in Images, img.size >= MinImage,
           img.kind = "pe" => img.lfanew \in 0 .. img.size /\ TableAt(img) \in 0 .. img.size,
           NEW r \in TableReads(img)
    PROVE  0 <= r.from /\ r.to <= img.size
<1>1. /\ img.size \in 0 .. WordSize - 1 /\ img.size \in Nat /\ img.num \in Nat
      /\ MinImage \in Nat /\ EntrySize \in Nat /\ PeHeader \in Nat
  BY SectionsAssumption
<1>2. CASE r = Span(0, MinImage)
  BY <1>1, <1>2 DEF Span
<1>3. CASE HasPeHeader(img) /\ r = Span(img.lfanew, PeHeader)
  <2>1. img.lfanew \in 0 .. img.size
    BY <1>3 DEF HasPeHeader
  <2>2. img.lfanew + PeHeader <= img.size
    BY <1>1, <1>3, <2>1, WithinIs DEF HasPeHeader
  <2> QED
    BY <1>1, <1>3, <2>1, <2>2 DEF Span
<1>4. CASE HasTable(img) /\ \E k \in 0 .. img.num - 1 : r = Entry(img, k)
  <2>1. PICK k \in 0 .. img.num - 1 : r = Entry(img, k)
    BY <1>4
  <2>2. CASE img.kind = "elf"
    <3>1. /\ img.shoff \in Nat /\ img.entsize \in Nat /\ img.entsize >= EntrySize
          /\ img.shoff < img.size /\ img.num * img.entsize <= img.size - img.shoff
      BY <1>4, <2>2, SectionsAssumption DEF HasTable, HasPeHeader
    <3>2. r = Span(img.shoff + k * img.entsize, EntrySize)
      BY <2>1, <2>2 DEF Entry, TableAt
    <3>3. img.shoff + img.num * img.entsize <= img.size /\ EntrySize <= img.entsize
      BY <1>1, <3>1
    <3>4. img.shoff + k * img.entsize \in Nat /\ img.shoff + k * img.entsize + EntrySize <= img.size
      BY <1>1, <3>1, <3>3, EntriesInFile
    <3> QED
      BY <1>1, <3>2, <3>4 DEF Span
  <2>3. CASE img.kind # "elf"
    <3>1. img.kind = "pe" /\ within(img.size, TableAt(img), img.num * EntrySize)
      BY <1>4, <2>3 DEF HasTable, HasPeHeader
    <3>2. TableAt(img) \in 0 .. img.size /\ img.num * EntrySize \in Nat
      BY <1>1, <3>1
    <3>3. TableAt(img) + img.num * EntrySize <= img.size
      BY <1>1, <3>1, <3>2, WithinIs
    <3>4. r = Span(TableAt(img) + k * EntrySize, EntrySize)
      BY <2>1, <2>3 DEF Entry
    <3>5. /\ TableAt(img) + k * EntrySize \in Nat
          /\ TableAt(img) + k * EntrySize + EntrySize <= img.size
      <4>1. TableAt(img) \in Nat /\ EntrySize <= EntrySize
        BY <1>1, <3>2
      <4> QED
        BY <1>1, <3>3, <4>1, EntriesInFile
    <3> QED
      BY <1>1, <3>4, <3>5 DEF Span
  <2> QED
    BY <2>2, <2>3
<1>5. CASE HasTable(img) /\ r = Measured(img)
  <2>1. img.kind # "other"
    BY <1>5 DEF HasTable, HasPeHeader
  <2> QED
    BY <1>5, <2>1, MeasuredInFile
<1> QED
  BY <1>2, <1>3, <1>4, <1>5 DEF TableReads, When

(* A name begins in the string table, and that lies in the file; where the  *)
(* name ends nothing bounds.                                                *)
LEMMA NamesBeginInFile ==
    ASSUME NEW img \in Images, NEW r \in NameReads(img)
    PROVE  0 <= r.from /\ r.from < img.size
<1>1. HasNames(img) /\ r.from = img.off + img.name
  BY DEF NameReads, When, Span
<1>2. img.kind = "elf" /\ img.off < img.size /\ img.sz <= img.size - img.off /\ img.name < img.sz
  BY <1>1 DEF HasNames
<1>3. img.off \in Nat /\ img.sz \in Nat /\ img.name \in Nat /\ img.size \in Nat
  BY <1>2, SectionsAssumption
<1> QED
  BY <1>1, <1>2, <1>3

LEMMA SectionsAnswer == IInv => TablesInFile
<1> SUFFICES ASSUME IInv, Answered("sections"), req.img.size >= MinImage PROVE TablesInFile
  BY DEF TablesInFile
<1>1. TypeOK /\ req.op = "sections" /\ result.ok /\ Due(result)
  BY DEF IInv, ResultInv, Answered
<1>2. req.img \in Images
  BY <1>1 DEF TypeOK, Requests
<1>3. ~NothingToDo
  BY <1>1, <1>2, SectionsAssumption DEF NothingToDo
<1>4. result.recs = SectionRecords(req.img) /\ result.count = Len(SectionRecords(req.img))
  BY <1>1, <1>3 DEF Due, Given
<1>5. HasTable(req.img) => Len(SectionRecords(req.img)) = req.img.num
  BY <1>2, SectionsAssumption DEF SectionRecords
<1>6. ASSUME When(req.img.kind = "pe", {req.img.lfanew, TableAt(req.img)}) \subseteq 0 .. req.img.size,
             NEW r \in TableReads(req.img)
      PROVE  0 <= r.from /\ r.to <= req.img.size
  <2>1. req.img.kind = "pe" => /\ req.img.lfanew \in 0 .. req.img.size
                               /\ TableAt(req.img) \in 0 .. req.img.size
    BY <1>6 DEF When
  <2> QED
    BY <1>2, <2>1, TableReadsInFile
<1>7. \A r \in NameReads(req.img) : 0 <= r.from /\ r.from < req.img.size
  BY <1>2, NamesBeginInFile
<1> QED
  BY <1>4, <1>5, <1>6, <1>7 DEF TablesInFile

-----------------------------------------------------------------------------
(* The Rust functions *)

(* Behind the tool's answer nothing of the tool changes. *)
LEMMA ClientSteps ==
    ASSUME [ClientNext]_<<vars, clientVars>>
    PROVE  [Next]_vars
  BY DEF ClientNext, ToolStep, Wrap, Decode, Drop, Over

LEMMA ClientInitInv == ClientInit => ClientIInv
<1> SUFFICES ASSUME ClientInit PROVE ClientIInv
  OBVIOUS
<1>1. IInv /\ stage = "tool"
  BY InitIInv DEF ClientInit
<1> QED
  BY <1>1 DEF ClientIInv, ClientInv, RustExact, RustFrees

(* The records that reach the client are a sequence. *)
IsSeq(s) == \E S : s \in Seq(S)

(* What is read back of a buffer is what was put there. *)
LEMMA WholeBuffer ==
    ASSUME NEW s, IsSeq(s)
    PROVE  /\ Len(s) \in Nat /\ (Len(s) = 0 => s = <<>>)
           /\ SubSeq(s, 1, Len(s)) = s
  BY DEF IsSeq

LEMMA ConcatFirst ==
    ASSUME NEW S, NEW s \in Seq(S), NEW t \in Seq(S)
    PROVE  /\ s \o t \in Seq(S) /\ Len(s \o t) = Len(s) + Len(t)
           /\ \A k \in 1 .. Len(s) : (s \o t)[k] = s[k]
<1>1. s \o t \in Seq(S) /\ Len(s \o t) = Len(s) + Len(t) /\ Len(s) \in Nat /\ Len(t) \in Nat
  OBVIOUS
<1>2. ASSUME NEW k \in 1 .. Len(s) PROVE (s \o t)[k] = s[k]
  BY <1>1
<1> QED
  BY <1>1, <1>2

LEMMA ConcatSecond ==
    ASSUME NEW S, NEW s \in Seq(S), NEW t \in Seq(S), NEW k \in 1 .. Len(t)
    PROVE  (s \o t)[Len(s) + k] = t[k]
  OBVIOUS

(* The strings and the blocks of a buffer of g_recon. *)
LaidOut(buf, h, blocks, recs) ==
    /\ IsSeq(buf) /\ buf[1] = h /\ Len(buf) = 2 + Len(blocks) + Len(recs)
    /\ SubSeq(buf, 3 + Len(blocks), Len(buf)) = recs
    /\ SubSeq(buf, 3, 2 + Len(blocks)) = blocks

LEMMA ReconBuffer ==
    ASSUME NEW S, NEW blocks, blocks \in Seq(S), NEW recs, recs \in Seq(S),
           NEW h, h \in S, NEW g, g \in S
    PROVE  LaidOut(<<h, g>> \o blocks \o recs, h, blocks, recs)
<1> DEFINE buf == <<h, g>> \o blocks \o recs
           n   == Len(blocks)
<1>1. /\ <<h, g>> \in Seq(S) /\ Len(<<h, g>>) = 2 /\ <<h, g>>[1] = h
      /\ n \in Nat /\ Len(recs) \in Nat
  OBVIOUS
<1>2. /\ buf \in Seq(S) /\ Len(buf) = 2 + n + Len(recs)
      /\ \A k \in 1 .. 2 : buf[k] = <<h, g>>[k]
      /\ \A k \in 1 .. n : buf[2 + k] = blocks[k]
      /\ \A k \in 1 .. Len(recs) : buf[2 + n + k] = recs[k]
  <2> DEFINE hd  == <<h, g>>
             fst == hd \o blocks
  <2>1. hd \in Seq(S) /\ Len(hd) = 2
    BY <1>1
  <2> HIDE DEF hd
  <2>2. /\ fst \in Seq(S) /\ Len(fst) = 2 + n
        /\ \A k \in 1 .. 2 : fst[k] = hd[k]
        /\ \A k \in 1 .. n : fst[2 + k] = blocks[k]
    <3>1. /\ fst \in Seq(S) /\ Len(fst) = Len(hd) + n
          /\ \A k \in 1 .. Len(hd) : fst[k] = hd[k]
      BY <2>1, ConcatFirst
    <3>2. ASSUME NEW k \in 1 .. n PROVE fst[Len(hd) + k] = blocks[k]
      <4>1. hd \in Seq(S)
        BY <2>1
      <4> QED
        BY <4>1, ConcatSecond
    <3> HIDE DEF fst
    <3> QED
      BY <2>1, <3>1, <3>2
  <2> HIDE DEF fst
  <2>3. /\ fst \o recs \in Seq(S) /\ Len(fst \o recs) = 2 + n + Len(recs)
        /\ \A k \in 1 .. 2 + n : (fst \o recs)[k] = fst[k]
        /\ \A k \in 1 .. Len(recs) : (fst \o recs)[2 + n + k] = recs[k]
    <3>0. fst \in Seq(S)
      BY <2>2
    <3>1. /\ fst \o recs \in Seq(S) /\ Len(fst \o recs) = Len(fst) + Len(recs)
          /\ \A k \in 1 .. Len(fst) : (fst \o recs)[k] = fst[k]
      BY <3>0, ConcatFirst
    <3>2. ASSUME NEW k \in 1 .. Len(recs) PROVE (fst \o recs)[Len(fst) + k] = recs[k]
      BY <3>0, ConcatSecond
    <3>3. Len(fst) = 2 + n
      BY <2>2
    <3> QED
      BY <3>1, <3>2, <3>3
  <2>4. (\A k \in 1 .. 2 : k \in 1 .. 2 + n) /\ \A k \in 1 .. n : 2 + k \in 1 .. 2 + n
    BY <1>1
  <2> QED
    BY <2>2, <2>3, <2>4 DEF fst, hd
<1> HIDE DEF buf
<1>3. SubSeq(buf, 3 + n, Len(buf)) = recs
  <2>1. /\ Len(SubSeq(buf, 3 + n, Len(buf))) = Len(recs)
        /\ SubSeq(buf, 3 + n, Len(buf)) \in Seq(S)
        /\ \A k \in 1 .. Len(recs) : SubSeq(buf, 3 + n, Len(buf))[k] = buf[2 + n + k]
    BY <1>1, <1>2
  <2> QED
    BY <1>1, <1>2, <2>1
<1>4. SubSeq(buf, 3, 2 + n) = blocks
  <2>1. /\ Len(SubSeq(buf, 3, 2 + n)) = n /\ SubSeq(buf, 3, 2 + n) \in Seq(S)
        /\ \A k \in 1 .. n : SubSeq(buf, 3, 2 + n)[k] = buf[2 + k]
    BY <1>1, <1>2
  <2> QED
    BY <1>1, <1>2, <2>1
<1>5. buf[1] = h
  BY <1>1, <1>2
<1>6. IsSeq(buf)
  BY <1>2 DEF IsSeq
<1>7. LaidOut(buf, h, blocks, recs)
  BY <1>2, <1>3, <1>4, <1>5, <1>6 DEF LaidOut
<1> QED
  BY <1>7 DEF buf

LEMMA FunctionSeq ==
    ASSUME NEW n \in Nat, NEW s, s = [k \in 1 .. n |-> s[k]]
    PROVE  IsSeq(s)
<1>1. PICK S : S = {s[k] : k \in 1 .. n}
  OBVIOUS
<1>2. \A k \in 1 .. n : s[k] \in S
  BY <1>1
<1>3. s \in [1 .. n -> S]
  BY <1>2
<1>4. s \in Seq(S)
  BY <1>3
<1> QED
  BY <1>4 DEF IsSeq

(* An answer is a sequence of records, and only g_recon has a block map. *)
LEMMA AnswerSeq ==
    ASSUME IInv
    PROVE  /\ IsSeq(result.recs) /\ IsSeq(result.blocks)
           /\ req.op # "recon" \/ a = <<>> \/ ~result.ok => result.blocks = <<>>
           /\ ~result.ok => result.recs = <<>>
<1>1. TypeOK /\ ResultInv /\ EntropyInv
  BY DEF IInv
<1>2. IsSeq(<<>>)
  <2>1. <<>> \in Seq({})
    OBVIOUS
  <2> QED
    BY <2>1 DEF IsSeq
<1>3. CASE ~result.ok
  BY <1>1, <1>2, <1>3 DEF ResultInv, NoAnswer
<1>4. CASE result.ok /\ NothingToDo
  BY <1>1, <1>2, <1>4 DEF ResultInv, Due, Given
<1>5. ASSUME result.ok, ~NothingToDo PROVE Due(result) /\ ~NothingToDo
  BY <1>1, <1>5 DEF ResultInv
<1>6. CASE result.ok /\ ~NothingToDo /\ req.op = "entropy"
  <2>1. result.recs = Concatenated(arenas) /\ result.blocks = <<>> /\ \A w \in Threads : off[w] >= Len(a)
    BY <1>5, <1>6 DEF Due, Given
  <2>2. result.recs \in Seq(BlockRecord)
    BY <1>1, <1>6, <2>1, SortedBlocks
  <2> QED
    BY <1>2, <1>6, <2>1, <2>2 DEF IsSeq
<1>7. CASE result.ok /\ ~NothingToDo /\ req.op = "slice"
  <2> DEFINE n == SliceLen
  <2>1. result.recs = [k \in 1 .. n |-> Xor(a[req.offset + k], req.key)] /\ result.blocks = <<>>
    BY <1>5, <1>7 DEF Due, Given
  <2>2. n \in Nat
    <3>1. req.offset \in Nat /\ req.len \in Nat /\ Len(a) \in Nat /\ ~(req.offset >= Len(a))
      BY <1>1, <1>7, FileType, SectionsAssumption DEF TypeOK, Requests, NothingToDo
    <3> QED
      BY <3>1 DEF SliceLen
  <2> HIDE DEF n
  <2>3. result.recs = [k \in 1 .. n |-> result.recs[k]]
    BY <2>1
  <2>4. IsSeq(result.recs)
    BY <2>2, <2>3, FunctionSeq
  <2> QED
    BY <1>2, <1>7, <2>1, <2>4
<1>8. CASE result.ok /\ ~NothingToDo /\ req.op = "diff"
  <2>1. result.recs = runs \o TailRun /\ result.blocks = <<>>
    BY <1>5, <1>8 DEF Due, Given
  <2>2. runs \in Seq(DiffRecord)
    BY <1>1, <1>8 DEF TypeOK
  <2>3. \E x : TailRun = <<>> \/ TailRun = <<x>>
    <3> DEFINE p == Blocks(a, BlockSize)
               q == Blocks(b, BlockSize)
               d == Run(Common * BlockSize, 0, Len(a) - Common * BlockSize, "DELETED")
               e == Run(0, Common * BlockSize, Len(b) - Common * BlockSize, "INSERTED")
    <3>1. Common = p \/ Common = q
      BY <1>1, <1>8, CommonBlocks
    <3>2. TailRun = CASE p > Common -> <<d>> [] q > Common -> <<e>> [] OTHER -> <<>>
      BY DEF TailRun
    <3>3. p \in Nat /\ q \in Nat
      BY <1>1, <1>8, BlockSizeType, BlocksCount DEF TypeOK
    <3> HIDE DEF p, q, d, e
    <3>4. CASE p > Common
      <4>1. ~(q > Common)
        BY <3>1, <3>3, <3>4
      <4>2. TailRun = <<d>>
        BY <3>2, <3>4, <4>1
      <4> QED
        BY <4>2
    <3>5. CASE ~(p > Common) /\ q > Common
      <4>1. TailRun = <<e>>
        BY <3>2, <3>5
      <4> QED
        BY <4>1
    <3>6. CASE ~(p > Common) /\ ~(q > Common)
      BY <3>2, <3>6
    <3> QED
      BY <3>4, <3>5, <3>6
  <2>4. PICK x : TailRun = <<>> \/ TailRun = <<x>>
    BY <2>3
  <2>5. PICK S : S = DiffRecord \cup {x}
    OBVIOUS
  <2>6. TailRun \in Seq(S) /\ runs \in Seq(S)
    <3>1. TailRun \in Seq(S)
      <4>1. x \in S
        BY <2>5
      <4>2. <<x>> \in Seq(S) /\ <<>> \in Seq(S)
        BY <4>1
      <4> QED
        BY <2>4, <4>2
    <3>2. DiffRecord \subseteq S
      BY <2>5
    <3>3. runs \in Seq(S)
      BY <2>2, <3>2
    <3> QED
      BY <3>1, <3>3
  <2>7. runs \o TailRun \in Seq(S)
    BY <2>6
  <2> QED
    BY <1>2, <1>8, <2>1, <2>7 DEF IsSeq
<1>9. CASE result.ok /\ ~NothingToDo /\ req.op = "recon"
  <2>1. result.recs = runs /\ result.blocks = BlockMap
    BY <1>5, <1>9 DEF Due, Given
  <2>2. runs \in Seq(StringRecord) /\ a # <<>>
    BY <1>1, <1>9 DEF TypeOK, NothingToDo
  <2> DEFINE n == Blocks(a, BlockSize)
  <2>3. n \in Nat
    BY <1>1, <1>9, BlockSizeType, BlocksCount DEF TypeOK
  <2>4. BlockMap = [k \in 1 .. n |-> BlockMap[k]]
    BY DEF BlockMap
  <2> HIDE DEF n
  <2>5. IsSeq(BlockMap)
    BY <2>3, <2>4, FunctionSeq
  <2> QED
    BY <1>9, <2>1, <2>2, <2>5 DEF IsSeq
<1>10. CASE result.ok /\ ~NothingToDo /\ req.op = "sections"
  <2> DEFINE n == IF HasTable(req.img) THEN req.img.num ELSE 0
  <2>1. result.recs = SectionRecords(req.img) /\ result.blocks = <<>>
    BY <1>5, <1>10 DEF Due, Given
  <2>2. n \in Nat
    BY <1>1, <1>10, SectionsAssumption DEF TypeOK, Requests
  <2>3. SectionRecords(req.img) = [k \in 1 .. n |-> SectionRecords(req.img)[k]]
    BY DEF SectionRecords
  <2> HIDE DEF n
  <2>4. IsSeq(SectionRecords(req.img))
    BY <2>2, <2>3, FunctionSeq
  <2> QED
    BY <1>2, <1>10, <2>1, <2>4
<1>11. req.op \in {"entropy", "slice", "diff", "recon", "sections"}
  BY <1>1 DEF TypeOK, Requests
<1> QED
  BY <1>3, <1>4, <1>6, <1>7, <1>8, <1>9, <1>10, <1>11

(* What is decoded of the tool's answer is that answer. *)
LEMMA HeaderFirst ==
    ASSUME NEW n \in Nat, NEW k \in Nat, NEW l, l = 2 + n + k
    PROVE  l \in Nat /\ l # 0
  OBVIOUS

LEMMA FullResult ==
    ASSUME NEW ok, ok, NEW l \in Nat, l # 0, NEW c
    PROVE  CAbi!GResult(ok, l, c) = [owner |-> TRUE, data |-> TRUE, size |-> l, count |-> c]
<1>1. (l > 0) = TRUE
  OBVIOUS
<1>2. CAbi!GResult(ok, l, c) = [owner |-> TRUE, data |-> l > 0, size |-> l, count |-> c]
  BY Zenon DEF CAbi!GResult
<1> QED
  BY <1>1, <1>2, Zenon

LEMMA DecodesAnswer ==
    ASSUME IInv, pc = "done", raw = CAbi!GResult(result.ok, Len(Flat), result.count)
    PROVE  /\ Decoded.some => Decoded.recs = result.recs /\ Decoded.blocks = result.blocks
           /\ ~Decoded.some => ~result.ok \/ (result.recs = <<>> /\ result.blocks = <<>>)
           /\ ~result.ok => Decoded.recs = <<>> /\ Decoded.blocks = <<>>
<1>1. /\ IsSeq(result.recs) /\ IsSeq(result.blocks)
      /\ req.op # "recon" \/ a = <<>> \/ ~result.ok => result.blocks = <<>>
      /\ ~result.ok => result.recs = <<>>
  BY AnswerSeq
<1>2. req.op \in {"entropy", "slice", "diff", "recon", "sections"}
  BY DEF IInv, TypeOK, Requests
<1>3. /\ Len(result.recs) \in Nat /\ (Len(result.recs) = 0 => result.recs = <<>>)
      /\ SubSeq(result.recs, 1, Len(result.recs)) = result.recs
  BY <1>1, WholeBuffer
<1>4. CASE ~result.ok
  <2>1. ~raw.data /\ Records = <<>>
    BY <1>4 DEF CAbi!GResult, CAbi!NullResult, Records
  <2>2. Decoded = Some(<<>>, <<>>) \/ Decoded = NoValue
    BY <1>2, <2>1 DEF Decoded, is_error
  <2> QED
    BY <1>1, <1>4, <2>2 DEF Some, NoValue
<1>5. CASE result.ok /\ ~(req.op = "recon" /\ a # <<>>)
  <2>1. Flat = result.recs /\ result.blocks = <<>>
    BY <1>1, <1>5 DEF Flat
  <2>2. raw.size = Len(result.recs) /\ (raw.data <=> Len(result.recs) > 0)
    BY <1>5, <2>1 DEF CAbi!GResult
  <2>3. Records = result.recs
    <3>1. CASE Len(result.recs) > 0
      <4>1. raw.data /\ raw.size # 0
        BY <1>3, <2>2, <3>1
      <4> QED
        BY <1>3, <2>1, <2>2, <4>1 DEF Records
    <3>2. CASE ~(Len(result.recs) > 0)
      <4>1. raw.size = 0 /\ result.recs = <<>>
        BY <1>3, <2>2, <3>2
      <4> QED
        BY <4>1 DEF Records
    <3> QED
      BY <3>1, <3>2
  <2>4. CASE req.op # "recon"
    <3>1. Decoded = Some(result.recs, <<>>) \/ (Decoded = NoValue /\ req.op = "slice" /\ ~raw.data)
      BY <1>2, <2>3, <2>4 DEF Decoded, is_error
    <3>2. CASE Decoded = Some(result.recs, <<>>)
      <4>1. Decoded.some /\ Decoded.recs = result.recs /\ Decoded.blocks = <<>>
        BY <3>2 DEF Some
      <4> QED
        BY <1>5, <2>1, <4>1
    <3>3. CASE Decoded = NoValue /\ ~raw.data
      <4>1. ~Decoded.some
        BY <3>3 DEF NoValue
      <4>2. ~(Len(result.recs) > 0)
        BY <2>2, <3>3
      <4>3. result.recs = <<>>
        BY <1>3, <4>2
      <4> QED
        BY <1>5, <2>1, <4>1, <4>3
    <3> QED
      BY <3>1, <3>2, <3>3
  <2>5. CASE req.op = "recon"
    <3>1. NothingToDo
      BY <1>5, <2>5 DEF NothingToDo
    <3>2. result.recs = <<>>
      BY <1>5, <3>1 DEF IInv, ResultInv, Due, Given
    <3>3. ~raw.data
      BY <2>2, <3>2
    <3>4. Decoded = NoValue
      BY <2>5, <3>3 DEF Decoded, is_error
    <3> QED
      BY <1>5, <2>1, <3>2, <3>4 DEF NoValue
  <2> QED
    BY <2>4, <2>5
<1>6. CASE result.ok /\ req.op = "recon" /\ a # <<>>
  <2>1. PICK A : result.recs \in Seq(A)
    BY <1>1 DEF IsSeq
  <2>2. PICK B : result.blocks \in Seq(B)
    BY <1>1 DEF IsSeq
  <2> DEFINE h == [n_hist |-> 1, n_entropy |-> Len(result.blocks), n_strings |-> result.count]
             S == A \cup B \cup {h, "hist"}
             n == Len(result.blocks)
  <2>3. Flat = <<h, "hist">> \o result.blocks \o result.recs
    BY <1>6 DEF Flat
  <2>4. h.n_entropy = n
    OBVIOUS
  <2>5. h \in S /\ "hist" \in S /\ A \subseteq S /\ B \subseteq S
    OBVIOUS
  <2> HIDE DEF h, S
  <2>6. result.recs \in Seq(S) /\ result.blocks \in Seq(S)
    BY <2>1, <2>2, <2>5
  <2>7. /\ IsSeq(Flat) /\ Flat[1] = h /\ Len(Flat) = 2 + n + Len(result.recs)
        /\ SubSeq(Flat, 3 + n, Len(Flat)) = result.recs
        /\ SubSeq(Flat, 3, 2 + n) = result.blocks
    <3>1. LaidOut(<<h, "hist">> \o result.blocks \o result.recs, h, result.blocks, result.recs)
      BY <2>5, <2>6, ReconBuffer
    <3> QED
      BY <2>3, <3>1 DEF LaidOut
  <2>8. n \in Nat
    BY <2>6
  <2> HIDE DEF n
  <2>9. raw.data /\ raw.size = Len(Flat) /\ raw.size # 0
    <3>1. PICK k \in Nat : k = Len(result.recs)
      BY <2>6
    <3>2. PICK l : l = Len(Flat)
      OBVIOUS
    <3>3. l = 2 + n + k
      BY <2>7, <3>1, <3>2
    <3>4. l \in Nat /\ l # 0
      BY <2>8, <3>1, <3>3, HeaderFirst
    <3>5. raw = [owner |-> TRUE, data |-> TRUE, size |-> l, count |-> result.count]
      BY <1>6, <3>2, <3>4, FullResult
    <3> QED
      BY <3>2, <3>4, <3>5
  <2>10. Records = Flat
    BY <2>7, <2>9, WholeBuffer DEF Records
  <2>11. Decoded = Some(result.recs, result.blocks)
    <3>1. Decoded = Some(ReconStrings(Flat), SubSeq(Flat, 3, 2 + Flat[1].n_entropy))
      BY <1>6, <2>9, <2>10 DEF Decoded, is_error
    <3>2. Flat[1].n_entropy = n
      BY <2>4, <2>7
    <3> QED
      BY <2>7, <3>1, <3>2 DEF ReconStrings
  <2> QED
    BY <1>6, <2>11 DEF Some
<1> QED
  BY <1>4, <1>5, <1>6

LEMMA ClientNextInv == ClientIInv /\ [ClientNext]_<<vars, clientVars>> => ClientIInv'
<1> SUFFICES ASSUME ClientIInv, [ClientNext]_<<vars, clientVars>> PROVE ClientIInv'
  OBVIOUS
<1>1. IInv /\ IInv' /\ ClientInv /\ RustExact /\ RustFrees
  BY ClientSteps, NextIInv DEF ClientIInv
<1>2. CASE ToolStep
  BY <1>1, <1>2 DEF ToolStep, clientVars, ClientIInv, ClientInv, RustExact, RustFrees
<1>3. UNCHANGED vars => Flat' = Flat
  BY DEF vars, Flat
<1>4. CASE Wrap
  BY <1>1, <1>3, <1>4 DEF Wrap, vars, ClientIInv, ClientInv, RustExact, RustFrees
<1>5. CASE Decode
  <2>1. /\ pc = "done" /\ raw = CAbi!GResult(result.ok, Len(Flat), result.count)
        /\ value' = Decoded /\ stage' = "decoded" /\ UNCHANGED <<vars, raw, arena>>
        /\ arena = CAbi!ArenaOf(raw)
    BY <1>1, <1>5 DEF Decode, ClientInv
  <2>2. RustExact'
    BY <1>1, <2>1, DecodesAnswer DEF RustExact, vars
  <2>3. ClientInv' /\ RustFrees'
    BY <1>3, <2>1 DEF ClientInv, RustFrees, vars
  <2> QED
    BY <1>1, <2>2, <2>3 DEF ClientIInv
<1>6. CASE Drop
  <2>1. /\ stage = "decoded" /\ stage' = "dropped" /\ raw' = CAbi!NullResult /\ UNCHANGED <<vars, value>>
        /\ arena = CAbi!ArenaOf(raw) /\ arena' = CAbi!AfterFree(raw, arena) /\ pc = "done"
    BY <1>1, <1>6 DEF Drop, ClientInv, CAbi!FreedResult
  <2>2. arena' = "none"
    BY <2>1 DEF CAbi!ArenaOf, CAbi!AfterFree
  <2> QED
    BY <1>1, <2>1, <2>2 DEF ClientIInv, ClientInv, RustExact, RustFrees, vars
<1>7. CASE UNCHANGED <<vars, clientVars>>
  BY <1>1, <1>3, <1>7 DEF vars, clientVars, ClientIInv, ClientInv, RustExact, RustFrees
<1> QED
  BY <1>2, <1>4, <1>5, <1>6, <1>7 DEF ClientNext, Over
-----------------------------------------------------------------------------
(* The inductive invariant of the tools and of the Rust functions over them *)
(* holds always.                                                            *)
THEOREM Invariance == ClientSpec => []ClientIInv
  BY ClientInitInv, ClientNextInv, PTL DEF ClientSpec

(* g_entropy_profile: however many threads stride over the blocks and       *)
(* however they interleave, the sorted records are the blocks of the file.  *)
THEOREM EntropyBlocks == ClientSpec => []EntropyExact
<1>1. ClientIInv => EntropyExact
  BY EntropyAnswer DEF ClientIInv
<1> QED
  BY <1>1, Invariance, PTL

(* g_bytes and g_xor: the bytes asked for, for any offset and length.       *)
THEOREM Slices == ClientSpec => []SliceExact
<1>1. ClientIInv => SliceExact
  BY SliceAnswer DEF ClientIInv
<1> QED
  BY <1>1, Invariance, PTL

(* g_diff: the changed ranges and the rest of the longer file.              *)
THEOREM Differences == ClientSpec => []DiffExact
<1>1. ClientIInv => DiffExact
  BY DiffAnswer DEF ClientIInv
<1> QED
  BY <1>1, Invariance, PTL

(* g_recon: the block map and the first strings of the file.                *)
THEOREM Reconnaissance == ClientSpec => []ReconExact
<1>1. ClientIInv => ReconExact
  BY ReconAnswer DEF ClientIInv
<1> QED
  BY <1>1, Invariance, PTL

(* g_sections: the table and the bytes it measures are in the file for      *)
(* every header of an ELF file, and for those of a PE file that point into  *)
(* it; a name begins in the file (and may end outside); one record for each *)
(* entry.                                                                   *)
THEOREM SectionTables == ClientSpec => []TablesInFile
<1>1. ClientIInv => TablesInFile
  BY SectionsAnswer DEF ClientIInv
<1> QED
  BY <1>1, Invariance, PTL

(* gcore lib.rs: each Rust function returns the records of the tool, read   *)
(* back from the buffer of the g_result, and an empty value on failure.     *)
THEOREM RustValues == ClientSpec => []RustExact
<1>1. ClientIInv => RustExact
  BY DEF ClientIInv
<1> QED
  BY <1>1, Invariance, PTL

(* gcore lib.rs: dropping RawResult frees the arena of the g_result,        *)
(* whatever the tool returned.                                              *)
THEOREM RustDrops == ClientSpec => []RustFrees
<1>1. ClientIInv => RustFrees
  BY DEF ClientIInv
<1> QED
  BY <1>1, Invariance, PTL
=============================================================================
