------------------------------ MODULE Analyze ------------------------------
(***************************************************************************)
(* One call of a tool of tools/g-analyze/g_analyze.cpp that cuts files     *)
(* into blocks of its own instead of taking chunks: g_entropy_profile      *)
(* (threads that stride over the blocks), g_bytes and g_xor (a slice),     *)
(* g_diff (two files, block by block), g_recon (a map of one file) and     *)
(* g_sections (the section table of an executable, module Sections).       *)
(* A file is the sequence of its bytes; offsets count from 0.  Entropy is  *)
(* a function of the bytes of a block, so a record keeps the bytes.        *)
(***************************************************************************)
EXTENDS Sections, Sorting, SequencesExt

CONSTANTS
    NThreads,     \* threads of g_entropy_profile
    MinBlock,     \* its smallest block (64)
    DiffDefault,  \* g_diff's block when the caller gives none (4096)
    ReconMin,     \* g_recon's smallest block (4096)
    MinLen,       \* its shortest string (4)
    MaxStrings,   \* its cap on strings (2000)
    LenSize,      \* 2^32: the length in a record of g_diff
    BlockArgs,    \* block sizes a caller may pass (an int)
    MaxTotal      \* bound: size of the largest file

(* Two byte values, one printable: ^ acts on each bit alone. *)
Bytes     == {0, 1}
Printable == {1}
Xor(b, k) == (b + k) % 2

ASSUME AnalyzeAssumption ==
    /\ {NThreads, MinBlock, DiffDefault, ReconMin, MinLen, LenSize} \subseteq Nat \ {0}
    /\ {MaxStrings, MaxTotal} \subseteq Nat /\ MaxTotal < WordSize
    /\ BlockArgs \subseteq Int

VARIABLES
    req,      \* the call
    a, b,     \* the files; b is for g_diff only
    pc,       \* "open", "work" or "done"
    off,      \* g_entropy_profile: the next offset of each thread
    arenas,   \* g_entropy_profile: the records of each thread
    i,        \* g_diff: the next block; g_recon: the next byte
    start,    \* g_recon: run_start while in_str, otherwise -1
    runs,     \* g_diff: the runs so far; g_recon: the strings so far
    count,    \* g_recon: str_count
    lost,     \* history: an append() has failed
    result    \* what the call returns: [ok, recs, count, blocks]

vars == <<req, a, b, pc, off, arenas, i, start, runs, count, lost, result>>
call == <<req, a, b>>

Threads == 0 .. NThreads - 1
Files   == UNION {[1 .. n -> Bytes] : n \in 0 .. MaxTotal}

Requests == [op : {"entropy", "diff", "recon"}, block : BlockArgs]
              \cup [op : {"slice"}, offset : 0 .. WordSize - 1, len : 0 .. WordSize - 1, key : Bytes]
              \cup [op : {"sections"}, img : Images]

Least(x, y) == IF x < y THEN x ELSE y

(* The bytes of the block of f at offset o. *)
BlockAt(f, o, bs) == SubSeq(f, o + 1, o + Least(bs, Len(f) - o))
Blocks(f, bs)     == (Len(f) + bs - 1) \div bs

(* The block size the call uses. *)
BlockSize ==
    CASE req.op = "entropy" -> IF req.block < MinBlock THEN MinBlock ELSE req.block
      [] req.op = "diff"    -> IF req.block < 1 THEN DiffDefault ELSE req.block
      [] req.op = "recon"   -> IF req.block < ReconMin THEN ReconMin ELSE req.block
-----------------------------------------------------------------------------
Init ==
    /\ req \in Requests /\ a \in IF req.op = "sections" THEN {<<>>} ELSE Files
    /\ b \in IF req.op = "diff" THEN Files ELSE {<<>>}
    /\ pc = "open"
    /\ off = [w \in Threads |-> IF req.op = "entropy" THEN w * BlockSize ELSE 0]
    /\ arenas = [w \in Threads |-> <<>>]
    /\ i = 0 /\ start = -1 /\ runs = <<>> /\ count = 0 /\ lost = FALSE
    /\ result = [ok |-> FALSE, recs |-> <<>>, count |-> 0, blocks |-> <<>>]

work == <<off, arenas, i, start, runs, count, lost>>

Return(r) == pc' = "done" /\ result' = r /\ UNCHANGED <<call, work>>

Fail == Return([ok |-> FALSE, recs |-> <<>>, count |-> 0, blocks |-> <<>>])
Answer(recs, n, blocks) == Return([ok |-> TRUE, recs |-> recs, count |-> n, blocks |-> blocks])

(* MmapFile::open fails for one of the paths. *)
OpenFails == pc = "open" /\ Fail

NothingToDo ==
    CASE req.op = "slice" -> req.offset >= Len(a)
      [] req.op = "diff"  -> FALSE
      [] req.op = "sections" -> req.img.size < MinImage
      [] OTHER            -> a = <<>>

OpenEmpty == pc = "open" /\ NothingToDo /\ Answer(<<>>, 0, <<>>)

Open ==
    /\ pc = "open" /\ ~NothingToDo
    /\ pc' = "work"
    /\ UNCHANGED <<call, work, result>>

(* reserve() of the result fails; there is nothing to reserve for no record. *)
ReserveFails(needed) == needed /\ Fail
-----------------------------------------------------------------------------
(* g_entropy_profile *)

(* The record is stored, or append() cannot grow the arena: nobody notices. *)
EntropyStep(w) ==
    /\ req.op = "entropy" /\ pc = "work" /\ off[w] < Len(a)
    /\ off' = [off EXCEPT ![w] = @ + NThreads * BlockSize]
    /\ \/ /\ arenas' = [arenas EXCEPT ![w] = Append(@,
                         [offset |-> off[w], bytes |-> BlockAt(a, off[w], BlockSize)])]
          /\ UNCHANGED lost
       \/ lost' = TRUE /\ UNCHANGED arenas
    /\ UNCHANGED <<call, pc, i, start, runs, count, result>>

Mutant_Concatenated(parts) == FlattenSeq([k \in 1 .. NThreads |-> parts[k - 1]])

(* The arenas one after the other, sorted by offset. *)
Concatenated(parts) ==
    SortedByOffset(FlattenSeq([k \in 1 .. NThreads |-> parts[k - 1]]))

EntropyMerge ==
    /\ req.op = "entropy" /\ pc = "work" /\ \A w \in Threads : off[w] >= Len(a)
    /\ LET recs == Concatenated(arenas)
       IN  Answer(recs, Len(recs), <<>>) \/ ReserveFails(recs # <<>>)
-----------------------------------------------------------------------------
(* g_bytes (key 0) and g_xor *)

Mutant_SliceLen == Least(req.len, Len(a) - req.offset)

SliceLen ==
    LET avail == Len(a) - req.offset
    IN  IF req.len = 0 \/ req.len > avail THEN avail ELSE req.len

Slice ==
    /\ req.op = "slice" /\ pc = "work"
    /\ \/ Answer([k \in 1 .. SliceLen |-> Xor(a[req.offset + k], req.key)], SliceLen, <<>>)
       \/ ReserveFails(TRUE)
-----------------------------------------------------------------------------
(* g_diff *)

Common == Least(Blocks(a, BlockSize), Blocks(b, BlockSize))

Run(oa, ob, len, st) == [oa |-> oa, ob |-> ob, len |-> len % LenSize, st |-> st]

Mutant_Grouped(boff) ==
    IF runs # <<>> THEN [runs EXCEPT ![Len(runs)].len = (@ + BlockSize) % LenSize]
    ELSE Append(runs, Run(boff, boff, BlockSize, "CHANGED"))

(* A changed block at boff extends the run that ends there or begins one. *)
Grouped(boff) ==
    IF runs # <<>> /\ Last(runs).ob + Last(runs).len = boff
    THEN [runs EXCEPT ![Len(runs)].len = (@ + BlockSize) % LenSize]
    ELSE Append(runs, Run(boff, boff, BlockSize, "CHANGED"))

DiffBlock ==
    /\ req.op = "diff" /\ pc = "work" /\ i < Common
    /\ LET boff == i * BlockSize
           same == BlockAt(a, boff, BlockSize) = BlockAt(b, boff, BlockSize)
       IN  runs' = IF same THEN runs ELSE Grouped(boff)
    /\ i' = i + 1
    /\ UNCHANGED <<call, pc, off, arenas, start, count, lost, result>>

(* What is left of the longer file. *)
TailRun ==
    LET boff == Common * BlockSize
    IN  CASE Blocks(a, BlockSize) > Common -> <<Run(boff, 0, Len(a) - boff, "DELETED")>>
          [] Blocks(b, BlockSize) > Common -> <<Run(0, boff, Len(b) - boff, "INSERTED")>>
          [] OTHER -> <<>>

DiffReturn ==
    /\ req.op = "diff" /\ pc = "work" /\ i = Common
    /\ \/ Answer(runs \o TailRun, Len(runs \o TailRun), <<>>)
       \/ ReserveFails(runs \o TailRun # <<>>)
-----------------------------------------------------------------------------
(* g_recon *)

Mutant_Emit(len) ==
    IF len > MinLen /\ count < MaxStrings
    THEN /\ count' = count + 1
         /\ \/ runs' = Append(runs, [offset |-> start, len |-> len]) /\ UNCHANGED lost
            \/ runs' = runs /\ lost' = TRUE
    ELSE UNCHANGED <<runs, count, lost>>

(* The string from run_start, long enough and below the cap, is counted     *)
(* whether or not append() can store it.                                    *)
Emit(len) ==
    IF len >= MinLen /\ count < MaxStrings
    THEN /\ count' = count + 1
         /\ \/ runs' = Append(runs, [offset |-> start, len |-> len]) /\ UNCHANGED lost
            \/ runs' = runs /\ lost' = TRUE
    ELSE UNCHANGED <<runs, count, lost>>

ReconByte ==
    /\ req.op = "recon" /\ pc = "work" /\ i < Len(a)
    /\ i' = i + 1
    /\ \/ /\ a[i + 1] \in Printable
          /\ start' = IF start = -1 THEN i ELSE start
          /\ UNCHANGED <<runs, count, lost>>
       \/ /\ a[i + 1] \notin Printable /\ start # -1
          /\ Emit(i - start) /\ start' = -1
       \/ /\ a[i + 1] \notin Printable /\ start = -1
          /\ UNCHANGED <<start, runs, count, lost>>
    /\ UNCHANGED <<call, pc, off, arenas, result>>

(* The string that the end of the file ends. *)
ReconEnd ==
    /\ req.op = "recon" /\ pc = "work" /\ i = Len(a) /\ start # -1
    /\ Emit(i - start) /\ start' = -1
    /\ UNCHANGED <<call, pc, off, arenas, i, result>>

(* The block map: n_entropy records and the bytes behind each. *)
BlockMap ==
    [k \in 1 .. Blocks(a, BlockSize) |->
        [offset |-> (k - 1) * BlockSize, bytes |-> BlockAt(a, (k - 1) * BlockSize, BlockSize)]]

ReconReturn ==
    /\ req.op = "recon" /\ pc = "work" /\ i = Len(a) /\ start = -1
    /\ \/ Answer(runs, count, BlockMap)
       \/ ReserveFails(TRUE)
-----------------------------------------------------------------------------
(* g_sections *)
ListSections ==
    /\ req.op = "sections" /\ pc = "work"
    /\ LET recs == SectionRecords(req.img)
       IN  Answer(recs, Len(recs), <<>>) \/ ReserveFails(recs # <<>>)
-----------------------------------------------------------------------------
Next ==
    \/ OpenFails \/ OpenEmpty \/ Open
    \/ \E w \in Threads : EntropyStep(w)
    \/ EntropyMerge \/ Slice
    \/ DiffBlock \/ DiffReturn
    \/ ReconByte \/ ReconEnd \/ ReconReturn
    \/ ListSections

Spec == Init /\ [][Next]_vars
-----------------------------------------------------------------------------
Answered(op) == req.op = op /\ pc = "done" /\ result.ok

(* The records are the blocks of the file, in order, without gap or overlap. *)
Tile(recs) ==
    /\ FlattenSeq([k \in 1 .. Len(recs) |-> recs[k].bytes]) = a
    /\ \A k \in 1 .. Len(recs) : recs[k].offset = (k - 1) * BlockSize

(* g_entropy_profile's records are "blocks in ascending order of offset"    *)
(* (core/include/gcore/c_abi.h:63): exactly the blocks of the file, however *)
(* the threads share them; a failed append() leaves the order intact        *)
(* (entropy_worker, run_entropy_profile).                                   *)
EntropyExact ==
    Answered("entropy") =>
        /\ \A k \in 1 .. Len(result.recs) - 1 : result.recs[k].offset < result.recs[k + 1].offset
        /\ ~lost => Tile(result.recs)

(* g_bytes and g_xor return the bytes of the file in offset..offset+len-1,  *)
(* the sum taken without a word's limit, or from offset on when len is 0,   *)
(* and xor with the same key gives the file back (run_slice).               *)
SliceExact ==
    Answered("slice") =>
        LET wanted == {k \in 0 .. Len(a) - 1 :
                         k >= req.offset /\ (req.len = 0 \/ k < req.offset + req.len)}
        IN  /\ result.count = Cardinality(wanted)
            /\ Len(result.recs) = result.count
            /\ \A k \in wanted : Xor(result.recs[k - req.offset + 1], req.key) = a[k + 1]

(* The blocks of both files that differ. *)
Differing ==
    {k \in 0 .. Common - 1 :
        BlockAt(a, k * BlockSize, BlockSize) # BlockAt(b, k * BlockSize, BlockSize)}

(* Lengths that fit in a record of g_diff. *)
DiffFits == Len(a) + BlockSize <= LenSize /\ Len(b) + BlockSize <= LenSize

(* Does a record report block k as changed? *)
Covers(r, k) == r.st = "CHANGED" /\ r.oa <= k * BlockSize /\ k * BlockSize < r.oa + r.len

(* g_diff reports each block that differs in one CHANGED range and no other *)
(* block, in ranges that are ascending and as long as they can be, and then *)
(* the rest of the longer file, while lengths fit in a record (run_diff;    *)
(* "changed/inserted/deleted ranges", c_abi.h:116).                         *)
DiffExact ==
    Answered("diff") /\ DiffFits =>
        LET recs    == result.recs
            changed == {j \in DOMAIN recs : recs[j].st = "CHANGED"}
            from    == Common * BlockSize
        IN  /\ \A k \in 0 .. Common - 1 :
                 Cardinality({j \in DOMAIN recs : Covers(recs[j], k)})
                 = IF k \in Differing THEN 1 ELSE 0
            /\ \A j \in changed : recs[j].oa = recs[j].ob
            /\ \A j, l \in changed : j < l => recs[j].ob + recs[j].len < recs[l].ob
            /\ DOMAIN recs \ changed \subseteq {Len(recs)}
            /\ {recs[j] : j \in DOMAIN recs \ changed} =
                 {[oa |-> from, ob |-> 0, len |-> n, st |-> "DELETED"] : n \in {Len(a) - from} \ (-BlockSize .. 0)}
                 \cup
                 {[oa |-> 0, ob |-> from, len |-> n, st |-> "INSERTED"] : n \in {Len(b) - from} \ (-BlockSize .. 0)}

(* Reference: the maximal printable runs of at least MinLen bytes. *)
Maximal(o, n) ==
    /\ o + n <= Len(a)
    /\ \A k \in 1 .. n : a[o + k] \in Printable
    /\ o = 0 \/ a[o] \notin Printable
    /\ o + n = Len(a) \/ a[o + n + 1] \notin Printable

Strings ==
    {r \in [offset : 0 .. Len(a), len : MinLen .. Len(a)] : Maximal(r.offset, r.len)}

StringsBefore(o) == {r \in Strings : r.offset < o}

(* The first MaxStrings of them. *)
Sample == {r \in Strings : Cardinality(StringsBefore(r.offset)) < MaxStrings}

(* g_recon's map has every block of the file, and its string samples are    *)
(* the first MaxStrings strings of the file in order, the one at its end    *)
(* included; a failed append() loses strings and no more (run_recon).       *)
ReconExact ==
    Answered("recon") /\ a # <<>> =>
        LET recs == result.recs
        IN  /\ Tile(result.blocks)
            /\ result.count = Least(MaxStrings, Cardinality(Strings))
            /\ \A j, k \in DOMAIN recs : j < k => recs[j].offset < recs[k].offset
            /\ \A j \in DOMAIN recs : recs[j] \in Sample
            /\ ~lost => \A r \in Sample : \E j \in DOMAIN recs : recs[j] = r

(* Wherever the fields of an ELF file point, no byte outside the file is    *)
(* read for the table, an entry or a section's entropy, and a name begins   *)
(* inside the file; for a PE file this takes a header and a table that      *)
(* begin inside it.  Each entry of the table has a record (run_sections).   *)
TablesInFile ==
    Answered("sections") /\ req.img.size >= MinImage =>
        LET img == req.img
            pointers == When(img.kind = "pe", {img.lfanew, TableAt(img)})
        IN  /\ pointers \subseteq 0 .. img.size =>
                 \A r \in TableReads(img) : 0 <= r.from /\ r.to <= img.size
            /\ \A r \in NameReads(img) : 0 <= r.from /\ r.from < img.size
            /\ HasTable(img) => result.count = img.num /\ Len(result.recs) = img.num
-----------------------------------------------------------------------------
BlockRecord  == [offset : Nat, bytes : Seq(Bytes)]
DiffRecord   == [oa : Nat, ob : Nat, len : Nat, st : {"CHANGED", "DELETED", "INSERTED"}]
StringRecord == [offset : Nat, len : Nat]

(* Type invariant. *)
TypeOK ==
    /\ req \in Requests /\ a \in Files /\ b \in Files
    /\ pc \in {"open", "work", "done"}
    /\ off \in [Threads -> Nat] /\ arenas \in [Threads -> Seq(BlockRecord)]
    /\ i \in Nat /\ count \in Nat /\ lost \in BOOLEAN
    /\ start = -1 \/ start \in 0 .. i
    /\ runs \in IF req.op = "diff" THEN Seq(DiffRecord) ELSE Seq(StringRecord)

NoAnswer == [ok |-> FALSE, recs |-> <<>>, count |-> 0, blocks |-> <<>>]
Given(recs, n, blocks) == [ok |-> TRUE, recs |-> recs, count |-> n, blocks |-> blocks]

(* The answer r is the one that the work of the tool, when it is done, gives. *)
Due(r) ==
    IF NothingToDo THEN r = Given(<<>>, 0, <<>>)
    ELSE CASE req.op = "entropy"  -> /\ \A w \in Threads : off[w] >= Len(a)
                                     /\ r = Given(Concatenated(arenas), Len(Concatenated(arenas)), <<>>)
           [] req.op = "slice"    -> r = Given([k \in 1 .. SliceLen |-> Xor(a[req.offset + k], req.key)],
                                               SliceLen, <<>>)
           [] req.op = "diff"     -> i = Common /\ r = Given(runs \o TailRun, Len(runs \o TailRun), <<>>)
           [] req.op = "recon"    -> i = Len(a) /\ start = -1 /\ r = Given(runs, count, BlockMap)
           [] req.op = "sections" -> r = Given(SectionRecords(req.img), Len(SectionRecords(req.img)), <<>>)

(* A call works when there is something to do, and has done all its work    *)
(* when it answers.                                                         *)
ResultInv ==
    /\ pc = "work" => ~NothingToDo
    /\ ~result.ok => result = NoAnswer
    /\ result.ok => pc = "done" /\ Due(result)

(* A record of m changed blocks from block f on. *)
WholeBlocks(r, f, m) ==
    r = [oa |-> f * BlockSize, ob |-> f * BlockSize, len |-> m * BlockSize, st |-> "CHANGED"]

(* Ranges of whole blocks behind each other with a gap between them, that   *)
(* hold the differing ones of the first n blocks.                           *)
Groups(ranges, n) ==
    /\ n <= Common
    /\ \A j \in DOMAIN ranges : \E f \in 0 .. n - 1 : \E m \in 1 .. n - f : WholeBlocks(ranges[j], f, m)
    /\ \A j, l \in DOMAIN ranges : j < l => ranges[j].ob + ranges[j].len < ranges[l].ob
    /\ \A k \in 0 .. n - 1 : k \in Differing <=> \E j \in DOMAIN ranges : Covers(ranges[j], k)

DiffInv == req.op = "diff" /\ DiffFits => Groups(runs, i)

(* The offset of the m-th block of thread w, from 0. *)
Turn(w, m) == (w + m * NThreads) * BlockSize

(* The records of a thread that is at its m-th block: blocks that it has    *)
(* been at, in order, and all of them if they are complete.                 *)
Visited(recs, complete, w, m) ==
    /\ \A l \in 0 .. m - 1 : Turn(w, l) < Len(a)
    /\ \A j \in DOMAIN recs : \E l \in 0 .. m - 1 :
          recs[j] = [offset |-> Turn(w, l), bytes |-> BlockAt(a, Turn(w, l), BlockSize)]
    /\ \A j, k \in DOMAIN recs : j < k => recs[j].offset < recs[k].offset
    /\ complete => \A l \in 0 .. m - 1 : \E j \in DOMAIN recs : recs[j].offset = Turn(w, l)

EntropyInv ==
    req.op = "entropy" =>
        \A w \in Threads : \E m \in 0 .. Len(a) :
            off[w] = Turn(w, m) /\ Visited(arenas[w], ~lost, w, m)

(* The detector of g_recon at byte n: outside a string, or in one from st. *)
Detector(n, st) ==
    /\ n <= Len(a)
    /\ st = -1 => n = 0 \/ n = Len(a) \/ a[n] \notin Printable
    /\ st # -1 => /\ st < n /\ \A k \in st + 1 .. n : a[k] \in Printable
                  /\ st = 0 \/ a[st] \notin Printable

(* Samples in order among the strings before o, n of which are counted, and *)
(* all of them if they are complete.                                        *)
Collected(recs, n, complete, o) ==
    /\ n = Least(MaxStrings, Cardinality(StringsBefore(o)))
    /\ \A j \in DOMAIN recs : recs[j] \in Sample /\ recs[j].offset < o
    /\ \A j, k \in DOMAIN recs : j < k => recs[j].offset < recs[k].offset
    /\ complete => \A r \in Sample : r.offset < o => \E j \in DOMAIN recs : recs[j] = r

ReconInv ==
    req.op = "recon" => /\ Detector(i, start)
                        /\ Collected(runs, count, ~lost, IF start = -1 THEN i ELSE start)

IInv == TypeOK /\ ResultInv /\ DiffInv /\ EntropyInv /\ ReconInv
-----------------------------------------------------------------------------
(* What the README says of run_sections, and the code does not do: "every   *)
(* read through within() mmap bounds checks" (README.md:177-178) keeps the  *)
(* parser inside the file, the names it copies included, whatever the       *)
(* headers hold.                                                            *)
SectionsInFile ==
    Answered("sections") /\ req.img.size >= MinImage =>
        \A r \in Reads(req.img) : 0 <= r.from /\ r.to <= req.img.size
=============================================================================
