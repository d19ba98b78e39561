------------------------------- MODULE GTools -------------------------------
(***************************************************************************)
(* What g_grep, g_strings, g_hist and g_unicode do with one chunk.  A file *)
(* is a function from offsets to bytes, bytes, of size bytes; a scan gives *)
(* the records that the tool's loop over bytes begin..end-1 appends.  A    *)
(* record is an offset and a length, or for g_hist an offset and the byte  *)
(* there, which stands for one increment.                                  *)
(***************************************************************************)
EXTENDS ChunkAllocator, SimdScan, Sorting, SequencesExt

CONSTANTS
    Needle,       \* g_grep: the bytes searched for (strlen >= 1, no newline)
    Printable,    \* the bytes 0x20..0x7E
    MinLen,       \* g_strings: shortest string reported
    MinChars,     \* g_unicode: its min_len, in characters
    Dense(_),     \* is the entropy of these bytes over max_entropy?
    Zero          \* the byte 0

ASSUME GToolsAssumption ==
    /\ Needle \in Seq(Bytes \ {NL}) /\ Needle # <<>>
    /\ Printable \subseteq Bytes \ {NL}
    /\ MinLen \in Nat \ {0} /\ MinChars \in Nat \ {0}
    /\ Zero \notin Printable \cup {NL}

Rec(from, to) == [offset |-> from, len |-> to - from]
InOrder(recs) == SortedByOffset(SetToSeq(recs))

(* memmem() over bytes[from .. to-1]. *)
HasNeedle(bytes, from, to) ==
    \E i \in from .. to - Len(Needle) :
        \A j \in 1 .. Len(Needle) : bytes[i + j - 1] = Needle[j]
-----------------------------------------------------------------------------
Mutant_GrepScan(bytes, size, begin, end) ==
    LET lines == {l \in begin .. end - 1 : l = begin \/ bytes[l - 1] = NL}
        stop(l) == find_byte(bytes, {NL}, l, end)
    IN  InOrder({Rec(l, stop(l)) : l \in {k \in lines : stop(k) < end /\ HasNeedle(bytes, k, stop(k))}})

(* worker() of g_grep: the lines of the chunk, cut by find_newline, that    *)
(* contain the needle; the last one may lack its newline.                   *)
GrepScan(bytes, size, begin, end) ==
    LET lines == {l \in begin .. end - 1 : l = begin \/ bytes[l - 1] = NL}
        stop(l) == find_byte(bytes, {NL}, l, end)
    IN  InOrder({Rec(l, stop(l)) : l \in {k \in lines : HasNeedle(bytes, k, stop(k))}})

(* emit_string, emit_u16: long enough, and not over the entropy limit. *)
Reported(bytes, from, to, least) ==
    /\ to - from >= least
    /\ ~Dense([i \in 1 .. to - from |-> bytes[from + i - 1]])

(* The block of a chunk's block loop that offset i is in, and the offset    *)
(* where the blocks end and the scalar tail begins; g_unicode's blocks need *)
(* one byte more than they have.                                            *)
BlockOf(begin, i) == begin + Block * ((i - begin) \div Block)
TailFrom(begin, end, more) == begin + Block * ((end - begin - more) \div Block)

(* strings_worker: the maximal printable runs of the chunk, by the masks of *)
(* its blocks and the bytes of its tail.  A run that touches the end of the *)
(* chunk is kept only at the end of the file.                               *)
StringsScan(bytes, size, begin, end) ==
    LET tail == TailFrom(begin, end, 0)
        masks == UNION {{p + j : j \in Mask64(bytes, p, Printable)} :
                           p \in {BlockOf(begin, i) : i \in begin .. tail - 1}}
        printable == masks \cup {i \in tail .. end - 1 : bytes[i] \in Printable}
        starts == {i \in printable : i - 1 \notin printable}
        stop(i) == Min({j \in i .. end : j \notin printable})
    IN  InOrder({Rec(i, stop(i)) : i \in {k \in starts :
                    Reported(bytes, k, stop(k), MinLen) /\ (stop(k) < end \/ end = size)}})

Mutant_HistScan(bytes, size, begin, end) ==
    [i \in 1 .. end - begin - 1 |-> [offset |-> begin + i - 1, byte |-> bytes[begin + i - 1]]]

(* hist_worker: every byte of the chunk is counted. *)
HistScan(bytes, size, begin, end) ==
    [i \in 1 .. end - begin |-> [offset |-> begin + i - 1, byte |-> bytes[begin + i - 1]]]

(* A UTF-16LE character of the printable range at offset i: the tail. *)
Pair(bytes, i) == bytes[i] \in Printable /\ bytes[i + 1] = Zero

(* unicode_worker: two run detectors, 0 and 1, look at every other offset;  *)
(* the detector of an offset is chosen by its distance from the start of    *)
(* the chunk in the whole SIMD blocks, and by the offset itself in the tail *)
(* after them.  A detector that is in a run at the end of the chunk reports *)
(* it up to that end, and only at the end of the file.                      *)
UnicodeScan(bytes, size, begin, end) ==
    LET tail == TailFrom(begin, end, 1)
        detector(i) == IF i < tail THEN (i - begin) % 2 ELSE i % 2
        masks == UNION {{p + j : j \in Mask64(bytes, p, Printable) \cap NextZero(bytes, p, Zero)} :
                           p \in {BlockOf(begin, i) : i \in begin .. tail - 1}}
        pairs == masks \cup {i \in tail .. end - 2 : Pair(bytes, i)}
        seen(q) == {i \in begin .. end - 2 : detector(i) = q}
        before(i) == {j \in seen(detector(i)) : j < i}
        starts == {i \in pairs : before(i) = {} \/ Max(before(i)) \notin pairs}
        stop(i) == Min({j \in seen(detector(i)) \ pairs : j > i} \cup {end})
    IN  InOrder({Rec(i, stop(i)) : i \in {k \in starts :
                    /\ Reported(bytes, k, stop(k), 2 * MinChars)
                    /\ stop(k) < end \/ end = size}})

Tools == {"grep", "strings", "hist", "unicode"}

Scan(tool, bytes, size, begin, end) ==
    CASE tool = "grep"    -> GrepScan(bytes, size, begin, end)
      [] tool = "strings" -> StringsScan(bytes, size, begin, end)
      [] tool = "hist"    -> HistScan(bytes, size, begin, end)
      [] tool = "unicode" -> UnicodeScan(bytes, size, begin, end)
=============================================================================
