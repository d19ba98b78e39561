------------------------------ MODULE Pipeline ------------------------------
(***************************************************************************)
(* The parallel scan that g_grep, g_strings, g_hist and g_unicode share    *)
(* (run_grep, run_strings, run_hist, run_unicode): n worker threads take   *)
(* chunks from one ChunkAllocator and append records to arenas of their    *)
(* own; the caller joins them and concatenates the arenas, and g_strings   *)
(* and g_unicode sort the result by offset.                                *)
(***************************************************************************)
EXTENDS GTools

CONSTANTS
    Calls,       \* the tools that may be called
    MayFail      \* those whose allocations may fail

(* g_grep makes two appends per record: it is not called with failures. *)
ASSUME PipelineAssumption ==
    /\ Calls \subseteq Tools /\ MayFail \subseteq {"strings", "unicode"}
    /\ Workers \subseteq Nat /\ IsFiniteSet(Workers)

VARIABLES
    tool,     \* the tool that was called
    out,      \* per worker: the records in its arena and its counter
    result    \* what the caller returns, once done: [done, ok, recs, count]

pipeVars == <<vars, tool, out, result>>

NotDone == [done |-> FALSE, ok |-> FALSE, recs |-> <<>>, count |-> 0]

(* An empty file is answered before any worker starts. *)
PipeInit ==
    /\ Init
    /\ tool \in Calls
    /\ out = [w \in Workers |-> [recs |-> <<>>, count |-> 0]]
    /\ result = IF total = 0 THEN [NotDone EXCEPT !.done = TRUE, !.ok = TRUE]
                ELSE NotDone

(* The elements of s at the indices I, in order. *)
Select(s, I) == LET order == Ordered(I)
                IN  [i \in 1 .. Len(order) |-> s[order[i]]]

(* A worker scans the chunk it holds and calls next() again.  An append()   *)
(* whose arena cannot grow stores nothing; the worker counts the record.    *)
ScanChunk(w) ==
    /\ CallNext(w)
    /\ LET recs == Scan(tool, text, total, cur[w].begin, cur[w].end)
       IN  \E stored \in SUBSET DOMAIN recs :
             /\ tool \in MayFail \/ stored = DOMAIN recs
             /\ out' = [out EXCEPT ![w] = [recs  |-> @.recs \o Select(recs, stored),
                                           count |-> @.count + Len(recs)]]
    /\ UNCHANGED <<tool, result>>

WorkerStep(w) ==
    \/ (NextExhausted(w) \/ NextGives(w) \/ NextSkips(w)) /\ UNCHANGED <<tool, out, result>>
    \/ ScanChunk(w)

AllRecords == LET order == Ordered(Workers)
              IN  FlattenSeq([i \in 1 .. Len(order) |-> out[order[i]].recs])

Mutant_Merged == AllRecords

(* The arenas one after the other, sorted when the tool sorts. *)
Merged == IF tool \in {"strings", "unicode"} THEN SortedByOffset(AllRecords)
          ELSE AllRecords

(* The workers' counters added up. *)
CountSum(arenas) == MapThenSumSet(LAMBDA w : arenas[w].count, Workers)

(* The caller has joined the workers. *)
Merge ==
    /\ AllDone /\ ~result.done
    /\ result' = [done |-> TRUE, ok |-> TRUE, recs |-> Merged,
                  count |-> CountSum(out)]
    /\ UNCHANGED <<vars, tool, out>>

(* reserve() of the common arena fails: ok stays false. *)
MergeFails ==
    /\ tool \in MayFail
    /\ AllDone /\ ~result.done
    /\ result' = [NotDone EXCEPT !.done = TRUE]
    /\ UNCHANGED <<vars, tool, out>>

Returned == result.done /\ UNCHANGED pipeVars

PipeStep ==
    \/ \E w \in Workers : ~result.done /\ WorkerStep(w)
    \/ Merge \/ MergeFails

PipeNext == PipeStep \/ Returned

PipeSpec == PipeInit /\ [][PipeNext]_pipeVars

(* run_hist: the bar of byte b in the merged histogram. *)
Bar(b) == Cardinality({i \in DOMAIN result.recs : result.recs[i].byte = b})
-----------------------------------------------------------------------------
(* The tool has given an answer, and nothing of it was lost on the way. *)
Answered(t) == tool = t /\ result.done /\ result.ok
Complete    == result.count = Len(result.recs)

Ascending == \A i \in 1 .. Len(result.recs) - 1 :
                 result.recs[i].offset < result.recs[i + 1].offset

(* Reference: a maximal interval from..to-1 of bytes of S. *)
Maximal(S, from, to) ==
    /\ \A i \in from .. to - 1 : text[i] \in S
    /\ from = 0 \/ text[from - 1] \notin S
    /\ to = total \/ text[to] \notin S

(* Reference: the lines that contain the needle. *)
Hits ==
    {Rec(lr[1], lr[2]) : lr \in
        {lr \in (0 .. total) \X (0 .. total) :
            /\ lr[1] <= lr[2] /\ lr[1] < total
            /\ Maximal(Bytes \ {NL}, lr[1], lr[2])
            /\ HasNeedle(text, lr[1], lr[2])}}

(* g_grep reports every line that contains the needle exactly once, and     *)
(* nothing else, in some order, whoever scanned it: chunk borders and the   *)
(* interleaving of the workers do not show (run_grep), on short lines and   *)
(* when no border cuts an unterminated last line; see GrepCounts below.     *)
GrepExact ==
    Answered("grep") /\ ShortLines /\ LastLineWhole =>
        /\ ToSet(result.recs) = Hits
        /\ Complete
        /\ result.count = Cardinality(Hits)

PrintableRuns ==
    {Rec(ab[1], ab[2]) : ab \in
        {ab \in (0 .. total) \X (0 .. total) :
            /\ ab[1] < ab[2]
            /\ Maximal(Printable, ab[1], ab[2])
            /\ Reported(text, ab[1], ab[2], MinLen)}}

(* g_strings reports the maximal printable runs that pass the filters, each *)
(* once and in ascending order of offset, and counts all of them; a failed  *)
(* allocation loses records and leaves the rest of the answer intact        *)
(* (run_strings, emit_string, FlatArena::append), on short lines and when   *)
(* no border cuts an unterminated last line: a run across that border loses *)
(* its first part.                                                          *)
StringsExact ==
    Answered("strings") /\ ShortLines /\ LastLineWhole =>
        /\ ToSet(result.recs) \subseteq PrintableRuns
        /\ Complete => ToSet(result.recs) = PrintableRuns
        /\ Ascending
        /\ result.count = Cardinality(PrintableRuns)

(* g_hist counts every byte of the file exactly once (run_hist, on short    *)
(* lines).                                                                  *)
HistExact ==
    Answered("hist") /\ ShortLines =>
        \A b \in Bytes : Bar(b) = Cardinality({i \in 0 .. total - 1 : text[i] = b})

(* Reference: the UTF-16 strings of at least MinChars characters among the  *)
(* bytes from..to-1, by offset and number of characters.                    *)
UnicodeRuns(from, to) ==
    {[offset |-> r[1], chars |-> r[2]] : r \in
        {r \in (from .. to) \X (MinChars .. total) :
            /\ r[1] + 2 * r[2] <= to
            /\ \A k \in 0 .. r[2] - 1 : Pair(text, r[1] + 2 * k)
            /\ r[1] < from + 2 \/ ~Pair(text, r[1] - 2)
            /\ r[1] + 2 * r[2] + 1 >= to \/ ~Pair(text, r[1] + 2 * r[2])}}

(* Of a chunk that begins at an even offset g_unicode reports every UTF-16  *)
(* string of both alignments once, however the SIMD blocks cut it, but for  *)
(* those that touch the end of the chunk inside the file; at the end of the *)
(* file a record may take in one byte too many (unicode_worker, with an     *)
(* entropy limit that no UTF-16 string exceeds).                            *)
UnicodeExact ==
    Answered("unicode") /\ Complete =>
        /\ Ascending
        /\ \A c \in {d \in given : d.begin % 2 = 0} :
              {[offset |-> r.offset, chars |-> r.len \div 2] : r \in
                   {r \in ToSet(result.recs) : c.begin <= r.offset /\ r.offset < c.end}}
              = {r \in UnicodeRuns(c.begin, c.end) :
                     c.end = total \/ r.offset + 2 * r.chars + 2 <= c.end}

(* The strengthening under which the answers are exact. *)

Records == [offset : Nat, len : Nat] \cup [offset : Nat, byte : Bytes]

PipeTypeOK ==
    /\ tool \in Calls
    /\ out \in [Workers -> [recs : Seq(Records), count : Nat]]
    /\ result \in [done : BOOLEAN, ok : BOOLEAN, recs : Seq(Records), count : Nat]

(* The workers hold chunks that were handed out; no two hold the same. *)
HasChunk(w, c) == busy[w] = "chunk" /\ cur[w] = [begin |-> c.begin, end |-> c.end]

WorkInv ==
    /\ \A c \in given : c.begin < c.end
    /\ \A w \in Workers : busy[w] = "chunk" => \E c \in given : HasChunk(w, c)

HeldOnce == \A c \in given : \A v, w \in Workers : HasChunk(v, c) /\ HasChunk(w, c) => v = w

(* What the tool's loop finds in the chunks that no worker holds any more. *)
Found(c) == ToSet(Scan(tool, text, total, c.begin, c.end))
Finished == {c \in given : \A w \in Workers : ~HasChunk(w, c)}
AllFound == UNION {Found(c) : c \in Finished}

(* The arenas hold records of found, each at most once, and all of them     *)
(* unless an append failed; the counters count all of them.                 *)
Holding(arenas, found, lossy) ==
    /\ IsFiniteSet(found)
    /\ \A w \in Workers : ToSet(arenas[w].recs) \subseteq found
    /\ \A v, w \in Workers : \A i \in DOMAIN arenas[v].recs, j \in DOMAIN arenas[w].recs :
          arenas[v].recs[i].offset = arenas[w].recs[j].offset => v = w /\ i = j
    /\ lossy \/ \A r \in found : \E w \in Workers : r \in ToSet(arenas[w].recs)
    /\ CountSum(arenas) = Cardinality(found)

ArenaInv == Holding(out, AllFound, tool \in MayFail)

(* A worker that counted nothing stored nothing; no record is empty. *)
Pieces == [offset : Nat, len : Nat \ {0}]
Stored(a, t) ==
    /\ a.count = 0 => a.recs = <<>>
    /\ t # "hist" => ToSet(a.recs) \subseteq Pieces
Counted == \A w \in Workers : Stored(out[w], tool)

(* The answer is what the arenas held when the workers were joined. *)
AnswerInv ==
    /\ result.done /\ result.ok =>
          /\ AllDone \/ total = 0
          /\ result.recs = Merged
          /\ result.count = CountSum(out)
    /\ result.ok \/ (result.recs = <<>> /\ result.count = 0)

(* Chunks that do not overlap. *)
Apart == Lookahead <= ChunkSize \/ ShortLines

PipeIInv ==
    IInv /\ PipeTypeOK /\ WorkInv /\ Counted /\ AnswerInv /\ (Apart => HeldOnce /\ ArenaInv)
-----------------------------------------------------------------------------
(* What the documentation says and the code does not do in a file of        *)
(* several chunks.                                                          *)

(* "g_grep_count == reference count by lines (chunk borders do not cut      *)
(* lines)" (tests/fuzz_api.cpp:5): g_grep counts the lines that contain the *)
(* needle, a short last line without a newline included.                    *)
GrepCounts ==
    Answered("grep") /\ ShortLines => result.count = Cardinality(Hits)

(* "UTF-16 strings starting at odd offsets are not lost" (README.md:173).   *)
UnicodeOddNotLost ==
    Answered("unicode") /\ Complete /\ ShortLines /\ LastLineWhole =>
        \A run \in UnicodeRuns(0, total) :
            run.offset % 2 = 1 => \E r \in ToSet(result.recs) : r.offset = run.offset
=============================================================================
