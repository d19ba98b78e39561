--------------------------- MODULE ChunkAllocator ---------------------------
(***************************************************************************)
(* gcore::ChunkAllocator (core/include/gcore/chunk_allocator.h): worker    *)
(* threads cut one mapped file into chunks.  The only shared state is the  *)
(* atomic counter next_; the file is read-only while the workers run.      *)
(* A call of next() is a loop around one fetch_add: whatever a worker      *)
(* computes between two fetch_adds depends on the file alone, so one turn  *)
(* of the loop is one step.                                                *)
(***************************************************************************)
EXTENDS Integers, FiniteSets, FiniteSetsExt

CONSTANTS
    Workers,     \* threads that call next()
    Bytes,       \* byte values
    NL,          \* the byte '\n'
    ChunkSize,   \* chunk_size_  (4 MB in the tools)
    Lookahead,   \* lookahead_   (1 MB in the tools)
    MaxTotal     \* bound: size of the largest file

(* The constructor replaces a chunk size of 0 by 1, and the tools start at  *)
(* least one thread.                                                        *)
ASSUME ChunkAllocatorAssumption ==
    /\ NL \in Bytes
    /\ Workers # {}
    /\ ChunkSize \in Nat \ {0}
    /\ Lookahead \in Nat
    /\ MaxTotal \in Nat

VARIABLES
    total,   \* total_: size of the file
    text,    \* base_: its bytes
    next,    \* next_: the atomic counter
    given,   \* chunks handed out: [s, begin, end], s the counter it was cut from
    busy,    \* what each worker does: "next" (inside next()), "chunk", "done"
    cur      \* the chunk each worker works on: begin and end of its caller

file == <<total, text>>
vars == <<file, next, given, busy, cur>>

-----------------------------------------------------------------------------
Newlines(from, len) == {i \in from .. from + len - 1 : text[i] = NL}

(* gcore::find_newline over len bytes from "from", and the byte after the   *)
(* newline; "from" itself when there is none.                               *)
AfterNewline(from, len) ==
    LET found == Newlines(from, len)
    IN  IF found = {} THEN from ELSE Min(found) + 1

AtMost(n, limit) == IF n < limit THEN n ELSE limit

Mutant_ChunkBegin(s) == s

(* The left edge: the rest of a line begun before s is skipped. *)
ChunkBegin(s) ==
    IF s = 0 THEN 0 ELSE AfterNewline(s, AtMost(total - s, ChunkSize))

Mutant_ChunkEnd(s) == AtMost(s + ChunkSize, total)

(* The right edge: moved to the end of the line that reaches over it. *)
ChunkEnd(s) ==
    LET e == AtMost(s + ChunkSize, total)
    IN  IF e < total THEN AfterNewline(e, AtMost(total - e, Lookahead)) ELSE e

Chunk(s) == [s |-> s, begin |-> ChunkBegin(s), end |-> ChunkEnd(s)]
-----------------------------------------------------------------------------
Init ==
    /\ total \in 0 .. MaxTotal
    /\ text \in [0 .. total - 1 -> Bytes]
    /\ next = 0
    /\ given = {}
    /\ busy = [w \in Workers |-> "next"]
    /\ cur = [w \in Workers |-> [begin |-> 0, end |-> 0]]

(* fetch_add returns an offset past the file: next() returns false. *)
NextExhausted(w) ==
    /\ busy[w] = "next"
    /\ next >= total
    /\ next' = next + ChunkSize
    /\ busy' = [busy EXCEPT ![w] = "done"]
    /\ UNCHANGED <<file, given, cur>>

Mutant_NextGives(w) ==
    /\ busy[w] = "next"
    /\ next < total
    /\ ChunkBegin(next) < ChunkEnd(next)
    /\ given' = given \cup {Chunk(next)}
    /\ busy' = [busy EXCEPT ![w] = "chunk"]
    /\ cur' = [cur EXCEPT ![w] = [begin |-> ChunkBegin(next), end |-> ChunkEnd(next)]]
    /\ UNCHANGED <<file, next>>

(* A chunk is handed out: next() returns true. *)
NextGives(w) ==
    /\ busy[w] = "next"
    /\ next < total
    /\ ChunkBegin(next) < ChunkEnd(next)
    /\ next' = next + ChunkSize
    /\ given' = given \cup {Chunk(next)}
    /\ busy' = [busy EXCEPT ![w] = "chunk"]
    /\ cur' = [cur EXCEPT ![w] = [begin |-> ChunkBegin(next), end |-> ChunkEnd(next)]]
    /\ UNCHANGED file

Mutant_NextSkips(w) ==
    /\ busy[w] = "next"
    /\ next < total
    /\ ~(ChunkBegin(next) < ChunkEnd(next))
    /\ UNCHANGED vars

(* All of [s, s + ChunkSize) belongs to the chunk before: next() loops. *)
NextSkips(w) ==
    /\ busy[w] = "next"
    /\ next < total
    /\ ~(ChunkBegin(next) < ChunkEnd(next))
    /\ next' = next + ChunkSize
    /\ UNCHANGED <<file, given, busy, cur>>

(* The worker has processed its chunk and calls next() again. *)
CallNext(w) ==
    /\ busy[w] = "chunk"
    /\ busy' = [busy EXCEPT ![w] = "next"]
    /\ UNCHANGED <<file, next, given, cur>>

AllDone == \A w \in Workers : busy[w] = "done"

Step(w) == NextExhausted(w) \/ NextGives(w) \/ NextSkips(w) \/ CallNext(w)

(* Every worker thread has ended; the caller joins them. *)
Joined == AllDone /\ UNCHANGED vars

Next == (\E w \in Workers : Step(w)) \/ Joined

Spec == Init /\ [][Next]_vars
-----------------------------------------------------------------------------
(* Type invariant. *)
TypeOK ==
    /\ total \in 0 .. MaxTotal
    /\ text \in [0 .. total - 1 -> Bytes]
    /\ next \in Nat
    /\ given \subseteq [s : Nat, begin : Nat, end : Nat]
    /\ busy \in [Workers -> {"next", "chunk", "done"}]
    /\ cur \in [Workers -> [begin : Nat, end : Nat]]

(* Chunks never overlap, whatever the file holds and however the workers    *)
(* interleave, when Lookahead <= ChunkSize, as in every tool.               *)
Disjoint ==
    Lookahead <= ChunkSize =>
        \A c, d \in given : c # d => c.end <= d.begin \/ d.end <= c.begin

(* The strengthening under which Disjoint is inductive: a chunk is cut from *)
(* a counter value that was fetched, and no two fetched values are less     *)
(* than a chunk apart.                                                      *)
CutInv ==
    /\ \A c \in given : c = Chunk(c.s) /\ c.s < total /\ c.s + ChunkSize <= next
    /\ \A c, d \in given : c.s < d.s => c.s + ChunkSize <= d.s

(* The counter takes multiples of the chunk size; each one it has passed    *)
(* was cut, unless its chunk is empty; a worker ends behind the file.       *)
Multiple(x) == \E k \in 0 .. x : x = ChunkSize * k
FetchInv ==
    /\ Multiple(next) /\ \A c \in given : Multiple(c.s)
    /\ \A s \in 0 .. total - 1 :
          Multiple(s) /\ s < next => Chunk(s) \in given \/ ~(ChunkBegin(s) < ChunkEnd(s))
    /\ \A w \in Workers : busy[w] = "done" => next >= total

IInv == TypeOK /\ CutInv /\ FetchInv

(* The counter values inside the file: where it may be cut. *)
Borders == {e \in 1 .. total - 1 : e % ChunkSize = 0}

(* The bytes from e on that the code looks at for both edges. *)
Reach(e) == AtMost(total - e, AtMost(Lookahead, ChunkSize))

(* No line outruns the allocator: from every border the code sees the next  *)
(* newline, or the end of the file.                                         *)
ShortLines == \A e \in Borders : Newlines(e, Reach(e)) # {} \/ Reach(e) = total - e

(* A last line without a newline lies between two borders.  The code finds  *)
(* no newline behind a border inside it and cuts it there, however short it *)
(* is.                                                                      *)
LastLineWhole == \A e \in Borders : Newlines(e, total - e) # {} \/ text[e - 1] = NL

(* "every line of the file falls into exactly one chunk": chunks start and  *)
(* end at line boundaries as long as the lines are short and no border lies *)
(* inside an unterminated last line (next()).                               *)
LineAligned ==
    ShortLines /\ LastLineWhole =>
        \A c \in given : /\ c.begin = 0 \/ text[c.begin - 1] = NL
                         /\ c.end = total \/ text[c.end - 1] = NL

InChunks(i) == \E c \in given : c.begin <= i /\ i < c.end

(* With short lines no byte is lost: when the workers have ended, the       *)
(* chunks are the whole file.                                               *)
Covered ==
    ShortLines /\ AllDone => \A i \in 0 .. total - 1 : InChunks(i)
=============================================================================
