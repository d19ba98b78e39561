------------------------------- MODULE GScan -------------------------------
(***************************************************************************)
(* g_scan (tools/g-scan/g_scan.cpp): one pass of an Aho-Corasick automaton *)
(* over a file, behind a gate that skips whole blocks in which no pattern  *)
(* can begin.  A node of the trie is the string that leads to it, so the   *)
(* root, node 0, is <<>>; a missing transition (-1) is one that HasNext    *)
(* denies.  Bytes are numbers: the gate takes the first bytes in order.    *)
(***************************************************************************)
EXTENDS Sorting, SequencesExt

CONSTANTS
    ByteValues,  \* byte values, a set of numbers
    Lists,       \* the pattern lists a caller may pass
    Block,       \* bytes per SIMD step (64)
    Lanes,       \* first bytes compared with the first half of a block (32)
    Avx2,        \* built with AVX2?
    MaxText      \* bound: size of the largest file

ASSUME GScanAssumption ==
    /\ ByteValues \subseteq Nat
    /\ \A l \in Lists : l \in Seq(Seq(ByteValues))
    /\ Block \in Nat \ {0} /\ Block % 2 = 0
    /\ Lanes \in Nat /\ Avx2 \in BOOLEAN /\ MaxText \in Nat

VARIABLES
    patterns,  \* the caller's patterns
    text,      \* base: the bytes of the file, from offset 0
    total,     \* its size
    pos,       \* next byte the automaton reads
    upto,      \* end of the block let through the gate
    state,     \* the automaton's node
    out        \* records emitted: [offset, pattern]

scanVars == <<patterns, text, total, pos, upto, state, out>>
input == <<patterns, text, total>>
-----------------------------------------------------------------------------
(* add_pattern for every pattern but the empty ones. *)

Added == {i \in DOMAIN patterns : patterns[i] # <<>>}
Nodes == {<<>>} \cup UNION {{SubSeq(patterns[i], 1, n) : n \in 1 .. Len(patterns[i])} : i \in Added}

HasNext(u, c) == u = <<>> \/ Append(u, c) \in Nodes
GoTo(u, c)    == IF Append(u, c) \in Nodes THEN Append(u, c) ELSE <<>>

(* The nodes on the chain of fail links from u. *)
Links(fail, u) ==
    LET back[k \in 0 .. Len(u)] == IF k = 0 THEN u ELSE fail[back[k - 1]]
    IN  back

(* The first of them where c has a transition. *)
Fallback(fail, u, c) ==
    LET back == Links(fail, u)
    IN  back[CHOOSE k \in 0 .. Len(u) : /\ HasNext(back[k], c)
                                        /\ \A j \in 0 .. k - 1 : ~HasNext(back[j], c)]

Mutant_Fails ==
    LET fail[u \in Nodes] ==
          IF Len(u) <= 1 THEN <<>>
          ELSE GoTo(fail[Front(u)], Last(u))
    IN  fail

(* build(): breadth first, so the fail link of a parent is known. *)
Fails ==
    LET fail[u \in Nodes] ==
          IF Len(u) <= 1 THEN <<>>
          ELSE LET f == Fallback(fail, fail[Front(u)], Last(u))
               IN  IF GoTo(f, Last(u)) # u THEN GoTo(f, Last(u)) ELSE <<>>
    IN  fail

(* pat_len has one entry per added pattern, in the order of adding; the     *)
(* scan indexes it by the number of the pattern in the caller's list.  An   *)
(* index past its end reads whatever is there.                              *)
PatLens(i) ==
    LET order == Ordered(Added)
    IN  IF i <= Len(order) THEN {Len(patterns[order[i]])} ELSE 0 .. MaxText

Mutant_Outputs(u) ==
    Reverse(Ordered({Cardinality({j \in Added : j <= i}) : i \in {k \in Added : patterns[k] = u}}))

(* The outputs of a node: its patterns, the one added last first. *)
Outputs(u) == Reverse(Ordered({i \in Added : patterns[i] = u}))

(* The node and the nodes on its fail chain, without the root. *)
Chain(u) ==
    LET back == Links(Fails, u)
        n == CHOOSE k \in 0 .. Len(u) : back[k] = <<>> /\ \A j \in 0 .. k - 1 : back[j] # <<>>
    IN  [k \in 1 .. n |-> back[k - 1]]

Matched(u) == FlattenSeq([j \in 1 .. Len(Chain(u)) |-> Outputs(Chain(u)[j])])
-----------------------------------------------------------------------------
(* SkipFilter: the distinct first bytes, in ascending order. *)
Uniq == Ordered({Head(patterns[i]) : i \in Added})

(* The first bytes looked for in the first and in the second half of a      *)
(* block.  The AVX2 build compares at most Lanes of them with the first     *)
(* half and, when there are more, only the others with the second.          *)
FirstBytes(half) ==
    IF ~Avx2 THEN ToSet(Uniq)
    ELSE CASE half = 1 -> {Uniq[j] : j \in {k \in DOMAIN Uniq : k <= Lanes}}
           [] half = 2 -> {Uniq[j] : j \in {k \in DOMAIN Uniq : Len(Uniq) > Lanes => k > Lanes}}

Mutant_Closed(p) ==
    \A i \in 0 .. Block - 1 : text[p + i] \notin FirstBytes(IF i < Block \div 2 THEN 1 ELSE 2)

(* The gate of the block at p: no first byte in it, and no partial match. *)
Closed(p) ==
    /\ \A i \in 0 .. Block - 1 : text[p + i] \notin FirstBytes(IF i < Block \div 2 THEN 1 ELSE 2)
    /\ state = <<>>
-----------------------------------------------------------------------------
ScanInit ==
    /\ patterns \in Lists
    /\ total \in 0 .. MaxText
    /\ text \in [0 .. total - 1 -> ByteValues]
    /\ pos = 0 /\ upto = 0 /\ state = <<>> /\ out = <<>>

SkipBlock ==
    /\ pos = upto /\ pos + Block <= total /\ Closed(pos)
    /\ pos' = pos + Block /\ upto' = pos + Block
    /\ UNCHANGED <<input, state, out>>

EnterBlock ==
    /\ pos = upto /\ pos + Block <= total /\ ~Closed(pos)
    /\ upto' = pos + Block
    /\ UNCHANGED <<input, pos, state, out>>

(* The automaton reads one byte and emits a record per output: the offset   *)
(* of the match is a uint64_t, found from the length of the pattern (a      *)
(* negative number stands for one that wrapped).                            *)
Feed ==
    LET u == GoTo(Fallback(Fails, state, text[pos]), text[pos])
        hits == Matched(u)
    IN  /\ state' = u
        /\ \E len \in [1 .. Len(hits) -> UNION {PatLens(hits[j]) : j \in 1 .. Len(hits)}] :
             /\ \A j \in 1 .. Len(hits) : len[j] \in PatLens(hits[j])
             /\ out' = out \o [j \in 1 .. Len(hits) |->
                                 [offset |-> pos - (len[j] - 1), pattern |-> hits[j]]]
        /\ pos' = pos + 1

BlockByte == pos < upto /\ Feed /\ UNCHANGED <<input, upto>>

TailByte ==
    /\ pos = upto /\ pos + Block > total /\ pos < total
    /\ Feed /\ upto' = pos + 1 /\ UNCHANGED input

Finished == pos = total /\ UNCHANGED scanVars

ScanNext == SkipBlock \/ EnterBlock \/ BlockByte \/ TailByte \/ Finished

ScanSpec == ScanInit /\ [][ScanNext]_scanVars
-----------------------------------------------------------------------------
(* Reference: every occurrence of every pattern in the first n bytes. *)
Occurred(n) ==
    {[offset |-> oi[1], pattern |-> oi[2]] : oi \in
        {oi \in (0 .. n - 1) \X Added :
            /\ oi[1] + Len(patterns[oi[2]]) <= n
            /\ \A j \in 1 .. Len(patterns[oi[2]]) : text[oi[1] + j - 1] = patterns[oi[2]][j]}}
Occurrences == Occurred(total)

(* The patterns whose length is looked up at the right place of pat_len. *)
Located == {i \in Added : 1 .. i \subseteq Added}
Of(I, records) == {r \in records : r.pattern \in I}
Reports(i)     == Cardinality({j \in DOMAIN out : out[j].pattern = i})

(* "g_scan: all matches are found (equality with the naive search), without *)
(* duplicates" (tests/fuzz_api.cpp:11): overlapping matches, a match inside *)
(* another one and matches across block borders included.  The patterns     *)
(* after an empty one are left out: their offsets are not determined.       *)
ScanExact ==
    pos = total =>
        /\ Of(Located, ToSet(out)) = Of(Located, Occurrences)
        /\ Len(out) = Cardinality(Occurrences)

(* An empty pattern in the caller's list displaces the offsets of the ones  *)
(* after it and nothing else: every pattern, by its number in that list, is *)
(* reported once for each of its occurrences (run_scan's loop over the      *)
(* patterns and pat_len).                                                   *)
CountsExact ==
    pos = total =>
        \A i \in DOMAIN patterns : Reports(i) = Cardinality(Of({i}, Occurrences))

(* The bytes read so far, and the last n elements of s. *)
Read      == [j \in 1 .. pos |-> text[j - 1]]
End(s, n) == [j \in 1 .. n |-> s[Len(s) - n + j]]

(* The node u is what s ends with; no longer node is. *)
EndOf(s, u) == u \in Nodes /\ Len(u) <= Len(s) /\ u = End(s, Len(u))
LongestEnd(s, u) ==
    EndOf(s, u) /\ \A n \in 0 .. Len(s) : End(s, n) \in Nodes => n <= Len(u)

(* The strengthening under which the scan is exact: what was emitted is     *)
(* exact for the bytes read so far; and between blocks the automaton is at  *)
(* the longest end of the text that begins a pattern, so nothing that a     *)
(* skipped block might complete is forgotten.                               *)
ScanTypeOK ==
    /\ patterns \in Lists /\ total \in Nat /\ text \in [0 .. total - 1 -> ByteValues]
    /\ pos \in 0 .. total /\ upto \in pos .. total
    /\ out \in Seq([offset : Int, pattern : Added])

Emitted ==
    /\ Of(Located, Occurred(pos)) \subseteq ToSet(out)
    /\ Len(out) = Cardinality(Occurred(pos))
    /\ \A i \in DOMAIN patterns : Reports(i) = Cardinality(Of({i}, Occurred(pos)))

(* The gate looks for every first byte in both halves of a block. *)
Sees == ~Avx2 \/ Len(Uniq) <= Lanes

ScanIInv ==
    /\ ScanTypeOK
    /\ EndOf(Read, state) /\ Of(Located, ToSet(out)) \subseteq Occurred(pos)
    /\ Sees => LongestEnd(Read, state) /\ Emitted
=============================================================================
