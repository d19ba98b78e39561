------------------------------ MODULE Sorting ------------------------------
(***************************************************************************)
(* std::sort by offset, as the tools apply it to the records of their      *)
(* common arena.  A record goes behind the ones with a smaller offset;     *)
(* equal offsets, which std::sort may leave in any order, keep theirs.     *)
(***************************************************************************)
EXTENDS Integers, FiniteSets, Sequences

(* Does record i of s go before record j? *)
Before(s, i, j) ==
    s[i].offset < s[j].offset \/ (s[i].offset = s[j].offset /\ i < j)

(* The number of records that go before record j. *)
Rank(s, j) == Cardinality({i \in DOMAIN s : Before(s, i, j)})

SortedByOffset(s) ==
    [k \in 1 .. Len(s) |-> s[CHOOSE j \in DOMAIN s : Rank(s, j) = k - 1]]

(* The numbers of a set, from the least one on. *)
Ordered(S) ==
    [k \in 1 .. Cardinality(S) |-> CHOOSE x \in S : Cardinality({y \in S : y < x}) = k - 1]
=============================================================================
