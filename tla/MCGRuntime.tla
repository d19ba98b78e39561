---------------------------- MODULE MCGRuntime ----------------------------
(* GRuntime on small instances: the values its configurations use. *)
EXTENDS GRuntime, TLC

(* A step back, in place, and past the end of every file. *)
MCOffsets == {-1, 0, 3}

(* The threads, the paths and the addresses are interchangeable. *)
Sym == Permutations(Threads) \cup Permutations(Paths) \cup Permutations(Addrs)
=============================================================================
