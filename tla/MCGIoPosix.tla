---------------------------- MODULE MCGIoPosix ----------------------------
(* The hooks on small instances. *)
EXTENDS GIoPosix, TLC

(* One byte back, in place, and past the end of every file. *)
MCOffsets == {-1, 0, 3}

(* What transparency asks of the descriptors and the offsets holds here. *)
ASSUME InstanceFits == KernelBelow /\ OffsetsFit

Sym == Permutations(Threads) \cup Permutations(Paths) \cup Permutations(Addrs)
=============================================================================
