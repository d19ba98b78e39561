---------------------------- MODULE MCHookEntry ----------------------------
(* What a hook does before it reaches the runtime: find the libc function   *)
(* it replaces (RealInit), find the key of the path it was given (Vfs).     *)
(* The two share no state, so each runs while the other stands still.       *)
EXTENDS RealInit, MCVfs, TLC

VARIABLE part   \* the one that runs

(* An idle Vfs: no call yet. *)
NoPath == Hooked /\ cwd = <<>>

EntryInit ==
    /\ RealBegin /\ Init
    /\ \/ part = "real" /\ NoPath
       \/ part = "path"

EntryNext ==
    \/ part = "real" /\ RealNext /\ UNCHANGED <<part, vars>>
    \/ part = "path" /\ Next /\ UNCHANGED <<part, realVars>>

EntrySpec == EntryInit /\ [][EntryNext]_<<part, realVars, vars>>

Sym == Permutations(Threads)
=============================================================================
