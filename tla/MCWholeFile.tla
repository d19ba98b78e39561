---------------------------- MODULE MCWholeFile ----------------------------
(* One call of a tool that takes a file as a whole instead of in chunks:    *)
(* g_scan, or a block tool called from Rust.  The two share no state, so    *)
(* each runs while the other has nothing to do.                             *)
EXTENDS MCGScan, MCAnalyze

VARIABLE tool   \* the one that is called

(* An idle scan: an empty file.  An idle block tool: not opened yet. *)
NoScan == total = 0 /\ patterns = <<<<0>>, <<0>>>> /\ ScanInit
NoCall == req = [op |-> "recon", block |-> 1] /\ a = <<>> /\ ClientInit

WholeInit ==
    \/ tool = "g_scan" /\ NoCall /\ ScanInit
    \/ tool = "analyze" /\ NoScan /\ ClientInit

WholeNext ==
    \/ tool = "g_scan" /\ ScanNext /\ UNCHANGED <<tool, vars, clientVars>>
    \/ tool = "analyze" /\ ClientNext /\ UNCHANGED <<tool, scanVars>>

WholeSpec == WholeInit /\ [][WholeNext]_<<tool, scanVars, vars, clientVars>>
=============================================================================
