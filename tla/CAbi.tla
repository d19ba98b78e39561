-------------------------------- MODULE CAbi --------------------------------
(***************************************************************************)
(* The C ABI between the tools and the bindings (core/include/gcore/       *)
(* c_abi.h): a tool that succeeded moves its arena into a FlatArena on the *)
(* heap and returns a g_result that points to it; a tool that failed       *)
(* returns zeros.  The caller gives the arena back with g_result_free.     *)
(***************************************************************************)
EXTENDS Integers, Sequences

(* A g_result: owner is the FlatArena, if any; data says whether it has a   *)
(* buffer; size is what the buffer holds, in records.                       *)
NullResult == [owner |-> FALSE, data |-> FALSE, size |-> 0, count |-> 0]

(* g_strings, g_grep, g_diff and the others: an answer of no bytes has an   *)
(* owner and no buffer, since reserve(0) allocates nothing.                 *)
GResult(ok, size, count) ==
    IF ok THEN [owner |-> TRUE, data |-> size > 0, size |-> size, count |-> count]
    ELSE NullResult

(* The FlatArena on the heap behind a new g_result. *)
Arenas == {"none", "object", "buffer"}
ArenaOf(res) == IF ~res.owner THEN "none" ELSE IF res.data THEN "buffer" ELSE "object"

(* g_result_free, and the arena after it: ~FlatArena frees the buffer. *)
FreedResult == NullResult
AfterFree(res, arena) == IF res.owner THEN "none" ELSE arena
=============================================================================
