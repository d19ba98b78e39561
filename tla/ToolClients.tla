----------------------------- MODULE ToolClients -----------------------------
(***************************************************************************)
(* Callers of g_grep and g_strings (Pipeline) behind the C ABI: the Python *)
(* bindings (bindings/python/g_grep.py and g_strings.py), the command line *)
(* tools (g_grep_cli.cpp, g_strings_cli.cpp) and the Rust functions (gcore,*)
(* src/lib.rs).  Each takes the g_result, copies what it needs and frees   *)
(* the arena; Python and the command line give up when there is no data.   *)
(* The counting calls return a number and no g_result.                     *)
(***************************************************************************)
EXTENDS Pipeline

CAbi == INSTANCE CAbi

VARIABLES
    client,   \* "python", "cli", "rust" or "count"
    stage,    \* "tool", "got", "decoded", "over", or "failed" without a value
    raw,      \* the g_result
    arena,    \* the FlatArena on the heap
    read,     \* how much of the buffer the caller has read
    value     \* what it returns or prints

clientVars == <<client, stage, raw, arena, read, value>>
allVars    == <<pipeVars, clientVars>>

Wrapped == {"grep", "strings"}   \* the tools with these callers

ClientInit ==
    /\ PipeInit
    /\ client = "none" /\ stage = "tool"
    /\ raw = CAbi!NullResult /\ arena = "none"
    /\ read = 0 /\ value = <<>>

(* The bytes of a line. *)
Line(r) == [i \in 1 .. r.len |-> text[r.offset + i - 1]]

(* The arena: the lines of g_grep as C strings, or the records. *)
Buffer ==
    IF tool = "grep"
    THEN FlattenSeq([i \in 1 .. Len(result.recs) |-> Line(result.recs[i]) \o <<Zero>>])
    ELSE result.recs

(* g_grep or g_strings returns. *)
Receive ==
    /\ stage = "tool" /\ result.done /\ tool \in Wrapped
    /\ client' \in {"python", "cli", "rust"}
    /\ raw' = CAbi!GResult(result.ok, Len(Buffer), result.count)
    /\ arena' = CAbi!ArenaOf(raw')
    /\ stage' = "got"
    /\ UNCHANGED <<pipeVars, read, value>>

(* g_grep_count or g_strings_count returns: the count, or -1. *)
Count ==
    /\ stage = "tool" /\ result.done /\ tool \in Wrapped
    /\ client' = "count"
    /\ value' = <<IF result.ok THEN result.count ELSE -1>>
    /\ stage' = "over"
    /\ UNCHANGED <<pipeVars, raw, arena, read>>

(* "not res.data", "res.count == 0" or "!r.data". *)
NoData ==
    \/ client # "rust" /\ ~raw.data
    \/ client = "python" /\ tool = "strings" /\ raw.count = 0

(* An early return, without g_result_free; the command line tools say that  *)
(* the file could not be opened.                                            *)
GiveUp ==
    /\ stage = "got" /\ NoData
    /\ stage' = "over"
    /\ UNCHANGED <<pipeVars, client, raw, arena, read, value>>

(* The C strings in a buffer that ends with a NUL. *)
CStrings(buf) ==
    LET ends == Ordered({i \in DOMAIN buf : buf[i] = Zero})
    IN  [k \in 1 .. Len(ends) |->
            SubSeq(buf, IF k = 1 THEN 1 ELSE ends[k - 1] + 1, ends[k] - 1)]

Mutant_Extent == raw.size - 1

(* How much is read: string_at(data, count * 16) of the Python strings(),   *)
(* otherwise the size.                                                      *)
Extent == IF client = "python" /\ tool = "strings" THEN raw.count ELSE raw.size

(* Python drops empty strings; what lies behind the buffer is junk. *)
Decoded ==
    LET buf == [i \in 1 .. Extent |-> IF i <= Len(Buffer) THEN Buffer[i] ELSE "junk"]
    IN  CASE tool = "strings" -> buf
          [] tool = "grep" /\ client # "python" -> CStrings(buf)
          [] tool = "grep" /\ client = "python" ->
                 LET lines == CStrings(buf)
                 IN  Select(lines, {k \in DOMAIN lines : lines[k] # <<>>})

Decode ==
    /\ stage = "got" /\ ~NoData
    /\ read' = Extent
    /\ value' = Decoded
    /\ stage' = "decoded"
    /\ UNCHANGED <<pipeVars, client, raw, arena>>

Mutant_Free ==
    /\ stage = "decoded"
    /\ raw' = CAbi!FreedResult
    /\ arena' = IF client = "python" THEN CAbi!AfterFree(raw, arena) ELSE arena
    /\ stage' = "over"
    /\ UNCHANGED <<pipeVars, client, read, value>>

Free ==
    /\ stage = "decoded"
    /\ raw' = CAbi!FreedResult
    /\ arena' = CAbi!AfterFree(raw, arena)
    /\ stage' = "over"
    /\ UNCHANGED <<pipeVars, client, read, value>>

(* g-strings prints from a mapping of its own and cannot map the file. *)
FileGone ==
    /\ stage = "got" /\ ~NoData
    /\ client = "cli" /\ tool = "strings"
    /\ raw' = CAbi!FreedResult
    /\ arena' = CAbi!AfterFree(raw, arena)
    /\ stage' = "failed"
    /\ UNCHANGED <<pipeVars, client, read, value>>

CallOver == IF tool \in Wrapped THEN stage \in {"over", "failed"} ELSE result.done
Over     == CallOver /\ UNCHANGED allVars

ClientStep == Receive \/ Count \/ GiveUp \/ Decode \/ Free \/ FileGone

ClientNext ==
    \/ PipeStep /\ UNCHANGED clientVars
    \/ ClientStep
    \/ Over

ClientSpec == ClientInit /\ [][ClientNext]_allVars

(* The scheduler lets some thread of the process go on while one can.  That *)
(* is enough: no thread waits for another by looping.                       *)
FairClientSpec == ClientSpec /\ WF_allVars(ClientNext)
-----------------------------------------------------------------------------
(* Reference: the lines as they stand in the file; none holds a NUL. *)
Lines   == [i \in 1 .. Len(result.recs) |-> Line(result.recs[i])]
NoZeros == \A r \in ToSet(result.recs) : Zero \notin ToSet(Line(r))

(* The caller ends up with the tool's records: the lines as they stand in   *)
(* the file, if they hold no NUL, or the records, and reads no byte beyond  *)
(* them; a count is their number.  Where a record was lost the Python       *)
(* strings() goes by the count and reads too far, and a count is too large; *)
(* the other callers go by the size.                                        *)
ClientExact ==
    stage \in {"decoded", "over"} /\ (Complete \/ client \in {"cli", "rust"}) =>
        /\ read <= Len(Buffer)
        /\ CASE client = "count" -> value = <<IF result.ok THEN Len(result.recs) ELSE -1>>
             [] client # "count" /\ tool = "strings" -> value = result.recs
             [] client # "count" /\ tool = "grep" -> NoZeros => value = Lines

(* No buffer is lost: every caller that got data frees the arena, also when *)
(* it could not use the data, and one that gave up without g_result_free    *)
(* leaves no more than the empty FlatArena of an answer without data        *)
(* behind; Rust leaves nothing.                                             *)
BuffersFreed ==
    stage \in {"over", "failed"} =>
        \/ arena = "none"
        \/ arena = "object" /\ client # "rust" /\ result.ok /\ result.recs = <<>>

(* The strengthening under which the callers are right: the g_result and    *)
(* the arena are what the answer made them until they are given back, and   *)
(* nothing is read or returned before the buffer is decoded.                *)
ClientInv ==
    /\ stage = "tool" => arena = "none"
    /\ stage # "tool" => result.done /\ tool \in Wrapped
    /\ stage \in {"tool", "got"} => read = 0 /\ value = <<>>
    /\ stage \in {"got", "decoded"} =>
          /\ client \in {"python", "cli", "rust"}
          /\ raw = CAbi!GResult(result.ok, Len(Buffer), result.count)
          /\ arena = CAbi!ArenaOf(raw)

ClientIInv == PipeIInv /\ ClientInv

(* Every call returns: next() passes the end of the file for every worker,  *)
(* the workers are joined, merged, and the caller is through.               *)
CallReturns == <>CallOver
=============================================================================
