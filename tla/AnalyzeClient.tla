--------------------------- MODULE AnalyzeClient ---------------------------
(***************************************************************************)
(* A call of a block tool (Analyze) from Rust, through bindings/rust/gcore *)
(* (src/lib.rs): the g_result is wrapped in a RawResult, decoded into the  *)
(* value the function returns, and freed when the RawResult is dropped.    *)
(***************************************************************************)
EXTENDS Analyze

CAbi == INSTANCE CAbi

VARIABLES
    raw,     \* RawResult.inner
    arena,   \* the FlatArena on the heap
    stage,   \* "tool", "wrapped", "decoded" or "dropped"
    value    \* what the Rust function returns: [some, recs, blocks]

clientVars == <<raw, arena, stage, value>>

NoValue == [some |-> FALSE, recs |-> <<>>, blocks |-> <<>>]

ClientInit ==
    /\ Init
    /\ raw = CAbi!NullResult /\ arena = "none" /\ stage = "tool" /\ value = NoValue

(* The bytes of the arena, record by record.  g_recon's buffer is           *)
(* [header][hist][entropy][strings]; hist is one entry here.                *)
Flat ==
    IF req.op = "recon" /\ result.ok /\ a # <<>>
    THEN <<[n_hist |-> 1, n_entropy |-> Len(result.blocks), n_strings |-> result.count], "hist">>
         \o result.blocks \o result.recs
    ELSE result.recs

ToolStep == stage = "tool" /\ Next /\ UNCHANGED clientVars

(* The extern "C" function returns and RawResult::from takes the g_result. *)
Wrap ==
    /\ stage = "tool" /\ pc = "done"
    /\ raw' = CAbi!GResult(result.ok, Len(Flat), result.count)
    /\ arena' = CAbi!ArenaOf(raw')
    /\ stage' = "wrapped"
    /\ UNCHANGED <<vars, value>>

is_error == ~raw.data

(* records(): what the buffer holds, whatever count says. *)
Records == IF ~raw.data \/ raw.size = 0 THEN <<>> ELSE SubSeq(Flat, 1, raw.size)

Mutant_ReconStrings(buf) == SubSeq(buf, 2 + buf[1].n_entropy, Len(buf))

(* recon(): the strings are what is left of the buffer behind the header,   *)
(* the histogram and n_entropy blocks.                                      *)
ReconStrings(buf) == SubSeq(buf, 3 + buf[1].n_entropy, Len(buf))

Some(recs, blocks) == [some |-> TRUE, recs |-> recs, blocks |-> blocks]

(* entropy_profile, diff and sections return a vector; read_bytes,          *)
(* xor_bytes and recon an Option.                                           *)
Decoded ==
    CASE req.op \in {"entropy", "diff", "sections"} -> Some(Records, <<>>)
      [] req.op = "slice" -> IF is_error THEN NoValue ELSE Some(Records, <<>>)
      [] req.op = "recon" ->
            IF is_error THEN NoValue
            ELSE Some(ReconStrings(Records), SubSeq(Records, 3, 2 + Records[1].n_entropy))

Decode ==
    /\ stage = "wrapped"
    /\ value' = Decoded
    /\ stage' = "decoded"
    /\ UNCHANGED <<vars, raw, arena>>

Mutant_Drop ==
    /\ stage = "decoded"
    /\ arena' = IF is_error THEN arena ELSE CAbi!AfterFree(raw, arena)
    /\ raw' = CAbi!FreedResult
    /\ stage' = "dropped"
    /\ UNCHANGED <<vars, value>>

(* Drop for RawResult: g_result_free. *)
Drop ==
    /\ stage = "decoded"
    /\ arena' = CAbi!AfterFree(raw, arena)
    /\ raw' = CAbi!FreedResult
    /\ stage' = "dropped"
    /\ UNCHANGED <<vars, value>>

Over == stage = "dropped" /\ UNCHANGED <<vars, clientVars>>

ClientNext == ToolStep \/ Wrap \/ Decode \/ Drop \/ Over

ClientSpec == ClientInit /\ [][ClientNext]_<<vars, clientVars>>
-----------------------------------------------------------------------------
(* What the Rust functions return is what the tool found, also when records *)
(* were lost and count or n_strings promise more than the buffer holds;     *)
(* None stands for an error or for no data at all (RawResult::records,      *)
(* read_bytes, xor_bytes, recon).                                           *)
RustExact ==
    stage \in {"decoded", "dropped"} =>
        /\ value.some => value.recs = result.recs /\ value.blocks = result.blocks
        /\ ~value.some => ~result.ok \/ (result.recs = <<>> /\ result.blocks = <<>>)
        /\ ~result.ok => value.recs = <<>> /\ value.blocks = <<>>

(* The arena is freed when the call is over, whatever it held and however   *)
(* the value was decoded (Drop for RawResult, g_result_free).               *)
RustFrees == stage = "dropped" => arena = "none" /\ raw = CAbi!NullResult

(* Until it is dropped, the RawResult is the answer of the tool and owns    *)
(* the arena.                                                               *)
ClientInv ==
    /\ stage \in {"tool", "wrapped", "decoded", "dropped"}
    /\ stage # "tool" => pc = "done"
    /\ stage \in {"wrapped", "decoded"} =>
         /\ raw = CAbi!GResult(result.ok, Len(Flat), result.count)
         /\ arena = CAbi!ArenaOf(raw)

ClientIInv == IInv /\ ClientInv /\ RustExact /\ RustFrees
=============================================================================
