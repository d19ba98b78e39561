----------------------------- MODULE MCPipeline -----------------------------
(* The tools on every file of at most MaxTotal bytes. *)
EXTENDS Pipeline

CONSTANTS ByteA, ByteB   \* two printable bytes

(* "ab" is looked for by g_grep. *)
MCNeedle == <<ByteA, ByteB>>
(* A string of three bytes or more that mixes both is filtered out; one     *)
(* with zeros in it, as in UTF-16, is not.                                  *)
MCDense(bytes) == ToSet(bytes) = {ByteA, ByteB} /\ Len(bytes) > 2
(* max_entropy < 0: the filter is off. *)
MCNotDense(bytes) == FALSE
=============================================================================
