--------------------------- MODULE MCToolClients ---------------------------
(* The tools and their callers on every file of at most MaxTotal bytes. *)
EXTENDS ToolClients, MCPipeline
=============================================================================
