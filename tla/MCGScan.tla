------------------------------ MODULE MCGScan ------------------------------
(* g_scan on all lists of two short patterns, lists with an empty one among *)
(* others, and all short files.                                             *)
EXTENDS GScan

MCStrings(n) == UNION {[1 .. k -> {0, 1}] : k \in 1 .. n}

Plain == {<<p, q>> : p \in MCStrings(3), q \in MCStrings(2)}
(* An empty pattern before, and between, others. *)
MCPairs == [1 .. 2 -> {0, 1}]
Holed == {<<<<>>, q>> : q \in MCPairs}
           \cup {<<<<>>, p, q>> : p \in MCStrings(1), q \in MCPairs}
           \cup {<<p, <<>>, q>> : p \in MCStrings(1), q \in MCPairs}
MCLists == Plain \cup Holed
(* Two patterns with different first bytes. *)
MCTwoFirst == {<<<<0, 1>>, <<1, 1>>>>}
=============================================================================
