----------------------------- MODULE MCAnalyze -----------------------------
(* The block tools on all files of at most MaxTotal bytes. *)
EXTENDS AnalyzeClient

(* No size, and sizes below, at and above the smallest ones. *)
MCBlockArgs == {-1, 1, 2, 3}

(* Header fields inside a file of 5 units, at its end and beyond. *)
MCImages ==
    [kind : {"elf"}, size : {1, 5}, shoff : 0 .. 6, entsize : 0 .. 2, num : {0, 1, 3},
     strndx : {0, 3}, off : {0, 4, 5, 6}, sz : {0, 1, 6}, name : {0, 1},
     len : {1, 3}]
      \cup [kind : {"pe"}, size : {1, 5}, lfanew : 0 .. 7, opt : 0 .. 2, signed : BOOLEAN,
            num : 0 .. 2, off : {0, 4, 5, 6}, sz : {0, 1, 6}]
      \cup [kind : {"other"}, size : {1, 5}, num : {0}]
=============================================================================
