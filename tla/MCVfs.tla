------------------------------- MODULE MCVfs -------------------------------
(* Short paths over every character that Vfs treats in a way of its own. *)
EXTENDS Vfs

MCConfigs ==
    {[platform |-> "Linux", root |-> <<>>],
     [platform |-> "Linux", root |-> <<"/", "x", "/">>],
     [platform |-> "Vita",  root |-> <<"x", ":">>],
     [platform |-> "Vita",  root |-> <<"X", "d", "/">>],
     [platform |-> "Vita",  root |-> <<>>],
     [platform |-> "Win32", root |-> <<"\\", "X">>]}

MCChar == {"/", "\\", ":", "x", "X", "d"}

(* The longer ones: in a directory, under a root, behind a drive or "//". *)
MCInputs ==
    BoundedSeq(MCChar \ {"d"}, 2)
      \cup {<<"/", "d", "/", "x">>, <<"d", "/", "x">>, <<"/", "x", "/", "x">>, <<"/", "/", "x">>,
            <<"x", ":", "x">>, <<"x", ":", "X">>, <<"X", "d", "/", "x">>,
            <<"\\", "X", "x">>, <<"\\", "X", "X">>}

(* The root directory and one below it. *)
MCDirs == {<<>>, <<"/", "d">>}

MCExisting == {<<"/", "x">>, <<"/", "X">>, <<"/", "d", "/", "x">>, <<"/", "\\">>}
=============================================================================
