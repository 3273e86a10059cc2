------------------------------- MODULE MCDirTree -------------------------------
(***************************************************************************)
(* Instances of DirTree for TLC.                                           *)
(***************************************************************************)
EXTENDS DirTree

\* Names whose entries fill a cluster of four exactly.
MCFillingEntries == [name \in {"a", "b", "c"} |-> 2]

\* The names of one directory only.
MCFlatPaths == {<<"a">>, <<"b">>, <<"c">>}

================================================================================
