------------------------------ MODULE MCDeltaSync ------------------------------
(***************************************************************************)
(* Instances of DeltaSync for TLC.                                         *)
(***************************************************************************)
EXTENDS DeltaSync

MCEntrySize == [name \in {"a", "b"} |-> 2]
MCPaths == {<<"a">>, <<"a", "a">>, <<"a", "b">>, <<"b">>, <<"b", "a", "b">>}

\* Files have one size below the root directory and any size in it.
Puts == {put \in [path : Paths, metadata : Metadata] :
           ~put.metadata.is_dir /\ put.metadata.size > 0 => Len(put.path) = 1}

\* Only what is in the root directory is ever removed.
MCRootChanges ==
  Puts \cup [path : {p \in Paths : Len(p) = 1}, metadata : {Deleted}]

\* Anything may be removed.
MCChanges == Puts \cup [path : Paths, metadata : {Deleted}]

================================================================================
