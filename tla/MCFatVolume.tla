------------------------------ MODULE MCFatVolume ------------------------------
(***************************************************************************)
(* Instances of FatVolume for TLC.                                         *)
(***************************************************************************)
EXTENDS FatVolume

MCPaths == {<<"a">>, <<"b">>, <<"a", "b">>, <<"a", "b", "a">>}
MCEntries == {<<>>} \cup MCPaths
MCRoot == <<>>

\* What the chains are asked for: the sizes of files, and those of directories.
MCSizes == FileSizes \cup 0 .. MaxDirSize

\* Entries that do not fill a cluster exactly.
MCEntrySize == [name \in {"a", "b"} |-> 3]

================================================================================
