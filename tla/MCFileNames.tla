------------------------------ MODULE MCFileNames ------------------------------
(***************************************************************************)
(* Instances of DirListing and FileNames for TLC: four entries in a        *)
(* sector, three characters in a long entry.                               *)
(***************************************************************************)
EXTENDS FileNames

MCFile(name, size, first_cluster) ==
  [name |-> name, is_dir |-> FALSE, size |-> size, first_cluster |-> first_cluster]
MCDir(name, first_cluster) ==
  [name |-> name, is_dir |-> TRUE, size |-> 64, first_cluster |-> first_cluster]

\* Names of one character, of one and of two full long entries, of one character
\* more, the longest whose entries are one more than a sector has, and one that has
\* two more, as names of 209 to 221 characters have in the program; with dots in
\* front and inside, blanks, a percent sign and characters beyond ASCII.
MCEntryMetaData ==
  {MCDir(<<97>>, 3),
   MCFile(<<46, 233, 66>>, 0, 65535),
   MCFile(<<37, 52, 49>>, 1, 4),
   MCFile(<<98, 32, 46, 99>>, 70000, 65536),
   MCFile(<<97, 46, 98, 46, 99, 46>>, 70000, 5),
   MCDir(<<8364, 32, 97, 98, 99, 100, 101, 102, 46, 46, 116, 120>>, 200000),
   MCFile([k \in 1 .. 13 |-> 96 + k], 2, 6)}

\* The directory lies two levels below the root.
MCParentNames == <<<<228, 98>>, <<65, 32>>>>

================================================================================
