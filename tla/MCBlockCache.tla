----------------------------- MODULE MCBlockCache -----------------------------
(***************************************************************************)
(* Instances of BlockCache for TLC.  A block has two units.  The file "a"  *)
(* has two blocks, the second one partial; the file "b" has one.           *)
(***************************************************************************)
EXTENDS BlockCache, TLC

MCFiles == {"a", "b"}
MCFileSize == [f \in MCFiles |-> IF f = "a" THEN 3 ELSE 1]

\* Every file of any set of files has two blocks.
MCLongFilesSize == [f \in Files |-> 2 * CACHE_BLOCK_SIZE]

ThreadSymmetry == Permutations(Readers) \cup Permutations(Fetchers)

=============================================================================
