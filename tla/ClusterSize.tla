----------------------------- MODULE ClusterSize -----------------------------
(***************************************************************************)
(* What the tree of dbfat.c and the allocator of cluster.c share: the size *)
(* of a cluster, and how many of them hold a number of bytes.              *)
(***************************************************************************)
EXTENDS Integers

CONSTANT BYTES_PER_CLUSTER

\* Mutant: an empty chain may have no cluster.
ClustersForEmpty(bytes) == (bytes + BYTES_PER_CLUSTER - 1) \div BYTES_PER_CLUSTER

\* The clusters of a chain for this many bytes: one at least.
ClustersFor(bytes) ==
  IF bytes = 0 THEN 1
  ELSE (bytes + BYTES_PER_CLUSTER - 1) \div BYTES_PER_CLUSTER

================================================================================
