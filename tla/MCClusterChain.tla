---------------------------- MODULE MCClusterChain ----------------------------
(***************************************************************************)
(* Instances of ClusterChain for TLC.                                      *)
(***************************************************************************)
EXTENDS ClusterChain

\* One size for every number of clusters up to three, and none.
MCSizes == {0} \cup {n * BYTES_PER_CLUSTER : n \in 1 .. 3}

=============================================================================
