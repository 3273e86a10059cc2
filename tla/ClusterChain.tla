----------------------------- MODULE ClusterChain -----------------------------
(***************************************************************************)
(* The cluster allocator of cluster.c: the file allocation table           *)
(* FAT_ENTRIES that links the clusters of an entry (a file or a directory) *)
(* into a chain, and DIR_ENTRIES, which names the entry of every cluster.  *)
(*                                                                         *)
(* The tree of dbfat.c calls the allocator under its write lock, one call  *)
(* at a time.  An action is one iteration of a loop of cluster.c, so that  *)
(* every order of the reads and writes of the table inside a call is kept. *)
(***************************************************************************)
EXTENDS ClusterSize, FiniteSets

CONSTANTS
  Entries,            \* the files and directories there may be
  ROOT_DIR_ENTRY,     \* the root directory
  N_CLUSTERS,         \* clusters of the volume; 0 and 1 are never used
  UINT32,             \* number of values of a uint32_t
  Sizes,              \* sizes the tree asks for
  FREE,               \* FAT_FREE_ENTRY
  EOFC,               \* FAT_EOFC_ENTRY
  NONE                \* no cluster, no entry

\* BPB_RootCluster is the first of them.
Clusters == 2 .. N_CLUSTERS - 1

ASSUME ConstantsAssumption ==
  /\ ROOT_DIR_ENTRY \in Entries /\ NONE \notin Entries
  /\ N_CLUSTERS \in Nat /\ N_CLUSTERS > 2
  /\ BYTES_PER_CLUSTER \in Nat \ {0}
  /\ UINT32 \in Nat /\ UINT32 % BYTES_PER_CLUSTER = 0
  /\ UINT32 > BYTES_PER_CLUSTER
  /\ Sizes \subseteq 0 .. UINT32 - 1
  /\ FREE \notin Nat /\ EOFC \notin Nat /\ NONE \notin Nat
  /\ FREE # EOFC

VARIABLES
  FAT_ENTRIES,      \* FAT_ENTRIES[c]: the next cluster, FREE or EOFC
  DIR_ENTRIES,      \* DIR_ENTRIES[c]: the entry cluster c was last given to
  LAST_FREE_ENTRY,  \* where the search for a free cluster starts
  first_cluster,    \* first_cluster[e]: NONE if e is not in the tree
  size,             \* size[e]: the size its chain was last asked for
  pc,               \* the loop the running call is in
  entry,            \* the entry of the running call
  start,            \* the first cluster of its chain
  next_cluster,     \* next_cluster of allocate and of reallocate
  current_size,     \* the bytes of the chain up to next_cluster
  extending,        \* extending of reallocate
  freed             \* next_cluster of free_cluster_chain

tableVars == <<FAT_ENTRIES, DIR_ENTRIES, LAST_FREE_ENTRY>>
entryVars == <<first_cluster, size>>
callVars  == <<entry, start, next_cluster, current_size, extending, freed>>
vars == <<tableVars, entryVars, pc, callVars>>

(***************************************************************************)
(* initialize_clusters: the root directory has the first cluster.          *)
(***************************************************************************)
Init ==
  /\ FAT_ENTRIES     = [c \in Clusters |-> IF c = 2 THEN EOFC ELSE FREE]
  /\ DIR_ENTRIES     = [c \in Clusters |-> IF c = 2 THEN ROOT_DIR_ENTRY ELSE NONE]
  /\ LAST_FREE_ENTRY = 2
  /\ first_cluster   = [e \in Entries |-> IF e = ROOT_DIR_ENTRY THEN 2 ELSE NONE]
  /\ size            = [e \in Entries |-> 0]
  /\ pc              = "idle"
  /\ entry           = NONE
  /\ start           = NONE
  /\ next_cluster    = NONE
  /\ current_size    = 0
  /\ extending       = FALSE
  /\ freed           = NONE

\* find_free_cluster returns c: the first free cluster of the table fat at or
\* after LAST_FREE_ENTRY, then from the beginning.
IsNextFree(fat, c) ==
  LET distance(d) == IF d >= LAST_FREE_ENTRY THEN d - LAST_FREE_ENTRY
                     ELSE d - LAST_FREE_ENTRY + N_CLUSTERS
  IN  /\ fat[c] = FREE
      /\ \A d \in Clusters : fat[d] = FREE => distance(c) <= distance(d)

\* Mutant: find_free_cluster without its second loop.
FullToTheEnd(fat) == \A c \in Clusters : c >= LAST_FREE_ENTRY => fat[c] # FREE

Full(fat) == \A c \in Clusters : fat[c] # FREE

\* current_size += BYTES_PER_CLUSTER, in uint32_t arithmetic.
Grown == (current_size + BYTES_PER_CLUSTER) % UINT32

\* The call returns: its locals are gone.
Returned ==
  /\ pc' = "idle"
  /\ entry' = NONE /\ start' = NONE /\ next_cluster' = NONE
  /\ current_size' = 0 /\ extending' = FALSE /\ freed' = NONE

(***************************************************************************)
(* allocate_cluster_chain, for an entry that enters the tree.              *)
(***************************************************************************)
Allocate(e, bytes) ==
  /\ pc = "idle" /\ first_cluster[e] = NONE
  /\ \E c \in Clusters :
       /\ IsNextFree(FAT_ENTRIES, c)
       /\ LAST_FREE_ENTRY' = c
       /\ start' = c /\ next_cluster' = c
  /\ size' = [size EXCEPT ![e] = bytes]
  /\ entry' = e
  /\ current_size' = BYTES_PER_CLUSTER
  /\ pc' = "allocate"
  /\ UNCHANGED <<FAT_ENTRIES, DIR_ENTRIES, first_cluster, extending, freed>>

\* The table once next_cluster is marked as occupied.
Occupied == [FAT_ENTRIES EXCEPT ![next_cluster] = EOFC]

\* next_cluster, which belongs to entry e, is linked to the cluster that the
\* search finds in the table fat.
LinkNext(fat, e) ==
  /\ \E c \in Clusters :
       /\ IsNextFree(fat, c)
       /\ FAT_ENTRIES' = [fat EXCEPT ![next_cluster] = c]
       /\ LAST_FREE_ENTRY' = c
       /\ next_cluster' = c
  /\ DIR_ENTRIES' = [DIR_ENTRIES EXCEPT ![next_cluster] = e]
  /\ current_size' = Grown

\* Mutant: next_cluster is not marked before the search.
AllocateNextUnmarked ==
  /\ pc = "allocate" /\ current_size < size[entry]
  /\ LinkNext(FAT_ENTRIES, entry)
  /\ UNCHANGED <<entryVars, pc, entry, start, extending, freed>>

\* An iteration that links one more cluster.
AllocateNext ==
  /\ pc = "allocate" /\ current_size < size[entry]
  /\ LinkNext(Occupied, entry)
  /\ UNCHANGED <<entryVars, pc, entry, start, extending, freed>>

\* The last iteration, and the assignment of the result to first_cluster.
AllocateEnd ==
  /\ pc = "allocate" /\ current_size >= size[entry]
  /\ FAT_ENTRIES' = Occupied
  /\ DIR_ENTRIES' = [DIR_ENTRIES EXCEPT ![next_cluster] = entry]
  /\ first_cluster' = [first_cluster EXCEPT ![entry] = start]
  /\ Returned
  /\ UNCHANGED <<LAST_FREE_ENTRY, size>>

(***************************************************************************)
(* reallocate_cluster_chain, for an entry whose size changes.              *)
(***************************************************************************)
Reallocate(e, bytes) ==
  /\ pc = "idle" /\ first_cluster[e] # NONE
  /\ size' = [size EXCEPT ![e] = bytes]
  /\ entry' = e
  /\ start' = first_cluster[e] /\ next_cluster' = first_cluster[e]
  /\ current_size' = BYTES_PER_CLUSTER
  /\ extending' = FALSE
  /\ pc' = "reallocate"
  /\ UNCHANGED <<tableVars, first_cluster, freed>>

AtEnd == FAT_ENTRIES[next_cluster] = EOFC

\* next_cluster moves along the chain.
Follow ==
  /\ next_cluster' = FAT_ENTRIES[next_cluster]
  /\ current_size' = Grown
  /\ UNCHANGED <<tableVars, entryVars, pc, entry, start, extending, freed>>

\* Mutant: one cluster more is kept: <= instead of <.
WalkOneTooFar ==
  /\ pc = "reallocate" /\ current_size <= size[entry]
  /\ ~AtEnd /\ ~extending
  /\ Follow

\* An iteration along the old chain.
Walk ==
  /\ pc = "reallocate" /\ current_size < size[entry]
  /\ ~AtEnd /\ ~extending
  /\ Follow

\* An iteration beyond its end.  The new cluster is not marked as occupied
\* before the next one is searched for.
Extend ==
  /\ pc = "reallocate" /\ current_size < size[entry]
  /\ AtEnd \/ extending
  /\ LinkNext(FAT_ENTRIES, DIR_ENTRIES[start])
  /\ extending' = TRUE
  /\ UNCHANGED <<entryVars, pc, entry, start, freed>>

\* Mutant: the rest of the chain is not freed.
ShrinkLeaking ==
  /\ pc = "reallocate" /\ current_size >= size[entry]
  /\ ~AtEnd /\ ~extending
  /\ pc' = "terminate"
  /\ UNCHANGED <<tableVars, entryVars, entry, start, next_cluster, current_size,
                 extending, freed>>

\* The new size is reached inside the old chain: its rest is freed.
Shrink ==
  /\ pc = "reallocate" /\ current_size >= size[entry]
  /\ ~AtEnd /\ ~extending
  /\ freed' = FAT_ENTRIES[next_cluster]
  /\ pc' = "shrink"
  /\ UNCHANGED <<tableVars, entryVars, entry, start, next_cluster, current_size,
                 extending>>

\* The chain that reallocate leaves ends at next_cluster, and the call returns.
Ends ==
  \/ pc = "terminate"
  \/ pc = "reallocate" /\ current_size >= size[entry] /\ (AtEnd \/ extending)

\* Mutant: the end of the chain is marked only if it was extended.
TerminateExtended ==
  /\ Ends
  /\ FAT_ENTRIES' = IF extending THEN Occupied ELSE FAT_ENTRIES
  /\ DIR_ENTRIES' = [DIR_ENTRIES EXCEPT ![next_cluster] = DIR_ENTRIES[start]]
  /\ Returned
  /\ UNCHANGED <<LAST_FREE_ENTRY, entryVars>>

\* The last two assignments: the chain ends at next_cluster.
Terminate ==
  /\ Ends
  /\ FAT_ENTRIES' = Occupied
  /\ DIR_ENTRIES' = [DIR_ENTRIES EXCEPT ![next_cluster] = DIR_ENTRIES[start]]
  /\ Returned
  /\ UNCHANGED <<LAST_FREE_ENTRY, entryVars>>

(***************************************************************************)
(* free_cluster_chain, of an entry that is removed (pc = "free") or of the *)
(* rest of a chain that shrinks (pc = "shrink").                           *)
(***************************************************************************)
Free(e) ==
  /\ pc = "idle" /\ first_cluster[e] # NONE /\ e # ROOT_DIR_ENTRY
  /\ entry' = e
  /\ freed' = first_cluster[e]
  /\ pc' = "free"
  /\ UNCHANGED <<tableVars, entryVars, start, next_cluster, current_size, extending>>

\* Mutant: the loop does not stop at the end of the chain.
FreeNextBeyond ==
  /\ pc \in {"free", "shrink"}
  /\ FAT_ENTRIES' = [FAT_ENTRIES EXCEPT ![freed] = FREE]
  /\ freed' = FAT_ENTRIES[freed]
  /\ UNCHANGED <<DIR_ENTRIES, LAST_FREE_ENTRY, entryVars, pc, entry, start,
                 next_cluster, current_size, extending>>

\* Mutant: the loop does not advance.
FreeNextStuck ==
  /\ pc \in {"free", "shrink"}
  /\ FAT_ENTRIES[freed] # EOFC
  /\ FAT_ENTRIES' = [FAT_ENTRIES EXCEPT ![freed] = FREE]
  /\ UNCHANGED <<DIR_ENTRIES, LAST_FREE_ENTRY, entryVars, pc, callVars>>

FreeNext ==
  /\ pc \in {"free", "shrink"}
  /\ FAT_ENTRIES[freed] # EOFC
  /\ FAT_ENTRIES' = [FAT_ENTRIES EXCEPT ![freed] = FREE]
  /\ freed' = FAT_ENTRIES[freed]
  /\ UNCHANGED <<DIR_ENTRIES, LAST_FREE_ENTRY, entryVars, pc, entry, start,
                 next_cluster, current_size, extending>>

\* The loop ends; reallocate goes on, a removed entry is gone.
FreeLast ==
  /\ pc \in {"free", "shrink"}
  /\ FAT_ENTRIES[freed] = EOFC
  /\ FAT_ENTRIES' = [FAT_ENTRIES EXCEPT ![freed] = FREE]
  /\ \/ /\ pc = "shrink"
        /\ pc' = "terminate" /\ freed' = NONE
        /\ UNCHANGED <<entryVars, entry, start, next_cluster, current_size,
                       extending>>
     \/ /\ pc = "free"
        /\ first_cluster' = [first_cluster EXCEPT ![entry] = NONE]
        /\ size' = [size EXCEPT ![entry] = 0]
        /\ Returned
  /\ UNCHANGED <<DIR_ENTRIES, LAST_FREE_ENTRY>>

\* find_free_cluster finds not even the first cluster of an entry: assert(0).
AllocateFails(e) ==
  /\ pc = "idle" /\ first_cluster[e] = NONE
  /\ Full(FAT_ENTRIES)
  /\ pc' = "aborted"
  /\ UNCHANGED <<tableVars, entryVars, callVars>>

\* find_free_cluster finds no further cluster: assert(0).
OutOfClusters ==
  /\ \/ pc = "allocate" /\ current_size < size[entry] /\ Full(Occupied)
     \/ /\ pc = "reallocate" /\ current_size < size[entry]
        /\ AtEnd \/ extending
        /\ Full(FAT_ENTRIES)
  /\ pc' = "aborted"
  /\ UNCHANGED <<tableVars, entryVars, callVars>>

-----------------------------------------------------------------------------

\* The iterations of a call that has begun.
Iteration ==
  \/ AllocateNext \/ AllocateEnd
  \/ Walk \/ Extend \/ Shrink \/ Terminate
  \/ FreeNext \/ FreeLast
  \/ OutOfClusters

Next ==
  \/ \E e \in Entries, bytes \in Sizes : Allocate(e, bytes) \/ Reallocate(e, bytes)
  \/ \E e \in Entries : Free(e) \/ AllocateFails(e)
  \/ Iteration

Spec == Init /\ [][Next]_vars

(***************************************************************************)
(* Properties.                                                             *)
(***************************************************************************)

\* The types of the tables, of the entries and of the locals of the call.
TypeOK ==
  /\ FAT_ENTRIES \in [Clusters -> Clusters \cup {FREE, EOFC}]
  /\ DIR_ENTRIES \in [Clusters -> Entries \cup {NONE}]
  /\ LAST_FREE_ENTRY \in Clusters
  /\ first_cluster \in [Entries -> Clusters \cup {NONE}]
  /\ size \in [Entries -> 0 .. UINT32 - 1]
  /\ pc \in {"idle", "allocate", "reallocate", "shrink", "terminate", "free",
             "aborted"}
  /\ entry \in Entries \cup {NONE}
  /\ start \in Clusters \cup {NONE}
  /\ next_cluster \in Clusters \cup {NONE}
  /\ current_size \in Nat
  /\ extending \in BOOLEAN
  /\ freed \in Clusters \cup {NONE}

\* The clusters on the chain of the table fat that begins at cluster c.
ChainIn(fat, c) ==
  LET reached[n \in 0 .. N_CLUSTERS] ==
        IF n = 0 THEN {c}
        ELSE reached[n - 1] \cup ({fat[d] : d \in reached[n - 1]} \cap Clusters)
  IN  reached[N_CLUSTERS]

Chain(c) == ChainIn(FAT_ENTRIES, c)

InTree == {e \in Entries : first_cluster[e] # NONE}

\* Between two calls the chains of the entries are disjoint, every cluster of a
\* chain names its entry, so that get_cluster_chain_size finds it, and every
\* other cluster is free: no cluster is shared and none is lost.
ChainsPartition ==
  pc = "idle" =>
    /\ \A e \in InTree : \A c \in Chain(first_cluster[e]) :
         DIR_ENTRIES[c] = e /\ FAT_ENTRIES[c] # FREE
    /\ \A c \in Clusters : FAT_ENTRIES[c] # FREE =>
         \E e \in InTree : c \in Chain(first_cluster[e])

\* Between two calls every chain ends: no cluster has two predecessors and the
\* first cluster of an entry has none.
ChainsEnd ==
  pc = "idle" =>
    /\ \A c, d \in Clusters :
         FAT_ENTRIES[c] = FAT_ENTRIES[d] /\ FAT_ENTRIES[c] \in Clusters => c = d
    /\ \A e \in InTree, c \in Clusters : FAT_ENTRIES[c] # first_cluster[e]

\* Between two calls no entry has more clusters than its size asks for: a file
\* that shrinks gives back all that it does not need.
ChainsTight ==
  pc = "idle" => \A e \in InTree :
    Cardinality(Chain(first_cluster[e])) <= ClustersFor(size[e])

\* Between two calls every entry has the clusters that its size asks for.
ChainsHoldSize ==
  pc = "idle" => \A e \in InTree :
    Cardinality(Chain(first_cluster[e])) >= ClustersFor(size[e])

\* A call that extends no chain returns one of exactly the clusters its size
\* asks for: a new chain is complete when its entry enters the tree, and one
\* that is cut keeps all that it needs and nothing else.
CallsFitSize ==
  [][\A e \in Entries :
       /\ e = entry /\ ~extending
       /\ pc \in {"allocate", "reallocate", "terminate"} /\ pc' = "idle"
       => Cardinality(Chain(first_cluster[e]))' = ClustersFor(size[e])]_vars

\* The clusters that the sizes of the given entries ask for.
Wanted(entries) == UNION {{e} \X (1 .. ClustersFor(size[e])) : e \in entries}

\* assert(0) of find_free_cluster fails only when the volume is too small for
\* the entries that are in it or enter it.
AbortsOnlyWhenFull ==
  pc = "aborted" =>
    LET present == InTree \cup ({entry} \ {NONE})
    IN  Cardinality(Wanted(present)) + (IF entry = NONE THEN 1 ELSE 0)
          > Cardinality(Clusters)

=============================================================================
