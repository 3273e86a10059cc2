------------------------------- MODULE FatVolume -------------------------------
(***************************************************************************)
(* The directory tree of dbfat.c on the cluster allocator of cluster.c.    *)
(*                                                                         *)
(* An operation of DirTree changes the tree and lists the calls it makes   *)
(* to the allocator; the actions of ClusterChain carry them out, one loop  *)
(* iteration at a time.  The operation holds the write lock until the last *)
(* of them has returned: then the next one may begin.                      *)
(***************************************************************************)
EXTENDS ClusterChain, DirTree

VARIABLE
  calls    \* the calls that the running operation has still to make

\* The entries and the sizes that the tree calls the allocator with.
ASSUME VolumeAssumption ==
  /\ ROOT_DIR_ENTRY = Root
  /\ Entries = UNION {{SubSeq(path, 1, i) : i \in 0 .. Len(path)} : path \in Paths}
  /\ FileSizes \cup 0 .. MaxDirSize \subseteq Sizes

volumeVars == <<tree, calls, vars>>

VolumeInit == Init /\ TreeInit /\ calls = <<>>

\* No operation runs.
Quiescent == pc = "idle" /\ calls = <<>>

\* An operation of DirTree with the result st.
Operation(st) ==
  /\ Quiescent
  /\ tree' = st.tree /\ calls' = st.calls
  /\ UNCHANGED vars

BeginAddFileEntry(path, metadata) ==
  \E st \in Added(path, metadata) : Bounded(st) /\ Operation(st)

BeginRemoveFileEntry(path) == Operation(Removed(path))

BeginRemoveAllFileEntries == \E st \in Emptied : Operation(st)

\* The next call of the operation begins.  It is for an entry, with one of the
\* sizes there are: any other would leave the operation where it is for ever.
Call ==
  /\ calls # <<>>
  /\ LET call == Head(calls)
     IN  /\ call.path \in Entries /\ call.bytes \in Sizes
         /\ \/ call.op = "allocate" /\ Allocate(call.path, call.bytes)
            \/ call.op = "allocate" /\ AllocateFails(call.path)
            \/ call.op = "reallocate" /\ Reallocate(call.path, call.bytes)
            \/ call.op = "free" /\ Free(call.path)
  /\ calls' = Tail(calls)
  /\ UNCHANGED tree

\* A call that has begun goes on.
Go == Iteration /\ UNCHANGED <<tree, calls>>

-----------------------------------------------------------------------------

VolumeNext ==
  \/ \E path \in Paths, metadata \in Metadata : BeginAddFileEntry(path, metadata)
  \/ \E path \in Paths : BeginRemoveFileEntry(path)
  \/ BeginRemoveAllFileEntries
  \/ Call
  \/ Go

\* The thread that runs an operation goes on with it.
VolumeSpec == VolumeInit /\ [][VolumeNext]_volumeVars /\ WF_volumeVars(Call \/ Go)

(***************************************************************************)
(* Properties, beside those of ClusterChain.                               *)
(***************************************************************************)

\* Between two operations the allocation table and the tree agree: exactly the
\* entries of the tree have a chain, of as many clusters as DirTree counts for
\* them.  The calls come in an order in which no chain of a removed entry is
\* left behind, none is cut or freed twice, and none is grown for an entry that
\* is gone.  (The calls for the entries below a removed directory go to a chain
\* of that directory that is freed right after.)
TablesMatchTree ==
  Quiescent =>
    /\ InTree = DOMAIN tree
    /\ \A p \in DOMAIN tree :
         tree[p].clusters = Cardinality(Chain(first_cluster[p]))

\* No call comes too early or too late: a chain is made for an entry that has none,
\* and one that is cut, extended or freed is there; so no chain is freed twice or
\* used after it was freed, and the chain of the root never is.  The path is that
\* of an entry, the size one that the tree may have.
CallsReady ==
  pc = "idle" /\ calls # <<>> =>
    LET call == Head(calls)
    IN  /\ call.path \in Entries /\ call.bytes \in Sizes
        /\ call.op = "allocate" <=> call.path \notin InTree
        /\ call.op = "free" => call.path # ROOT_DIR_ENTRY

\* Every operation ends, with the volume full or in good order: neither a chain
\* nor a loop over one is endless.
OperationsEnd == ~Quiescent ~> Quiescent \/ pc = "aborted"

================================================================================
