-------------------------------- MODULE DirTree --------------------------------
(***************************************************************************)
(* The tree of files and directories of dbfat.c that the FAT image shows:  *)
(* add_file_entry, remove_file_entry and remove_all_file_entries.          *)
(*                                                                         *)
(* An entry is named by its path, a sequence of names; the root is <<>>.   *)
(* Each operation runs under the write lock from its first line to its     *)
(* last and is one action.  The cluster chain of an entry is abstracted to *)
(* its number of clusters; what the allocator does when the calls that an  *)
(* operation lists are made to it is the matter of module FatVolume.       *)
(*                                                                         *)
(* A removed entry is freed before its next pointer is read (dbfat.c:162   *)
(* and 601).  The allocator of the build leaves that field of a freed      *)
(* block alone, and nothing allocates in between: the loops go on with the *)
(* old pointer.                                                            *)
(***************************************************************************)
EXTENDS ClusterSize, Sequences, SequencesExt

CONSTANTS
  Paths,              \* paths that may be added and removed
  EntrySize,          \* EntrySize[name]: get_entry_size of that name
  DotsSize,           \* bytes of the entries "." and ".."
  FileSizes,          \* sizes a file may have
  Revs,               \* revisions
  NoRev,              \* the rev of the root
  MaxDirSize          \* bound: the size of a directory never shrinks

Names == DOMAIN EntrySize

\* What the constants must be; a module that instantiates this one assumes it too.
ConstantsOK ==
  /\ EntrySize \in [Names -> Nat \ {0}]
  /\ Paths \subseteq Seq(Names) \ {<<>>}
  /\ DotsSize \in Nat
  /\ BYTES_PER_CLUSTER \in Nat \ {0}
  /\ \A name \in Names : EntrySize[name] <= BYTES_PER_CLUSTER
  /\ FileSizes \subseteq Nat
  /\ NoRev \notin Revs
  /\ MaxDirSize \in Nat

ASSUME TreeAssumption == ConstantsOK

VARIABLE
  tree    \* tree[path]: the DirEntry of every path in the tree

Root == <<>>

\* DBMetaData: a directory has no size.
Metadata == [is_dir : {TRUE}, size : {0}, rev : Revs]
              \cup [is_dir : {FALSE}, size : FileSizes, rev : Revs]

(***************************************************************************)
(* Cluster chains.                                                         *)
(***************************************************************************)

\* reallocate_cluster_chain: of the clusters a chain grows by, every second one
\* is linked to itself and lost to the chain (see ClusterChain).
Reallocated(clusters, bytes) ==
  LET needed == ClustersFor(bytes)
  IN  IF needed <= clusters THEN needed
      ELSE clusters + (needed - clusters + 1) \div 2

(***************************************************************************)
(* The two edits of a directory.  They map a state of the tree to the next *)
(* one and list the calls that they make to the allocator of cluster.c.    *)
(***************************************************************************)
Allocation(path, bytes)   == [op |-> "allocate", path |-> path, bytes |-> bytes]
Reallocation(path, bytes) == [op |-> "reallocate", path |-> path, bytes |-> bytes]
Freeing(path)             == [op |-> "free", path |-> path, bytes |-> 0]

\* The sequence s if the condition holds, else nothing.
If(condition, s) == IF condition THEN s ELSE <<>>

\* add_child_entry: the new entry becomes the first of its siblings.
AddChild(st, dir, name, is_dir, bytes, rev) ==
  LET t == st.tree
      path == Append(dir, name)
      extra == EntrySize[name]
      grown == t[dir].size + extra
      crosses == (t[dir].size % BYTES_PER_CLUSTER) + extra > BYTES_PER_CLUSTER
      dirEntry ==
        [t[dir] EXCEPT
           !.size = grown,
           !.clusters = IF crosses THEN Reallocated(@, grown) ELSE @,
           !.children = <<name>> \o @]
      newEntry ==
        [is_dir |-> is_dir, size |-> bytes, rev |-> rev,
         clusters |-> ClustersFor(bytes), children |-> <<>>]
  IN  [tree  |-> [p \in DOMAIN t \cup {path} |->
                    IF p = path THEN newEntry ELSE IF p = dir THEN dirEntry ELSE t[p]],
       calls |-> st.calls \o If(crosses, <<Reallocation(dir, grown)>>)
                   \o <<Allocation(path, bytes)>>]

\* The bytes that remain of a directory when an entry of the given size goes, and
\* whether the chain of the directory is cut to them.
Reduced(dirEntry, extra) == dirEntry.size - extra
Cuts(dirEntry, extra)    == dirEntry.size % BYTES_PER_CLUSTER < extra

\* Mutant: the chains of the entries below a removed directory are not freed.
RemovalCallsAlone(t, path) ==
  LET dir == Front(path)
      extra == EntrySize[Last(path)]
  IN  If(Cuts(t[dir], extra), <<Reallocation(dir, Reduced(t[dir], extra))>>)
        \o <<Freeing(path)>>

\* Mutant: a directory is freed before its children are removed.
RemovalCallsFreedFirst(t, path) ==
  LET calls[p \in {q \in DOMAIN t : IsPrefix(path, q)}] ==
        LET dir == Front(p)
            extra == EntrySize[Last(p)]
        IN  If(Cuts(t[dir], extra),
               <<Reallocation(dir, Reduced(t[dir], extra))>>)
              \o <<Freeing(p)>>
              \o FlattenSeq([i \in DOMAIN t[p].children |->
                               calls[Append(p, t[p].children[i])]])
  IN  calls[path]

\* The calls that remove the entry at path from the tree t: first those for its
\* children, in the order of their list, then its own.
RemovalCalls(t, path) ==
  LET calls[p \in {q \in DOMAIN t : IsPrefix(path, q)}] ==
        LET dir == Front(p)
            extra == EntrySize[Last(p)]
        IN  FlattenSeq([i \in DOMAIN t[p].children |->
                          calls[Append(p, t[p].children[i])]])
              \o If(Cuts(t[dir], extra),
                    <<Reallocation(dir, Reduced(t[dir], extra))>>)
              \o <<Freeing(p)>>
  IN  calls[path]

\* The list of children without the one of this name.
Unlisted(children, name) ==
  RemoveAt(children, CHOOSE i \in DOMAIN children : children[i] = name)

\* The directory without the child of this name.  Its size is reduced, its chain
\* cut to that size, and the size restored.
WithoutChild(dirEntry, name) ==
  LET extra == EntrySize[name]
  IN  [dirEntry EXCEPT
         !.clusters = IF Cuts(dirEntry, extra)
                      THEN Reallocated(@, Reduced(dirEntry, extra)) ELSE @,
         !.children = Unlisted(@, name)]

\* Mutant: the entries below a removed directory are not removed.
UnlinkedAlone(t, dir, name) ==
  [p \in DOMAIN t \ {Append(dir, name)} |->
     IF p = dir THEN WithoutChild(t[p], name) ELSE t[p]]

\* The tree t without the child and all that is below it.
Unlinked(t, dir, name) ==
  [p \in {q \in DOMAIN t : ~IsPrefix(Append(dir, name), q)} |->
     IF p = dir THEN WithoutChild(t[p], name) ELSE t[p]]

\* remove_child_entry.
RemoveChild(st, dir, name) ==
  [tree  |-> Unlinked(st.tree, dir, name),
   calls |-> st.calls \o RemovalCalls(st.tree, Append(dir, name))]

(***************************************************************************)
(* add_file_entry, one component of the path at a time.                    *)
(***************************************************************************)

\* The entry at the end of the path: created, replaced or updated.
AddLast(st, dir, name, metadata) ==
  LET path == Append(dir, name)
      kept == IF path \in DOMAIN st.tree /\ st.tree[path].is_dir # metadata.is_dir
              THEN RemoveChild(st, dir, name) ELSE st
  IN  IF path \notin DOMAIN kept.tree
      THEN AddChild(kept, dir, name, metadata.is_dir,
                    IF metadata.is_dir THEN DotsSize ELSE metadata.size,
                    metadata.rev)
      ELSE IF metadata.is_dir
      THEN [kept EXCEPT !.tree[path].rev = metadata.rev]
      ELSE [tree  |-> [kept.tree EXCEPT
                         ![path].size = metadata.size,
                         ![path].clusters = Reallocated(@, metadata.size),
                         ![path].rev = metadata.rev],
            calls |-> Append(kept.calls, Reallocation(path, metadata.size))]

\* A directory on the way to it: created, also in the place of a file.
AddParent(st, dir, name, metadata) ==
  LET path == Append(dir, name)
      kept == IF path \in DOMAIN st.tree /\ ~st.tree[path].is_dir
              THEN RemoveChild(st, dir, name) ELSE st
  IN  IF path \in DOMAIN kept.tree THEN kept
      ELSE AddChild(kept, dir, name, TRUE, DotsSize, metadata.rev)

\* The tree as it is, before the first call.
Unchanged == [tree |-> tree, calls |-> <<>>]

\* The loop over the components of the path.  What it has made after i of them is
\* bound by a quantifier, so that TLC computes it once.
Added(path, metadata) ==
  LET step(st, i) ==
        LET dir == SubSeq(path, 1, i - 1)
        IN  IF i = Len(path) THEN AddLast(st, dir, path[i], metadata)
            ELSE AddParent(st, dir, path[i], metadata)
      walk[i \in 0 .. Len(path)] ==
        IF i = 0 THEN {Unchanged} ELSE {step(st, i) : st \in walk[i - 1]}
  IN  walk[Len(path)]

\* Within the bound on the size of a directory.
Bounded(st) ==
  \A p \in DOMAIN st.tree : st.tree[p].is_dir => st.tree[p].size <= MaxDirSize

AddFileEntry(path, metadata) ==
  \E st \in Added(path, metadata) : Bounded(st) /\ tree' = st.tree

(***************************************************************************)
(* remove_file_entry.  path_index stays at the first separator for ever:   *)
(* the loop looks the first name up again in every entry it descends to    *)
(* and breaks when there is none.  It removes an entry only if the path    *)
(* has no second name.                                                     *)
(***************************************************************************)
Removed(path) ==
  IF Len(path) = 1 /\ path \in DOMAIN tree
  THEN RemoveChild(Unchanged, Root, path[1])
  ELSE Unchanged

RemoveFileEntry(path) == tree' = Removed(path).tree

\* remove_all_file_entries: the children of the root in the order of its list.
Emptied ==
  LET children == tree[Root].children
      walk[i \in 0 .. Len(children)] ==
        IF i = 0 THEN {Unchanged}
        ELSE {RemoveChild(st, Root, children[i]) : st \in walk[i - 1]}
  IN  walk[Len(children)]

RemoveAllFileEntries == \E st \in Emptied : tree' = st.tree

-----------------------------------------------------------------------------

\* initialize_dbfat: an empty root with the first cluster.
TreeInit ==
  tree = [p \in {Root} |->
            [is_dir |-> TRUE, size |-> 0, rev |-> NoRev, clusters |-> 1,
             children |-> <<>>]]

TreeNext ==
  \/ \E path \in Paths, metadata \in Metadata : AddFileEntry(path, metadata)
  \/ \E path \in Paths : RemoveFileEntry(path)
  \/ RemoveAllFileEntries

TreeSpec == TreeInit /\ [][TreeNext]_tree

(***************************************************************************)
(* Properties.                                                             *)
(***************************************************************************)

\* The fields of every entry; every chain has a cluster.
TreeTypeOK ==
  /\ DOMAIN tree \subseteq Seq(Names)
  /\ \A p \in DOMAIN tree :
       /\ tree[p].is_dir \in BOOLEAN
       /\ tree[p].size \in Nat
       /\ tree[p].rev \in Revs \cup {NoRev}
       /\ tree[p].clusters \in Nat \ {0}
       /\ tree[p].children \in Seq(Names)

\* The lists of children and the parents agree: every entry is once in the list
\* of its parent, which is a directory, and a list names existing entries only.
\* No operation loses an entry, links it twice or leaves one below a file.
TreeLinked ==
  /\ Root \in DOMAIN tree /\ tree[Root].is_dir
  /\ \A p \in DOMAIN tree :
       /\ \A i \in DOMAIN tree[p].children :
            Append(p, tree[p].children[i]) \in DOMAIN tree
       /\ \A i, j \in DOMAIN tree[p].children :
            tree[p].children[i] = tree[p].children[j] => i = j
       /\ ~tree[p].is_dir => tree[p].children = <<>>
  /\ \A p \in DOMAIN tree \ {Root} :
       /\ Front(p) \in DOMAIN tree
       /\ tree[Front(p)].is_dir
       /\ Last(p) \in ToSet(tree[Front(p)].children)

\* The bytes of the entries that a directory lists.
Listed(dir) ==
  FoldLeft(LAMBDA bytes, name : bytes + EntrySize[name],
           IF dir = Root THEN 0 ELSE DotsSize, tree[dir].children)

\* Every directory has the clusters its entries need: what does not fit cannot
\* be read through the file allocation table.
DirHoldsChildren ==
  \A p \in DOMAIN tree : tree[p].is_dir =>
    Listed(p) <= tree[p].clusters * BYTES_PER_CLUSTER

================================================================================
