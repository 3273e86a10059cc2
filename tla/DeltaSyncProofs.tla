---------------------------- MODULE DeltaSyncProofs ----------------------------
(***************************************************************************)
(* Proofs about the synchronisation at startup.  What is served is the     *)
(* folder as of the cursor (TreeMatchesCursor), however the pages are cut, *)
(* whichever request fails, whenever the server declares the cursor        *)
(* invalid, and whatever changes in the folder meanwhile: as long as only  *)
(* entries of the root directory are removed.  That condition is needed:   *)
(* remove_file_entry ignores every other path.                             *)
(***************************************************************************)
EXTENDS DeltaSync, DirTreeProofs

(***************************************************************************)
(* The namespace as a function of the journal.                             *)
(***************************************************************************)

\* What a change makes of a namespace.
Outcome(space, change) ==
  IF change.metadata = Deleted THEN Without(space, change.path)
  ELSE With(space, change.path, change.metadata)

\* The namespaces after each of the first n changes of the journal j.
IsHistory(h, j, n) ==
  h = [i \in 0 .. n |-> IF i = 0 THEN [p \in {} |-> Dir] ELSE Outcome(h[i - 1], j[i])]

\* The namespace after the first n changes of the journal j.
SpaceAfter(j, n) == (CHOOSE h : IsHistory(h, j, n))[n]

\* The recursion of Namespace is the history of the journal.
LEMMA NamespaceIsSpace ==
  ASSUME NEW n
  PROVE  Namespace(n) = SpaceAfter(journal, n)
BY Zenon DEF Namespace, SpaceAfter, IsHistory, Outcome

\* Every journal has a history.
LEMMA HistoryExists ==
  ASSUME NEW j, NEW n \in Nat
  PROVE  \E h : IsHistory(h, j, n)
<1> DEFINE T == {m \in Nat : \E h : IsHistory(h, j, m)}
           empty == [p \in {} |-> Dir]
           Turn(h, i) == IF i = 0 THEN empty ELSE Outcome(h[i - 1], j[i])
<1>1. 0 \in T
  <2>1. PICK h : h = [i \in 0 .. 0 |-> empty]
    OBVIOUS
  <2>2. h = [i \in 0 .. 0 |-> Turn(h, i)]
    <3> HIDE DEF empty
    <3> QED
      BY <2>1
  <2>3. IsHistory(h, j, 0)
    BY <2>2, Zenon DEF IsHistory
  <2> QED
    BY <2>3
<1>2. ASSUME NEW m \in Nat, m \in T PROVE m + 1 \in T
  <2>1. PICK h : IsHistory(h, j, m)
    BY <1>2
  <2>2. PICK g : g = [i \in 0 .. m + 1 |-> IF i = m + 1 THEN Turn(h, m + 1) ELSE h[i]]
    OBVIOUS
  <2>3. \A i \in 0 .. m : g[i] = h[i]
    BY <2>2
  <2>4. g[m + 1] = Turn(h, m + 1) /\ m + 1 # 0 /\ (m + 1) - 1 = m
    BY <2>2
  <2>5. ASSUME NEW i \in 0 .. m + 1 PROVE Turn(h, i) = Turn(g, i)
    <3>1. i # 0 => i - 1 \in 0 .. m
      OBVIOUS
    <3> HIDE DEF empty
    <3> QED
      BY <2>3, <3>1
  <2>6. \A i \in 0 .. m : h[i] = Turn(h, i)
    <3>1. h = [i \in 0 .. m |-> Turn(h, i)]
      BY <2>1, Zenon DEF IsHistory
    <3> HIDE DEF Turn
    <3> QED
      BY <3>1
  <2>7. ASSUME NEW i \in 0 .. m + 1 PROVE g[i] = Turn(g, i)
    <3>1. i = m + 1 \/ i \in 0 .. m
      OBVIOUS
    <3> HIDE DEF Turn, T
    <3> QED
      BY <2>3, <2>4, <2>5, <2>6, <3>1
  <2>8. g = [i \in 0 .. m + 1 |-> g[i]]
    BY <2>2
  <2>9. g = [i \in 0 .. m + 1 |-> Turn(g, i)]
    <3> HIDE DEF Turn, T
    <3> QED
      BY <2>7, <2>8
  <2>10. IsHistory(g, j, m + 1)
    BY <2>9, Zenon DEF IsHistory
  <2> QED
    BY <2>10
<1>3. Nat \subseteq T
  <2> HIDE DEF T
  <2> QED
    BY <1>1, <1>2, NatSetInduction
<1> QED
  BY <1>3

\* Histories of journals that agree agree.
LEMMA HistoriesAgree ==
  ASSUME NEW j, NEW k, NEW m \in Nat, NEW n \in Nat, NEW b \in Nat, b <= m, b <= n,
         \A i \in 1 .. b : j[i] = k[i],
         NEW g, IsHistory(g, j, m), NEW h, IsHistory(h, k, n)
  PROVE  g[b] = h[b]
<1> DEFINE T == {i \in 0 .. b : g[i] = h[i]}
           empty == [p \in {} |-> Dir]
<1>1. g = [i \in 0 .. m |-> IF i = 0 THEN empty ELSE Outcome(g[i - 1], j[i])]
  BY Zenon DEF IsHistory
<1>2. h = [i \in 0 .. n |-> IF i = 0 THEN empty ELSE Outcome(h[i - 1], k[i])]
  BY Zenon DEF IsHistory
<1> HIDE DEF empty
<1>3. 0 \in T
  BY <1>1, <1>2
<1>4. ASSUME NEW i \in 0 .. b - 1, i \in T PROVE i + 1 \in T
  <2>1. /\ i + 1 \in 0 .. m /\ i + 1 \in 0 .. n /\ i + 1 \in 1 .. b /\ i + 1 \in 0 .. b
        /\ i + 1 # 0 /\ (i + 1) - 1 = i
    OBVIOUS
  <2>2. g[i + 1] = Outcome(g[i], j[i + 1])
    BY <1>1, <2>1
  <2>3. h[i + 1] = Outcome(h[i], k[i + 1])
    BY <1>2, <2>1
  <2>4. g[i] = h[i] /\ j[i + 1] = k[i + 1]
    BY <1>4, <2>1
  <2> QED
    BY <2>1, <2>2, <2>3, <2>4
<1>5. 0 .. b \subseteq T
  <2> HIDE DEF T
  <2> QED
    BY <1>3, <1>4, IntervalInduction
<1> QED
  BY <1>5

\* The namespace before the first change is empty, the next change makes the next
\* namespace, and what happens later changes nothing.
LEMMA SpaceSteps ==
  ASSUME NEW j, NEW n \in Nat
  PROVE  /\ SpaceAfter(j, 0) = [p \in {} |-> Dir]
         /\ SpaceAfter(j, n + 1) = Outcome(SpaceAfter(j, n), j[n + 1])
         /\ \A k : (\A i \in 1 .. n : j[i] = k[i]) => SpaceAfter(j, n) = SpaceAfter(k, n)
<1> DEFINE H(k, m) == CHOOSE h : IsHistory(h, k, m)
           empty == [p \in {} |-> Dir]
<1>1. \A k : \A m \in Nat : IsHistory(H(k, m), k, m)
  BY HistoryExists, Zenon
<1>2. \A k : \A m \in Nat : SpaceAfter(k, m) = H(k, m)[m]
  BY DEF SpaceAfter
<1> HIDE DEF H
<1>3. SpaceAfter(j, 0) = empty
  <2>1. IsHistory(H(j, 0), j, 0)
    BY <1>1
  <2>2. H(j, 0) = [i \in 0 .. 0 |-> IF i = 0 THEN empty ELSE Outcome(H(j, 0)[i - 1], j[i])]
    BY <2>1, Zenon DEF IsHistory
  <2> HIDE DEF empty
  <2>3. H(j, 0)[0] = empty
    BY <2>2
  <2> QED
    BY <1>2, <2>3
<1>4. SpaceAfter(j, n + 1) = Outcome(SpaceAfter(j, n), j[n + 1])
  <2>1. PICK g : g = H(j, n + 1) /\ IsHistory(g, j, n + 1)
    BY <1>1
  <2>2. PICK h : h = H(j, n) /\ IsHistory(h, j, n)
    BY <1>1
  <2>3. g[n] = h[n]
    <3>1. PICK m \in Nat : m = n + 1 /\ n <= m /\ n <= n
      OBVIOUS
    <3>2. PICK k : k = j
      OBVIOUS
    <3>3. IsHistory(g, j, m) /\ IsHistory(h, k, n)
      BY <2>1, <2>2, <3>1, <3>2
    <3>4. \A i \in 1 .. n : j[i] = k[i]
      BY <3>2
    <3>5. n <= m /\ n <= n
      BY <3>1
    <3> QED
      BY <3>3, <3>4, <3>5, HistoriesAgree
  <2>4. g = [i \in 0 .. n + 1 |-> IF i = 0 THEN empty ELSE Outcome(g[i - 1], j[i])]
    BY <2>1, Zenon DEF IsHistory
  <2> HIDE DEF empty
  <2>5. g[n + 1] = Outcome(g[n], j[n + 1])
    <3>1. n + 1 \in 0 .. n + 1 /\ n + 1 # 0 /\ (n + 1) - 1 = n
      OBVIOUS
    <3> QED
      BY <2>4, <3>1
  <2> QED
    BY <1>2, <2>1, <2>2, <2>3, <2>5
<1>5. ASSUME NEW k, \A i \in 1 .. n : j[i] = k[i]
      PROVE  SpaceAfter(j, n) = SpaceAfter(k, n)
  <2>1. PICK g : g = H(j, n) /\ IsHistory(g, j, n)
    BY <1>1
  <2>2. PICK h : h = H(k, n) /\ IsHistory(h, k, n)
    BY <1>1
  <2>3. g[n] = h[n]
    BY <1>5, <2>1, <2>2, HistoriesAgree
  <2> QED
    BY <1>2, <2>1, <2>2, <2>3
<1> QED
  BY <1>3, <1>4, <1>5

(***************************************************************************)
(* The tree as a namespace.                                                *)
(***************************************************************************)

\* The view of a tree.
ViewOf(t) == [p \in DOMAIN t \ {<<>>} |-> Node(t[p])]

\* Entries that are alike are the same in a namespace.
LEMMA AlikeSameNode ==
  ASSUME NEW d, NEW e, Alike(d, e)
  PROVE  Node(d) = Node(e)
BY DEF Alike, Node

\* A node says whether its entry is a directory.
LEMMA NodeIsDir ==
  ASSUME NEW d, d.is_dir \in BOOLEAN
  PROVE  Node(d).is_dir = d.is_dir
BY DEF Node, Dir

\* The entries of a tree.
LEMMA EntryIsDir ==
  ASSUME NEW t, IsTree(t), NEW p \in DOMAIN t
  PROVE  t[p].is_dir \in BOOLEAN /\ p \in Seq(Names)
<1>1. DOMAIN t \subseteq Seq(Names) /\ t[p] \in EntryType
  BY DEF IsTree, Typed
<1> QED
  BY <1>1 DEF EntryType

\* Removing a path from the tree removes it from the namespace.
LEMMA RemovalIsWithout ==
  ASSUME NEW t, NEW u, NEW path,
         DOMAIN u = {q \in DOMAIN t : ~IsPrefix(path, q)},
         \A q \in DOMAIN u : Alike(u[q], t[q])
  PROVE  ViewOf(u) = Without(ViewOf(t), path)
<1>1. DOMAIN ViewOf(t) = DOMAIN t \ {<<>>} /\ DOMAIN ViewOf(u) = DOMAIN u \ {<<>>}
  BY DEF ViewOf
<1>2. Without(ViewOf(t), path)
        = [p \in {q \in DOMAIN t \ {<<>>} : ~IsPrefix(path, q)} |-> Node(t[p])]
  BY <1>1 DEF Without, ViewOf
<1>3. {q \in DOMAIN t \ {<<>>} : ~IsPrefix(path, q)} = DOMAIN u \ {<<>>}
  OBVIOUS
<1>4. \A q \in DOMAIN u \ {<<>>} : Node(u[q]) = Node(t[q])
  BY AlikeSameNode
<1> QED
  BY <1>2, <1>3, <1>4 DEF ViewOf

\* What add_file_entry makes of the tree is what the change makes of the namespace.
LEMMA AdditionIsWith ==
  ASSUME NEW t, IsTree(t), NEW u, NEW path \in Paths, NEW metadata \in Metadata,
         Written(u, t, path, metadata)
  PROVE  ViewOf(u) = With(ViewOf(t), path, metadata)
<1>1. path \in Seq(Names) /\ path # <<>>
  BY TreeAssumption DEF ConstantsOK
<1>2. PICK way : way = Ancestors(path)
  OBVIOUS
<1>3. way = Parents(path)
  BY <1>2 DEF Ancestors, Parents
<1>4. PICK v : v = ViewOf(t)
  OBVIOUS
<1>5. DOMAIN v = DOMAIN t \ {<<>>} /\ \A p \in DOMAIN v : v[p] = Node(t[p])
  BY <1>4 DEF ViewOf
<1>6. PICK kept : kept = IF path \in DOMAIN v /\ v[path].is_dir # metadata.is_dir
                         THEN Without(v, path) ELSE v
  OBVIOUS
<1>7. With(v, path, metadata)
        = [p \in DOMAIN kept \cup way \cup {path} |->
             IF p = path THEN Node(metadata) ELSE IF p \in way THEN Dir ELSE kept[p]]
  BY <1>3, <1>6, Zenon DEF With
<1>8. path \in DOMAIN v <=> path \in DOMAIN t
  BY <1>1, <1>5
<1>9. path \in DOMAIN v => v[path].is_dir = t[path].is_dir
  BY <1>5, <1>8, EntryIsDir, NodeIsDir
<1>10. /\ DOMAIN kept = KeptFor(t, path, metadata.is_dir) \ {<<>>}
       /\ \A p \in DOMAIN kept : kept[p] = Node(t[p])
  <2>1. CASE path \in DOMAIN t /\ t[path].is_dir # metadata.is_dir
    <3>1. kept = [p \in {q \in DOMAIN v : ~IsPrefix(path, q)} |-> v[p]]
      BY <1>6, <1>8, <1>9, <2>1 DEF Without
    <3>2. KeptFor(t, path, metadata.is_dir) = {q \in DOMAIN t : ~IsPrefix(path, q)}
      BY <2>1 DEF KeptFor
    <3> QED
      BY <1>5, <3>1, <3>2
  <2>2. CASE ~(path \in DOMAIN t /\ t[path].is_dir # metadata.is_dir)
    <3>1. kept = v
      BY <1>6, <1>8, <1>9, <2>2
    <3>2. KeptFor(t, path, metadata.is_dir) = DOMAIN t
      BY <2>2 DEF KeptFor
    <3> QED
      BY <1>5, <3>1, <3>2
  <2> QED
    BY <2>1, <2>2
<1>11. <<>> \notin way
  <2> SUFFICES ASSUME NEW j \in 1 .. Len(path) - 1, SubSeq(path, 1, j) = <<>>
               PROVE  FALSE
    BY <1>2 DEF Ancestors
  <2>1. j \in 0 .. Len(path) /\ j # 0
    BY <1>1, LenProperties
  <2>2. Len(SubSeq(path, 1, j)) = j
    BY <1>1, <2>1, ShorterPaths
  <2>3. Len(<<>>) = 0
    BY EmptySeq
  <2>4. j = 0
    BY <2>2, <2>3
  <2> QED
    BY <2>1, <2>4
<1>12. /\ IsTree(u)
       /\ DOMAIN u = KeptFor(t, path, metadata.is_dir) \cup way \cup {path}
       /\ \A q \in DOMAIN u : q \notin way /\ q # path => Alike(u[q], t[q])
       /\ \A q \in way : u[q].is_dir
       /\ u[path].is_dir = metadata.is_dir
       /\ ~metadata.is_dir => u[path].size = metadata.size /\ u[path].rev = metadata.rev
  BY <1>2 DEF Written
<1>13. DOMAIN u \ {<<>>} = DOMAIN kept \cup way \cup {path}
  BY <1>1, <1>10, <1>11, <1>12
<1>14. ASSUME NEW p \in DOMAIN u \ {<<>>}
       PROVE  Node(u[p]) = IF p = path THEN Node(metadata)
                           ELSE IF p \in way THEN Dir ELSE kept[p]
  <2>1. CASE p = path
    <3>1. Node(u[path]) = Node(metadata)
      BY <1>12 DEF Node
    <3> QED
      BY <2>1, <3>1
  <2>2. CASE p # path /\ p \in way
    <3>1. Node(u[p]) = Dir
      BY <1>12, <2>2 DEF Node
    <3> QED
      BY <2>2, <3>1
  <2>3. CASE p # path /\ p \notin way
    <3>1. Alike(u[p], t[p])
      BY <1>12, <2>3
    <3>2. p \in DOMAIN kept
      BY <1>13, <2>3
    <3> QED
      BY <1>10, <2>3, <3>1, <3>2, AlikeSameNode
  <2> QED
    BY <2>1, <2>2, <2>3
<1>15. ViewOf(u) = [p \in DOMAIN u \ {<<>>} |-> Node(u[p])]
  BY DEF ViewOf
<1> QED
  BY <1>4, <1>7, <1>13, <1>14, <1>15, Zenon

(***************************************************************************)
(* The invariant of the synchronisation.                                   *)
(***************************************************************************)

\* remove_file_entry removes the entries of the root directory only.
RootRemovals == \A change \in Changes : change.metadata = Deleted => Len(change.path) = 1

\* The positions in the journal: while a page is applied, applied goes from the
\* cursor, or from the beginning, to the end of the page; else it is the cursor.
Positions ==
  /\ journal \in Seq(Changes) /\ Len(journal) <= MaxJournal
  /\ cursor \in 0 .. Len(journal)
  /\ phase \in {"request", "apply", "serving"}
  /\ applied \in 0 .. Len(journal)
  /\ page \in [cursor : 0 .. Len(journal), has_more : BOOLEAN]
  /\ resets \in 0 .. MaxResets
  /\ phase = "apply" => applied <= page.cursor
  /\ phase # "apply" => applied = cursor

\* The tree is the namespace after the changes that were applied.
Applied == ViewOf(tree) = SpaceAfter(journal, applied)

\* The start.
LEMMA SyncStarts ==
  ASSUME Init
  PROVE  IsTree(tree) /\ Positions /\ Applied
<1>1. IsTree(tree) /\ DOMAIN tree = {Root}
  BY TreeStarts DEF Init
<1>2. Len(journal) = 0 /\ journal \in Seq(Changes)
  BY EmptySeq DEF Init
<1>3. Positions
  BY <1>2, DeltaAssumption DEF Init, Positions
<1>4. ViewOf(tree) = [p \in {} |-> Dir]
  BY <1>1 DEF ViewOf, Root
<1>5. SpaceAfter(journal, 0) = [p \in {} |-> Dir]
  BY SpaceSteps
<1> QED
  BY <1>1, <1>3, <1>4, <1>5 DEF Init, Applied

\* Every step that calls an operation of the tree keeps it a tree.
LEMMA SyncKeepsTree ==
  ASSUME IsTree(tree), Positions, [Next]_vars
  PROVE  IsTree(tree')
<1>1. CASE RespondReset
  BY <1>1, TreeKept DEF RespondReset
<1>2. CASE ApplyEntry
  <2>1. PICK change : change = journal[applied + 1]
    OBVIOUS
  <2>2. change \in Changes
    <3>1. applied + 1 \in 1 .. Len(journal) /\ journal \in Seq(Changes)
      BY <1>2 DEF ApplyEntry, Positions
    <3> QED
      BY <2>1, <3>1, ElementOfSeq
  <2>3. change.path \in Paths /\ change.metadata \in Metadata \cup {Deleted}
    BY <2>2, DeltaAssumption
  <2>4. \/ change.metadata # Deleted /\ AddFileEntry(change.path, change.metadata)
        \/ RemoveFileEntry(change.path)
    BY <1>2, <2>1 DEF ApplyEntry
  <2> QED
    BY <2>3, <2>4, TreeKept
<1>3. CASE UNCHANGED tree
  BY <1>3
<1> QED
  BY <1>1, <1>2, <1>3 DEF Next, Update, Change, Respond, EndPage, RequestFails, vars

\* What the server may answer.
LEMMA ResponseFits ==
  ASSUME Positions, NEW start \in 0 .. Len(journal), NEW response \in Responses(start)
  PROVE  /\ response \in [cursor : 0 .. Len(journal), has_more : BOOLEAN]
         /\ start <= response.cursor
<1>1. Len(journal) \in Nat
  BY LenProperties DEF Positions
<1>2. PICK last \in start .. Len(journal) :
        response = [cursor |-> last, has_more |-> last < Len(journal)]
  BY DEF Responses
<1>3. last \in 0 .. Len(journal) /\ start <= last
  BY <1>1, <1>2
<1>4. (last < Len(journal)) \in BOOLEAN
  OBVIOUS
<1> QED
  BY <1>2, <1>3, <1>4

\* Every step keeps the positions.
LEMMA SyncKeepsPositions ==
  ASSUME Positions, [Next]_vars
  PROVE  Positions'
<1>1. Len(journal) \in Nat /\ journal \in Seq(Changes)
  BY LenProperties DEF Positions
<1>2. CASE Change
  <2>1. PICK change \in Changes : journal' = Append(journal, change)
    BY <1>2 DEF Change
  <2>2. journal' \in Seq(Changes) /\ Len(journal') = Len(journal) + 1
    BY <1>1, <2>1, AppendProperties
  <2>3. /\ cursor' = cursor /\ phase' = phase /\ applied' = applied /\ page' = page
        /\ resets' = resets
    BY <1>2 DEF Change
  <2>4. Len(journal) < MaxJournal
    BY <1>2 DEF Change
  <2>5. Len(journal') <= MaxJournal
    BY <1>1, <2>2, <2>4, DeltaAssumption
  <2>6. 0 .. Len(journal) \subseteq 0 .. Len(journal')
    BY <1>1, <2>2
  <2> QED
    BY <2>2, <2>3, <2>5, <2>6 DEF Positions
<1>3. CASE Respond
  <2>1. PICK response \in Responses(cursor) : page' = response
    BY <1>3 DEF Respond
  <2>2. response \in [cursor : 0 .. Len(journal), has_more : BOOLEAN]
        /\ cursor <= response.cursor
    BY ResponseFits DEF Positions
  <2>3. applied = cursor
    BY <1>3 DEF Respond, Positions
  <2> QED
    BY <1>3, <2>1, <2>2, <2>3 DEF Respond, Positions
<1>4. CASE RespondReset
  <2>1. PICK response \in Responses(0) : page' = response
    BY <1>4 DEF RespondReset
  <2>2. response \in [cursor : 0 .. Len(journal), has_more : BOOLEAN]
        /\ 0 <= response.cursor
    BY <1>1, ResponseFits
  <2>3. resets' \in 0 .. MaxResets
    BY <1>4, DeltaAssumption DEF RespondReset, Positions
  <2>4. 0 \in 0 .. Len(journal)
    BY <1>1
  <2> QED
    BY <1>4, <2>1, <2>2, <2>3, <2>4 DEF RespondReset, Positions
<1>5. CASE ApplyEntry
  <2>1. applied < page.cursor /\ page.cursor \in 0 .. Len(journal)
        /\ applied \in 0 .. Len(journal)
    BY <1>5 DEF ApplyEntry, Positions
  <2>2. applied + 1 \in 0 .. Len(journal) /\ applied + 1 <= page.cursor
    BY <1>1, <2>1
  <2> QED
    BY <1>5, <2>2 DEF ApplyEntry, Positions
<1>6. CASE EndPage
  BY <1>6 DEF EndPage, Positions
<1>7. CASE RequestFails
  BY <1>7 DEF RequestFails, Positions
<1>8. CASE UNCHANGED vars
  BY <1>8 DEF vars, Positions
<1> QED
  BY <1>2, <1>3, <1>4, <1>5, <1>6, <1>7, <1>8 DEF Next, Update

\* Every step keeps the tree what the applied changes make.
LEMMA SyncKeepsView ==
  ASSUME RootRemovals, IsTree(tree), Positions, Applied, [Next]_vars
  PROVE  Applied'
<1>1. /\ Len(journal) \in Nat /\ journal \in Seq(Changes)
      /\ applied \in 0 .. Len(journal) /\ applied \in Nat
  BY LenProperties DEF Positions
<1>2. CASE Change
  <2>1. PICK change \in Changes : journal' = Append(journal, change)
    BY <1>2 DEF Change
  <2>2. \A i \in 1 .. Len(journal) : journal'[i] = journal[i]
    BY <1>1, <2>1, AppendProperties
  <2>3. \A i \in 1 .. applied : journal[i] = journal'[i]
    BY <1>1, <2>2
  <2>4. SpaceAfter(journal, applied) = SpaceAfter(journal', applied)
    BY <1>1, <2>3, SpaceSteps
  <2>5. tree' = tree /\ applied' = applied
    BY <1>2 DEF Change
  <2> QED
    BY <2>4, <2>5 DEF Applied
<1>3. CASE RespondReset
  <2>1. PICK st \in Emptied : tree' = st.tree
    BY <1>3 DEF RespondReset, RemoveAllFileEntries
  <2>2. DOMAIN tree' = {Root}
    BY <2>1, AllRemoved
  <2>3. ViewOf(tree') = [p \in {} |-> Dir]
    BY <2>2 DEF ViewOf, Root
  <2>4. applied' = 0 /\ journal' = journal
    BY <1>3 DEF RespondReset
  <2>5. SpaceAfter(journal, 0) = [p \in {} |-> Dir]
    BY SpaceSteps
  <2> QED
    BY <2>3, <2>4, <2>5 DEF Applied
<1>4. CASE ApplyEntry
  <2>1. PICK change : change = journal[applied + 1]
    OBVIOUS
  <2>2. change \in Changes
    <3>1. applied + 1 \in 1 .. Len(journal)
      BY <1>1, <1>4 DEF ApplyEntry, Positions
    <3> QED
      BY <1>1, <2>1, <3>1, ElementOfSeq
  <2>3. change.path \in Paths /\ change.metadata \in Metadata \cup {Deleted}
        /\ (change.metadata = Deleted => Len(change.path) = 1)
    BY <2>2, DeltaAssumption DEF RootRemovals
  <2>4. SpaceAfter(journal, applied + 1) = Outcome(ViewOf(tree), change)
    BY <1>1, <2>1, SpaceSteps DEF Applied
  <2>5. applied' = applied + 1 /\ journal' = journal
    BY <1>4 DEF ApplyEntry
  <2>6. \/ change.metadata # Deleted /\ AddFileEntry(change.path, change.metadata)
        \/ change.metadata = Deleted /\ RemoveFileEntry(change.path)
    BY <1>4, <2>1 DEF ApplyEntry
  <2>7. ViewOf(tree') = Outcome(ViewOf(tree), change)
    <3>1. CASE change.metadata # Deleted
      <4>1. PICK path \in Paths : path = change.path
        BY <2>3
      <4>2. PICK metadata \in Metadata : metadata = change.metadata
        BY <2>3, <3>1
      <4>3. PICK st \in Added(path, metadata) : tree' = st.tree
        BY <2>6, <3>1, <4>1, <4>2 DEF AddFileEntry
      <4>4. Written(st.tree, tree, path, metadata)
        BY FileAdded
      <4>5. Written(tree', tree, path, metadata)
        BY <4>3, <4>4
      <4>6. ViewOf(tree') = With(ViewOf(tree), path, metadata)
        BY <4>5, AdditionIsWith
      <4> QED
        BY <3>1, <4>1, <4>2, <4>6 DEF Outcome
    <3>2. CASE change.metadata = Deleted
      <4>1. PICK path \in Paths : path = change.path /\ Len(path) = 1
        BY <2>3, <3>2
      <4>2. PICK u : u = Removed(path).tree
        OBVIOUS
      <4>3. tree' = u
        BY <2>6, <3>2, <4>1, <4>2 DEF RemoveFileEntry
      <4>4. /\ DOMAIN u = {q \in DOMAIN tree : ~IsPrefix(path, q)}
            /\ \A q \in DOMAIN u : Alike(u[q], tree[q])
        BY <4>1, <4>2, FileRemoved
      <4>5. ViewOf(u) = Without(ViewOf(tree), path)
        BY <4>4, RemovalIsWithout
      <4> QED
        BY <3>2, <4>1, <4>3, <4>5 DEF Outcome
    <3> QED
      BY <3>1, <3>2
  <2> QED
    BY <2>4, <2>5, <2>7 DEF Applied
<1>5. CASE UNCHANGED <<tree, applied, journal>>
  BY <1>5 DEF Applied
<1> QED
  BY <1>2, <1>3, <1>4, <1>5 DEF Next, Update, Respond, EndPage, RequestFails, vars

(***************************************************************************)
(* The theorems.                                                           *)
(***************************************************************************)

\* The invariant without the condition on removals.
THEOREM SyncInvariance == Spec => [](IsTree(tree) /\ Positions)
<1>1. Init => IsTree(tree) /\ Positions
  BY SyncStarts
<1>2. IsTree(tree) /\ Positions /\ [Next]_vars => (IsTree(tree) /\ Positions)'
  BY SyncKeepsTree, SyncKeepsPositions
<1> QED
  BY <1>1, <1>2, PTL DEF Spec

\* The state of dbapi_update and of the tree has its types, and the tree that it
\* makes is linked, whatever the server answers.
THEOREM SyncStaysLinked == Spec => [](TypeOK /\ TreeLinked)
<1>1. IsTree(tree) /\ Positions => TypeOK /\ TreeLinked
  <2> SUFFICES ASSUME IsTree(tree), Positions PROVE TypeOK /\ TreeLinked
    OBVIOUS
  <2>1. TreeTypeOK /\ TreeLinked
    BY TreeSays
  <2>2. Len(journal) \in Nat /\ Len(journal) <= MaxJournal
    BY LenProperties DEF Positions
  <2>3. 0 .. Len(journal) \subseteq 0 .. MaxJournal
    BY <2>2, DeltaAssumption
  <2> QED
    BY <2>1, <2>3 DEF TypeOK, Positions
<1> QED
  BY <1>1, SyncInvariance, PTL

\* The positions of dbapi_update in the journal, the pages that it gets, and the
\* entries of the tree keep their types: no sequence of pages, retries and
\* failures takes them out of range.
THEOREM SyncTypesHold == Spec => []TypeOK
<1> QED
  BY SyncStaysLinked, PTL

\* Between two calls of dbapi_update, and in what is served, the tree is the
\* folder as of the cursor, if only entries of the root directory are removed.
THEOREM ServedAsOfCursor ==
  ASSUME RootRemovals
  PROVE  Spec => []TreeMatchesCursor
<1>1. Init => IsTree(tree) /\ Positions /\ Applied
  BY SyncStarts
<1>2. (IsTree(tree) /\ Positions /\ Applied) /\ [Next]_vars
        => (IsTree(tree) /\ Positions /\ Applied)'
  BY SyncKeepsTree, SyncKeepsPositions, SyncKeepsView
<1>3. IsTree(tree) /\ Positions /\ Applied => TreeMatchesCursor
  <2> SUFFICES ASSUME Positions, Applied, phase # "apply"
               PROVE  View = Namespace(cursor)
    BY DEF TreeMatchesCursor
  <2>1. applied = cursor
    BY DEF Positions
  <2>2. View = ViewOf(tree)
    BY DEF View, ViewOf
  <2>3. Namespace(cursor) = SpaceAfter(journal, cursor)
    BY NamespaceIsSpace
  <2> QED
    BY <2>1, <2>2, <2>3 DEF Applied
<1> QED
  BY <1>1, <1>2, <1>3, PTL DEF Spec

================================================================================
