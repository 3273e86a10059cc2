----------------------------- MODULE FatVolumeProofs -----------------------------
(***************************************************************************)
(* Proofs about FatVolume: the operations of the tree make no step that    *)
(* ClusterChain does not allow, so that what ClusterChainProofs proves of  *)
(* the chains is true of the volume.                                       *)
(***************************************************************************)
EXTENDS FatVolume, ClusterChainProofs, DirTreeProofs

\* Every step of the volume is a step of the allocator or leaves it alone: a call
\* begins when the one before it has returned, an operation when none runs.
LEMMA VolumeStep ==
  ASSUME [VolumeNext]_volumeVars
  PROVE  [Next]_vars
<1>1. CASE UNCHANGED volumeVars
  BY <1>1 DEF volumeVars
<1>2. ASSUME NEW st, Operation(st)
      PROVE  UNCHANGED vars
  BY <1>2 DEF Operation
<1>3. CASE \E path \in Paths, metadata \in Metadata : BeginAddFileEntry(path, metadata)
  BY <1>2, <1>3 DEF BeginAddFileEntry
<1>4. CASE \E path \in Paths : BeginRemoveFileEntry(path)
  BY <1>2, <1>4 DEF BeginRemoveFileEntry
<1>5. CASE BeginRemoveAllFileEntries
  BY <1>2, <1>5 DEF BeginRemoveAllFileEntries
<1>6. CASE Call
  BY <1>6 DEF Call, Next
<1>7. CASE Go
  BY <1>7 DEF Go, Next
<1> QED
  BY <1>1, <1>3, <1>4, <1>5, <1>6, <1>7 DEF VolumeNext

\* The volume implements the allocator: an operation of the tree, with the calls
\* it makes, is a behaviour of ClusterChain.
THEOREM VolumeAllocates == VolumeSpec => Spec
<1>1. VolumeInit => Init
  BY DEF VolumeInit
<1>2. [VolumeNext]_volumeVars => [Next]_vars
  BY VolumeStep
<1> QED
  BY <1>1, <1>2, PTL DEF VolumeSpec, Spec

\* What the tables promise between two calls holds of the volume, whatever the
\* tree does: chains are disjoint, end, and are not longer than they have to be.
THEOREM VolumeChainsHold ==
  VolumeSpec => [](TypeOK /\ ChainsEnd /\ ChainsPartition /\ ChainsTight)
BY VolumeAllocates, TypesHold, EndsHold, PartitionHolds, TightHolds, PTL

\* A call of the tree leaves a chain of exactly the clusters it was asked for,
\* unless it extended it.
THEOREM VolumeCallsFit == VolumeSpec => CallsFitSize
BY VolumeAllocates, FitHolds, PTL

\* The volume aborts only when the entries of the tree need more clusters than
\* there are.
THEOREM VolumeAbortsHold ==
  ASSUME SizesReachable
  PROVE  VolumeSpec => []AbortsOnlyWhenFull
BY VolumeAllocates, AbortsHold, PTL

(***************************************************************************)
(* What a list of calls makes of the chains.  The state is the length of   *)
(* every chain, by path.                                                   *)
(***************************************************************************)

\* The lengths after a call.
After(lengths, call) ==
  [p \in CASE call.op = "allocate" -> DOMAIN lengths \cup {call.path}
           [] call.op = "free"     -> DOMAIN lengths \ {call.path}
           [] OTHER                -> DOMAIN lengths |->
     IF p # call.path THEN lengths[p]
     ELSE IF call.op = "allocate" THEN ClustersFor(call.bytes)
     ELSE Reallocated(lengths[p], call.bytes)]

\* The call is for a path that it can be made for.
Ready(lengths, call) ==
  /\ call.op \in {"allocate", "reallocate", "free"}
  /\ call.op = "allocate" <=> call.path \notin DOMAIN lengths
  /\ call.op = "free" => call.path # Root

\* The list leads from the lengths l to the lengths m, each call in its turn.
IsReplay(f, l, list, m) ==
  /\ f[0] = l /\ f[Len(list)] = m
  /\ \A i \in 1 .. Len(list) : Ready(f[i - 1], list[i]) /\ f[i] = After(f[i - 1], list[i])

Replay(l, list, m) == \E f : IsReplay(f, l, list, m)

\* No call changes nothing.
LEMMA ReplayNone ==
  ASSUME NEW l
  PROVE  /\ Replay(l, <<>>, l)
         /\ \A m : Replay(l, <<>>, m) => m = l
<1>1. IsReplay([i \in 0 .. 0 |-> l], l, <<>>, l)
  BY DEF IsReplay
<1>2. \A f, m : IsReplay(f, l, <<>>, m) => m = l
  BY DEF IsReplay
<1> QED
  BY <1>1, <1>2 DEF Replay

\* One call.
LEMMA ReplayOne ==
  ASSUME NEW l, NEW call, Ready(l, call)
  PROVE  Replay(l, <<call>>, After(l, call))
<1> PICK m : m = After(l, call)
  OBVIOUS
<1> DEFINE f == [i \in 0 .. 1 |-> IF i = 0 THEN l ELSE m]
<1>1. f[0] = l /\ f[1] = m /\ Len(<<call>>) = 1 /\ <<call>>[1] = call
  OBVIOUS
<1> HIDE DEF f
<1>2. IsReplay(f, l, <<call>>, m)
  BY <1>1 DEF IsReplay
<1> QED
  BY <1>2 DEF Replay

\* One list after the other.
LEMMA ReplayBoth ==
  ASSUME NEW S, NEW a \in Seq(S), NEW b \in Seq(S), NEW l, NEW m, NEW n,
         Replay(l, a, m), Replay(m, b, n)
  PROVE  Replay(l, a \o b, n)
<1>1. PICK f : IsReplay(f, l, a, m)
  BY DEF Replay
<1>2. PICK g : IsReplay(g, m, b, n)
  BY DEF Replay
<1>3. PICK c : c = a \o b
  OBVIOUS
<1>4. /\ Len(a) \in Nat /\ Len(b) \in Nat /\ Len(c) = Len(a) + Len(b)
      /\ \A i \in 1 .. Len(a) + Len(b) : c[i] = IF i <= Len(a) THEN a[i] ELSE b[i - Len(a)]
  BY <1>3, ConcatProperties, LenProperties
<1>5. PICK h : h = [i \in 0 .. Len(c) |-> IF i <= Len(a) THEN f[i] ELSE g[i - Len(a)]]
  OBVIOUS
<1>6. \A i \in 0 .. Len(a) : h[i] = f[i]
  BY <1>4, <1>5
<1>7. \A i \in 0 .. Len(b) : h[Len(a) + i] = g[i]
  <2>1. h[Len(a)] = g[0]
    BY <1>1, <1>2, <1>4, <1>6 DEF IsReplay
  <2>2. ASSUME NEW i \in 1 .. Len(b) PROVE h[Len(a) + i] = g[i]
    <3>1. Len(a) + i \in 0 .. Len(c) /\ ~(Len(a) + i <= Len(a)) /\ (Len(a) + i) - Len(a) = i
      BY <1>4
    <3> QED
      BY <1>5, <3>1
  <2> QED
    BY <1>4, <2>1, <2>2
<1>8. h[0] = l /\ h[Len(c)] = n
  BY <1>1, <1>2, <1>4, <1>6, <1>7 DEF IsReplay
<1>9. ASSUME NEW i \in 1 .. Len(c)
      PROVE  Ready(h[i - 1], c[i]) /\ h[i] = After(h[i - 1], c[i])
  <2>1. CASE i <= Len(a)
    <3>1. i \in 1 .. Len(a) /\ i - 1 \in 0 .. Len(a) /\ i \in 0 .. Len(a) /\ c[i] = a[i]
      BY <1>4, <2>1
    <3>2. Ready(f[i - 1], a[i]) /\ f[i] = After(f[i - 1], a[i])
      BY <1>1, <3>1 DEF IsReplay
    <3> QED
      BY <1>6, <3>1, <3>2
  <2>2. CASE ~(i <= Len(a))
    <3>1. PICK j \in 1 .. Len(b) : i = Len(a) + j
      <4>1. i - Len(a) \in 1 .. Len(b) /\ i = Len(a) + (i - Len(a))
        BY <1>4, <2>2
      <4> QED
        BY <4>1
    <3>2. c[i] = b[j]
      <4>1. i - Len(a) = j
        BY <1>4, <3>1
      <4> QED
        BY <1>4, <2>2, <4>1
    <3>3. h[i] = g[j]
      BY <1>7, <3>1
    <3>4. h[i - 1] = g[j - 1]
      <4>1. j - 1 \in 0 .. Len(b) /\ i - 1 = Len(a) + (j - 1)
        BY <1>4, <3>1
      <4> QED
        BY <1>7, <4>1
    <3>5. Ready(g[j - 1], b[j]) /\ g[j] = After(g[j - 1], b[j])
      BY <1>2 DEF IsReplay
    <3> QED
      BY <3>2, <3>3, <3>4, <3>5
  <2> QED
    BY <2>1, <2>2
<1>10. IsReplay(h, l, c, n)
  BY <1>8, <1>9 DEF IsReplay
<1> QED
  BY <1>3, <1>10 DEF Replay

\* The first call, then the others.
LEMMA ReplayFirst ==
  ASSUME NEW S, NEW list \in Seq(S), list # <<>>, NEW l, NEW n, Replay(l, list, n)
  PROVE  /\ Ready(l, Head(list))
         /\ Replay(After(l, Head(list)), Tail(list), n)
<1>1. PICK f : IsReplay(f, l, list, n)
  BY DEF Replay
<1>2. /\ Len(list) \in Nat \ {0} /\ Head(list) = list[1]
      /\ Len(Tail(list)) = Len(list) - 1
      /\ \A i \in 1 .. Len(list) - 1 : Tail(list)[i] = list[i + 1]
  BY HeadTailProperties, LenProperties, EmptySeq
<1>3. PICK g : g = [i \in 0 .. Len(list) - 1 |-> f[i + 1]]
  OBVIOUS
<1>4. Ready(l, list[1]) /\ f[1] = After(l, list[1])
  <2>1. 1 \in 1 .. Len(list) /\ 1 - 1 = 0
    BY <1>2
  <2>2. Ready(f[1 - 1], list[1]) /\ f[1] = After(f[1 - 1], list[1])
    BY <1>1, <2>1 DEF IsReplay
  <2> QED
    BY <1>1, <2>1, <2>2 DEF IsReplay
<1>5. g[0] = f[1] /\ g[Len(list) - 1] = n
  BY <1>1, <1>2, <1>3 DEF IsReplay
<1>6. ASSUME NEW i \in 1 .. Len(list) - 1
      PROVE  Ready(g[i - 1], list[i + 1]) /\ g[i] = After(g[i - 1], list[i + 1])
  <2>1. i + 1 \in 1 .. Len(list) /\ (i + 1) - 1 = i
    BY <1>2
  <2>2. Ready(f[i], list[i + 1]) /\ f[i + 1] = After(f[i], list[i + 1])
    BY <1>1, <2>1 DEF IsReplay
  <2>3. g[i - 1] = f[i] /\ g[i] = f[i + 1]
    <3>1. i - 1 \in 0 .. Len(list) - 1 /\ (i - 1) + 1 = i /\ i \in 0 .. Len(list) - 1
      BY <1>2
    <3> QED
      BY <1>3, <3>1
  <2> QED
    BY <2>2, <2>3
<1>7. IsReplay(g, f[1], Tail(list), n)
  BY <1>2, <1>5, <1>6 DEF IsReplay
<1> QED
  BY <1>2, <1>4, <1>7 DEF Replay

(***************************************************************************)
(* What the running call will make of the chains.                          *)
(***************************************************************************)

\* The clusters of its chain that the running call has passed.
Passed == current_size \div BYTES_PER_CLUSTER

\* The clusters that the chain of the running call will have when it returns.  A
\* cluster that extending has found is linked to itself before the next is found.
Outcome ==
  IF pc # "reallocate" THEN ClustersFor(size[entry])
  ELSE IF ~extending THEN Reallocated(Count(start), size[entry])
  ELSE Count(start) + (ClustersFor(size[entry]) - Passed
                         + (IF FAT_ENTRIES[next_cluster] = FREE THEN 0 ELSE 1)) \div 2

\* The entries that are in the tree of chains when the running call has returned,
\* and the length of their chains then.
Staying   == Kept \cup (IF pc = "allocate" THEN {entry} ELSE {})
Length(e) == IF e = entry THEN Outcome ELSE Count(first_cluster[e])
Settled   == [e \in Staying |-> Length(e)]

\* Extending searches from the cluster that it has found last, which is free or
\* linked to itself.
ExtInv ==
  pc = "reallocate" /\ extending =>
    /\ LAST_FREE_ENTRY = next_cluster
    /\ FAT_ENTRIES[next_cluster] \in {FREE, next_cluster}

\* The running call will not return.
Stuck == pc \in {"allocate", "reallocate"} /\ Unreachable

\* The search for a free cluster begins with the one it found last.
LEMMA SearchHere ==
  ASSUME NEW fat, LAST_FREE_ENTRY \in Clusters, fat[LAST_FREE_ENTRY] = FREE,
         NEW c \in Clusters, IsNextFree(fat, c)
  PROVE  c = LAST_FREE_ENTRY
BY ConstantsAssumption DEF IsNextFree, Clusters

\* The clusters that the running call has passed.
LEMMA PassedClusters ==
  ASSUME NEW n \in Nat
  PROVE  (n * BYTES_PER_CLUSTER) \div BYTES_PER_CLUSTER = n
<1> DEFINE B == BYTES_PER_CLUSTER
<1>1. B \in Nat \ {0} /\ n * B \in Nat
  BY ConstantsAssumption
<1>2. PICK q \in Nat, r \in 0 .. B - 1 : (n * B) \div B = q /\ n * B = q * B + r
  BY <1>1, DivideClusters
<1>3. CASE q < n
  <2>1. (q + 1) * B <= n * B
    BY <1>3, BytesMonotonic
  <2>2. (q + 1) * B = q * B + B /\ q * B \in Nat
    BY <1>1
  <2> QED
    BY <1>1, <1>2, <2>1, <2>2
<1>4. CASE q > n
  <2>1. (n + 1) * B <= q * B
    BY <1>4, BytesMonotonic
  <2>2. (n + 1) * B = n * B + B /\ q * B \in Nat
    BY <1>1
  <2> QED
    BY <1>1, <1>2, <2>1, <2>2
<1> QED
  BY <1>2, <1>3, <1>4

\* The call that links one more cluster comes to the same end.
LEMMA LinkSettles ==
  ASSUME Inv, SizeInv, ExtInv, ~Stuck, AllocateNext \/ Extend
  PROVE  Settled' = Settled
<1>1. /\ pc \in {"allocate", "reallocate"} /\ pc' = pc /\ entry' = entry
      /\ start' = start /\ size' = size /\ first_cluster' = first_cluster
      /\ current_size < size[entry] /\ current_size' = Grown
      /\ pc = "reallocate" => Extend /\ extending' = TRUE
  BY DEF AllocateNext, Extend, LinkNext, entryVars
<1>2. /\ Kept' = Kept /\ start \in Clusters /\ start \in Heads /\ entry \in Entries
      /\ WellFormed(Table, Heads)
      /\ next_cluster \in Clusters /\ next_cluster \in ChainIn(Table, start)
      /\ \A h \in Heads :
           ChainIn(Table', h) =
             IF next_cluster \in ChainIn(Table, h)
             THEN ChainIn(Table, h) \cup {next_cluster'} ELSE ChainIn(Table, h)
  BY <1>1, CallChain, LinkChains
<1>3. \A e \in Staying : e # entry => Length(e)' = Length(e)
  <2>1. \A e \in Kept : e # entry =>
          ChainIn(Table', first_cluster[e]) = ChainIn(Table, first_cluster[e])
    BY <1>1, <1>2, CallChain
  <2> QED
    BY <1>1, <2>1 DEF Length, Staying, Count
<1>4. Staying' = Staying
  BY <1>1, <1>2 DEF Staying
<1>5. Outcome' = Outcome
  <2>1. CASE pc = "allocate"
    BY <1>1, <2>1 DEF Outcome
  <2>2. CASE pc = "reallocate"
    <3>1. PICK passed \in Nat \ {0} :
            /\ Progress(passed)
            /\ current_size' = (passed + 1) * BYTES_PER_CLUSTER
            /\ passed + 1 <= ClustersFor(size[entry])
      BY <1>1, SizeGrows DEF Stuck
    <3>2. PICK need \in Nat : need = ClustersFor(size[entry])
      <4>1. size[entry] \in Nat
        BY <1>2 DEF Inv, TypeOK
      <4> QED
        BY <4>1, ClustersForFacts
    <3>3. Passed = passed /\ Passed' = passed + 1
      <4>1. current_size = passed * BYTES_PER_CLUSTER
        BY <3>1 DEF Progress
      <4>2. passed + 1 \in Nat
        OBVIOUS
      <4> QED
        BY <3>1, <4>1, <4>2, PassedClusters DEF Passed
    <3> DEFINE old == Count(start)
               new == Cardinality(ChainIn(Table', start))
    <3>4. IsFiniteSet(ChainIn(Table, start)) /\ old \in Nat
          /\ new = IF next_cluster' \in ChainIn(Table, start) THEN old ELSE old + 1
      <4>1. ChainIn(Table', start) = ChainIn(Table, start) \cup {next_cluster'}
        BY <1>2
      <4>2. IsFiniteSet(ChainIn(Table, start)) /\ old \in Nat
        BY <1>2, ChainFinite DEF Count
      <4> QED
        BY <4>1, <4>2, FS_AddElement DEF Count
    <3>5. /\ next_cluster' \in Clusters /\ IsNextFree(FAT_ENTRIES, next_cluster')
          /\ FAT_ENTRIES[next_cluster'] = FREE
          /\ FAT_ENTRIES' = [FAT_ENTRIES EXCEPT ![next_cluster] = next_cluster']
      BY <1>1, <2>2 DEF Extend, LinkNext, IsNextFree
    <3>6. FAT_ENTRIES \in Tables
      BY TablesType
    <3>7. Outcome' = new + (need - (passed + 1)
                        + (IF FAT_ENTRIES'[next_cluster'] = FREE THEN 0 ELSE 1)) \div 2
      BY <1>1, <2>2, <3>2, <3>3 DEF Outcome, Count
    <3>8. CASE extending /\ FAT_ENTRIES[next_cluster] = FREE
      <4>1. next_cluster' = next_cluster
        BY <2>2, <3>5, <3>8, SearchHere DEF ExtInv, Inv, TypeOK
      <4>2. new = old
        BY <1>2, <3>4, <4>1
      <4>3. FAT_ENTRIES'[next_cluster'] # FREE
        BY <1>2, <3>5, <3>6, <4>1, ClustersFacts DEF Tables
      <4>4. Outcome' = old + (need - (passed + 1) + 1) \div 2
        BY <3>7, <4>2, <4>3
      <4>5. Outcome = old + (need - passed + 0) \div 2
        BY <2>2, <3>2, <3>3, <3>8 DEF Outcome
      <4>6. need - (passed + 1) + 1 = need - passed + 0
        BY <3>2
      <4> QED
        BY <4>4, <4>5, <4>6
    <3>9. CASE ~(extending /\ FAT_ENTRIES[next_cluster] = FREE)
      <4>1. FAT_ENTRIES[next_cluster] # FREE
        BY <1>1, <2>2, <3>9, ClustersFacts DEF Extend, AtEnd
      <4>2. next_cluster' # next_cluster
        BY <3>5, <4>1
      <4>3. Table[next_cluster'] = FREE
        BY <4>2, LinkTables
      <4>4. next_cluster' \notin ChainIn(Table, start)
        BY <1>2, <4>3, ChainUsed
      <4>5. new = old + 1
        BY <3>4, <4>4
      <4>6. FAT_ENTRIES'[next_cluster'] = FREE
        BY <3>5, <3>6, <4>2 DEF Tables
      <4>7. PICK k \in Nat : k = need - (passed + 1) /\ k + 1 = need - passed
        BY <3>1, <3>2
      <4>8. Outcome' = (old + 1) + k \div 2
        BY <3>7, <4>5, <4>6, <4>7
      <4>9. Outcome = old + (k + 2) \div 2
        <5>1. CASE extending
          <6>1. Outcome = old + (need - passed + 1) \div 2
            BY <2>2, <3>2, <3>3, <4>1, <5>1 DEF Outcome
          <6>2. need - passed + 1 = k + 2
            BY <4>7, <3>2
          <6> QED
            BY <6>1, <6>2
        <5>2. CASE ~extending
          <6>1. Count(next_cluster) = 1
            <7>1. Table[next_cluster] = EOFC
              BY LinkTables
            <7>2. ChainIn(Table, next_cluster) = {next_cluster}
              BY <1>2, <7>1, ChainEnd, ClustersFacts
            <7> QED
              BY <7>2, FS_Singleton DEF Count
          <6>2. old = passed
            BY <2>2, <3>1, <3>4, <5>2, <6>1 DEF Progress
          <6>3. Outcome = Reallocated(passed, size[entry])
            BY <2>2, <5>2, <6>2 DEF Outcome
          <6>4. ~(need <= passed) /\ need - passed + 1 = k + 2
            BY <3>1, <3>2, <4>7
          <6> QED
            BY <3>2, <6>2, <6>3, <6>4 DEF Reallocated
        <5> QED
          BY <5>1, <5>2
      <4> QED
        BY <3>4, <4>8, <4>9
    <3> QED
      BY <3>8, <3>9
  <2> QED
    BY <1>1, <2>1, <2>2
<1>6. \A e \in Staying : Length(e)' = Length(e)
  BY <1>1, <1>3, <1>5 DEF Length
<1> QED
  BY <1>4, <1>6 DEF Settled

\* So does the call that follows the old chain, or cuts it.
LEMMA WalkSettles ==
  ASSUME Inv, SizeInv, ~Stuck, Walk \/ Shrink
  PROVE  Settled' = Settled
<1>1. /\ pc = "reallocate" /\ pc' \in {"reallocate", "shrink"} /\ ~extending /\ ~extending'
      /\ entry' = entry /\ start' = start /\ size' = size /\ first_cluster' = first_cluster
  BY DEF Walk, Shrink, Follow, entryVars
<1>2. CASE Walk
  <2>1. Table' = Table /\ Kept' = Kept /\ pc' = pc
    BY <1>2, WalkInv DEF Walk, Follow
  <2>2. Staying' = Staying /\ \A e \in Staying : Length(e)' = Length(e)
    BY <1>1, <2>1 DEF Staying, Length, Outcome, Count
  <2> QED
    BY <2>2 DEF Settled
<1>3. CASE Shrink
  <2>1. /\ Kept' = Kept /\ start \in Clusters /\ entry \in Entries
        /\ next_cluster \in Clusters /\ pc' = "shrink"
        /\ \A h \in Heads :
             ChainIn(Table', h) = IF next_cluster \in ChainIn(Table, h)
                                  THEN ChainIn(Table, h) \ ChainIn(Table, freed')
                                  ELSE ChainIn(Table, h)
    BY <1>1, <1>3, CallChain, ShrinkInv DEF Shrink
  <2>2. \A e \in Kept : e # entry =>
          ChainIn(Table', first_cluster[e]) = ChainIn(Table, first_cluster[e])
    BY <1>1, <2>1, CallChain
  <2>3. Outcome' = Outcome
    <3>1. size[entry] \in Nat /\ current_size >= size[entry]
      BY <1>3, <2>1 DEF Shrink, Inv, TypeOK
    <3>2. PICK need \in Nat \ {0} : need = ClustersFor(size[entry])
      BY <3>1, ClustersForFacts
    <3>3. Progress(need)
      BY <1>1, <3>1, <3>2, SizeReached
    <3>4. Count(start) \in Nat /\ Count(next_cluster) \in Nat
      BY <2>1, ChainFinite DEF Count
    <3>5. Count(next_cluster) # 0
      <4>1. next_cluster \in ChainIn(Table, next_cluster)
        BY <2>1, ChainType
      <4>2. IsFiniteSet(ChainIn(Table, next_cluster))
        BY <2>1, ChainFinite
      <4> QED
        BY <4>1, <4>2, FS_EmptySet DEF Count
    <3>6. need <= Count(start)
      BY <1>1, <3>3, <3>4, <3>5 DEF Progress
    <3>7. Outcome = need
      BY <1>1, <3>2, <3>6 DEF Outcome, Reallocated
    <3>8. Outcome' = need
      BY <1>1, <2>1, <3>2 DEF Outcome
    <3> QED
      BY <3>7, <3>8
  <2>4. Staying' = Staying
    BY <1>1, <2>1 DEF Staying
  <2>5. \A e \in Staying : Length(e)' = Length(e)
    BY <1>1, <2>1, <2>2, <2>3 DEF Staying, Length, Count
  <2> QED
    BY <2>4, <2>5 DEF Settled
<1> QED
  BY <1>2, <1>3

\* The call that returns has made what it was to make.
LEMMA EndSettles ==
  ASSUME Inv, SizeInv, AllocateEnd \/ Terminate
  PROVE  Settled' = Settled
<1>1. /\ pc \in {"allocate", "reallocate", "terminate"} /\ pc' = "idle"
      /\ entry' = NONE /\ size' = size
      /\ pc = "allocate" => AllocateEnd
      /\ pc # "allocate" => Terminate
  BY DEF AllocateEnd, Terminate, Ends, Returned, entryVars
<1>2. /\ entry \in Entries /\ start \in Clusters /\ next_cluster \in Clusters
      /\ next_cluster \in ChainIn(Table, start)
  BY <1>1, CallChain
<1>3. Table' = Table
  <2>1. CASE AllocateEnd
    BY <2>1 DEF AllocateEnd, Returned, Table, Marks
  <2>2. CASE Terminate
    BY <2>2, TerminateInv
  <2> QED
    BY <2>1, <2>2
<1>4. first_cluster'[entry] = start
      /\ \A e \in Entries : e # entry => first_cluster'[e] = first_cluster[e]
  BY <1>1, <1>2 DEF AllocateEnd, Terminate, entryVars, Inv, TypeOK, CallInv
<1>5. current_size >= size[entry]
  <2>1. pc = "terminate" => ~Unreachable /\ \E n \in Nat \ {0} : Progress(n)
    BY DEF SizeInv, Endless
  <2> QED
    BY <1>1, <2>1 DEF AllocateEnd, Terminate, Ends, Progress
<1>6. Progress(ClustersFor(size[entry]))
  BY <1>1, <1>5, SizeReached
<1>7. PICK need \in Nat \ {0} : need = ClustersFor(size[entry])
  <2>1. size[entry] \in Nat
    BY <1>2 DEF Inv, TypeOK
  <2> QED
    BY <2>1, ClustersForFacts
<1>8. Outcome = Count(start)
  <2>0. Count(start) \in Nat
    BY <1>2, ChainFinite DEF Count
  <2>1. CASE pc # "reallocate"
    BY <1>1, <1>6, <1>7, <2>1 DEF Progress, Outcome
  <2>2. CASE pc = "reallocate" /\ extending
    <3>1. Passed = need
      BY <1>6, <1>7, PassedClusters DEF Passed, Progress
    <3>2. Outcome = Count(start)
                      + (need - need + (IF FAT_ENTRIES[next_cluster] = FREE THEN 0 ELSE 1)) \div 2
      BY <1>7, <2>2, <3>1 DEF Outcome
    <3> QED
      BY <1>7, <2>0, <3>2
  <2>3. CASE pc = "reallocate" /\ ~extending
    <3>1. FAT_ENTRIES[next_cluster] = EOFC /\ Table = FAT_ENTRIES
      BY <1>1, <2>3 DEF Terminate, Ends, AtEnd, Table, Marks
    <3>2. ChainIn(Table, next_cluster) = {next_cluster}
      BY <1>2, <3>1, ChainEnd, ClustersFacts
    <3>3. Count(next_cluster) = 1
      BY <3>2, FS_Singleton DEF Count
    <3>4. Count(start) + 1 = need + Count(next_cluster)
      BY <1>6, <1>7, <2>3 DEF Progress
    <3>5. Count(start) = need
      BY <1>7, <2>0, <3>3, <3>4
    <3> QED
      BY <1>7, <2>3, <3>5 DEF Outcome, Reallocated
  <2> QED
    BY <2>1, <2>2, <2>3
<1>9. Staying' = Staying /\ Staying \subseteq Entries
  <2>1. CASE pc = "allocate"
    BY <1>1, <1>2, <1>4, <2>1, ClustersFacts DEF Staying, Kept, InTree
  <2>2. CASE pc # "allocate"
    <3>1. first_cluster[entry] = start /\ first_cluster' = first_cluster
      BY <1>1, <2>2 DEF Inv, CallInv, Terminate, entryVars
    <3> QED
      BY <1>1, <2>2, <3>1 DEF Staying, Kept, InTree
  <2> QED
    BY <2>1, <2>2
<1>10. ASSUME NEW e \in Staying PROVE Length(e)' = Length(e)
  <2>1. e # NONE
    BY <1>9, ConstantsAssumption
  <2>2. CASE e = entry
    BY <1>1, <1>3, <1>4, <1>8, <2>1, <2>2 DEF Length, Count
  <2>3. CASE e # entry
    BY <1>1, <1>3, <1>4, <1>9, <2>1, <2>3 DEF Length, Count
  <2> QED
    BY <2>2, <2>3
<1> QED
  BY <1>9, <1>10 DEF Settled

\* Freeing leaves the other chains.
LEMMA FreedSettles ==
  ASSUME Inv, SizeInv, FreeNext \/ FreeLast
  PROVE  Settled' = Settled
<1>1. /\ pc \in {"free", "shrink"} /\ Kept' = Kept
      /\ \A e \in Kept : /\ first_cluster'[e] = first_cluster[e]
                         /\ ChainIn(Table', first_cluster[e]) =
                              ChainIn(Table, first_cluster[e])
  BY FreedInv DEF FreeNext, FreeLast
<1>2. /\ pc' \in {"free", "shrink", "terminate", "idle"}
      /\ pc' = "idle" => pc = "free" /\ entry' = NONE
      /\ pc' # "idle" => entry' = entry /\ size' = size
      /\ pc' = "free" => pc = "free"
  BY <1>1 DEF FreeNext, FreeLast, Returned, entryVars
<1>3. Staying' = Staying /\ Staying = Kept
  BY <1>1, <1>2 DEF Staying
<1>4. \A e \in Kept : e \in Entries /\ e # NONE /\ (pc = "free" => e # entry)
  BY ConstantsAssumption DEF Kept, InTree
<1>5. ASSUME NEW e \in Kept PROVE Length(e)' = Length(e)
  <2>1. CASE e = entry
    BY <1>1, <1>2, <1>4, <2>1 DEF Length, Outcome
  <2>2. CASE e # entry
    BY <1>1, <1>2, <1>4, <2>2 DEF Length, Count
  <2> QED
    BY <2>1, <2>2
<1> QED
  BY <1>3, <1>5 DEF Settled

\* Extending goes on from the cluster it has found.
LEMMA StepExt ==
  ASSUME Inv, ExtInv, [Next]_vars
  PROVE  ExtInv'
<1> SUFFICES ASSUME pc' = "reallocate" /\ extending'
             PROVE  /\ LAST_FREE_ENTRY' = next_cluster'
                    /\ FAT_ENTRIES'[next_cluster'] \in {FREE, next_cluster'}
  BY DEF ExtInv
<1>1. CASE Extend
  <2>1. /\ next_cluster \in Clusters /\ next_cluster' \in Clusters
        /\ FAT_ENTRIES[next_cluster'] = FREE
        /\ FAT_ENTRIES' = [FAT_ENTRIES EXCEPT ![next_cluster] = next_cluster']
        /\ LAST_FREE_ENTRY' = next_cluster'
    BY <1>1 DEF Extend, LinkNext, IsNextFree, Inv, CallInv
  <2>2. FAT_ENTRIES \in Tables
    BY TablesType
  <2>3. CASE next_cluster' = next_cluster
    BY <2>1, <2>2, <2>3 DEF Tables
  <2>4. CASE next_cluster' # next_cluster
    BY <2>1, <2>2, <2>4 DEF Tables
  <2> QED
    BY <2>1, <2>3, <2>4
<1>2. CASE UNCHANGED vars
  BY <1>2 DEF ExtInv, vars, tableVars, callVars
<1>3. ASSUME ~Extend, Next
      PROVE  FALSE
  <2>1. \A e \in Entries, bytes \in Sizes : ~Allocate(e, bytes) /\ ~Reallocate(e, bytes)
    BY DEF Allocate, Reallocate
  <2>2. \A e \in Entries : ~Free(e) /\ ~AllocateFails(e)
    BY DEF Free, AllocateFails
  <2>3. ~AllocateNext /\ ~AllocateEnd /\ ~Terminate /\ ~Shrink /\ ~OutOfClusters
    BY DEF AllocateNext, AllocateEnd, Terminate, Returned, Shrink, OutOfClusters
  <2>4. ~Walk
    BY DEF Walk, Follow
  <2>5. ~FreeNext /\ ~FreeLast
    BY DEF FreeNext, FreeLast, Returned
  <2> QED
    BY <1>3, <2>1, <2>2, <2>3, <2>4, <2>5 DEF Next, Iteration
<1> QED
  BY <1>1, <1>2, <1>3

\* An iteration of a call that will return comes to the same end.
LEMMA IterationSettles ==
  ASSUME Inv, SizeInv, ExtInv, ~Stuck, Iteration, pc' # "aborted"
  PROVE  Settled' = Settled
<1>1. ~OutOfClusters
  BY DEF OutOfClusters
<1> QED
  BY <1>1, LinkSettles, WalkSettles, EndSettles, FreedSettles DEF Iteration

\* A call that will not return goes on for ever, or aborts.
LEMMA StuckStays ==
  ASSUME Inv, SizeInv, Stuck, Iteration, pc' # "aborted"
  PROVE  Stuck'
<1>1. current_size < size[entry] \/ ~(current_size < size[entry])
  OBVIOUS
<1>2. ~(current_size >= size[entry])
  BY SizeReached DEF Stuck
<1>3. ~AllocateEnd /\ ~Terminate /\ ~Shrink /\ ~FreeNext /\ ~FreeLast /\ ~OutOfClusters
  BY <1>2 DEF AllocateEnd, Terminate, Ends, Shrink, FreeNext, FreeLast, OutOfClusters, Stuck
<1>4. AllocateNext \/ Walk \/ Extend
  BY <1>3 DEF Iteration
<1>5. pc' = pc /\ entry' = entry /\ size' = size
  BY <1>4 DEF AllocateNext, Walk, Follow, Extend, entryVars
<1> QED
  BY <1>5 DEF Stuck, Unreachable

\* A call that begins will come to the end that After says.
LEMMA CallSettles ==
  ASSUME Inv, NEW call, NEW e \in Entries, NEW bytes \in 0 .. UINT32 - 1,
         call.path = e,
         \/ call.op = "allocate" /\ call.bytes = bytes /\ Allocate(e, bytes)
         \/ call.op = "reallocate" /\ call.bytes = bytes /\ Reallocate(e, bytes)
         \/ call.op = "free" /\ Free(e)
  PROVE  Settled' = After(Settled, call)
<1>1. pc = "idle" /\ entry = NONE /\ entry' = e /\ e # NONE /\ first_cluster' = first_cluster
  BY ConstantsAssumption DEF Allocate, Reallocate, Free, entryVars, Inv, CallInv
<1>2. Staying = Kept /\ Kept \subseteq Entries /\ NONE \notin Kept
  BY <1>1, ConstantsAssumption DEF Staying, Kept, InTree
<1>3. \A g \in Staying : Settled[g] = Count(first_cluster[g])
  BY <1>1, <1>2 DEF Settled, Length
<1>4. DOMAIN Settled = Staying /\ DOMAIN Settled' = Staying'
  BY DEF Settled
<1>5. CASE call.op = "allocate" /\ call.bytes = bytes /\ Allocate(e, bytes)
  <2>1. /\ pc' = "allocate" /\ size'[e] = bytes
    BY <1>5 DEF Allocate, Inv, TypeOK
  <2>2. Staying' = Staying \cup {e} /\ e \notin Kept
    BY <1>1, <1>2, <1>5, <2>1 DEF Staying, Kept, InTree, Allocate
  <2>3. Outcome' = ClustersFor(bytes)
    BY <1>1, <2>1 DEF Outcome
  <2>4. ASSUME NEW g \in Staying
        PROVE  Length(g)' = Settled[g]
    <3>1. g # e /\ first_cluster[g] \in Heads
      BY <1>1, <1>2, <2>2, KeptFacts
    <3>2. ChainIn(Table', first_cluster[g]) = ChainIn(Table, first_cluster[g])
      BY <1>5, <3>1, AllocateInv
    <3> QED
      BY <1>1, <1>3, <3>1, <3>2 DEF Length, Count
  <2>5. Settled' = [g \in Staying \cup {e} |-> Length(g)']
    BY <2>2 DEF Settled
  <2>6. \A g \in Staying \cup {e} :
          Length(g)' = IF g # call.path THEN Settled[g]
                       ELSE IF call.op = "allocate" THEN ClustersFor(call.bytes)
                       ELSE Reallocated(Settled[g], call.bytes)
    BY <1>1, <1>2, <1>5, <2>2, <2>3, <2>4 DEF Length
  <2>7. After(Settled, call) =
          [g \in Staying \cup {e} |-> IF g # call.path THEN Settled[g]
                       ELSE IF call.op = "allocate" THEN ClustersFor(call.bytes)
                       ELSE Reallocated(Settled[g], call.bytes)]
    BY <1>4, <1>5 DEF After
  <2> QED
    BY <2>5, <2>6, <2>7
<1>6. CASE call.op = "reallocate" /\ call.bytes = bytes /\ Reallocate(e, bytes)
  <2>1. /\ pc' = "reallocate" /\ size'[e] = bytes /\ ~extending' /\ Table' = Table
        /\ start' = first_cluster[e]
    BY <1>1, <1>6 DEF Reallocate, Inv, TypeOK, Table, Marks, tableVars, CallInv
  <2>2. Staying' = Staying /\ e \in Kept
    BY <1>1, <1>2, <1>6, <2>1 DEF Staying, Kept, InTree, Reallocate
  <2>3. Outcome' = Reallocated(Settled[e], bytes)
    BY <1>1, <1>2, <1>3, <2>1, <2>2 DEF Outcome, Count
  <2>4. \A g \in Staying :
          Length(g)' = IF g # call.path THEN Settled[g]
                       ELSE IF call.op = "allocate" THEN ClustersFor(call.bytes)
                       ELSE Reallocated(Settled[g], call.bytes)
    BY <1>1, <1>3, <1>6, <2>1, <2>3 DEF Length, Count
  <2>5. Settled' = [g \in Staying |-> Length(g)']
    BY <2>2 DEF Settled
  <2>6. After(Settled, call) =
          [g \in Staying |-> IF g # call.path THEN Settled[g]
                       ELSE IF call.op = "allocate" THEN ClustersFor(call.bytes)
                       ELSE Reallocated(Settled[g], call.bytes)]
    BY <1>4, <1>6 DEF After
  <2> QED
    BY <2>4, <2>5, <2>6
<1>7. CASE call.op = "free" /\ Free(e)
  <2>1. Table' = Table /\ Kept' = Kept \ {e} /\ pc' = "free"
    BY <1>7, FreeInv DEF Free
  <2>2. Staying' = Staying \ {e}
    BY <1>2, <2>1 DEF Staying
  <2>3. \A g \in Staying \ {e} :
          Length(g)' = IF g # call.path THEN Settled[g]
                       ELSE IF call.op = "allocate" THEN ClustersFor(call.bytes)
                       ELSE Reallocated(Settled[g], call.bytes)
    BY <1>1, <1>3, <2>1 DEF Length, Count
  <2>4. Settled' = [g \in Staying \ {e} |-> Length(g)']
    BY <2>2 DEF Settled
  <2>5. After(Settled, call) =
          [g \in Staying \ {e} |-> IF g # call.path THEN Settled[g]
                       ELSE IF call.op = "allocate" THEN ClustersFor(call.bytes)
                       ELSE Reallocated(Settled[g], call.bytes)]
    BY <1>4, <1>7 DEF After
  <2> QED
    BY <2>3, <2>4, <2>5
<1> QED
  BY <1>5, <1>6, <1>7

(***************************************************************************)
(* The calls that remove an entry.                                         *)
(***************************************************************************)

\* The calls there may be.
Requests == [op : {"allocate", "reallocate", "free"}, path : Seq(Names), bytes : Nat]

\* The entries of the tree t at or below a path.
Below(t, path) == {q \in DOMAIN t : IsPrefix(path, q)}

\* The calls for the children of the entry at p, when f has those for each.
CallsBelow(f, t, p) ==
  FlattenSeq([i \in DOMAIN t[p].children |-> f[Append(p, t[p].children[i])]])

\* What f has for every entry at or below the path.
IsRemoval(f, t, path) ==
  /\ RemovalCalls(t, path) = f[path]
  /\ \A p \in Below(t, path) :
       f[p] = CallsBelow(f, t, p)
                \o If(Cuts(t[Front(p)], EntrySize[Last(p)]),
                      <<Reallocation(Front(p), Reduced(t[Front(p)], EntrySize[Last(p)]))>>)
                \o <<Freeing(p)>>

\* No path of the tree has more names.
Depth(t, d) == \A p \in DOMAIN t : Len(p) <= d

\* Prefixes of prefixes, and of one path.
LEMMA PrefixFacts ==
  ASSUME NEW S, NEW p \in Seq(S), NEW q \in Seq(S), NEW r \in Seq(S)
  PROVE  /\ IsPrefix(p, q) /\ IsPrefix(q, r) => IsPrefix(p, r)
         /\ IsPrefix(p, r) /\ IsPrefix(q, r) /\ Len(p) = Len(q) => p = q
<1>1. /\ Len(p) \in Nat /\ Len(q) \in Nat /\ Len(r) \in Nat
  BY LenProperties
<1>2. /\ IsPrefix(p, q) <=> Len(p) <= Len(q) /\ \A i \in 1 .. Len(p) : p[i] = q[i]
      /\ IsPrefix(q, r) <=> Len(q) <= Len(r) /\ \A i \in 1 .. Len(q) : q[i] = r[i]
      /\ IsPrefix(p, r) <=> Len(p) <= Len(r) /\ \A i \in 1 .. Len(p) : p[i] = r[i]
  BY PrefixElements
<1>3. (Len(p) = Len(q) /\ \A i \in 1 .. Len(p) : p[i] = q[i]) => p = q
  BY SeqEqual
<1> QED
  BY <1>1, <1>2, <1>3

\* The children of an entry are below it, one name deeper.
LEMMA ChildBelow ==
  ASSUME NEW t, IsTree(t), NEW path \in Seq(Names), NEW p \in Below(t, path),
         NEW i \in DOMAIN t[p].children
  PROVE  /\ t[p].children[i] \in Names
         /\ p \in Seq(Names)
         /\ Append(p, t[p].children[i]) \in Below(t, path)
         /\ Len(Append(p, t[p].children[i])) = Len(p) + 1
<1>1. p \in DOMAIN t /\ p \in Seq(Names) /\ t[p] \in EntryType
  BY DEF Below, IsTree, Typed
<1>2. t[p].children \in Seq(Names)
  BY <1>1 DEF EntryType
<1>3. t[p].children[i] \in Names /\ t[p].children[i] \in ToSet(t[p].children)
  BY <1>2 DEF ToSet
<1>4. Append(p, t[p].children[i]) \in DOMAIN t
  BY <1>1, <1>3 DEF IsTree, Lists
<1>5. IsPrefix(path, Append(p, t[p].children[i]))
  BY <1>1, <1>3, PrefixOfAppend DEF Below
<1> QED
  BY <1>1, <1>3, <1>4, <1>5, FrontLastOfAppend DEF Below

\* The recursion of RemovalCalls defines what it seems to define: the tree is not
\* endlessly deep.
LEMMA RemovalExists ==
  ASSUME NEW t, IsTree(t), NEW d \in Nat, Depth(t, d), NEW path \in DOMAIN t
  PROVE  \E f : IsRemoval(f, t, path)
<1> DEFINE S == {q \in DOMAIN t : IsPrefix(path, q)}
           Body(f, p) ==
             LET dir == Front(p)
                 extra == EntrySize[Last(p)]
             IN  FlattenSeq([i \in DOMAIN t[p].children |->
                               f[Append(p, t[p].children[i])]])
                   \o If(Cuts(t[dir], extra),
                         <<Reallocation(dir, Reduced(t[dir], extra))>>)
                   \o <<Freeing(p)>>
           Done(f, n) == \A p \in S : Len(p) + n > d => f[p] = Body(f, p)
           T == {n \in Nat : \E f : Done(f, n)}
           all == CHOOSE f : f = [p \in S |-> Body(f, p)]
<1>1. RemovalCalls(t, path) = all[path]
  BY Zenon DEF RemovalCalls
<1>2. path \in Seq(Names) /\ path \in S /\ S = Below(t, path)
  BY PrefixOfItself DEF IsTree, Typed, Below
<1>3. \A p \in S : Len(p) \in Nat /\ Len(p) <= d
  BY LenProperties DEF Depth, IsTree, Typed
<1>4. \A p \in S : \A i \in DOMAIN t[p].children :
        Append(p, t[p].children[i]) \in S /\ Len(Append(p, t[p].children[i])) = Len(p) + 1
  BY <1>2, ChildBelow
<1>5. ASSUME NEW f, NEW g, NEW p \in S,
             \A i \in DOMAIN t[p].children :
               f[Append(p, t[p].children[i])] = g[Append(p, t[p].children[i])]
      PROVE  Body(f, p) = Body(g, p)
  <2>1. [i \in DOMAIN t[p].children |-> f[Append(p, t[p].children[i])]]
          = [i \in DOMAIN t[p].children |-> g[Append(p, t[p].children[i])]]
    BY <1>5
  <2> QED
    BY <2>1
<1>6. \A f, p : Body(f, p) = CallsBelow(f, t, p)
                \o If(Cuts(t[Front(p)], EntrySize[Last(p)]),
                      <<Reallocation(Front(p), Reduced(t[Front(p)], EntrySize[Last(p)]))>>)
                \o <<Freeing(p)>>
  BY DEF CallsBelow
<1> HIDE DEF Body, S
<1>7. 0 \in T
  <2>1. \A p \in S : ~(Len(p) + 0 > d)
    BY <1>3
  <2>2. Done(<<>>, 0)
    BY <2>1
  <2> QED
    BY <2>2
<1>8. ASSUME NEW n \in Nat, n \in T PROVE n + 1 \in T
  <2>1. PICK f : Done(f, n)
    BY <1>8
  <2>2. PICK g : g = [p \in S |-> IF Len(p) + n > d THEN f[p] ELSE Body(f, p)]
    OBVIOUS
  <2>3. ASSUME NEW p \in S, Len(p) + (n + 1) > d
        PROVE  g[p] = Body(g, p)
    <3>1. g[p] = Body(f, p)
      BY <2>1, <2>2
    <3>2. ASSUME NEW i \in DOMAIN t[p].children
          PROVE  f[Append(p, t[p].children[i])] = g[Append(p, t[p].children[i])]
      <4>1. PICK c \in S : c = Append(p, t[p].children[i]) /\ Len(c) = Len(p) + 1
        BY <1>4
      <4>2. Len(c) + n > d
        BY <1>3, <2>3, <4>1
      <4> QED
        BY <2>2, <4>1, <4>2
    <3> QED
      BY <1>5, <3>1, <3>2
  <2>4. Done(g, n + 1)
    BY <2>3
  <2> QED
    BY <2>4
<1>9. Nat \subseteq T
  <2> HIDE DEF T
  <2> QED
    BY <1>7, <1>8, NatSetInduction
<1>10. PICK f : Done(f, d + 1)
  <2>1. d + 1 \in T
    <3> HIDE DEF T
    <3> QED
      BY <1>9
  <2> HIDE DEF Done
  <2> QED
    BY <2>1
<1>11. \A p \in S : f[p] = Body(f, p)
  BY <1>3, <1>10
<1>12. PICK g : g = [p \in S |-> Body(f, p)]
  OBVIOUS
<1>13. \A p \in S : Body(g, p) = Body(f, p)
  <2>1. \A p \in S : g[p] = f[p]
    BY <1>11, <1>12
  <2> QED
    BY <1>4, <1>5, <2>1
<1>14. g = [p \in S |-> Body(g, p)]
  BY <1>12, <1>13
<1>15. all = [p \in S |-> Body(all, p)]
  BY <1>14, Zenon
<1> HIDE DEF all
<1>16. \A p \in S : all[p] = Body(all, p)
  BY <1>15
<1> QED
  BY <1>1, <1>2, <1>6, <1>16 DEF IsRemoval

\* The lengths of the chains of some paths.
IsLengths(l) == DOMAIN l \subseteq Seq(Names) /\ l = [q \in DOMAIN l |-> l[q]]

\* The chains of l are, at p and below, those of the entries of t, and the
\* directory of p has one.
Covers(l, t, p) ==
  /\ IsLengths(l)
  /\ {q \in DOMAIN l : IsPrefix(p, q)} = Below(t, p)
  /\ Front(p) \in DOMAIN l

\* The lengths when the chain of the directory of p is cut, and when all chains at p
\* and below are gone too.
CutFor(l, t, p) ==
  [q \in DOMAIN l |->
     IF q = Front(p) /\ Cuts(t[Front(p)], EntrySize[Last(p)])
     THEN Reallocated(l[q], Reduced(t[Front(p)], EntrySize[Last(p)])) ELSE l[q]]
Gone(l, t, p) == [q \in {r \in DOMAIN l : ~IsPrefix(p, r)} |-> CutFor(l, t, p)[q]]

\* The list that f has for the entry at p removes its chains.
Erases(f, t, p) ==
  /\ f[p] \in Seq(Requests)
  /\ \A l : Covers(l, t, p) => Replay(l, f[p], Gone(l, t, p))

\* The chains m are those of l without the ones of the first i children s of p.  Only
\* that of p may have another length.
Cleared(m, l, p, s, i) ==
  /\ IsLengths(m)
  /\ DOMAIN m = {q \in DOMAIN l : \A j \in 1 .. i : ~IsPrefix(Append(p, s[j]), q)}
  /\ \A q \in DOMAIN m : q # p => m[q] = l[q]

\* The entry at a path that is not the root.
LEMMA EntryFacts ==
  ASSUME NEW t, IsTree(t), NEW p \in DOMAIN t, p # Root
  PROVE  /\ p \in Seq(Names) /\ Front(p) \in Seq(Names) /\ Front(p) # p
         /\ Last(p) \in Names /\ p = Append(Front(p), Last(p))
         /\ ~IsPrefix(p, Front(p)) /\ IsPrefix(p, p)
         /\ Front(p) \in DOMAIN t /\ t[Front(p)].is_dir /\ t[Front(p)] \in EntryType
         /\ EntrySize[Last(p)] <= t[Front(p)].size
         /\ Reduced(t[Front(p)], EntrySize[Last(p)]) \in Nat
<1>1. p \in Seq(Names) /\ p # <<>>
  BY DEF IsTree, Typed, Root
<1>2. /\ Front(p) \in Seq(Names) /\ Last(p) \in Names /\ p = Append(Front(p), Last(p))
      /\ Len(Front(p)) = Len(p) - 1 /\ Len(p) \in Nat
  BY <1>1, PathOfFrontLast, LenProperties
<1>3. ~IsPrefix(p, Front(p)) /\ IsPrefix(p, p) /\ Front(p) # p
  <2>1. ~(Len(p) <= Len(Front(p)))
    BY <1>2
  <2> QED
    BY <1>1, <1>2, <2>1, PrefixOfItself
<1>4. /\ Front(p) \in DOMAIN t /\ t[Front(p)].is_dir
      /\ EntrySize[Last(p)] <= t[Front(p)].size
  BY <1>2 DEF IsTree, Rooted
<1>5. t[Front(p)] \in EntryType /\ t[Front(p)].size \in Nat
  BY <1>4 DEF IsTree, Typed, EntryType
<1>6. Reduced(t[Front(p)], EntrySize[Last(p)]) \in Nat
  <2>1. EntrySize[Last(p)] \in Nat
    BY <1>2, TreeAssumption DEF ConstantsOK
  <2> QED
    BY <1>4, <1>5, <2>1 DEF Reduced
<1> QED
  BY <1>1, <1>2, <1>3, <1>4, <1>5, <1>6

\* The call that cuts the chain of the directory, if there is one.
LEMMA CutReplays ==
  ASSUME NEW t, IsTree(t), NEW p \in DOMAIN t, p # Root,
         NEW l, IsLengths(l), Front(p) \in DOMAIN l,
         NEW list, list = If(Cuts(t[Front(p)], EntrySize[Last(p)]),
                             <<Reallocation(Front(p), Reduced(t[Front(p)], EntrySize[Last(p)]))>>)
  PROVE  list \in Seq(Requests) /\ Replay(l, list, CutFor(l, t, p))
<1>1. Front(p) \in Seq(Names) /\ Reduced(t[Front(p)], EntrySize[Last(p)]) \in Nat
  BY EntryFacts
<1>2. CASE Cuts(t[Front(p)], EntrySize[Last(p)])
  <2>1. PICK call : call = Reallocation(Front(p), Reduced(t[Front(p)], EntrySize[Last(p)]))
    OBVIOUS
  <2>2. call \in Requests /\ list = <<call>>
    BY <1>1, <1>2, <2>1 DEF Reallocation, Requests, If
  <2>3. /\ call.op = "reallocate" /\ call.path = Front(p)
        /\ call.bytes = Reduced(t[Front(p)], EntrySize[Last(p)])
    BY <2>1 DEF Reallocation
  <2>4. Ready(l, call)
    BY <2>3 DEF Ready
  <2>5. After(l, call) = CutFor(l, t, p)
    BY <1>2, <2>3 DEF After, CutFor
  <2>6. Replay(l, list, CutFor(l, t, p))
    BY <2>2, <2>4, <2>5, ReplayOne
  <2>7. <<call>> \in Seq(Requests)
    BY <2>2
  <2> QED
    BY <2>2, <2>6, <2>7
<1>3. CASE ~Cuts(t[Front(p)], EntrySize[Last(p)])
  <2>1. list = <<>>
    BY <1>3 DEF If
  <2>2. CutFor(l, t, p) = l
    BY <1>3 DEF CutFor, IsLengths
  <2>3. <<>> \in Seq(Requests)
    BY EmptySeq
  <2> QED
    BY <2>1, <2>2, <2>3, ReplayNone
<1> QED
  BY <1>2, <1>3

\* PrefixFacts for paths.
LEMMA PathPrefixes ==
  \A p, q, r \in Seq(Names) :
    /\ IsPrefix(p, q) /\ IsPrefix(q, r) => IsPrefix(p, r)
    /\ IsPrefix(p, r) /\ IsPrefix(q, r) /\ Len(p) = Len(q) => p = q
<1> SUFFICES ASSUME NEW p \in Seq(Names), NEW q \in Seq(Names), NEW r \in Seq(Names)
             PROVE  /\ IsPrefix(p, q) /\ IsPrefix(q, r) => IsPrefix(p, r)
                    /\ IsPrefix(p, r) /\ IsPrefix(q, r) /\ Len(p) = Len(q) => p = q
  OBVIOUS
<1> QED
  BY PrefixFacts

\* The next child is removed.
LEMMA NextCleared ==
  ASSUME NEW t, IsTree(t), NEW p \in DOMAIN t, p # Root,
         NEW l, Covers(l, t, p),
         NEW s, s = t[p].children, NEW i \in 0 .. Len(s) - 1,
         NEW m, Cleared(m, l, p, s, i),
         NEW c, c = Append(p, s[i + 1])
  PROVE  Covers(m, t, c) /\ Cleared(Gone(m, t, c), l, p, s, i + 1)
<1>1. p \in Seq(Names) /\ IsPrefix(p, p) /\ t[p] \in EntryType
  BY EntryFacts DEF IsTree, Typed
<1>2. s \in Seq(Names) /\ Len(s) \in Nat /\ DOMAIN s = 1 .. Len(s)
      /\ \A j \in 1 .. Len(s) : s[j] \in Names
  <2>1. s \in Seq(Names)
    BY <1>1 DEF EntryType
  <2> QED
    BY <2>1, LenProperties, ElementOfSeq
<1>3. Distinct(s)
  BY DEF IsTree, Lists
<1>4. \A j \in 1 .. Len(s) :
        /\ Append(p, s[j]) \in Seq(Names) /\ Front(Append(p, s[j])) = p
        /\ Last(Append(p, s[j])) = s[j]
        /\ Len(Append(p, s[j])) = Len(p) + 1
  BY <1>1, <1>2, FrontLastOfAppend
<1>5. i + 1 \in 1 .. Len(s) /\ i \in Nat /\ \A j \in 1 .. i : j \in 1 .. Len(s) /\ j # i + 1
  BY <1>2
<1>6. c \in Seq(Names) /\ Front(c) = p /\ Last(c) = s[i + 1]
  BY <1>4, <1>5
<1>7. IsPrefix(p, c)
  BY <1>1, <1>2, <1>5, PrefixOfAppend
<1>8. DOMAIN l \subseteq Seq(Names) /\ DOMAIN m \subseteq DOMAIN l /\ DOMAIN t \subseteq Seq(Names)
  BY DEF Covers, IsLengths, Cleared, IsTree, Typed
<1>9. ASSUME NEW q \in Seq(Names), IsPrefix(c, q), NEW j \in 1 .. i
      PROVE  ~IsPrefix(Append(p, s[j]), q)
  <2> SUFFICES ASSUME IsPrefix(Append(p, s[j]), q) PROVE FALSE
    OBVIOUS
  <2>1. PICK b \in Seq(Names) : b = Append(p, s[j]) /\ Len(b) = Len(p) + 1 /\ Last(b) = s[j]
    BY <1>4, <1>5
  <2>2. Len(c) = Len(p) + 1
    BY <1>4, <1>5
  <2>3. b = c
    <3>1. IsPrefix(b, q) /\ IsPrefix(c, q) /\ Len(b) = Len(c)
      BY <1>9, <2>1, <2>2
    <3>2. c \in Seq(Names)
      BY <1>6
    <3> QED
      BY <3>1, <3>2, PathPrefixes, Zenon
  <2>4. s[j] = s[i + 1]
    BY <1>6, <2>1, <2>3
  <2> QED
    BY <1>2, <1>3, <1>5, <2>4 DEF Distinct
<1>10. Covers(m, t, c)
  <2>1. ASSUME NEW q \in Seq(Names), IsPrefix(c, q) PROVE IsPrefix(p, q)
    <3>1. p \in Seq(Names) /\ c \in Seq(Names)
      BY <1>1, <1>6
    <3> QED
      BY <1>7, <2>1, <3>1, PathPrefixes, Zenon
  <2>2. {q \in DOMAIN m : IsPrefix(c, q)} = {q \in DOMAIN l : IsPrefix(c, q)}
    BY <1>8, <1>9 DEF Cleared
  <2>3. {q \in DOMAIN l : IsPrefix(c, q)} = Below(t, c)
    BY <1>8, <2>1 DEF Covers, Below
  <2>4. p \in DOMAIN m
    <3>1. p \in DOMAIN l
      BY <1>1 DEF Covers, Below
    <3>2. ASSUME NEW j \in 1 .. i PROVE ~IsPrefix(Append(p, s[j]), p)
      <4>1. PICK b \in Seq(Names) : b = Append(p, s[j]) /\ Len(b) = Len(p) + 1
        BY <1>4, <1>5
      <4>2. ~(Len(b) <= Len(p)) /\ Len(p) \in Nat
        BY <1>1, <4>1
      <4> QED
        BY <1>1, <4>1, <4>2, PrefixOfItself
    <3> QED
      BY <3>1, <3>2 DEF Cleared
  <2> QED
    BY <1>6, <2>2, <2>3, <2>4 DEF Covers, Cleared
<1>11. PICK g : g = Gone(m, t, c)
  OBVIOUS
<1>12. /\ DOMAIN g = {q \in DOMAIN m : ~IsPrefix(c, q)}
       /\ \A q \in DOMAIN g : q # p => g[q] = m[q]
       /\ g = [q \in DOMAIN g |-> g[q]]
  BY <1>6, <1>11 DEF Gone, CutFor
<1>13. DOMAIN g = {q \in DOMAIN l : \A j \in 1 .. i + 1 : ~IsPrefix(Append(p, s[j]), q)}
  <2>1. 1 .. i + 1 = (1 .. i) \cup {i + 1}
    BY <1>5
  <2> QED
    BY <1>12, <2>1 DEF Cleared
<1>14. Cleared(g, l, p, s, i + 1)
  <2>1. IsLengths(g)
    <3>1. DOMAIN g \subseteq Seq(Names)
      BY <1>8, <1>12
    <3>2. g = [q \in DOMAIN g |-> g[q]]
      BY <1>12
    <3> QED
      BY <3>1, <3>2, Zenon DEF IsLengths
  <2>2. \A q \in DOMAIN g : q # p => g[q] = l[q]
    BY <1>12 DEF Cleared
  <2> QED
    BY <1>13, <2>1, <2>2 DEF Cleared
<1> QED
  BY <1>10, <1>11, <1>14

\* What is below an entry is at or below one of its children.
LEMMA BelowChild ==
  ASSUME NEW t, IsTree(t), NEW p \in DOMAIN t, NEW q \in DOMAIN t, IsPrefix(p, q), q # p
  PROVE  \E j \in DOMAIN t[p].children : IsPrefix(Append(p, t[p].children[j]), q)
<1> DEFINE Child(r) == \E j \in DOMAIN t[p].children : IsPrefix(Append(p, t[p].children[j]), r)
           T == {n \in Nat : \A r \in DOMAIN t :
                   Len(r) = n /\ IsPrefix(p, r) /\ r # p => Child(r)}
<1>1. DOMAIN t \subseteq Seq(Names) /\ t \in [DOMAIN t -> EntryType]
  BY DEF IsTree, Typed
<1>2. t[p].children \in Seq(Names) /\ p \in Seq(Names)
  BY <1>1 DEF EntryType
<1>3. ASSUME NEW r \in DOMAIN t, IsPrefix(p, r), r # p
      PROVE  /\ r # Root /\ Front(r) \in DOMAIN t /\ Len(Front(r)) = Len(r) - 1
             /\ r = Append(Front(r), Last(r)) /\ Last(r) \in Names
             /\ IsPrefix(p, Front(r)) /\ r \in Seq(Names) /\ Front(r) \in Seq(Names)
  <2>1. r \in Seq(Names)
    BY <1>1
  <2>2. r # Root
    <3> SUFFICES ASSUME r = <<>> PROVE FALSE
      BY DEF Root
    <3>1. Len(p) <= Len(r) /\ Len(r) = 0
      <4>1. p \in Seq(Names) /\ IsPrefix(p, r)
        BY <1>2, <1>3
      <4> QED
        BY <2>1, <4>1, PrefixOfItself, EmptySeq
    <3>2. p = <<>>
      <4>1. Len(p) \in Nat
        BY <1>2, LenProperties
      <4>2. Len(p) = 0
        BY <3>1, <4>1
      <4> QED
        BY <1>2, <4>2, EmptySeq
    <3> QED
      BY <1>3, <3>2
  <2>3. /\ Front(r) \in DOMAIN t /\ r = Append(Front(r), Last(r)) /\ Last(r) \in Names
        /\ Front(r) \in Seq(Names)
    BY <2>2, EntryFacts
  <2>4. Len(Front(r)) = Len(r) - 1
    BY <2>1, <2>2, PathOfFrontLast DEF Root
  <2>5. IsPrefix(p, Front(r))
    BY <1>2, <1>3, <2>3, PrefixOfAppend
  <2> QED
    BY <2>1, <2>2, <2>3, <2>4, <2>5
<1>4. ASSUME NEW r \in DOMAIN t, r # Root, Front(r) = p
      PROVE  Child(r)
  <2>1. r = Append(p, Last(r)) /\ Last(r) \in Names /\ r \in Seq(Names)
    BY <1>4, EntryFacts
  <2>2. Last(r) \in ToSet(t[p].children)
    BY <2>1 DEF IsTree, Lists
  <2>3. PICK j \in DOMAIN t[p].children : t[p].children[j] = Last(r)
    BY <2>2 DEF ToSet
  <2>4. IsPrefix(r, r)
    BY <2>1, PrefixOfItself
  <2> QED
    BY <2>1, <2>3, <2>4
<1>5. ASSUME NEW r \in DOMAIN t, r # Root, Child(Front(r))
      PROVE  Child(r)
  <2>1. PICK j \in DOMAIN t[p].children : IsPrefix(Append(p, t[p].children[j]), Front(r))
    BY <1>5
  <2>2. t[p].children[j] \in Names
    BY <1>2
  <2>3. PICK c \in Seq(Names) : c = Append(p, t[p].children[j])
    BY <1>2, <2>2, FrontLastOfAppend
  <2>4. r = Append(Front(r), Last(r)) /\ Last(r) \in Names /\ Front(r) \in Seq(Names)
    BY <1>5, EntryFacts
  <2>5. PICK d \in Seq(Names), n \in Names : d = Front(r) /\ n = Last(r)
    BY <2>4
  <2>6. IsPrefix(c, d) /\ r = Append(d, n)
    BY <2>1, <2>3, <2>4, <2>5
  <2>7. IsPrefix(c, r)
    BY <2>6, PrefixOfAppend
  <2> QED
    BY <2>3, <2>7
<1> HIDE DEF Child
<1>6. 0 \in T
  <2>1. \A r \in DOMAIN t : Len(r) = 0 => r = Root
    BY <1>1, EmptySeq DEF Root
  <2> QED
    BY <1>3, <2>1
<1>7. ASSUME NEW n \in Nat, n \in T PROVE n + 1 \in T
  <2> SUFFICES ASSUME NEW r \in DOMAIN t, Len(r) = n + 1, IsPrefix(p, r), r # p
               PROVE  Child(r)
    OBVIOUS
  <2>1. r # Root /\ Front(r) \in DOMAIN t /\ Len(Front(r)) = n /\ IsPrefix(p, Front(r))
    BY <1>3
  <2>2. CASE Front(r) = p
    BY <1>4, <2>1, <2>2
  <2>3. CASE Front(r) # p
    BY <1>5, <1>7, <2>1, <2>3
  <2> QED
    BY <2>2, <2>3
<1>8. Nat \subseteq T
  <2> HIDE DEF T
  <2> QED
    BY <1>6, <1>7, NatSetInduction
<1>9. Len(q) \in Nat
  BY <1>1, LenProperties
<1>10. Child(q)
  BY <1>8, <1>9
<1> QED
  BY <1>10 DEF Child

\* The list of an entry removes its chains if those of its children remove theirs.
LEMMA EntryErased ==
  ASSUME NEW t, IsTree(t), NEW path \in DOMAIN t, path # Root,
         NEW f, IsRemoval(f, t, path), NEW p \in Below(t, path),
         \A i \in DOMAIN t[p].children : Erases(f, t, Append(p, t[p].children[i]))
  PROVE  Erases(f, t, p)
<1>1. p \in DOMAIN t /\ p \in Seq(Names) /\ t[p] \in EntryType
  BY DEF Below, IsTree, Typed
<1>2. p # Root
  <2> SUFFICES ASSUME p = <<>> PROVE FALSE
    BY DEF Root
  <2>1. path \in Seq(Names) /\ Len(path) <= 0
    BY PrefixOfItself, EmptySeq DEF Below, IsTree, Typed
  <2> QED
    BY <2>1, EmptySeq DEF Root
<1>3. PICK s \in Seq(Names) : s = t[p].children
  BY <1>1 DEF EntryType
<1>4. PICK k \in Nat : k = Len(s) /\ DOMAIN s = 1 .. k
  BY LenProperties
<1>5. PICK parts : parts = [i \in 1 .. k |-> f[Append(p, s[i])]]
  OBVIOUS
<1>6. \A i \in 1 .. k : parts[i] \in Seq(Requests)
  BY <1>3, <1>4, <1>5 DEF Erases
<1>7. parts \in Seq(Seq(Requests)) /\ Len(parts) = k
  BY <1>5, <1>6
<1>8. PICK g : IsJoined(g, parts)
  BY <1>7, JoinedExists
<1>9. PICK list : list = If(Cuts(t[Front(p)], EntrySize[Last(p)]),
                            <<Reallocation(Front(p), Reduced(t[Front(p)], EntrySize[Last(p)]))>>)
  OBVIOUS
<1>10. f[p] = g[k] \o list \o <<Freeing(p)>>
  <2>1. CallsBelow(f, t, p) = g[k]
    BY <1>3, <1>4, <1>5, <1>7, <1>8 DEF CallsBelow, IsJoined
  <2> QED
    BY <1>9, <2>1 DEF IsRemoval
<1>11. \A i \in 0 .. k : g[i] \in Seq(Requests)
  <2> DEFINE T == {i \in 0 .. k : g[i] \in Seq(Requests)}
  <2>1. 0 \in T
    <3>1. 0 \in 0 .. k /\ <<>> \in Seq(Requests)
      BY <1>4, EmptySeq
    <3> QED
      BY <1>8, <3>1 DEF IsJoined
  <2>2. ASSUME NEW i \in 0 .. k - 1, i \in T PROVE i + 1 \in T
    <3>1. i + 1 \in 1 .. k /\ (i + 1) - 1 = i
      BY <1>4
    <3>2. g[i + 1] = g[i] \o parts[i + 1]
      BY <1>7, <1>8, <3>1 DEF IsJoined
    <3>3. g[i] \in Seq(Requests) /\ parts[i + 1] \in Seq(Requests)
      BY <1>6, <2>2, <3>1
    <3>4. g[i] \o parts[i + 1] \in Seq(Requests)
      BY <3>3, ConcatProperties
    <3>5. i + 1 \in 0 .. k /\ g[i + 1] \in Seq(Requests)
      BY <1>4, <3>2, <3>4
    <3> QED
      BY <3>5
  <2>3. 0 .. k \subseteq T
    <3> HIDE DEF T
    <3> QED
      BY <2>1, <2>2, IntervalInduction
  <2> QED
    BY <2>3
<1>12. PICK call : call = Freeing(p)
  OBVIOUS
<1>13. /\ call.op = "free" /\ call.path = p /\ call \in Requests
       /\ <<call>> \in Seq(Requests)
  BY <1>1, <1>12 DEF Freeing, Requests
<1>14. /\ Front(p) \in Seq(Names) /\ Front(p) # p /\ ~IsPrefix(p, Front(p))
       /\ IsPrefix(p, p)
  BY <1>1, <1>2, EntryFacts
<1>15. ASSUME NEW l, Covers(l, t, p)
       PROVE  /\ list \in Seq(Requests)
              /\ Replay(l, f[p], Gone(l, t, p))
  <2> DEFINE T == {i \in 0 .. k : \E m : Cleared(m, l, p, s, i) /\ Replay(l, g[i], m)}
  <2>1. 0 \in T
    <3>1. Cleared(l, l, p, s, 0)
      <4>1. 1 .. 0 = {}
        OBVIOUS
      <4> QED
        BY <1>15, <4>1 DEF Cleared, Covers
    <3>2. Replay(l, g[0], l)
      BY <1>8, ReplayNone DEF IsJoined
    <3>3. 0 \in 0 .. k
      BY <1>4
    <3> QED
      BY <3>1, <3>2, <3>3
  <2>2. ASSUME NEW i \in 0 .. k - 1, i \in T PROVE i + 1 \in T
    <3>1. i + 1 \in 1 .. k /\ (i + 1) - 1 = i /\ i \in 0 .. k
      BY <1>4
    <3>2. PICK m : Cleared(m, l, p, s, i) /\ Replay(l, g[i], m)
      BY <2>2
    <3>3. PICK c : c = Append(p, s[i + 1])
      OBVIOUS
    <3>4. Covers(m, t, c) /\ Cleared(Gone(m, t, c), l, p, s, i + 1)
      BY <1>1, <1>2, <1>3, <1>4, <1>15, <3>2, <3>3, NextCleared
    <3>5. Replay(m, parts[i + 1], Gone(m, t, c))
      <4>1. Erases(f, t, c) /\ parts[i + 1] = f[c]
        BY <1>3, <1>4, <1>5, <3>1, <3>3
      <4> QED
        BY <3>4, <4>1 DEF Erases
    <3>6. g[i + 1] = g[i] \o parts[i + 1]
      BY <1>7, <1>8, <3>1 DEF IsJoined
    <3>7. Replay(l, g[i] \o parts[i + 1], Gone(m, t, c))
      BY <1>6, <1>11, <3>1, <3>2, <3>5, ReplayBoth
    <3>8. i + 1 \in 0 .. k
      BY <3>1
    <3> QED
      BY <3>4, <3>6, <3>7, <3>8
  <2>3. 0 .. k \subseteq T
    <3> HIDE DEF T
    <3> QED
      BY <2>1, <2>2, IntervalInduction
  <2>4. PICK m : Cleared(m, l, p, s, k) /\ Replay(l, g[k], m)
    <3>1. k \in 0 .. k
      BY <1>4
    <3> QED
      BY <2>3, <3>1
  <2>5. DOMAIN l \subseteq Seq(Names) /\ Front(p) \in DOMAIN l /\ p \in DOMAIN l
    BY <1>1, <1>14, <1>15 DEF Covers, IsLengths, Below
  <2>6. \A j \in 1 .. k : /\ s[j] \in Names /\ Append(p, s[j]) \in Seq(Names)
                          /\ Len(Append(p, s[j])) = Len(p) + 1
                          /\ IsPrefix(p, Append(p, s[j]))
    BY <1>1, <1>4, <1>14, ElementOfSeq, FrontLastOfAppend, PrefixOfAppend
  <2>7. DOMAIN m = {q \in DOMAIN l : ~IsPrefix(p, q)} \cup {p}
    <3>1. ASSUME NEW q \in DOMAIN l, IsPrefix(p, q), q # p
          PROVE  \E j \in 1 .. k : IsPrefix(Append(p, s[j]), q)
      <4>1. q \in DOMAIN t
        BY <1>15, <3>1 DEF Covers, Below
      <4> QED
        BY <1>1, <1>3, <1>4, <3>1, <4>1, BelowChild
    <3>2. ASSUME NEW q \in DOMAIN l, NEW j \in 1 .. k, IsPrefix(Append(p, s[j]), q)
          PROVE  IsPrefix(p, q) /\ q # p
      <4>1. PICK c \in Seq(Names) : /\ c = Append(p, s[j]) /\ Len(c) = Len(p) + 1
                                   /\ IsPrefix(p, c)
        BY <2>6
      <4>2. IsPrefix(p, q)
        BY <1>1, <2>5, <3>2, <4>1, PrefixFacts
      <4>3. ~(Len(c) <= Len(p))
        BY <1>1, <4>1, LenProperties
      <4>4. ~IsPrefix(c, p)
        BY <1>1, <4>1, <4>3, PrefixOfItself
      <4> QED
        BY <3>2, <4>1, <4>2, <4>4
    <3>3. DOMAIN m = {q \in DOMAIN l : \A j \in 1 .. k : ~IsPrefix(Append(p, s[j]), q)}
      BY <2>4 DEF Cleared
    <3> QED
      BY <2>5, <3>1, <3>2, <3>3
  <2>8. list \in Seq(Requests) /\ Replay(m, list, CutFor(m, t, p))
    <3>1. IsLengths(m) /\ Front(p) \in DOMAIN m
      BY <1>14, <2>4, <2>5, <2>7 DEF Cleared
    <3> QED
      BY <1>1, <1>2, <1>9, <3>1, CutReplays
  <2>9. PICK n : n = CutFor(m, t, p)
    OBVIOUS
  <2>10. DOMAIN n = DOMAIN m
    BY <2>9 DEF CutFor
  <2>11. Replay(n, <<call>>, After(n, call))
    <3>1. Ready(n, call)
      BY <1>2, <1>13, <2>7, <2>10 DEF Ready
    <3> QED
      BY <3>1, ReplayOne
  <2>12. After(n, call) = Gone(l, t, p)
    <3>1. DOMAIN m \ {p} = {q \in DOMAIN l : ~IsPrefix(p, q)}
      BY <1>14, <2>7
    <3>2. \A q \in DOMAIN m \ {p} : n[q] = CutFor(l, t, p)[q]
      <4>1. \A q \in DOMAIN m \ {p} : m[q] = l[q] /\ q \in DOMAIN l
        BY <2>4, <3>1 DEF Cleared
      <4> QED
        BY <2>9, <4>1 DEF CutFor
    <3>3. After(n, call) = [q \in DOMAIN m \ {p} |-> n[q]]
      BY <1>13, <2>10 DEF After
    <3> QED
      BY <3>1, <3>2, <3>3 DEF Gone
  <2>13. k \in 0 .. k /\ g[k] \in Seq(Requests)
    BY <1>4, <1>11
  <2>14. g[k] \o list \in Seq(Requests)
    BY <2>8, <2>13, ConcatProperties
  <2>15. Replay(l, g[k] \o list, n)
    BY <2>4, <2>8, <2>9, <2>13, ReplayBoth
  <2>16. Replay(l, (g[k] \o list) \o <<call>>, Gone(l, t, p))
    BY <1>13, <2>11, <2>12, <2>14, <2>15, ReplayBoth
  <2> QED
    BY <1>10, <1>12, <2>8, <2>16
<1>16. f[p] \in Seq(Requests)
  <2>1. list \in Seq(Requests)
    <3>1. PICK l : l = [q \in {Front(p)} |-> 0]
      OBVIOUS
    <3>2. IsLengths(l) /\ Front(p) \in DOMAIN l
      BY <1>14, <3>1 DEF IsLengths
    <3> QED
      BY <1>1, <1>2, <1>9, <3>2, CutReplays
  <2>2. g[k] \in Seq(Requests)
    <3>1. k \in 0 .. k
      BY <1>4
    <3> QED
      BY <1>11, <3>1
  <2>3. g[k] \o list \in Seq(Requests)
    BY <2>1, <2>2, ConcatProperties
  <2> QED
    BY <1>10, <1>12, <1>13, <2>3, ConcatProperties
<1> QED
  BY <1>15, <1>16 DEF Erases

\* The calls of a removal remove the chains of the entry and of all below it, and cut
\* that of its directory.
LEMMA RemovalReplays ==
  ASSUME NEW t, IsTree(t), NEW d \in Nat, Depth(t, d), NEW path \in DOMAIN t, path # Root
  PROVE  /\ RemovalCalls(t, path) \in Seq(Requests)
         /\ \A l : Covers(l, t, path) => Replay(l, RemovalCalls(t, path), Gone(l, t, path))
<1>1. PICK f : IsRemoval(f, t, path)
  BY RemovalExists
<1> DEFINE T == {n \in Nat : \A p \in Below(t, path) : Len(p) + n > d => Erases(f, t, p)}
<1>2. \A p \in Below(t, path) : Len(p) \in Nat /\ Len(p) <= d
  BY LenProperties DEF Below, Depth, IsTree, Typed
<1>3. 0 \in T
  <2>1. \A p \in Below(t, path) : ~(Len(p) + 0 > d)
    BY <1>2
  <2> QED
    BY <2>1
<1>4. ASSUME NEW n \in Nat, n \in T PROVE n + 1 \in T
  <2> SUFFICES ASSUME NEW p \in Below(t, path), Len(p) + (n + 1) > d PROVE Erases(f, t, p)
    OBVIOUS
  <2>1. path \in Seq(Names)
    BY DEF IsTree, Typed
  <2>2. ASSUME NEW i \in DOMAIN t[p].children
        PROVE  Erases(f, t, Append(p, t[p].children[i]))
    <3>1. PICK c \in Below(t, path) : c = Append(p, t[p].children[i]) /\ Len(c) = Len(p) + 1
      BY <2>1, ChildBelow
    <3>2. Len(c) + n > d
      BY <1>2, <3>1
    <3> QED
      BY <1>4, <3>1, <3>2
  <2> QED
    BY <1>1, <2>2, EntryErased
<1>5. Nat \subseteq T
  <2> HIDE DEF T
  <2> QED
    BY <1>3, <1>4, NatSetInduction
<1>6. path \in Below(t, path)
  BY PrefixOfItself DEF Below, IsTree, Typed
<1>7. Erases(f, t, path)
  <2>1. d + 1 \in T /\ Len(path) + (d + 1) > d
    <3>1. d + 1 \in Nat
      OBVIOUS
    <3> HIDE DEF T
    <3> QED
      BY <1>2, <1>5, <1>6, <3>1
  <2> QED
    BY <1>6, <2>1
<1> QED
  BY <1>1, <1>7 DEF Erases, IsRemoval

\* The calls of a removal are of the kinds that single entries call for.
LEMMA RemovalTyped ==
  ASSUME NEW t, IsTree(t), NEW d \in Nat, Depth(t, d), NEW path \in DOMAIN t, NEW S,
         \A q \in Below(t, path) :
           /\ Freeing(q) \in S
           /\ Reallocation(Front(q), Reduced(t[Front(q)], EntrySize[Last(q)])) \in S
  PROVE  RemovalCalls(t, path) \in Seq(S)
<1>1. PICK f : IsRemoval(f, t, path)
  BY RemovalExists
<1> DEFINE T == {n \in Nat : \A p \in Below(t, path) : Len(p) + n > d => f[p] \in Seq(S)}
<1>2. \A p \in Below(t, path) : Len(p) \in Nat /\ Len(p) <= d
  BY LenProperties DEF Below, Depth, IsTree, Typed
<1>3. 0 \in T
  <2>1. \A p \in Below(t, path) : ~(Len(p) + 0 > d)
    BY <1>2
  <2> QED
    BY <2>1
<1>4. ASSUME NEW n \in Nat, n \in T PROVE n + 1 \in T
  <2> SUFFICES ASSUME NEW p \in Below(t, path), Len(p) + (n + 1) > d PROVE f[p] \in Seq(S)
    OBVIOUS
  <2>1. path \in Seq(Names)
    BY DEF IsTree, Typed
  <2>2. ASSUME NEW i \in DOMAIN t[p].children
        PROVE  f[Append(p, t[p].children[i])] \in Seq(S)
    <3>1. PICK c \in Below(t, path) : c = Append(p, t[p].children[i]) /\ Len(c) = Len(p) + 1
      BY <2>1, ChildBelow
    <3>2. Len(c) + n > d
      BY <1>2, <3>1
    <3> QED
      BY <1>4, <3>1, <3>2
  <2>3. PICK s \in Seq(Names) : s = t[p].children
    BY DEF Below, IsTree, Typed, EntryType
  <2>4. PICK k \in Nat : k = Len(s) /\ DOMAIN s = 1 .. k
    BY LenProperties
  <2>5. PICK parts : parts = [i \in 1 .. k |-> f[Append(p, s[i])]]
    OBVIOUS
  <2>6. parts \in Seq(Seq(S)) /\ Len(parts) = k
    <3>1. \A i \in 1 .. k : parts[i] \in Seq(S)
      BY <2>2, <2>3, <2>4, <2>5
    <3> QED
      BY <2>5, <3>1
  <2>7. PICK g : IsJoined(g, parts)
    BY <2>6, JoinedExists
  <2>8. CallsBelow(f, t, p) = g[k]
    BY <2>3, <2>4, <2>5, <2>6, <2>7 DEF CallsBelow, IsJoined
  <2>9. g[k] \in Seq(S)
    <3>1. k \in 0 .. Len(parts)
      BY <2>4, <2>6
    <3> QED
      BY <2>6, <2>7, <3>1, JoinedTyped
  <2>10. PICK a \in S, b \in S : /\ a = Freeing(p)
           /\ b = Reallocation(Front(p), Reduced(t[Front(p)], EntrySize[Last(p)]))
    OBVIOUS
  <2>11. PICK list \in Seq(S) : list = If(Cuts(t[Front(p)], EntrySize[Last(p)]), <<b>>)
    <3>1. <<b>> \in Seq(S) /\ <<>> \in Seq(S)
      BY <2>10, EmptySeq
    <3> QED
      BY <3>1 DEF If
  <2>12. f[p] = g[k] \o list \o <<a>>
    BY <1>1, <2>8, <2>10, <2>11 DEF IsRemoval
  <2>13. g[k] \o list \in Seq(S)
    BY <2>9, <2>11, ConcatProperties
  <2>14. <<a>> \in Seq(S)
    BY <2>10
  <2> QED
    BY <2>12, <2>13, <2>14, ConcatProperties
<1>5. Nat \subseteq T
  <2> HIDE DEF T
  <2> QED
    BY <1>3, <1>4, NatSetInduction
<1>6. path \in Below(t, path)
  BY PrefixOfItself DEF Below, IsTree, Typed
<1>7. d + 1 \in T /\ Len(path) + (d + 1) > d
  <2>1. d + 1 \in Nat
    OBVIOUS
  <2> HIDE DEF T
  <2> QED
    BY <1>2, <1>5, <1>6, <2>1
<1> QED
  BY <1>1, <1>6, <1>7 DEF IsRemoval

(***************************************************************************)
(* The states that an operation goes through.                              *)
(***************************************************************************)

\* The lengths of the chains that the tree t counts.
Lens(t) == [p \in DOMAIN t |-> t[p].clusters]

\* The calls for the entries there may be, with the sizes there may be.
SizedRequests == [op : {"allocate", "reallocate", "free"}, path : Entries, bytes : Sizes]

\* The calls made so far lead from the chains at the start of the operation to those
\* that the tree counts now.  If the directories are within their bound now, all of
\* them were when the calls were made.
InOrder(st) ==
  /\ st = [tree |-> st.tree, calls |-> st.calls]
  /\ IsTree(st.tree)
  /\ \E d \in Nat : Depth(st.tree, d)
  /\ DOMAIN st.tree \subseteq Entries
  /\ st.calls \in Seq(Requests)
  /\ Replay(Lens(tree), st.calls, Lens(st.tree))
  /\ Bounded(st) => st.calls \in Seq(SizedRequests)

\* No directory at or below the path is too large.
SmallBelow(t, path) ==
  \A q \in Below(t, path) : t[q].is_dir => t[q].size <= MaxDirSize

\* remove_child_entry.
LEMMA ChildLeaves ==
  ASSUME NEW st, InOrder(st), NEW dir \in Seq(Names), NEW name \in Names,
         Append(dir, name) \in DOMAIN st.tree, SmallBelow(st.tree, Append(dir, name))
  PROVE  /\ InOrder(RemoveChild(st, dir, name))
         /\ DOMAIN RemoveChild(st, dir, name).tree
              = {q \in DOMAIN st.tree : ~IsPrefix(Append(dir, name), q)}
         /\ \A q \in DOMAIN RemoveChild(st, dir, name).tree :
              q # dir => RemoveChild(st, dir, name).tree[q] = st.tree[q]
         /\ Bounded(st) => Bounded(RemoveChild(st, dir, name))
<1>1. PICK r : r = RemoveChild(st, dir, name)
  OBVIOUS
<1>2. PICK t, u, c, path, list :
        /\ t = st.tree /\ u = r.tree /\ c = st.calls /\ path = Append(dir, name)
        /\ list = RemovalCalls(t, path)
  OBVIOUS
<1>3. u = Unlinked(t, dir, name) /\ r.calls = c \o list /\ r = [tree |-> r.tree, calls |-> r.calls]
  BY <1>1, <1>2 DEF RemoveChild
<1>4. /\ IsTree(t) /\ DOMAIN t \subseteq Entries /\ c \in Seq(Requests)
      /\ Replay(Lens(tree), c, Lens(t)) /\ path \in DOMAIN t
      /\ Bounded(st) => c \in Seq(SizedRequests)
  BY <1>2 DEF InOrder
<1>5. PICK d \in Nat : Depth(t, d)
  BY <1>2 DEF InOrder
<1>6. path \in Seq(Names) /\ Front(path) = dir /\ Last(path) = name /\ path # Root
  BY <1>2, FrontLastOfAppend DEF Root
<1>7. /\ dir \in DOMAIN t /\ t[dir].is_dir /\ t[dir] \in EntryType
      /\ ~IsPrefix(path, dir) /\ EntrySize[name] <= t[dir].size
  BY <1>4, <1>6, EntryFacts
<1>8. IsTree(u) /\ DOMAIN u = {q \in DOMAIN t : ~IsPrefix(path, q)}
  <2>1. Append(dir, name) \in DOMAIN t
    BY <1>2
  <2>2. /\ IsTree(Unlinked(t, dir, name))
        /\ DOMAIN Unlinked(t, dir, name) = {q \in DOMAIN t : ~IsPrefix(Append(dir, name), q)}
    BY <1>4, <2>1, ChildRemoved
  <2> QED
    BY <1>2, <1>3, <2>2
<1>9. \A q \in DOMAIN u : u[q] = IF q = dir THEN WithoutChild(t[dir], name) ELSE t[q]
  BY <1>2, <1>3 DEF Unlinked
<1>10. /\ WithoutChild(t[dir], name).size = t[dir].size
       /\ WithoutChild(t[dir], name).is_dir = t[dir].is_dir
       /\ WithoutChild(t[dir], name).clusters
            = IF Cuts(t[dir], EntrySize[name])
              THEN Reallocated(t[dir].clusters, Reduced(t[dir], EntrySize[name]))
              ELSE t[dir].clusters
  <2>1. PICK e \in EntryType : e = t[dir]
    BY <1>7
  <2>2. e = [is_dir |-> e.is_dir, size |-> e.size, rev |-> e.rev, clusters |-> e.clusters,
             children |-> e.children]
    BY DEF EntryType
  <2> QED
    BY <2>1, <2>2 DEF WithoutChild
<1>11. /\ list \in Seq(Requests)
       /\ Replay(Lens(t), list, Gone(Lens(t), t, path))
  <2>1. PICK l : l = Lens(t)
    OBVIOUS
  <2>2. DOMAIN l = DOMAIN t /\ l = [q \in DOMAIN l |-> l[q]]
    BY <2>1 DEF Lens
  <2>3. Covers(l, t, path)
    BY <1>4, <1>6, <1>7, <2>2 DEF Covers, IsLengths, Below, IsTree, Typed
  <2> QED
    BY <1>2, <1>4, <1>5, <1>6, <2>1, <2>3, RemovalReplays
<1>12. Gone(Lens(t), t, path) = Lens(u)
  <2>1. ASSUME NEW q \in DOMAIN u PROVE CutFor(Lens(t), t, path)[q] = u[q].clusters
    <3>1. q \in DOMAIN t
      BY <1>8
    <3> QED
      BY <1>6, <1>9, <1>10, <3>1 DEF CutFor, Lens
  <2>2. {q \in DOMAIN Lens(t) : ~IsPrefix(path, q)} = DOMAIN u
    BY <1>8 DEF Lens
  <2> QED
    BY <2>1, <2>2 DEF Gone, Lens
<1>13. Replay(Lens(tree), c \o list, Lens(u)) /\ c \o list \in Seq(Requests)
  <2>1. Replay(Lens(t), list, Lens(u))
    BY <1>11, <1>12
  <2> QED
    BY <1>4, <1>11, <2>1, ReplayBoth, ConcatProperties
<1>14. Bounded(r) => Bounded(st)
  <2> SUFFICES ASSUME Bounded(r), NEW q \in DOMAIN t, t[q].is_dir
               PROVE  t[q].size <= MaxDirSize
    BY <1>2 DEF Bounded
  <2>1. CASE IsPrefix(path, q)
    BY <1>2, <2>1 DEF SmallBelow, Below
  <2>2. CASE ~IsPrefix(path, q)
    <3>1. q \in DOMAIN u /\ u[q].is_dir /\ u[q].size = t[q].size
      BY <1>8, <1>9, <1>10, <2>2
    <3> QED
      BY <1>2, <3>1 DEF Bounded
  <2> QED
    BY <2>1, <2>2
<1>15. Bounded(st) => list \in Seq(SizedRequests)
  <2> SUFFICES ASSUME Bounded(st) PROVE list \in Seq(SizedRequests)
    OBVIOUS
  <2>1. ASSUME NEW q \in Below(t, path)
        PROVE  /\ Freeing(q) \in SizedRequests
               /\ Reallocation(Front(q), Reduced(t[Front(q)], EntrySize[Last(q)]))
                    \in SizedRequests
    <3>1. q \in DOMAIN t /\ q # Root
      <4>1. q \in DOMAIN t /\ IsPrefix(path, q)
        BY DEF Below
      <4>2. CASE q = Root
        <5>1. Len(path) <= Len(q)
          BY <1>4, <1>6, <4>1, PrefixOfItself DEF IsTree, Typed
        <5>2. Len(path) \in Nat /\ Len(q) = 0 /\ Len(path) # 0
          BY <1>6, <4>2, LenProperties, EmptySeq DEF Root
        <5> QED
          BY <5>1, <5>2
      <4> QED
        BY <4>1, <4>2
    <3>2. /\ Front(q) \in DOMAIN t /\ t[Front(q)].is_dir /\ t[Front(q)] \in EntryType
          /\ Reduced(t[Front(q)], EntrySize[Last(q)]) \in Nat /\ Last(q) \in Names
      BY <1>4, <3>1, EntryFacts
    <3>3. t[Front(q)].size <= MaxDirSize /\ t[Front(q)].size \in Nat
      BY <1>2, <3>2 DEF Bounded, EntryType
    <3>4. EntrySize[Last(q)] \in Nat /\ MaxDirSize \in Nat
      BY <3>2, TreeAssumption DEF ConstantsOK
    <3>5. Reduced(t[Front(q)], EntrySize[Last(q)]) \in 0 .. MaxDirSize /\ 0 \in 0 .. MaxDirSize
      BY <3>2, <3>3, <3>4 DEF Reduced
    <3>6. q \in Entries /\ Front(q) \in Entries /\ 0 .. MaxDirSize \subseteq Sizes
      BY <1>4, <3>1, <3>2, VolumeAssumption
    <3> QED
      BY <3>5, <3>6 DEF Freeing, Reallocation, SizedRequests
  <2> QED
    BY <1>2, <1>4, <1>5, <2>1, RemovalTyped
<1>16. Bounded(r) => r.calls \in Seq(SizedRequests)
  BY <1>3, <1>4, <1>14, <1>15, ConcatProperties
<1>17. Depth(u, d)
  BY <1>5, <1>8 DEF Depth
<1>18. InOrder(r)
  BY <1>2, <1>3, <1>4, <1>8, <1>13, <1>16, <1>17 DEF InOrder
<1>19. Bounded(st) => Bounded(r)
  <2> SUFFICES ASSUME Bounded(st), NEW q \in DOMAIN u, u[q].is_dir
               PROVE  u[q].size <= MaxDirSize
    BY <1>2 DEF Bounded
  <2>1. q \in DOMAIN t /\ t[q].is_dir /\ t[q].size = u[q].size
    BY <1>8, <1>9, <1>10
  <2> QED
    BY <1>2, <2>1 DEF Bounded
<1> QED
  BY <1>1, <1>2, <1>8, <1>9, <1>18, <1>19

\* One more call.
LEMMA OneCall ==
  ASSUME NEW l, NEW m, NEW n, NEW c \in Seq(Requests), Replay(l, c, m),
         NEW call \in Requests, Ready(m, call), n = After(m, call)
  PROVE  Append(c, call) \in Seq(Requests) /\ Replay(l, Append(c, call), n)
<1>1. <<call>> \in Seq(Requests) /\ Append(c, call) = c \o <<call>>
  BY AppendIsConcat
<1>2. Replay(m, <<call>>, n)
  BY ReplayOne
<1> QED
  BY <1>1, <1>2, ReplayBoth, AppendProperties

\* add_child_entry.
LEMMA ChildJoins ==
  ASSUME NEW st, InOrder(st), NEW dir \in DOMAIN st.tree, st.tree[dir].is_dir,
         NEW name \in Names, Append(dir, name) \notin DOMAIN st.tree,
         Append(dir, name) \in Entries,
         NEW is_dir \in BOOLEAN, NEW bytes \in Nat, ~is_dir => bytes \in FileSizes,
         NEW rev \in Revs
  PROVE  /\ InOrder(AddChild(st, dir, name, is_dir, bytes, rev))
         /\ DOMAIN AddChild(st, dir, name, is_dir, bytes, rev).tree
              = DOMAIN st.tree \cup {Append(dir, name)}
         /\ \A q \in DOMAIN st.tree :
              q # dir => AddChild(st, dir, name, is_dir, bytes, rev).tree[q] = st.tree[q]
<1>1. PICK r : r = AddChild(st, dir, name, is_dir, bytes, rev)
  OBVIOUS
<1>2. PICK t, u, c, path, grown, crosses :
        /\ t = st.tree /\ u = r.tree /\ c = st.calls /\ path = Append(dir, name)
        /\ grown = t[dir].size + EntrySize[name]
        /\ crosses = ((t[dir].size % BYTES_PER_CLUSTER) + EntrySize[name] > BYTES_PER_CLUSTER)
  OBVIOUS
<1>3. PICK e, f :
        /\ e = [is_dir |-> is_dir, size |-> bytes, rev |-> rev,
                clusters |-> ClustersFor(bytes), children |-> <<>>]
        /\ f = [t[dir] EXCEPT
                  !.size = grown,
                  !.clusters = IF crosses THEN Reallocated(@, grown) ELSE @,
                  !.children = <<name>> \o @]
  OBVIOUS
<1>4. /\ r.tree = [p \in DOMAIN t \cup {path} |->
                     IF p = path THEN e ELSE IF p = dir THEN f ELSE t[p]]
      /\ r.calls = c \o If(crosses, <<Reallocation(dir, grown)>>)
                     \o <<Allocation(path, bytes)>>
      /\ r = [tree |-> r.tree, calls |-> r.calls]
  BY <1>1, <1>2, <1>3 DEF AddChild
<1>5. /\ IsTree(t) /\ DOMAIN t \subseteq Entries /\ c \in Seq(Requests)
      /\ Replay(Lens(tree), c, Lens(t)) /\ path \notin DOMAIN t /\ path \in Entries
      /\ Bounded(st) => c \in Seq(SizedRequests)
  BY <1>2 DEF InOrder
<1>6. PICK d \in Nat : Depth(t, d)
  BY <1>2 DEF InOrder
<1>7. /\ dir \in DOMAIN t /\ t[dir] \in EntryType /\ dir \in Seq(Names) /\ t[dir].is_dir
      /\ t[dir].size \in Nat /\ DOMAIN t \subseteq Seq(Names)
  BY <1>2, <1>5 DEF IsTree, Typed, EntryType
<1>8. EntrySize[name] \in Nat /\ grown \in Nat /\ t[dir].size <= grown
  <2>1. EntrySize[name] \in Nat
    BY TreeAssumption DEF ConstantsOK
  <2> QED
    BY <1>2, <1>7, <2>1
<1>9. path \in Seq(Names) /\ Len(path) = Len(dir) + 1 /\ path # dir /\ path # Root
  BY <1>2, <1>5, <1>7, FrontLastOfAppend DEF Root
<1>10. /\ DOMAIN u = DOMAIN t \cup {path} /\ u[path] = e /\ u[dir] = f
       /\ \A q \in DOMAIN t : q # dir => u[q] = t[q]
  BY <1>2, <1>4, <1>5, <1>7, <1>9
<1>11. IsTree(u)
  <2>1. OneMore(AddChild(st, dir, name, is_dir, bytes, rev).tree, t,
                Append(dir, name), is_dir, bytes, rev)
    BY <1>2, <1>5, <1>7, ChildAdded
  <2> QED
    BY <1>1, <1>2, <2>1 DEF OneMore
<1>12. /\ f.is_dir /\ f.size = grown
       /\ f.clusters = IF crosses THEN Reallocated(t[dir].clusters, grown)
                       ELSE t[dir].clusters
  <2>1. PICK g \in EntryType : g = t[dir]
    BY <1>7
  <2>2. g = [is_dir |-> g.is_dir, size |-> g.size, rev |-> g.rev, clusters |-> g.clusters,
             children |-> g.children]
    BY DEF EntryType
  <2> QED
    BY <1>3, <1>7, <2>1, <2>2
<1>13. PICK m : m = [q \in DOMAIN t |-> IF q = dir THEN f.clusters ELSE t[q].clusters]
  OBVIOUS
<1>14. PICK list, more : /\ list = If(crosses, <<Reallocation(dir, grown)>>)
                         /\ more = Allocation(path, bytes)
  OBVIOUS
<1>15. c \o list \in Seq(Requests) /\ Replay(Lens(tree), c \o list, m)
  <2>1. CASE crosses
    <3>1. PICK call : call = Reallocation(dir, grown)
      OBVIOUS
    <3>2. /\ call \in Requests /\ call.op = "reallocate" /\ call.path = dir
          /\ call.bytes = grown
      BY <1>7, <1>8, <3>1 DEF Reallocation, Requests
    <3>3. c \o list = Append(c, call)
      BY <1>5, <1>14, <2>1, <3>1, <3>2, AppendIsConcat DEF If
    <3>4. Ready(Lens(t), call)
      BY <1>7, <3>2 DEF Ready, Lens
    <3>5. m = After(Lens(t), call)
      BY <1>7, <1>12, <1>13, <2>1, <3>2 DEF After, Lens
    <3> QED
      BY <1>5, <3>2, <3>3, <3>4, <3>5, OneCall
  <2>2. CASE ~crosses
    <3>1. c \o list = c
      BY <1>5, <1>14, <2>2, ConcatEmptySeq DEF If
    <3>2. m = Lens(t)
      BY <1>12, <1>13, <2>2 DEF Lens
    <3> QED
      BY <1>5, <3>1, <3>2
  <2> QED
    BY <2>1, <2>2
<1>16. /\ r.calls = Append(c \o list, more)
       /\ r.calls \in Seq(Requests) /\ Replay(Lens(tree), r.calls, Lens(u))
  <2>1. /\ more \in Requests /\ more.op = "allocate" /\ more.path = path
        /\ more.bytes = bytes
    BY <1>9, <1>14 DEF Allocation, Requests
  <2>2. r.calls = Append(c \o list, more)
    BY <1>4, <1>14, <1>15, <2>1, AppendIsConcat
  <2>3. Ready(m, more)
    BY <1>5, <1>13, <2>1 DEF Ready
  <2>4. Lens(u) = After(m, more)
    <3>1. After(m, more) = [q \in DOMAIN t \cup {path} |->
                              IF q # path THEN m[q] ELSE ClustersFor(bytes)]
      BY <1>13, <2>1 DEF After
    <3>2. \A q \in DOMAIN t : u[q].clusters = m[q]
      BY <1>10, <1>13
    <3>3. u[path].clusters = ClustersFor(bytes)
      BY <1>3, <1>10
    <3> QED
      BY <1>5, <1>10, <3>1, <3>2, <3>3 DEF Lens
  <2> QED
    BY <1>15, <2>1, <2>2, <2>3, <2>4, OneCall
<1>17. Bounded(r) => r.calls \in Seq(SizedRequests)
  <2> SUFFICES ASSUME Bounded(r) PROVE r.calls \in Seq(SizedRequests)
    OBVIOUS
  <2>1. Bounded(st)
    <3> SUFFICES ASSUME NEW q \in DOMAIN t, t[q].is_dir PROVE t[q].size <= MaxDirSize
      BY <1>2 DEF Bounded
    <3>1. CASE q = dir
      <4>1. grown <= MaxDirSize /\ MaxDirSize \in Nat
        BY <1>2, <1>10, <1>12, TreeAssumption DEF Bounded, ConstantsOK
      <4> QED
        BY <1>7, <1>8, <3>1, <4>1
    <3>2. CASE q # dir
      BY <1>2, <1>10, <3>2 DEF Bounded
    <3> QED
      BY <3>1, <3>2
  <2>2. grown \in Sizes /\ bytes \in Sizes
    <3>1. grown <= MaxDirSize /\ (is_dir => bytes <= MaxDirSize) /\ MaxDirSize \in Nat
      <4>1. \A q \in DOMAIN u : u[q].is_dir => u[q].size <= MaxDirSize
        BY <1>2 DEF Bounded
      <4>2. dir \in DOMAIN u /\ path \in DOMAIN u
        BY <1>7, <1>10
      <4>3. u[path].is_dir = is_dir /\ u[path].size = bytes
        BY <1>3, <1>10
      <4>4. u[dir].is_dir /\ u[dir].size = grown
        BY <1>10, <1>12
      <4>5. MaxDirSize \in Nat
        BY TreeAssumption DEF ConstantsOK
      <4> QED
        BY <4>1, <4>2, <4>3, <4>4, <4>5
    <3> QED
      BY <1>8, <3>1, VolumeAssumption
  <2>3. Reallocation(dir, grown) \in SizedRequests /\ more \in SizedRequests
    BY <1>5, <1>7, <1>14, <2>2 DEF Reallocation, Allocation, SizedRequests
  <2>4. list \in Seq(SizedRequests)
    <3>1. PICK call \in SizedRequests : call = Reallocation(dir, grown)
      BY <2>3
    <3>2. <<call>> \in Seq(SizedRequests) /\ <<>> \in Seq(SizedRequests)
      BY EmptySeq
    <3> QED
      BY <1>14, <3>1, <3>2 DEF If
  <2>5. c \o list \in Seq(SizedRequests)
    BY <1>5, <2>1, <2>4, ConcatProperties
  <2> QED
    BY <1>16, <2>3, <2>5, AppendProperties
<1>18. Depth(u, d + 1)
  <2> SUFFICES ASSUME NEW q \in DOMAIN u PROVE Len(q) <= d + 1
    BY DEF Depth
  <2>1. Len(dir) \in Nat /\ Len(dir) <= d
    BY <1>6, <1>7, LenProperties DEF Depth
  <2>2. CASE q = path
    BY <1>9, <2>1, <2>2
  <2>3. CASE q # path
    <3>1. q \in DOMAIN t /\ Len(q) <= d /\ Len(q) \in Nat
      BY <1>6, <1>7, <1>10, <2>3, LenProperties DEF Depth
    <3> QED
      BY <3>1
  <2> QED
    BY <2>2, <2>3
<1>19. d + 1 \in Nat /\ DOMAIN u \subseteq Entries
  BY <1>5, <1>10
<1>20. InOrder(r)
  BY <1>2, <1>4, <1>11, <1>16, <1>17, <1>18, <1>19 DEF InOrder
<1> QED
  BY <1>1, <1>2, <1>10, <1>20

\* The file at the path gets another size.
LEMMA FileResized ==
  ASSUME NEW st, InOrder(st), NEW path \in DOMAIN st.tree, ~st.tree[path].is_dir,
         NEW bytes \in FileSizes, NEW rev, NEW r,
         r = [tree  |-> [st.tree EXCEPT
                           ![path].size = bytes,
                           ![path].clusters = Reallocated(@, bytes),
                           ![path].rev = rev],
              calls |-> Append(st.calls, Reallocation(path, bytes))],
         IsTree(r.tree)
  PROVE  InOrder(r)
<1>1. PICK t, u, c : t = st.tree /\ u = r.tree /\ c = st.calls
  OBVIOUS
<1>2. /\ IsTree(t) /\ DOMAIN t \subseteq Entries /\ c \in Seq(Requests)
      /\ Replay(Lens(tree), c, Lens(t)) /\ path \in DOMAIN t
      /\ Bounded(st) => c \in Seq(SizedRequests)
  BY <1>1 DEF InOrder
<1>3. path \in Seq(Names) /\ t[path] \in EntryType
  BY <1>2 DEF IsTree, Typed
<1>4. /\ DOMAIN u = DOMAIN t
      /\ \A q \in DOMAIN t : q # path => u[q] = t[q]
      /\ u[path].clusters = Reallocated(t[path].clusters, bytes)
      /\ u[path].is_dir = t[path].is_dir
  <2>1. PICK g \in EntryType : g = t[path]
    BY <1>3
  <2>2. g = [is_dir |-> g.is_dir, size |-> g.size, rev |-> g.rev, clusters |-> g.clusters,
             children |-> g.children]
    BY DEF EntryType
  <2>3. t = [q \in DOMAIN t |-> t[q]]
    BY <1>2 DEF IsTree, Typed
  <2> QED
    BY <1>1, <1>2, <2>1, <2>2, <2>3
<1>5. PICK call : call = Reallocation(path, bytes)
  OBVIOUS
<1>6. bytes \in Nat /\ bytes \in Sizes
  BY TreeAssumption, VolumeAssumption DEF ConstantsOK
<1>7. /\ call \in Requests /\ call.op = "reallocate" /\ call.path = path
      /\ call.bytes = bytes /\ call \in SizedRequests
  BY <1>2, <1>3, <1>5, <1>6 DEF Reallocation, Requests, SizedRequests
<1>8. Ready(Lens(t), call)
  BY <1>2, <1>7 DEF Ready, Lens
<1>9. Lens(u) = After(Lens(t), call)
  BY <1>2, <1>4, <1>7 DEF After, Lens
<1>10. r.calls = Append(c, call)
  BY <1>1, <1>5
<1>11. r.calls \in Seq(Requests) /\ Replay(Lens(tree), r.calls, Lens(u))
  BY <1>2, <1>7, <1>8, <1>9, <1>10, OneCall
<1>12. Bounded(r) => r.calls \in Seq(SizedRequests)
  <2>1. Bounded(r) => Bounded(st)
    BY <1>1, <1>2, <1>4 DEF Bounded
  <2>2. c \in Seq(SizedRequests) => Append(c, call) \in Seq(SizedRequests)
    BY <1>7, AppendProperties
  <2> QED
    BY <1>2, <1>10, <2>1, <2>2
<1>13. \E d \in Nat : Depth(u, d)
  BY <1>1, <1>4 DEF InOrder, Depth
<1> QED
  BY <1>1, <1>2, <1>4, <1>11, <1>12, <1>13 DEF InOrder

\* A directory on the way to the entry is added.
LEMMA ParentInOrder ==
  ASSUME NEW st, InOrder(st), NEW dir \in DOMAIN st.tree, st.tree[dir].is_dir,
         NEW name \in Names, Append(dir, name) \in Entries, NEW metadata \in Metadata
  PROVE  /\ InOrder(AddParent(st, dir, name, metadata))
         /\ \A q \in DOMAIN AddParent(st, dir, name, metadata).tree :
              q # dir /\ q # Append(dir, name) =>
                /\ q \in DOMAIN st.tree
                /\ AddParent(st, dir, name, metadata).tree[q] = st.tree[q]
<1>1. PICK path, t, r : /\ path = Append(dir, name) /\ t = st.tree
                        /\ r = AddParent(st, dir, name, metadata)
  OBVIOUS
<1>2. PICK kept : kept = IF path \in DOMAIN t /\ ~t[path].is_dir
                         THEN RemoveChild(st, dir, name) ELSE st
  OBVIOUS
<1>3. r = IF path \in DOMAIN kept.tree THEN kept
          ELSE AddChild(kept, dir, name, TRUE, DotsSize, metadata.rev)
  BY <1>1, <1>2, Zenon DEF AddParent
<1>4. IsTree(t) /\ dir \in Seq(Names) /\ path \in Seq(Names) /\ ~IsPrefix(path, dir)
  <2>1. IsTree(t) /\ dir \in Seq(Names)
    BY <1>1 DEF InOrder, IsTree, Typed
  <2>2. path \in Seq(Names) /\ Len(path) = Len(dir) + 1 /\ Len(dir) \in Nat
    BY <1>1, <2>1, FrontLastOfAppend
  <2>3. ~(Len(path) <= Len(dir))
    BY <2>2
  <2> QED
    BY <2>1, <2>2, <2>3, PrefixOfItself
<1>5. /\ InOrder(kept) /\ dir \in DOMAIN kept.tree /\ kept.tree[dir].is_dir
      /\ DOMAIN kept.tree \subseteq DOMAIN t
      /\ \A q \in DOMAIN kept.tree : q # dir => kept.tree[q] = t[q]
  <2>1. CASE path \in DOMAIN t /\ ~t[path].is_dir
    <3>1. kept = RemoveChild(st, dir, name)
      BY <1>2, <2>1
    <3>2. SmallBelow(t, path)
      BY <1>4, <2>1, NothingBelowFile DEF SmallBelow, Below
    <3>3. Append(dir, name) \in DOMAIN st.tree /\ SmallBelow(st.tree, Append(dir, name))
      BY <1>1, <2>1, <3>2
    <3>4. /\ InOrder(kept)
          /\ DOMAIN kept.tree = {q \in DOMAIN st.tree : ~IsPrefix(Append(dir, name), q)}
          /\ \A q \in DOMAIN kept.tree : q # dir => kept.tree[q] = st.tree[q]
      BY <1>4, <3>1, <3>3, ChildLeaves
    <3>5. dir \in DOMAIN kept.tree
      BY <1>1, <1>4, <3>4
    <3>6. kept.tree[dir].is_dir
      <4>1. kept.tree = Unlinked(t, dir, name)
        BY <1>1, <3>1 DEF RemoveChild
      <4>2. Alike(kept.tree[dir], t[dir])
        BY <1>1, <1>4, <2>1, <3>5, <4>1, ChildRemoved
      <4> QED
        BY <1>1, <4>2 DEF Alike
    <3> QED
      BY <1>1, <3>4, <3>5, <3>6
  <2>2. CASE ~(path \in DOMAIN t /\ ~t[path].is_dir)
    BY <1>1, <1>2, <2>2
  <2> QED
    BY <2>1, <2>2
<1>6. CASE path \in DOMAIN kept.tree
  BY <1>1, <1>3, <1>5, <1>6
<1>7. CASE path \notin DOMAIN kept.tree
  <2>1. PICK rev \in Revs : rev = metadata.rev
    BY MetadataFields
  <2>2. PICK yes \in BOOLEAN, bytes \in Nat : yes /\ bytes = DotsSize
    BY TreeAssumption DEF ConstantsOK
  <2>3. r = AddChild(kept, dir, name, yes, bytes, rev)
    <3>1. yes = TRUE
      BY <2>2
    <3> QED
      BY <1>3, <1>7, <2>1, <2>2, <3>1
  <2>4. Append(dir, name) \notin DOMAIN kept.tree
    BY <1>1, <1>7
  <2>5. /\ InOrder(r)
        /\ DOMAIN r.tree = DOMAIN kept.tree \cup {Append(dir, name)}
        /\ \A q \in DOMAIN kept.tree : q # dir => r.tree[q] = kept.tree[q]
    <3>1. ~yes => bytes \in FileSizes
      BY <2>2
    <3>2. /\ InOrder(AddChild(kept, dir, name, yes, bytes, rev))
          /\ DOMAIN AddChild(kept, dir, name, yes, bytes, rev).tree
               = DOMAIN kept.tree \cup {Append(dir, name)}
          /\ \A q \in DOMAIN kept.tree :
               q # dir => AddChild(kept, dir, name, yes, bytes, rev).tree[q] = kept.tree[q]
      BY <1>5, <2>4, <3>1, ChildJoins
    <3> QED
      BY <2>3, <3>2
  <2> QED
    BY <1>1, <1>5, <2>5
<1> QED
  BY <1>6, <1>7

\* The entry itself is added.
LEMMA LastInOrder ==
  ASSUME NEW st, InOrder(st), NEW dir \in DOMAIN st.tree, st.tree[dir].is_dir,
         NEW name \in Names, Append(dir, name) \in Entries, NEW metadata \in Metadata,
         SmallBelow(st.tree, Append(dir, name))
  PROVE  InOrder(AddLast(st, dir, name, metadata))
<1>1. PICK path, t, r : /\ path = Append(dir, name) /\ t = st.tree
                        /\ r = AddLast(st, dir, name, metadata)
  OBVIOUS
<1>2. PICK kept : kept = IF path \in DOMAIN t /\ t[path].is_dir # metadata.is_dir
                         THEN RemoveChild(st, dir, name) ELSE st
  OBVIOUS
<1>3. r = IF path \notin DOMAIN kept.tree
          THEN AddChild(kept, dir, name, metadata.is_dir,
                        IF metadata.is_dir THEN DotsSize ELSE metadata.size, metadata.rev)
          ELSE IF metadata.is_dir
          THEN [kept EXCEPT !.tree[path].rev = metadata.rev]
          ELSE [tree  |-> [kept.tree EXCEPT
                             ![path].size = metadata.size,
                             ![path].clusters = Reallocated(@, metadata.size),
                             ![path].rev = metadata.rev],
                calls |-> Append(kept.calls, Reallocation(path, metadata.size))]
  BY <1>1, <1>2, Zenon DEF AddLast
<1>4. IsTree(t) /\ dir \in Seq(Names) /\ path \in Seq(Names) /\ ~IsPrefix(path, dir)
      /\ IsPrefix(path, path)
  <2>1. IsTree(t) /\ dir \in Seq(Names)
    BY <1>1 DEF InOrder, IsTree, Typed
  <2>2. path \in Seq(Names) /\ Len(path) = Len(dir) + 1 /\ Len(dir) \in Nat
    BY <1>1, <2>1, FrontLastOfAppend
  <2>3. ~(Len(path) <= Len(dir))
    BY <2>2
  <2> QED
    BY <2>1, <2>2, <2>3, PrefixOfItself
<1>5. /\ InOrder(kept) /\ dir \in DOMAIN kept.tree /\ kept.tree[dir].is_dir
      /\ path \in DOMAIN kept.tree => kept.tree[path].is_dir = metadata.is_dir
  <2>1. CASE path \in DOMAIN t /\ t[path].is_dir # metadata.is_dir
    <3>1. kept = RemoveChild(st, dir, name)
      BY <1>2, <2>1
    <3>2. Append(dir, name) \in DOMAIN st.tree
      BY <1>1, <2>1
    <3>3. /\ InOrder(kept)
          /\ DOMAIN kept.tree = {q \in DOMAIN st.tree : ~IsPrefix(Append(dir, name), q)}
      BY <1>4, <3>1, <3>2, ChildLeaves
    <3>4. dir \in DOMAIN kept.tree /\ path \notin DOMAIN kept.tree
      BY <1>1, <1>4, <3>3
    <3>5. kept.tree[dir].is_dir
      <4>1. kept.tree = Unlinked(t, dir, name)
        BY <1>1, <3>1 DEF RemoveChild
      <4>2. Alike(kept.tree[dir], t[dir])
        BY <1>1, <1>4, <2>1, <3>4, <4>1, ChildRemoved
      <4> QED
        BY <1>1, <4>2 DEF Alike
    <3> QED
      BY <3>3, <3>4, <3>5
  <2>2. CASE ~(path \in DOMAIN t /\ t[path].is_dir # metadata.is_dir)
    BY <1>1, <1>2, <2>2
  <2> QED
    BY <2>1, <2>2
<1>6. /\ metadata.is_dir \in BOOLEAN /\ metadata.rev \in Revs /\ metadata.size \in Nat
      /\ ~metadata.is_dir => metadata.size \in FileSizes
  <2>1. ~metadata.is_dir => metadata.size \in FileSizes
    BY DEF Metadata
  <2> QED
    BY <2>1, MetadataFields
<1>7. CASE path \notin DOMAIN kept.tree
  <2>1. PICK is_dir \in BOOLEAN, rev \in Revs, bytes \in Nat :
          /\ is_dir = metadata.is_dir /\ rev = metadata.rev
          /\ bytes = (IF metadata.is_dir THEN DotsSize ELSE metadata.size)
    <3>1. (IF metadata.is_dir THEN DotsSize ELSE metadata.size) \in Nat
      BY <1>6, TreeAssumption DEF ConstantsOK
    <3> QED
      BY <1>6, <3>1
  <2>2. ~is_dir => bytes \in FileSizes
    BY <1>6, <2>1
  <2>3. r = AddChild(kept, dir, name, is_dir, bytes, rev)
    BY <1>3, <1>7, <2>1
  <2>4. Append(dir, name) \notin DOMAIN kept.tree
    BY <1>1, <1>7
  <2>5. InOrder(r)
    BY <1>5, <2>2, <2>3, <2>4, ChildJoins
  <2> QED
    BY <1>1, <2>5
<1>8. IsTree(r.tree)
  <2>1. PICK c : c = st.calls
    OBVIOUS
  <2>2. st = [tree |-> t, calls |-> c]
    BY <1>1, <2>1 DEF InOrder
  <2>3. LastPut(AddLast(st, dir, name, metadata).tree, t, Append(dir, name), metadata)
    BY <1>1, <1>4, <2>2, LastAdded
  <2> QED
    BY <1>1, <2>3 DEF LastPut
<1>9. CASE path \in DOMAIN kept.tree /\ metadata.is_dir
  <2>1. r = [kept EXCEPT !.tree[path].rev = metadata.rev]
    BY <1>3, <1>9
  <2>2. PICK u, v, c : u = r.tree /\ v = kept.tree /\ c = kept.calls
    OBVIOUS
  <2>3. kept = [tree |-> v, calls |-> c] /\ IsTree(v)
    BY <1>5, <2>2 DEF InOrder
  <2>4. /\ r = [tree |-> u, calls |-> c]
        /\ u = [v EXCEPT ![path].rev = metadata.rev]
    BY <2>1, <2>2, <2>3
  <2>5. /\ DOMAIN u = DOMAIN v
        /\ \A q \in DOMAIN v : /\ u[q].is_dir = v[q].is_dir /\ u[q].size = v[q].size
                              /\ u[q].clusters = v[q].clusters
    <3>1. PICK g \in EntryType : g = v[path]
      BY <1>9, <2>2, <2>3 DEF IsTree, Typed
    <3>2. g = [is_dir |-> g.is_dir, size |-> g.size, rev |-> g.rev,
               clusters |-> g.clusters, children |-> g.children]
      BY DEF EntryType
    <3>3. v = [q \in DOMAIN v |-> v[q]]
      BY <2>3 DEF IsTree, Typed
    <3> QED
      BY <1>9, <2>2, <2>4, <3>1, <3>2, <3>3
  <2>6. Lens(u) = Lens(v)
    BY <2>5 DEF Lens
  <2>7. Bounded(r) => Bounded(kept)
    BY <2>2, <2>5 DEF Bounded
  <2>8. /\ \E d \in Nat : Depth(v, d)
        /\ DOMAIN v \subseteq Entries /\ c \in Seq(Requests)
        /\ Replay(Lens(tree), c, Lens(v))
        /\ Bounded(kept) => c \in Seq(SizedRequests)
    BY <1>5, <2>2 DEF InOrder
  <2>9. r.tree = u /\ r.calls = c /\ r = [tree |-> r.tree, calls |-> r.calls]
    BY <2>4
  <2>10. \E d \in Nat : Depth(u, d)
    BY <2>5, <2>8 DEF Depth
  <2>11. InOrder(r)
    BY <1>8, <2>5, <2>6, <2>7, <2>8, <2>9, <2>10 DEF InOrder
  <2> QED
    BY <1>1, <2>11
<1>10. CASE path \in DOMAIN kept.tree /\ ~metadata.is_dir
  <2>1. PICK bytes \in FileSizes, rev \in {metadata.rev} : bytes = metadata.size /\ rev = metadata.rev
    BY <1>6, <1>10
  <2>2. r = [tree  |-> [kept.tree EXCEPT
                          ![path].size = bytes,
                          ![path].clusters = Reallocated(@, bytes),
                          ![path].rev = rev],
             calls |-> Append(kept.calls, Reallocation(path, bytes))]
    BY <1>3, <1>10, <2>1
  <2>3. ~kept.tree[path].is_dir
    BY <1>5, <1>10
  <2>4. InOrder(r)
    BY <1>5, <1>8, <1>10, <2>2, <2>3, FileResized
  <2> QED
    BY <1>1, <2>4
<1> QED
  BY <1>7, <1>9, <1>10

\* The tree between two operations.
Sound ==
  /\ IsTree(tree)
  /\ \E d \in Nat : Depth(tree, d)
  /\ DOMAIN tree \subseteq Entries
  /\ Bounded(Unchanged)

\* No call has been made yet.
LEMMA StartInOrder ==
  ASSUME Sound
  PROVE  InOrder(Unchanged) /\ Bounded(Unchanged)
<1>1. /\ Unchanged.tree = tree /\ Unchanged.calls = <<>>
      /\ Unchanged = [tree |-> Unchanged.tree, calls |-> Unchanged.calls]
  BY DEF Unchanged
<1>2. <<>> \in Seq(Requests) /\ <<>> \in Seq(SizedRequests)
  BY EmptySeq
<1>3. Replay(Lens(tree), <<>>, Lens(tree))
  BY ReplayNone
<1> QED
  BY <1>1, <1>2, <1>3 DEF Sound, InOrder

\* The directories of more than n names are within the bound.
SmallBeyond(t, n) ==
  \A q \in DOMAIN t : Len(q) > n /\ t[q].is_dir => t[q].size <= MaxDirSize

\* add_file_entry.
LEMMA AddedInOrder ==
  ASSUME Sound, NEW path \in Paths, NEW metadata \in Metadata, NEW st \in Added(path, metadata)
  PROVE  InOrder(st)
<1>1. path \in Seq(Names) /\ path # <<>>
  BY TreeAssumption DEF ConstantsOK
<1>2. Len(path) \in Nat \ {0}
  BY <1>1, EmptySeq
<1>3. PICK walk : IsAddWalk(walk, path, metadata)
  BY <1>1, AddWalkExists
<1>4. /\ walk[0] = {Unchanged}
      /\ \A i \in 1 .. Len(path) :
           walk[i] = {AddStep(x, path, metadata, i) : x \in walk[i - 1]}
      /\ st \in walk[Len(path)]
  BY <1>3 DEF IsAddWalk
<1> DEFINE Fine(x, i) == OnTheWay(x, path, i) /\ InOrder(x) /\ SmallBeyond(x.tree, i)
           T == {i \in 0 .. Len(path) - 1 : \A x \in walk[i] : Fine(x, i)}
<1>5. 0 \in T
  <2>1. Fine(Unchanged, 0)
    <3>1. OnTheWay(Unchanged, path, 0)
      BY <1>1, OnTheWayStarts DEF Sound
    <3>2. SmallBeyond(Unchanged.tree, 0)
      BY StartInOrder DEF SmallBeyond, Bounded
    <3> QED
      BY <3>1, <3>2, StartInOrder
  <2>2. 0 \in 0 .. Len(path) - 1
    BY <1>2
  <2> HIDE DEF Fine
  <2> QED
    BY <1>4, <2>1, <2>2
<1>6. ASSUME NEW i \in 1 .. Len(path), NEW x, Fine(x, i - 1)
      PROVE  /\ i < Len(path) => Fine(AddStep(x, path, metadata, i), i)
             /\ i = Len(path) => InOrder(AddStep(x, path, metadata, i))
  <2>1. PICK dir, name, p : /\ dir = SubSeq(path, 1, i - 1) /\ name = path[i]
                            /\ p = SubSeq(path, 1, i)
    OBVIOUS
  <2>2. /\ dir \in Seq(Names) /\ name \in Names /\ p = Append(dir, name)
        /\ p \in Seq(Names) /\ Len(dir) = i - 1 /\ Len(p) = i
    <3>1. i \in 0 .. Len(path)
      BY <1>2
    <3> QED
      BY <1>1, <2>1, <3>1, NextOfPath, ShorterPaths
  <2>3. p \in Entries
    <3>1. i \in 0 .. Len(path)
      BY <1>2
    <3> QED
      BY <2>1, <3>1, VolumeAssumption
  <2>4. /\ InOrder(x) /\ SmallBeyond(x.tree, i - 1) /\ OnTheWay(x, path, i - 1)
    BY <1>6
  <2>5. dir \in DOMAIN x.tree /\ x.tree[dir].is_dir
    <3>1. i - 1 \in 0 .. i - 1
      BY <1>2
    <3> QED
      BY <2>1, <2>4, <3>1 DEF OnTheWay
  <2>6. CASE i = Len(path)
    <3>1. AddStep(x, path, metadata, i) = AddLast(x, dir, name, metadata)
      BY <2>1, <2>6 DEF AddStep
    <3>2. SmallBelow(x.tree, p)
      <4> SUFFICES ASSUME NEW q \in Below(x.tree, p), x.tree[q].is_dir
                   PROVE  x.tree[q].size <= MaxDirSize
        BY DEF SmallBelow
      <4>1. q \in DOMAIN x.tree /\ q \in Seq(Names) /\ IsPrefix(p, q)
        BY <2>4 DEF Below, InOrder, IsTree, Typed
      <4>2. i <= Len(q) /\ Len(q) \in Nat
        BY <2>2, <4>1, PrefixOfItself, LenProperties
      <4>3. Len(q) > i - 1
        BY <4>2
      <4> QED
        BY <2>4, <4>1, <4>3 DEF SmallBeyond
    <3>3. Append(dir, name) \in Entries /\ SmallBelow(x.tree, Append(dir, name))
      BY <2>2, <2>3, <3>2
    <3>4. InOrder(AddLast(x, dir, name, metadata))
      BY <2>2, <2>4, <2>5, <3>3, LastInOrder
    <3> QED
      BY <2>6, <3>1, <3>4
  <2>7. CASE i # Len(path)
    <3>1. PICK y : y = AddStep(x, path, metadata, i)
      OBVIOUS
    <3>2. y = AddParent(x, dir, name, metadata)
      BY <2>1, <2>7, <3>1 DEF AddStep
    <3>3. i \in 1 .. Len(path) - 1
      BY <1>2, <2>7
    <3>4. OnTheWay(y, path, i)
      BY <1>1, <2>4, <3>1, <3>3, OneFurther
    <3>5. Append(dir, name) \in Entries
      BY <2>2, <2>3
    <3>6. /\ InOrder(y)
          /\ \A q \in DOMAIN y.tree : q # dir /\ q # Append(dir, name) =>
               q \in DOMAIN x.tree /\ y.tree[q] = x.tree[q]
      BY <2>2, <2>4, <2>5, <3>2, <3>5, ParentInOrder
    <3>7. SmallBeyond(y.tree, i)
      <4> SUFFICES ASSUME NEW q \in DOMAIN y.tree, Len(q) > i, y.tree[q].is_dir
                   PROVE  y.tree[q].size <= MaxDirSize
        BY DEF SmallBeyond
      <4>1. q \in Seq(Names)
        BY <3>6 DEF InOrder, IsTree, Typed
      <4>2. Len(q) \in Nat
        BY <4>1, LenProperties
      <4>3. q # dir /\ q # Append(dir, name) /\ Len(q) > i - 1
        BY <2>2, <4>2
      <4> QED
        BY <2>4, <3>6, <4>3 DEF SmallBeyond
    <3> QED
      BY <2>7, <3>1, <3>4, <3>6, <3>7
  <2> QED
    BY <2>6, <2>7
<1> HIDE DEF Fine
<1>7. ASSUME NEW i \in 0 .. (Len(path) - 1) - 1, i \in T PROVE i + 1 \in T
  <2>1. i + 1 \in 1 .. Len(path) /\ (i + 1) - 1 = i /\ i + 1 < Len(path)
        /\ i + 1 \in 0 .. Len(path) - 1
    BY <1>2
  <2>2. ASSUME NEW y \in walk[i + 1] PROVE Fine(y, i + 1)
    <3>1. PICK x \in walk[i] : y = AddStep(x, path, metadata, i + 1)
      BY <1>4, <2>1
    <3>2. Fine(x, (i + 1) - 1)
      BY <1>7, <2>1
    <3> QED
      BY <1>6, <2>1, <3>1, <3>2
  <2> QED
    BY <2>1, <2>2
<1>8. 0 .. Len(path) - 1 \subseteq T
  <2>1. Len(path) - 1 \in Nat
    BY <1>2
  <2> HIDE DEF T
  <2> QED
    BY <1>5, <1>7, <2>1, IntervalInduction
<1>9. Len(path) \in 1 .. Len(path) /\ Len(path) - 1 \in 0 .. Len(path) - 1
  BY <1>2
<1>10. PICK x \in walk[Len(path) - 1] : st = AddStep(x, path, metadata, Len(path))
  BY <1>4, <1>9
<1>11. Fine(x, Len(path) - 1)
  BY <1>8, <1>9
<1> QED
  BY <1>6, <1>9, <1>10, <1>11

\* remove_file_entry.
LEMMA RemovedInOrder ==
  ASSUME Sound, NEW path \in Paths
  PROVE  InOrder(Removed(path)) /\ Bounded(Removed(path))
<1>1. CASE Len(path) = 1 /\ path \in DOMAIN tree
  <2>1. path \in Seq(Names) /\ 1 \in 1 .. Len(path)
    BY <1>1, TreeAssumption DEF ConstantsOK
  <2>2. PICK name \in Names : name = path[1]
    BY <2>1, ElementOfSeq
  <2>3. Root \in Seq(Names) /\ Append(Root, name) = path
    BY <1>1, <2>1, <2>2 DEF Root
  <2>4. PICK st : st = Unchanged
    OBVIOUS
  <2>5. st.tree = tree /\ InOrder(st) /\ Bounded(st)
    BY <2>4, StartInOrder DEF Unchanged
  <2>6. SmallBelow(st.tree, Append(Root, name)) /\ Append(Root, name) \in DOMAIN st.tree
    BY <1>1, <2>3, <2>5 DEF SmallBelow, Below, Bounded
  <2>7. Removed(path) = RemoveChild(st, Root, name)
    BY <1>1, <2>2, <2>4 DEF Removed
  <2> QED
    BY <2>3, <2>5, <2>6, <2>7, ChildLeaves
<1>2. CASE ~(Len(path) = 1 /\ path \in DOMAIN tree)
  BY <1>2, StartInOrder, Zenon DEF Removed
<1> QED
  BY <1>1, <1>2

\* remove_all_file_entries.
LEMMA EmptiedInOrder ==
  ASSUME Sound, NEW st \in Emptied
  PROVE  InOrder(st) /\ Bounded(st)
<1>1. PICK children : children = tree[Root].children
  OBVIOUS
<1>2. /\ children \in Seq(Names) /\ Distinct(children) /\ Remaining(Unchanged, children, 0)
  BY <1>1, NoneRemoved DEF Sound
<1>3. Len(children) \in Nat
  BY <1>2, LenProperties
<1>4. PICK walk : IsRemovalWalk(walk, children)
  BY <1>1, <1>2, RemovalWalkExists
<1>5. /\ walk[0] = {Unchanged}
      /\ \A i \in 1 .. Len(children) :
           walk[i] = {RemoveChild(x, Root, children[i]) : x \in walk[i - 1]}
      /\ st \in walk[Len(children)]
  BY <1>4 DEF IsRemovalWalk
<1> DEFINE Fine(x, i) == Remaining(x, children, i) /\ InOrder(x) /\ Bounded(x)
           T == {i \in 0 .. Len(children) : \A x \in walk[i] : Fine(x, i)}
<1>6. 0 \in T
  <2>1. 0 \in 0 .. Len(children)
    BY <1>3
  <2> QED
    BY <1>2, <1>5, <2>1, StartInOrder
<1>7. ASSUME NEW i \in 0 .. Len(children) - 1, i \in T PROVE i + 1 \in T
  <2>1. i + 1 \in 1 .. Len(children) /\ i + 1 \in 0 .. Len(children) /\ (i + 1) - 1 = i
    BY <1>3
  <2>2. ASSUME NEW y \in walk[i + 1] PROVE Fine(y, i + 1)
    <3>1. PICK x \in walk[i] : y = RemoveChild(x, Root, children[i + 1])
      BY <1>5, <2>1
    <3>2. Remaining(x, children, (i + 1) - 1) /\ InOrder(x) /\ Bounded(x)
      BY <1>7, <2>1
    <3>3. Remaining(y, children, i + 1)
      BY <1>2, <2>1, <3>1, <3>2, OneFewer
    <3>4. PICK name \in Names : name = children[i + 1]
      BY <1>2, <2>1, ElementOfSeq
    <3>5. Append(Root, name) \in DOMAIN x.tree
      <4>1. i + 1 > (i + 1) - 1
        BY <1>3
      <4> QED
        BY <2>1, <3>2, <3>4, <4>1 DEF Remaining
    <3>6. SmallBelow(x.tree, Append(Root, name))
      BY <3>2 DEF SmallBelow, Below, Bounded
    <3>7. Root \in Seq(Names)
      BY EmptySeq DEF Root
    <3>8. InOrder(y) /\ Bounded(y)
      BY <3>1, <3>2, <3>4, <3>5, <3>6, <3>7, ChildLeaves
    <3> QED
      BY <3>3, <3>8
  <2> HIDE DEF Fine
  <2> QED
    BY <2>1, <2>2
<1>8. 0 .. Len(children) \subseteq T
  <2> HIDE DEF T
  <2> QED
    BY <1>3, <1>6, <1>7, IntervalInduction
<1>9. Len(children) \in 0 .. Len(children)
  BY <1>3
<1> QED
  BY <1>5, <1>8, <1>9

(***************************************************************************)
(* The invariant of the volume, and the theorems.                          *)
(***************************************************************************)

\* The invariant of the volume: the running call, and after it the calls that remain,
\* lead from the chains to the tree, or the running call will not return.
VolumeInv ==
  /\ FullInv
  /\ Sound
  /\ calls \in Seq(Requests) /\ calls \in Seq(SizedRequests)
  /\ pc # "aborted" => ExtInv /\ (Stuck \/ Replay(Settled, calls, Lens(tree)))

\* Between two calls, the chains are as they are.
LEMMA IdleSettled ==
  Inv /\ pc = "idle" =>
    /\ Settled = [e \in InTree |-> Cardinality(Chain(first_cluster[e]))]
    /\ ~Stuck
<1> SUFFICES ASSUME Inv, pc = "idle"
             PROVE  /\ Settled = [e \in InTree |-> Cardinality(Chain(first_cluster[e]))]
                    /\ ~Stuck
  OBVIOUS
<1>1. Table = FAT_ENTRIES /\ Kept = InTree /\ entry = NONE /\ NONE \notin Entries
  BY IdleTables, ConstantsAssumption DEF Inv, CallInv
<1>2. Staying = InTree
  BY <1>1 DEF Staying
<1>3. \A e \in InTree : Length(e) = Cardinality(Chain(first_cluster[e]))
  BY <1>1 DEF Length, InTree, Count, Chain
<1> QED
  BY <1>2, <1>3 DEF Settled, Stuck

\* An operation begins with its calls in order.
LEMMA OperationKeeps ==
  ASSUME VolumeInv, VolumeInv => FullInv', NEW st, InOrder(st), Bounded(st), Operation(st)
  PROVE  VolumeInv'
<1>1. pc = "idle" /\ calls = <<>> /\ tree' = st.tree /\ calls' = st.calls /\ UNCHANGED vars
  BY DEF Operation, Quiescent
<1>2. FullInv' /\ Inv /\ Inv' /\ pc' = "idle"
  BY <1>1 DEF VolumeInv, FullInv, vars
<1>3. Sound'
  <2>1. /\ IsTree(st.tree) /\ DOMAIN st.tree \subseteq Entries
        /\ \E d \in Nat : Depth(st.tree, d)
    BY DEF InOrder
  <2>2. Bounded(Unchanged)'
    BY <1>1 DEF Bounded, Unchanged
  <2> QED
    BY <1>1, <2>1, <2>2 DEF Sound
<1>4. calls' \in Seq(Requests) /\ calls' \in Seq(SizedRequests)
  BY <1>1 DEF InOrder
<1>5. Settled = Lens(tree)
  <2>1. Replay(Settled, <<>>, Lens(tree))
    BY <1>1, <1>2, IdleSettled DEF VolumeInv
  <2> QED
    BY <2>1, ReplayNone
<1>6. Settled' = Settled
  BY <1>1 DEF Settled, Staying, Length, Outcome, Passed, Kept, InTree, Count, Table, Marks,
              Occupied, vars, tableVars, entryVars, callVars
<1>7. Replay(Settled, calls, Lens(tree))'
  <2>1. Replay(Lens(tree), st.calls, Lens(st.tree))
    BY DEF InOrder
  <2>2. Lens(tree)' = Lens(st.tree)
    BY <1>1 DEF Lens
  <2>3. Replay(Settled', calls', Lens(tree)')
    BY <1>1, <1>5, <1>6, <2>1, <2>2
  <2> QED
    BY <2>3 DEF Replay, IsReplay, Ready, After
<1>8. ExtInv'
  BY <1>2 DEF ExtInv
<1> QED
  BY <1>2, <1>3, <1>4, <1>7, <1>8 DEF VolumeInv

\* A call begins.
LEMMA CallKeeps ==
  ASSUME VolumeInv, VolumeInv => FullInv', VolumeInv => (pc' # "aborted" => ExtInv'), Call
  PROVE  VolumeInv'
<1>1. PICK call : call = Head(calls)
  OBVIOUS
<1>2. /\ calls # <<>> /\ calls' = Tail(calls) /\ tree' = tree
      /\ call.path \in Entries /\ call.bytes \in Sizes
      /\ \/ call.op = "allocate" /\ Allocate(call.path, call.bytes)
         \/ call.op = "allocate" /\ AllocateFails(call.path)
         \/ call.op = "reallocate" /\ Reallocate(call.path, call.bytes)
         \/ call.op = "free" /\ Free(call.path)
  BY <1>1 DEF Call
<1>3. FullInv' /\ Inv /\ calls \in Seq(Requests) /\ calls \in Seq(SizedRequests)
  BY DEF VolumeInv, FullInv
<1>4. pc = "idle"
  BY <1>2 DEF Allocate, AllocateFails, Reallocate, Free
<1>5. Sound'
  BY <1>2 DEF VolumeInv, Sound, Bounded, Unchanged
<1>6. calls' \in Seq(Requests) /\ calls' \in Seq(SizedRequests)
  BY <1>2, <1>3, HeadTailProperties
<1>7. ASSUME pc' # "aborted"
      PROVE  Replay(Settled, calls, Lens(tree))'
  <2>1. Replay(Settled, calls, Lens(tree))
    BY <1>3, <1>4, IdleSettled DEF VolumeInv
  <2>2. Replay(After(Settled, call), Tail(calls), Lens(tree))
    BY <1>1, <1>2, <1>3, <2>1, ReplayFirst
  <2>3. Settled' = After(Settled, call)
    <3>1. PICK e \in Entries, bytes \in 0 .. UINT32 - 1 :
            e = call.path /\ bytes = call.bytes
      BY <1>2, ConstantsAssumption
    <3>2. \/ call.op = "allocate" /\ call.bytes = bytes /\ Allocate(e, bytes)
          \/ call.op = "reallocate" /\ call.bytes = bytes /\ Reallocate(e, bytes)
          \/ call.op = "free" /\ Free(e)
      BY <1>2, <1>7, <3>1 DEF AllocateFails
    <3> QED
      BY <1>3, <3>1, <3>2, CallSettles
  <2>4. Lens(tree)' = Lens(tree)
    BY <1>2 DEF Lens
  <2>5. Replay(Settled', calls', Lens(tree)')
    BY <1>2, <2>2, <2>3, <2>4
  <2> QED
    BY <2>5 DEF Replay, IsReplay, Ready, After
<1> QED
  BY <1>3, <1>5, <1>6, <1>7 DEF VolumeInv

\* A call goes on.
LEMMA GoKeeps ==
  ASSUME VolumeInv, VolumeInv => FullInv', VolumeInv => (pc' # "aborted" => ExtInv'), Go
  PROVE  VolumeInv'
<1>1. Iteration /\ tree' = tree /\ calls' = calls /\ pc # "aborted"
  BY DEF Go, Iteration, AllocateNext, AllocateEnd, Walk, Extend, Shrink, Terminate, Ends,
         FreeNext, FreeLast, OutOfClusters
<1>2. FullInv' /\ Inv /\ SizeInv /\ ExtInv
  BY <1>1 DEF VolumeInv, FullInv
<1>3. Sound'
  BY <1>1 DEF VolumeInv, Sound, Bounded, Unchanged
<1>4. calls' \in Seq(Requests) /\ calls' \in Seq(SizedRequests)
  BY <1>1 DEF VolumeInv
<1>5. ASSUME pc' # "aborted"
      PROVE  Stuck' \/ Replay(Settled, calls, Lens(tree))'
  <2>1. CASE Stuck
    BY <1>1, <1>2, <1>5, <2>1, StuckStays
  <2>2. CASE ~Stuck
    <3>1. Settled' = Settled
      BY <1>1, <1>2, <1>5, <2>2, IterationSettles
    <3>2. Lens(tree)' = Lens(tree)
      BY <1>1 DEF Lens
    <3>3. Replay(Settled', calls', Lens(tree)')
      BY <1>1, <2>2, <3>1, <3>2 DEF VolumeInv
    <3> QED
      BY <3>3 DEF Replay, IsReplay, Ready, After
  <2> QED
    BY <2>1, <2>2
<1> QED
  BY <1>2, <1>3, <1>4, <1>5 DEF VolumeInv

\* Every step keeps the invariant.
LEMMA VolumeKept ==
  ASSUME VolumeInv, [VolumeNext]_volumeVars
  PROVE  VolumeInv'
<1>1. [Next]_vars
  BY VolumeStep
<1>2. FullInv'
  BY <1>1, NextInv, NextSize, AbortedStays DEF VolumeInv, FullInv
<1>3. pc' # "aborted" => ExtInv'
  BY <1>1, AbortedStays, StepExt DEF VolumeInv, FullInv
<1>4. ASSUME NEW path \in Paths, NEW metadata \in Metadata, BeginAddFileEntry(path, metadata)
      PROVE  VolumeInv'
  <2>1. PICK st \in Added(path, metadata) : Bounded(st) /\ Operation(st)
    BY <1>4 DEF BeginAddFileEntry
  <2>2. InOrder(st)
    BY <2>1, AddedInOrder DEF VolumeInv
  <2> QED
    BY <1>2, <2>1, <2>2, OperationKeeps
<1>5. ASSUME NEW path \in Paths, BeginRemoveFileEntry(path)
      PROVE  VolumeInv'
  <2>1. InOrder(Removed(path)) /\ Bounded(Removed(path))
    BY RemovedInOrder DEF VolumeInv
  <2>2. Operation(Removed(path))
    BY <1>5 DEF BeginRemoveFileEntry
  <2> QED
    BY <1>2, <2>1, <2>2, OperationKeeps
<1>6. ASSUME BeginRemoveAllFileEntries
      PROVE  VolumeInv'
  <2>1. PICK st \in Emptied : Operation(st)
    BY <1>6 DEF BeginRemoveAllFileEntries
  <2>2. InOrder(st) /\ Bounded(st)
    BY <2>1, EmptiedInOrder DEF VolumeInv
  <2> QED
    BY <1>2, <2>1, <2>2, OperationKeeps
<1>7. CASE Call
  BY <1>2, <1>3, <1>7, CallKeeps
<1>8. CASE Go
  BY <1>2, <1>3, <1>8, GoKeeps
<1>9. CASE UNCHANGED volumeVars
  <2>1. UNCHANGED <<tree, calls>> /\ UNCHANGED vars
    BY <1>9 DEF volumeVars
  <2>2. Sound'
    BY <2>1 DEF VolumeInv, Sound, Bounded, Unchanged
  <2>3. Stuck' = Stuck
    BY <2>1 DEF Stuck, Unreachable, vars, entryVars, callVars
  <2>4. Settled' = Settled
    BY <2>1 DEF Settled, Staying, Length, Outcome, Passed, Kept, InTree, Count, Table, Marks,
                Occupied, vars, tableVars, entryVars, callVars
  <2>5. Lens(tree)' = Lens(tree)
    BY <2>1 DEF Lens
  <2>6. pc' # "aborted" => Stuck' \/ Replay(Settled, calls, Lens(tree))'
    <3>1. Replay(Settled, calls, Lens(tree)) => Replay(Settled', calls', Lens(tree)')
      BY <2>1, <2>4, <2>5
    <3>2. Replay(Settled', calls', Lens(tree)') => Replay(Settled, calls, Lens(tree))'
      BY DEF Replay, IsReplay, Ready, After
    <3>3. pc' = pc
      BY <2>1 DEF vars
    <3> QED
      BY <2>3, <3>1, <3>2, <3>3 DEF VolumeInv
  <2>7. calls' \in Seq(Requests) /\ calls' \in Seq(SizedRequests)
    BY <2>1 DEF VolumeInv
  <2> QED
    BY <1>2, <1>3, <2>2, <2>6, <2>7 DEF VolumeInv
<1> QED
  BY <1>4, <1>5, <1>6, <1>7, <1>8, <1>9 DEF VolumeNext

\* The volume at the start.
LEMMA VolumeStarts ==
  ASSUME VolumeInit
  PROVE  VolumeInv
<1>1. Init /\ TreeInit /\ calls = <<>>
  BY DEF VolumeInit
<1>2. FullInv /\ Inv /\ pc = "idle"
  BY <1>1, InitInv, InitSize DEF FullInv, Init
<1>3. IsTree(tree) /\ DOMAIN tree = {Root} /\ tree[Root].clusters = 1 /\ tree[Root].size = 0
  BY <1>1, TreeStarts DEF TreeInit
<1>4. Sound
  <2>1. Depth(tree, 0)
    BY <1>3, EmptySeq DEF Depth, Root
  <2>2. Bounded(Unchanged)
    <3>1. MaxDirSize \in Nat
      BY TreeAssumption DEF ConstantsOK
    <3> QED
      BY <1>3, <3>1 DEF Bounded, Unchanged
  <2>3. Root \in Entries
    BY VolumeAssumption, ConstantsAssumption
  <2> QED
    BY <1>3, <2>1, <2>2, <2>3 DEF Sound
<1>5. calls \in Seq(Requests) /\ calls \in Seq(SizedRequests)
  BY <1>1, EmptySeq
<1>6. ExtInv
  BY <1>2 DEF ExtInv
<1>7. Settled = Lens(tree)
  <2>1. InTree = {Root} /\ first_cluster[Root] = 2 /\ FAT_ENTRIES[2] = EOFC
    BY <1>1, VolumeAssumption, ConstantsAssumption, ClustersFacts DEF Init, InTree
  <2>2. Chain(2) = {2}
    BY <2>1, ChainEnd, ClustersFacts DEF Chain
  <2>3. Cardinality(Chain(first_cluster[Root])) = 1
    BY <2>1, <2>2, FS_Singleton
  <2>4. Settled = [e \in InTree |-> Cardinality(Chain(first_cluster[e]))]
    BY <1>2, IdleSettled
  <2> QED
    BY <1>3, <2>1, <2>3, <2>4 DEF Lens
<1>8. Replay(Settled, calls, Lens(tree))
  BY <1>1, <1>7, ReplayNone
<1> QED
  BY <1>2, <1>4, <1>5, <1>6, <1>8 DEF VolumeInv

\* The invariant holds of the volume.
THEOREM VolumeInvariance == VolumeSpec => []VolumeInv
<1>1. VolumeInit => VolumeInv
  BY VolumeStarts
<1>2. VolumeInv /\ [VolumeNext]_volumeVars => VolumeInv'
  BY VolumeKept
<1> QED
  BY <1>1, <1>2, PTL DEF VolumeSpec

\* Between two operations the allocation table and the tree agree: exactly the
\* entries of the tree have a chain, of as many clusters as the tree counts.
THEOREM TablesMatch == VolumeSpec => []TablesMatchTree
<1>1. VolumeInv => TablesMatchTree
  <2> SUFFICES ASSUME VolumeInv, Quiescent
               PROVE  /\ InTree = DOMAIN tree
                      /\ \A p \in DOMAIN tree :
                           tree[p].clusters = Cardinality(Chain(first_cluster[p]))
    BY DEF TablesMatchTree
  <2>1. Inv /\ pc = "idle" /\ calls = <<>>
    BY DEF VolumeInv, FullInv, Quiescent
  <2>2. /\ Settled = [e \in InTree |-> Cardinality(Chain(first_cluster[e]))]
        /\ ~Stuck
    BY <2>1, IdleSettled
  <2>3. Replay(Settled, <<>>, Lens(tree))
    BY <2>1, <2>2 DEF VolumeInv
  <2>4. Lens(tree) = Settled
    BY <2>3, ReplayNone
  <2>5. InTree = DOMAIN tree
    BY <2>2, <2>4 DEF Lens
  <2>6. ASSUME NEW p \in DOMAIN tree
        PROVE  tree[p].clusters = Cardinality(Chain(first_cluster[p]))
    <3>1. Lens(tree)[p] = tree[p].clusters
      BY DEF Lens
    <3>2. Settled[p] = Cardinality(Chain(first_cluster[p]))
      BY <2>2, <2>5
    <3> QED
      BY <2>4, <3>1, <3>2
  <2> QED
    BY <2>5, <2>6
<1> QED
  BY <1>1, VolumeInvariance, PTL

\* No call comes too early or too late, and each is for an entry and with a size that
\* there may be: no operation stops half-way because its next call cannot be made.
THEOREM CallsComeReady == VolumeSpec => []CallsReady
<1>1. VolumeInv => CallsReady
  <2> SUFFICES ASSUME VolumeInv, pc = "idle", calls # <<>>, NEW call, call = Head(calls)
               PROVE  /\ call.path \in Entries /\ call.bytes \in Sizes
                      /\ call.op = "allocate" <=> call.path \notin InTree
                      /\ call.op = "free" => call.path # ROOT_DIR_ENTRY
    BY DEF CallsReady
  <2>1. /\ Inv /\ calls \in Seq(Requests) /\ calls \in Seq(SizedRequests)
        /\ pc # "aborted"
    BY DEF VolumeInv, FullInv
  <2>2. /\ Settled = [e \in InTree |-> Cardinality(Chain(first_cluster[e]))]
        /\ ~Stuck
    BY <2>1, IdleSettled
  <2>3. Replay(Settled, calls, Lens(tree))
    BY <2>1, <2>2 DEF VolumeInv
  <2>4. Ready(Settled, call)
    BY <2>1, <2>3, ReplayFirst
  <2>5. call \in SizedRequests
    BY <2>1, HeadTailProperties
  <2>6. DOMAIN Settled = InTree
    BY <2>2
  <2> QED
    BY <2>4, <2>5, <2>6, VolumeAssumption DEF Ready, SizedRequests
<1> QED
  BY <1>1, VolumeInvariance, PTL

================================================================================
