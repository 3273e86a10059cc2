---------------------------- MODULE VolumeReadProofs ----------------------------
(***************************************************************************)
(* Proofs about VolumeRead: from a sector boundary on the loop of          *)
(* read_data returns what was asked for, and below the end of the uint32_t *)
(* range that is what the layout of the image has there.                   *)
(***************************************************************************)
EXTENDS VolumeRead, SetInduction

(***************************************************************************)
(* Division with remainder.                                                *)
(***************************************************************************)

\* Multiples keep the order of their factors.
LEMMA Multiples ==
  ASSUME NEW d \in Nat \ {0}, NEW m \in Nat, NEW n \in Nat, m <= n
  PROVE  (m * d) \in Nat /\ m * d <= n * d
OBVIOUS

\* Quotient and remainder give back the number.
LEMMA Divide ==
  ASSUME NEW d \in Nat \ {0}, NEW a \in Nat
  PROVE  \E q \in Nat, r \in 0 .. d - 1 :
           /\ a = q * d + r
           /\ ((a \div d) = q) /\ ((a % d) = r)
<1> DEFINE q == a \div d
           r == a % d
<1>1. q \in Nat /\ r \in 0 .. d - 1 /\ a = q * d + r
  OBVIOUS
<1> HIDE DEF q, r
<1>2. \E x \in Nat, y \in 0 .. d - 1 : a = x * d + y /\ q = x /\ r = y
  BY <1>1
<1> QED
  BY <1>2 DEF q, r

\* They are the only numbers that do.
LEMMA DivideUnique ==
  ASSUME NEW d \in Nat \ {0}, NEW q \in Nat, NEW r \in 0 .. d - 1
  PROVE  (((q * d + r) \div d) = q) /\ ((q * d + r) % d) = r
<1> DEFINE a == q * d + r
           p == a \div d
           s == a % d
<1>1. (q * d) \in Nat /\ a \in Nat
  OBVIOUS
<1>2. p \in Nat /\ s \in 0 .. d - 1 /\ a = p * d + s
  OBVIOUS
<1> HIDE DEF p, s
<1>3. ASSUME p < q PROVE FALSE
  <2>1. (p + 1) * d <= q * d /\ (p + 1) * d = p * d + d
    BY <1>2, <1>3, Multiples
  <2> QED
    BY <1>1, <1>2, <2>1
<1>4. ASSUME p > q PROVE FALSE
  <2>1. (q + 1) * d <= p * d /\ (q + 1) * d = q * d + d
    BY <1>2, <1>4, Multiples
  <2> QED
    BY <1>1, <1>2, <2>1
<1>5. p = q
  BY <1>2, <1>3, <1>4
<1>6. s = r
  BY <1>1, <1>2, <1>5
<1> QED
  BY <1>5, <1>6 DEF p, s

(***************************************************************************)
(* The loop of read_data.                                                  *)
(***************************************************************************)

\* Where a read begins, in uint32_t.
Base == offset % UINT32

\* What the first n bytes of a read are: those of the sectors from Base on.
Bytes(n) ==
  [i \in 1 .. n |->
     <<ReadSector((Base + i - 1) \div SectorSize), (Base + i - 1) % SectorSize>>]

\* A read that begins at a sector boundary is followed byte by byte; after every
\* iteration that does not end it, it is at the beginning of a sector.
Followed ==
  /\ pc # "aborted"
  /\ offset \in Nat
  /\ size \in 0 .. MaxSize /\ (size > 0 => offset + size <= DBBOX_SIZE)
  /\ sector_index = 0 /\ sector \in Nat
  /\ pc \in {"loop", "done"} => \E n \in 0 .. size :
       /\ buf = Bytes(n)
       /\ pc = "loop" /\ n < size => sector * SectorSize = Base + n
       /\ pc = "done" => n = size

\* Nothing is claimed of the others.
ReadInv ==
  /\ chain \in Chains
  /\ pc = "idle" => buf = <<>>
  /\ pc # "idle" /\ Aligned => Followed

\* The numbers of the layout.
LEMMA Layout ==
  /\ FatRegion \in Nat /\ DataRegion \in Nat /\ DBBOX_SIZE \in Nat
  /\ FatRegion + 2 * FATSz = DataRegion
BY ConstantsAssumption DEF DBBOX_SIZE, FatRegion, DataRegion

\* A multiple of the sector size is one in uint32_t as well.
LEMMA BaseAligned ==
  ASSUME NEW a \in Nat, a % SectorSize = 0
  PROVE  (a % UINT32) \in Nat /\ (a % UINT32) % SectorSize = 0
<1>1. /\ SectorSize \in Nat \ {0} /\ UINT32 \in Nat \ {0}
      /\ UINT32 % SectorSize = 0
  BY ConstantsAssumption
<1>2. PICK u \in Nat : UINT32 = u * SectorSize
  BY <1>1, Divide
<1>3. PICK q \in Nat : a = q * UINT32 + (a % UINT32)
  BY <1>1, Divide
<1>4. PICK v \in Nat, r \in 0 .. SectorSize - 1 :
        (a % UINT32) = v * SectorSize + r /\ ((a % UINT32) % SectorSize) = r
  <2>1. a % UINT32 \in Nat
    BY <1>1
  <2> QED
    BY <1>1, <2>1, Divide
<1>5. a = (q * u + v) * SectorSize + r /\ q * u + v \in Nat
  BY <1>1, <1>2, <1>3, <1>4
<1>6. a % SectorSize = r
  BY <1>1, <1>5, DivideUnique
<1> QED
  BY <1>1, <1>4, <1>6

\* The bytes of a read are a sequence.
LEMMA BytesLength ==
  ASSUME NEW n \in Nat
  PROVE  Len(Bytes(n)) = n /\ DOMAIN Bytes(n) = 1 .. n
BY DEF Bytes

\* The end of the read is as far as it is, in uint32_t too.
LEMMA EndIndexIs ==
  ASSUME Followed, pc = "loop", NEW n \in 0 .. size, n < size,
         sector * SectorSize = Base + n
  PROVE  EndIndex = size - n /\ EndIndex > sector_index
<1>1. size \in Nat /\ size < UINT32 /\ sector_index = 0 /\ Base \in Nat
  BY ConstantsAssumption DEF Followed, Base
<1>2. Base + size - (sector * SectorSize + sector_index) = size - n
  BY <1>1
<1>3. (size - n) % UINT32 = size - n
  BY <1>1, ConstantsAssumption
<1> QED
  BY <1>1, <1>2, <1>3 DEF EndIndex, Base

\* The calls and iterations that leave the chains alone leave every sector alone.
LEMMA SectorsFixed ==
  ASSUME chain' = chain
  PROVE  \A s : ReadSector(s)' = ReadSector(s)
BY DEF ReadSector, DataSector, ChainSize, FAT_ENTRIES, DIR_ENTRIES, EntryOf,
      PositionOf, OnChain

\* Before the first read.
LEMMA InitRead == Init => ReadInv
BY DEF Init, ReadInv

\* A read that begins.
LEMMA BeginRead ==
  ASSUME ReadInv, NEW from \in 0 .. DBBOX_SIZE, NEW count \in 0 .. MaxSize,
         Read(from, count)
  PROVE  ReadInv'
<1>1. /\ pc = "idle" /\ pc' = "loop" /\ chain' = chain /\ buf' = <<>>
      /\ offset' = from
      /\ size' = IF from < DBBOX_SIZE
                 THEN IF from + count > DBBOX_SIZE THEN DBBOX_SIZE - from ELSE count
                 ELSE 0
      /\ sector' = (from % UINT32) \div SectorSize
      /\ sector_index' = (from % UINT32) % SectorSize
  BY DEF Read, ReadInv
<1>2. ASSUME Aligned' PROVE Followed'
  <2>1. from \in Nat /\ from % SectorSize = 0
    BY <1>1, <1>2, Layout DEF Aligned
  <2>2. (from % UINT32) \in Nat /\ (from % UINT32) % SectorSize = 0
    BY <2>1, BaseAligned
  <2>3. sector' \in Nat /\ sector' * SectorSize = from % UINT32
    <3>1. SectorSize \in Nat \ {0}
      BY ConstantsAssumption
    <3>2. PICK q \in Nat, r \in 0 .. SectorSize - 1 :
            /\ (from % UINT32) = q * SectorSize + r
            /\ ((from % UINT32) \div SectorSize) = q
            /\ ((from % UINT32) % SectorSize) = r
      BY <2>2, <3>1, Divide
    <3>3. sector' = q /\ r = 0
      BY <1>1, <2>2, <3>2
    <3> QED
      BY <3>1, <3>2, <3>3
  <2>4. size' \in 0 .. MaxSize /\ (size' > 0 => offset' + size' <= DBBOX_SIZE)
        /\ offset' = from /\ sector_index' = 0
    BY <1>1, <2>1, <2>2, Layout, ConstantsAssumption
  <2>5. Bytes(0)' = <<>>
    BY DEF Bytes
  <2>6. sector' * SectorSize = Base' + 0
    BY <2>2, <2>3, <2>4 DEF Base
  <2>7. 0 \in 0 .. size'
    BY <2>4, ConstantsAssumption
  <2> QED
    BY <1>1, <2>1, <2>3, <2>4, <2>5, <2>6, <2>7 DEF Followed
<1> QED
  BY <1>1, <1>2 DEF ReadInv

\* An iteration adds the bytes of its sector.
LEMMA IterateRead ==
  ASSUME ReadInv, Iterate
  PROVE  ReadInv'
<1>1. /\ pc = "loop" /\ pc' = "loop" /\ chain' = chain /\ offset' = offset
      /\ size' = size /\ sector' = sector + 1 /\ sector_index' = 0
      /\ Len(buf) < size /\ buf' = buf \o ReadBytes
  BY DEF Iterate
<1>2. ASSUME Aligned, Followed PROVE Followed'
  <2>1. /\ sector_index = 0 /\ sector \in Nat /\ size \in Nat /\ offset \in Nat
        /\ offset % SectorSize = 0 /\ SectorSize \in Nat \ {0}
    BY <1>2, ConstantsAssumption DEF Followed, Aligned
  <2>2. PICK n \in 0 .. size :
          buf = Bytes(n) /\ (n < size => sector * SectorSize = Base + n)
    BY <1>1, <1>2 DEF Followed
  <2>3. n < size /\ n \in Nat /\ sector * SectorSize = Base + n
    BY <1>1, <2>1, <2>2, BytesLength
  <2>4. EndIndex = size - n
    BY <1>1, <1>2, <2>3, EndIndexIs
  <2>5. PICK k \in 1 .. SectorSize :
          k = ReadSize /\ n + k \in 0 .. size /\ (n + k < size => k = SectorSize)
    <3>1. ReadSize = IF size - n < SectorSize THEN size - n ELSE SectorSize
      BY <2>1, <2>3, <2>4 DEF ReadSize
    <3>2. /\ ReadSize \in 1 .. SectorSize /\ n + ReadSize \in 0 .. size
          /\ (n + ReadSize < size => ReadSize = SectorSize)
      BY <2>1, <2>3, <3>1
    <3> QED
      BY <3>2
  <2>6. Base \in Nat /\ Base' = Base
    BY <1>1, <2>1, BaseAligned DEF Base
  <2>7. ASSUME NEW i \in 1 .. k
        PROVE  <<ReadSector(sector), i - 1>>
                 = <<ReadSector((Base + (n + i) - 1) \div SectorSize),
                     (Base + (n + i) - 1) % SectorSize>>
    <3>1. Base + (n + i) - 1 = sector * SectorSize + (i - 1)
          /\ i - 1 \in 0 .. SectorSize - 1
      BY <2>1, <2>3, <2>5, <2>6
    <3>2. ((sector * SectorSize + (i - 1)) \div SectorSize) = sector
          /\ ((sector * SectorSize + (i - 1)) % SectorSize) = i - 1
      BY <2>1, <3>1, DivideUnique
    <3> QED
      BY <3>1, <3>2
  <2>8. buf' = Bytes(n + k)
    <3> DEFINE Byte(i) == <<ReadSector((Base + i - 1) \div SectorSize),
                            (Base + i - 1) % SectorSize>>
    <3>1. DOMAIN ReadBytes = 1 .. k
      BY <2>5 DEF ReadBytes
    <3>2. ASSUME NEW i \in 1 .. k PROVE ReadBytes[i] = Byte(n + i)
      <4>1. sector_index + i - 1 = i - 1 /\ sector_index + i <= SectorSize
        BY <2>1, <2>5
      <4>2. ReadBytes[i] = <<ReadSector(sector), i - 1>>
        BY <2>5, <4>1 DEF ReadBytes
      <4> QED
        BY <2>7, <4>2
    <3>3. Bytes(n) = [i \in 1 .. n |-> Byte(i)]
          /\ Bytes(n + k) = [i \in 1 .. n + k |-> Byte(i)]
      BY DEF Bytes
    <3>4. PICK tail : tail = ReadBytes
      OBVIOUS
    <3>5. \A i \in 1 .. n : Bytes(n)[i] = Byte(i)
      BY <3>3
    <3>6. buf' = Bytes(n) \o tail /\ DOMAIN tail = 1 .. k
      BY <1>1, <2>2, <3>1, <3>4
    <3>7. \A i \in 1 .. k : tail[i] = Byte(n + i)
      BY <3>2, <3>4
    <3> HIDE DEF Byte
    <3> QED
      BY <2>3, <2>5, <3>3, <3>5, <3>6, <3>7
  <2>9. Bytes(n + k)' = Bytes(n + k)
    BY <1>1, <2>6, SectorsFixed DEF Bytes
  <2>10. n + k < size => sector' * SectorSize = Base' + (n + k)
    <3>1. (sector + 1) * SectorSize = sector * SectorSize + SectorSize
      BY <2>1
    <3> QED
      BY <1>1, <2>1, <2>3, <2>5, <2>6, <3>1
  <2>11. \E m \in 0 .. size' :
           /\ buf' = Bytes(m)'
           /\ pc' = "loop" /\ m < size' => sector' * SectorSize = Base' + m
           /\ pc' = "done" => m = size'
    BY <1>1, <2>5, <2>8, <2>9, <2>10
  <2>12. size \in 0 .. MaxSize /\ (size > 0 => offset + size <= DBBOX_SIZE)
         /\ sector + 1 \in Nat
    BY <1>2, <2>1 DEF Followed
  <2> QED
    BY <1>1, <2>1, <2>11, <2>12 DEF Followed
<1>3. Aligned' => Aligned
  BY <1>1 DEF Aligned
<1> QED
  BY <1>1, <1>2, <1>3 DEF ReadInv

\* In a read from a sector boundary on the assertions hold.
LEMMA NeverAborts ==
  ASSUME ReadInv, Aligned, Abort
  PROVE  FALSE
<1>1. Followed /\ pc = "loop"
      /\ ((Len(buf) < size /\ EndIndex <= sector_index) \/ Len(buf) > size)
  BY DEF Abort, ReadInv
<1>2. PICK n \in 0 .. size :
        buf = Bytes(n) /\ (n < size => sector * SectorSize = Base + n)
  BY <1>1 DEF Followed
<1>3. size \in Nat /\ Len(buf) = n /\ n \in Nat /\ sector_index = 0
  BY <1>1, <1>2, BytesLength, ConstantsAssumption DEF Followed
<1>4. n < size => EndIndex = size - n
  BY <1>1, <1>2, EndIndexIs
<1> QED
  BY <1>1, <1>3, <1>4

\* A read ends or fails where it is.
LEMMA EndRead ==
  ASSUME ReadInv, IterateFailed \/ Done \/ Abort
  PROVE  ReadInv'
<1>1. /\ pc = "loop" /\ chain' = chain /\ offset' = offset /\ size' = size
      /\ sector' = sector /\ sector_index' = sector_index /\ buf' = buf
      /\ pc' \in {"done", "failed", "aborted"} /\ (pc' = "done" => Len(buf) = size)
      /\ (pc' = "aborted" => Abort)
  BY DEF IterateFailed, Done, Abort
<1>2. ASSUME Aligned, Followed PROVE Followed'
  <2>1. PICK n \in 0 .. size : buf = Bytes(n)
    BY <1>1, <1>2 DEF Followed
  <2>2. pc' = "done" => n = size
    BY <1>1, <1>2, <2>1, BytesLength, ConstantsAssumption DEF Followed
  <2>3. Bytes(n)' = Bytes(n)
    BY <1>1, SectorsFixed DEF Bytes, Base
  <2>4. pc' # "aborted"
    BY <1>1, <1>2, NeverAborts
  <2>5. \E m \in 0 .. size' :
          /\ buf' = Bytes(m)'
          /\ pc' = "loop" /\ m < size' => sector' * SectorSize = Base' + m
          /\ pc' = "done" => m = size'
    BY <1>1, <2>1, <2>2, <2>3
  <2> QED
    BY <1>1, <1>2, <2>4, <2>5 DEF Followed
<1>3. Aligned' => Aligned
  BY <1>1 DEF Aligned
<1> QED
  BY <1>1, <1>2, <1>3 DEF ReadInv

\* No step at all.
LEMMA StutterRead ==
  ASSUME ReadInv, UNCHANGED vars
  PROVE  ReadInv'
<1>1. /\ chain' = chain /\ offset' = offset /\ size' = size /\ pc' = pc
      /\ sector' = sector /\ sector_index' = sector_index /\ buf' = buf
  BY DEF vars
<1>2. Base' = Base /\ \A n : Bytes(n)' = Bytes(n)
  BY <1>1, SectorsFixed DEF Bytes, Base
<1> QED
  BY <1>1, <1>2 DEF ReadInv, Followed, Aligned

\* The invariant holds in every state of every read.
THEOREM ReadInvariance == Spec => []ReadInv
<1>1. ReadInv /\ [Next]_vars => ReadInv'
  BY BeginRead, IterateRead, EndRead, StutterRead DEF Next, Step
<1> QED
  BY <1>1, InitRead, PTL DEF Spec

\* No assertion of read_data fails in a read that begins at a sector boundary, although
\* its arithmetic is that of uint32_t and the image is larger: the loop makes progress
\* and ends with exactly the bytes that were asked for.  (Of reads that
\* begin inside a sector nothing is claimed: dbfat.c:445 is wrong for them.)
THEOREM AssertionsNeverFail == Spec => []AlignedAssertionsHold
<1>1. ReadInv => AlignedAssertionsHold
  BY DEF ReadInv, Followed, AlignedAssertionsHold
<1> QED
  BY <1>1, ReadInvariance, PTL

(***************************************************************************)
(* From a cluster to its place in the chains and back.                     *)
(***************************************************************************)

\* Entry e has cluster c at position k of its chain.
IsAt(c, e, k) == e \in Entries /\ k \in DOMAIN chain[e] /\ chain[e][k] = c

\* A chain is a sequence of clusters, at most all there are.
LEMMA ChainsAre ==
  ASSUME chain \in Chains, NEW e \in Entries
  PROVE  /\ Len(chain[e]) \in 1 .. N_CLUSTERS - 2
         /\ DOMAIN chain[e] = 1 .. Len(chain[e])
         /\ chain[e] \in [1 .. Len(chain[e]) -> Clusters]
<1>1. chain[e] \in BoundedSeq(Clusters, N_CLUSTERS - 2) /\ chain[e] # <<>>
  BY DEF Chains
<1>2. PICK m \in 0 .. N_CLUSTERS - 2 : chain[e] \in [1 .. m -> Clusters]
  BY <1>1 DEF BoundedSeq, SeqOf
<1>3. m # 0
  BY <1>1, <1>2
<1>4. Len(chain[e]) = m
  BY <1>2
<1> QED
  BY <1>2, <1>3, <1>4, ConstantsAssumption

\* A cluster is at one place of one chain.
LEMMA OnePlace ==
  ASSUME chain \in Chains, NEW c, NEW e, NEW k, NEW f, NEW j,
         IsAt(c, e, k), IsAt(c, f, j)
  PROVE  e = f /\ k = j
BY DEF IsAt, Chains

\* The tables have a cluster of a chain at its place.
LEMMA TablesAt ==
  ASSUME chain \in Chains, NEW c, NEW e, NEW k, IsAt(c, e, k)
  PROVE  /\ c \in Clusters /\ DIR_ENTRIES[c] = e
         /\ FAT_ENTRIES[c] = IF k = Len(chain[e]) THEN EOFC ELSE chain[e][k + 1]
         /\ FAT_ENTRIES[c] # FREE
<1>1. e \in Entries /\ c \in Clusters /\ k \in 1 .. Len(chain[e]) /\ chain[e][k] = c
      /\ k \in DOMAIN chain[e]
  BY ChainsAre DEF IsAt
<1>2. OnChain(c, e)
  BY <1>1 DEF OnChain, ToSet
<1>3. ASSUME NEW x \in Entries, OnChain(c, x) PROVE x = e
  <2>1. \E j : IsAt(c, x, j)
    BY <1>3 DEF OnChain, ToSet, IsAt
  <2> QED
    BY <2>1, OnePlace
<1>4. EntryOf(c) = e
  BY <1>1, <1>2, <1>3 DEF EntryOf
<1>5. PositionOf(c) = k
  <2>1. \A j \in DOMAIN chain[e] : chain[e][j] = c => j = k
    BY <1>1, OnePlace DEF IsAt
  <2> QED
    BY <1>1, <1>4, <2>1 DEF PositionOf
<1>6. FAT_ENTRIES[c] = IF k = Len(chain[e]) THEN EOFC ELSE chain[e][k + 1]
  BY <1>1, <1>2, <1>4, <1>5 DEF FAT_ENTRIES
<1>7. k # Len(chain[e]) => chain[e][k + 1] \in Clusters
  BY <1>1, ChainsAre
<1> QED
  BY <1>1, <1>4, <1>6, <1>7, ConstantsAssumption DEF DIR_ENTRIES, Clusters

\* A cluster that is not free is on a chain.
LEMMA UsedIsAt ==
  ASSUME chain \in Chains, NEW c \in Clusters, FAT_ENTRIES[c] # FREE
  PROVE  \E e, k : IsAt(c, e, k)
<1>1. PICK e \in Entries : OnChain(c, e)
  BY DEF FAT_ENTRIES
<1> QED
  BY <1>1 DEF OnChain, ToSet, IsAt

\* Where the loop of get_cluster_chain_size for cluster c goes from cluster d.
Onward(c, d) == IF d \in Clusters \ {c} THEN FAT_ENTRIES[d] ELSE d

\* The clusters that the loop goes through, and what it makes of them.
IsWalk(walk, first, c) ==
  /\ walk[0] = first
  /\ \A n \in 0 .. N_CLUSTERS - 1 : walk[n + 1] = Onward(c, walk[n])
  /\ ChainSize(first, c) =
       (CHOOSE n \in 0 .. N_CLUSTERS :
          walk[n] = c /\ \A m \in 0 .. n - 1 : walk[m] # c)
         * SectorsPerCluster * SectorSize

\* The recursion of ChainSize defines what it seems to define.
LEMMA WalkExists ==
  ASSUME chain \in Chains, NEW first \in Clusters, NEW c
  PROVE  \E walk : IsWalk(walk, first, c)
<1> DEFINE V == Clusters \cup {FREE, EOFC}
           step == [n \in Nat |-> [d \in V |-> Onward(c, d)]]
           Body(w) == [n \in 0 .. N_CLUSTERS |->
                         IF n = 0 THEN first
                         ELSE LET d == w[n - 1]
                              IN  IF d \in Clusters \ {c} THEN FAT_ENTRIES[d] ELSE d]
           walk == CHOOSE w : w = Body(w)
<1>1. ASSUME NEW d \in V PROVE Onward(c, d) \in V
  <2>1. CASE d \in Clusters \ {c}
    <3>1. FAT_ENTRIES[d] \in V
      <4>1. CASE FAT_ENTRIES[d] = FREE
        BY <4>1
      <4>2. CASE FAT_ENTRIES[d] # FREE
        <5>1. PICK e, k : IsAt(d, e, k)
          BY <2>1, <4>2, UsedIsAt
        <5>2. k # Len(chain[e]) => chain[e][k + 1] \in Clusters
          BY <5>1, ChainsAre DEF IsAt
        <5> QED
          BY <5>1, <5>2, TablesAt
      <4> QED
        BY <4>1, <4>2
    <3> QED
      BY <2>1, <3>1 DEF Onward
  <2> QED
    BY <2>1 DEF Onward
<1>2. PICK s \in [Nat -> [V -> V]] : \A n \in Nat, d \in V : s[n][d] = Onward(c, d)
  <2>1. step \in [Nat -> [V -> V]] /\ \A n \in Nat, d \in V : step[n][d] = Onward(c, d)
    BY <1>1
  <2> HIDE DEF step, V
  <2> QED
    BY <2>1
<1>3. PICK f \in [Nat -> V] :
        f[0] = first /\ \A n \in Nat : f[n + 1] = s[n][f[n]]
  <2>1. first \in V
    OBVIOUS
  <2>2. s \in [Nat -> [V -> V]]
    OBVIOUS
  <2> HIDE DEF V, step, Body, walk
  <2> QED
    BY <2>1, <2>2, Recursion, Z3
<1>4. \A n \in Nat : f[n + 1] = Onward(c, f[n])
  <2> HIDE DEF V, step, Body, walk
  <2> QED
    BY <1>2, <1>3
<1> DEFINE g == [n \in 0 .. N_CLUSTERS |-> f[n]]
<1>5. g = Body(g)
  <2>1. ASSUME NEW n \in 0 .. N_CLUSTERS
        PROVE  g[n] = IF n = 0 THEN first
                      ELSE LET d == g[n - 1]
                           IN  IF d \in Clusters \ {c} THEN FAT_ENTRIES[d] ELSE d
    <3>1. CASE n = 0
      BY <1>3, <3>1
    <3>2. CASE n # 0
      <4>1. n - 1 \in 0 .. N_CLUSTERS /\ n - 1 \in Nat /\ (n - 1) + 1 = n
        BY <3>2, ConstantsAssumption
      <4>2. f[n] = Onward(c, f[n - 1])
        BY <1>4, <4>1
      <4> QED
        BY <3>2, <4>1, <4>2 DEF Onward
    <3> QED
      BY <3>1, <3>2
  <2> QED
    BY <2>1, Zenon
<1>6. walk = Body(walk)
  <2> HIDE DEF Body
  <2> QED
    BY <1>5
<1>7. ChainSize(first, c) =
        (CHOOSE n \in 0 .. N_CLUSTERS :
           walk[n] = c /\ \A m \in 0 .. n - 1 : walk[m] # c)
          * SectorsPerCluster * SectorSize
  BY Zenon DEF ChainSize
<1> HIDE DEF walk
<1>8. walk[0] = first
  BY <1>6, ConstantsAssumption
<1>9. ASSUME NEW n \in 0 .. N_CLUSTERS - 1
      PROVE  walk[n + 1] = Onward(c, walk[n])
  <2>1. n + 1 \in 0 .. N_CLUSTERS /\ n + 1 # 0 /\ (n + 1) - 1 = n
    BY ConstantsAssumption
  <2> QED
    BY <1>6, <2>1 DEF Onward
<1> QED
  BY <1>7, <1>8, <1>9 DEF IsWalk

\* get_cluster_chain_size gives the bytes before a cluster of a chain.
LEMMA ChainSizeIs ==
  ASSUME chain \in Chains, NEW c, NEW e, NEW k, IsAt(c, e, k)
  PROVE  ChainSize(chain[e][1], c) = (k - 1) * SectorsPerCluster * SectorSize
<1>1. /\ e \in Entries /\ k \in 1 .. Len(chain[e]) /\ chain[e][k] = c
      /\ Len(chain[e]) \in 1 .. N_CLUSTERS - 2
      /\ DOMAIN chain[e] = 1 .. Len(chain[e])
      /\ chain[e] \in [1 .. Len(chain[e]) -> Clusters]
      /\ N_CLUSTERS \in Nat
  BY ChainsAre, ConstantsAssumption DEF IsAt
<1>2. PICK walk : IsWalk(walk, chain[e][1], c)
  <2>1. chain[e][1] \in Clusters
    BY <1>1
  <2> QED
    BY <2>1, WalkExists
<1>20. walk[0] = chain[e][1]
       /\ \A n \in 0 .. N_CLUSTERS - 1 : walk[n + 1] = Onward(c, walk[n])
  BY <1>2 DEF IsWalk
<1> DEFINE T == {n \in 0 .. k - 1 : walk[n] = chain[e][n + 1]}
<1>3. 0 \in T
  BY <1>1, <1>20
<1>4. ASSUME NEW n \in 0 .. (k - 1) - 1, n \in T PROVE n + 1 \in T
  <2>1. walk[n] = chain[e][n + 1] /\ n + 1 \in DOMAIN chain[e] /\ n + 1 # k
        /\ n \in 0 .. N_CLUSTERS - 1 /\ n + 1 # Len(chain[e])
    BY <1>1, <1>4
  <2>2. IsAt(walk[n], e, n + 1)
    BY <1>1, <2>1 DEF IsAt
  <2>3. walk[n] # c
    BY <2>1, <2>2, OnePlace
  <2>4. walk[n] \in Clusters /\ FAT_ENTRIES[walk[n]] = chain[e][(n + 1) + 1]
    BY <2>1, <2>2, TablesAt
  <2>5. walk[n + 1] = chain[e][(n + 1) + 1]
    BY <1>20, <2>1, <2>3, <2>4 DEF Onward
  <2> QED
    BY <1>1, <1>4, <2>5
<1>5. 0 .. k - 1 \subseteq T
  <2> HIDE DEF T
  <2> QED
    BY <1>1, <1>3, <1>4, IntervalInduction
<1>6. walk[k - 1] = c /\ \A m \in 0 .. (k - 1) - 1 : walk[m] # c
  <2>1. ASSUME NEW m \in 0 .. k - 1 PROVE walk[m] = chain[e][m + 1]
    BY <1>5
  <2>2. ASSUME NEW m \in 0 .. (k - 1) - 1 PROVE walk[m] # c
    <3>1. m + 1 \in DOMAIN chain[e] /\ m + 1 # k /\ m \in 0 .. k - 1
      BY <1>1
    <3>2. IsAt(walk[m], e, m + 1)
      BY <1>1, <2>1, <3>1 DEF IsAt
    <3> QED
      BY <3>1, <3>2, OnePlace
  <2> QED
    BY <1>1, <2>1, <2>2
<1>7. (CHOOSE n \in 0 .. N_CLUSTERS :
         walk[n] = c /\ \A m \in 0 .. n - 1 : walk[m] # c) = k - 1
  <2>1. k - 1 \in 0 .. N_CLUSTERS
    BY <1>1
  <2>2. ASSUME NEW n \in 0 .. N_CLUSTERS, walk[n] = c,
               \A m \in 0 .. n - 1 : walk[m] # c
        PROVE  n = k - 1
    BY <1>1, <1>6, <2>2
  <2> QED
    BY <1>6, <2>1, <2>2
<1> QED
  BY <1>2, <1>7 DEF IsWalk

(***************************************************************************)
(* The sectors of the image.                                               *)
(***************************************************************************)

\* Sector s of the data region is sector j of cluster c.
LEMMA SectorOf ==
  ASSUME NEW s \in Nat, s >= DataRegion
  PROVE  \E c \in Nat, j \in 0 .. SectorsPerCluster - 1 :
           /\ c >= 2 /\ ClusterOf(s) = c
           /\ ((s - DataRegion) % SectorsPerCluster) = j
           /\ s = DataRegion + (c - 2) * SectorsPerCluster + j
<1>1. s - DataRegion \in Nat /\ SectorsPerCluster \in Nat \ {0} /\ DataRegion \in Nat
  BY Layout, ConstantsAssumption
<1>2. PICK q \in Nat, j \in 0 .. SectorsPerCluster - 1 :
        /\ s - DataRegion = q * SectorsPerCluster + j
        /\ ((s - DataRegion) \div SectorsPerCluster) = q
        /\ ((s - DataRegion) % SectorsPerCluster) = j
  BY <1>1, Divide
<1>3. ClusterOf(s) = q + 2 /\ (q + 2) - 2 = q
  BY <1>2 DEF ClusterOf
<1>4. s = DataRegion + q * SectorsPerCluster + j
  BY <1>1, <1>2
<1> QED
  BY <1>2, <1>3, <1>4

\* The place of a sector of a chain is a sector of its cluster.
LEMMA ClusterOfPlace ==
  ASSUME NEW c, NEW e, NEW k, IsAt(c, e, k), chain \in Chains,
         NEW j \in 0 .. SectorsPerCluster - 1
  PROVE  /\ Place(e, k, j) \in Nat /\ Place(e, k, j) >= DataRegion
         /\ ClusterOf(Place(e, k, j)) = c
         /\ ((Place(e, k, j) - DataRegion) % SectorsPerCluster) = j
<1>1. c \in Nat /\ c - 2 \in Nat /\ chain[e][k] = c
      /\ DataRegion \in Nat /\ SectorsPerCluster \in Nat \ {0}
  <2>1. c \in Clusters
    BY TablesAt
  <2>2. N_CLUSTERS \in Nat
    BY ConstantsAssumption
  <2>3. c \in Nat /\ c - 2 \in Nat
    BY <2>1, <2>2 DEF Clusters
  <2>4. chain[e][k] = c
    BY DEF IsAt
  <2> QED
    BY <2>3, <2>4, Layout, ConstantsAssumption
<1> DEFINE a == (c - 2) * SectorsPerCluster + j
<1>2. Place(e, k, j) = DataRegion + a /\ a \in Nat
  BY <1>1 DEF Place
<1>3. ((a \div SectorsPerCluster) = c - 2) /\ ((a % SectorsPerCluster) = j)
  BY <1>1, DivideUnique
<1> HIDE DEF a
<1>4. Place(e, k, j) - DataRegion = a
  BY <1>1, <1>2
<1>5. ClusterOf(Place(e, k, j)) = 2 + (c - 2)
  BY <1>3, <1>4 DEF ClusterOf
<1> QED
  BY <1>1, <1>2, <1>3, <1>4, <1>5

\* What read_sector makes of a sector of a cluster that is on a chain.
LEMMA ReadPlace ==
  ASSUME NEW c, NEW e, NEW k, IsAt(c, e, k), chain \in Chains,
         NEW s \in Nat, NEW j \in 0 .. SectorsPerCluster - 1,
         s >= DataRegion, ClusterOf(s) = c,
         ((s - DataRegion) % SectorsPerCluster) = j
  PROVE  ReadSector(s) = IF IsDir[e] \/ From(k, j) < Size[e] THEN Part(e, From(k, j))
                         ELSE Zero
<1>1. /\ FatRegion \in Nat /\ DataRegion \in Nat /\ FatRegion <= DataRegion
      /\ SectorsPerCluster \in Nat \ {0} /\ SectorSize \in Nat \ {0}
      /\ IsDir \in [Entries -> BOOLEAN] /\ Size \in [Entries -> Nat]
  BY Layout, ConstantsAssumption
<1>2. ReadSector(s) = DataSector(s)
  BY <1>1 DEF ReadSector
<1>3. c \in Clusters /\ FAT_ENTRIES[c] # FREE /\ DIR_ENTRIES[c] = e
  BY TablesAt
<1>4. k - 1 \in Nat /\ e \in Entries
  BY ChainsAre DEF IsAt
<1>5. From(k, j) = (k - 1) * SectorsPerCluster * SectorSize + j * SectorSize
      /\ From(k, j) \in Nat
  BY <1>1, <1>4 DEF From
<1>6. ChainSize(chain[e][1], c)
        + ((s - DataRegion) % SectorsPerCluster) * SectorSize = From(k, j)
  BY <1>5, ChainSizeIs
<1>7. DataSector(s) = IF ~IsDir[e] /\ From(k, j) >= Size[e] THEN Zero
                      ELSE Part(e, From(k, j))
  BY <1>3, <1>6 DEF DataSector
<1> QED
  BY <1>1, <1>2, <1>4, <1>5, <1>7

\* What the layout has at a sector is what read_sector makes of it.
LEMMA ContentsRead ==
  ASSUME chain \in Chains, NEW p \in Contents
  PROVE  ReadSector(p[1]) = p[2]
<1>1. /\ FatRegion \in Nat /\ DataRegion \in Nat /\ FATSz \in Nat
      /\ FatRegion + 2 * FATSz = DataRegion /\ FatRegion = ReservedSectorCount
      /\ {BackupBootSector, FSInfo} \subseteq 1 .. ReservedSectorCount - 1
      /\ BackupBootSector # FSInfo
  BY Layout, ConstantsAssumption DEF FatRegion
<1>2. CASE p \in {<<0, Boot>>, <<BackupBootSector, Boot>>, <<FSInfo, Info>>}
  BY <1>1, <1>2 DEF ReadSector, Reserved
<1>3. CASE p \in Fats
  <2>1. PICK copy \in {0, 1}, n \in 0 .. FATSz - 1 :
          p = <<FatRegion + copy * FATSz + n, Fat(n)>>
    BY <1>3 DEF Fats
  <2>2. ReadSector(FatRegion + copy * FATSz + n) = Fat(n)
    BY <1>1, <2>1 DEF ReadSector, FatSector
  <2> QED
    BY <2>1, <2>2
<1>4. ASSUME NEW e \in Entries, p \in Parts(e),
             IsDir[p[2][2]] \/ p[2][3] < Size[p[2][2]]
      PROVE  ReadSector(p[1]) = p[2]
  <2>1. PICK k \in DOMAIN chain[e], j \in 0 .. SectorsPerCluster - 1 :
          p = <<Place(e, k, j), Part(e, From(k, j))>>
    BY <1>4 DEF Parts
  <2>2. IsDir[e] \/ From(k, j) < Size[e]
    BY <1>4, <2>1 DEF Part
  <2>3. IsAt(chain[e][k], e, k)
    BY DEF IsAt
  <2>4. ReadSector(Place(e, k, j)) = Part(e, From(k, j))
    BY <2>2, <2>3, ClusterOfPlace, ReadPlace
  <2> QED
    BY <2>1, <2>4
<1> QED
  BY <1>2, <1>3, <1>4 DEF Contents

\* Where the layout has nothing, read_sector gives zeros.
LEMMA EmptyRead ==
  ASSUME chain \in Chains, NEW s \in Nat, \A p \in Contents : p[1] # s
  PROVE  ReadSector(s) = Zero
<1>1. /\ FatRegion \in Nat /\ DataRegion \in Nat /\ FATSz \in Nat
      /\ FatRegion + 2 * FATSz = DataRegion
  BY Layout, ConstantsAssumption
<1>2. s # 0 /\ s # BackupBootSector /\ s # FSInfo
  <2>1. \A x : x \in {<<0, Boot>>, <<BackupBootSector, Boot>>, <<FSInfo, Info>>}
                 => x[1] # s
    BY DEF Contents
  <2> QED
    BY <2>1
<1>3. CASE s < FatRegion
  BY <1>2, <1>3 DEF ReadSector, Reserved
<1>4. ASSUME FatRegion <= s, s < DataRegion PROVE FALSE
  <2>1. \E copy \in {0, 1}, n \in 0 .. FATSz - 1 : s = FatRegion + copy * FATSz + n
    <3>1. CASE s < FatRegion + FATSz
      <4>1. s - FatRegion \in 0 .. FATSz - 1
            /\ s = FatRegion + 0 * FATSz + (s - FatRegion)
        BY <1>1, <1>4, <3>1
      <4> QED
        BY <4>1
    <3>2. CASE s >= FatRegion + FATSz
      <4>1. s - FatRegion - FATSz \in 0 .. FATSz - 1
            /\ s = FatRegion + 1 * FATSz + (s - FatRegion - FATSz)
        BY <1>1, <1>4, <3>2
      <4> QED
        BY <4>1
    <3> QED
      BY <1>1, <3>1, <3>2
  <2>2. PICK copy \in {0, 1}, n \in 0 .. FATSz - 1 : s = FatRegion + copy * FATSz + n
    BY <2>1
  <2>3. <<s, Fat(n)>> \in Contents
    BY <2>2 DEF Fats, Contents
  <2> QED
    BY <2>3
<1>5. CASE s >= DataRegion
  <2>1. PICK c \in Nat, j \in 0 .. SectorsPerCluster - 1 :
          /\ c >= 2 /\ ClusterOf(s) = c
          /\ ((s - DataRegion) % SectorsPerCluster) = j
          /\ s = DataRegion + (c - 2) * SectorsPerCluster + j
    BY <1>5, SectorOf
  <2>2. CASE c \notin Clusters \/ FAT_ENTRIES[c] = FREE
    BY <1>1, <1>5, <2>1, <2>2 DEF ReadSector, DataSector
  <2>3. ASSUME c \in Clusters, FAT_ENTRIES[c] # FREE
        PROVE  ReadSector(s) = Zero
    <3>1. PICK e, k : IsAt(c, e, k)
      BY <2>3, UsedIsAt
    <3>2. ReadSector(s) = IF IsDir[e] \/ From(k, j) < Size[e] THEN Part(e, From(k, j))
                          ELSE Zero
      BY <1>5, <2>1, <3>1, ReadPlace
    <3>3. ASSUME IsDir[e] \/ From(k, j) < Size[e] PROVE FALSE
      <4> DEFINE p == <<s, Part(e, From(k, j))>>
      <4>1. Place(e, k, j) = s
        BY <2>1, <3>1 DEF Place, IsAt
      <4>2. e \in Entries /\ p \in Parts(e)
        BY <3>1, <4>1 DEF Parts, IsAt
      <4>3. IsDir[p[2][2]] \/ p[2][3] < Size[p[2][2]]
        BY <3>3 DEF Part
      <4>4. p \in Contents
        <5> HIDE DEF p
        <5> QED
          BY <4>2, <4>3 DEF Contents
      <4> QED
        BY <4>4
    <3> QED
      BY <3>2, <3>3
  <2> QED
    BY <2>2, <2>3
<1> QED
  BY <1>1, <1>3, <1>4, <1>5

\* read_sector gives every sector of the image: from the sector to the chain it
\* finds what the layout puts there from the chain to the sector.
LEMMA SectorIsImage ==
  ASSUME chain \in Chains, NEW s \in Nat
  PROVE  ReadSector(s) = Image(s)
<1>1. CASE \E p \in Contents : p[1] = s
  <2> DEFINE q == CHOOSE p \in Contents : p[1] = s
  <2>1. q \in Contents /\ q[1] = s
    BY <1>1
  <2>2. Image(s) = q[2]
    BY <1>1 DEF Image
  <2> HIDE DEF q
  <2> QED
    BY <2>1, <2>2, ContentsRead
<1>2. CASE ~\E p \in Contents : p[1] = s
  BY <1>2, EmptyRead DEF Image
<1> QED
  BY <1>1, <1>2

\* A read that begins at a sector boundary, ends within the first 4 GB of the image and
\* succeeds returns what the layout has from its offset on: every chain is read where
\* the file allocation table says.  (The image is larger; volume_beyond shows what is
\* read there.)
THEOREM ReadsAreCorrect == Spec => [](offset + size <= UINT32 => ReadCorrect)
<1>1. ReadInv => (offset + size <= UINT32 => ReadCorrect)
  <2> SUFFICES ASSUME ReadInv, offset + size <= UINT32, pc = "done", Aligned,
                      NEW i \in 1 .. size
               PROVE  buf[i] = <<Image((offset + i - 1) \div SectorSize),
                                 (offset + i - 1) % SectorSize>>
    BY DEF ReadCorrect
  <2>1. /\ offset \in Nat /\ size \in Nat /\ i \in 1 .. size
        /\ SectorSize \in Nat \ {0} /\ UINT32 \in Nat \ {0}
        /\ chain \in Chains /\ buf = Bytes(size)
    BY ConstantsAssumption DEF ReadInv, Followed
  <2>2. Base = offset
    BY <2>1 DEF Base
  <2>3. buf[i] = <<ReadSector((offset + i - 1) \div SectorSize),
                   (offset + i - 1) % SectorSize>>
    BY <2>1, <2>2 DEF Bytes
  <2>4. offset + i - 1 \in Nat /\ ((offset + i - 1) \div SectorSize) \in Nat
    BY <2>1
  <2> QED
    BY <2>1, <2>3, <2>4, SectorIsImage
<1> QED
  BY <1>1, ReadInvariance, PTL

================================================================================
