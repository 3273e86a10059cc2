--------------------------- MODULE BlockCacheProofs ---------------------------
(***************************************************************************)
(* Proofs about BlockCache.                                                *)
(***************************************************************************)
EXTENDS BlockCache, FiniteSetTheorems, TLAPS

(***************************************************************************)
(* Offsets.                                                                *)
(***************************************************************************)

\* The offset of a block (dbfiles.c:95) is a natural number.
LEMMA BlockOffsetType ==
  ASSUME NEW offset \in Nat
  PROVE  BlockOffset(offset) \in Nat
<1>1. offset \div CACHE_BLOCK_SIZE \in Nat
  BY ConstantsAssumption
<1>2. \A m, n \in Nat : m * n \in Nat
  OBVIOUS
<1> QED
  BY <1>1, <1>2, ConstantsAssumption DEF BlockOffset

\* uint32_t arithmetic stays in the natural numbers.
LEMMA ModuloType ==
  ASSUME NEW n \in Int
  PROVE  n % UINT32 \in 0 .. UINT32 - 1
BY ConstantsAssumption

\* A read never asks for more than MAX_BLOCK_PREFETCH blocks.
LEMMA PrefetchCountType ==
  ASSUME NEW size \in Int, NEW offset \in Int
  PROVE  PrefetchCount(size, offset) \in 0 .. MAX_BLOCK_PREFETCH
<1> DEFINE n == (size - offset + CACHE_BLOCK_SIZE - 1) % UINT32
<1>1. n \in Nat
  <2>1. size - offset + CACHE_BLOCK_SIZE - 1 \in Int
    BY ConstantsAssumption
  <2> QED
    BY <2>1, ModuloType, ConstantsAssumption
<1> HIDE DEF n
<1>2. n \div CACHE_BLOCK_SIZE \in Nat
  BY <1>1, ConstantsAssumption
<1> QED
  BY <1>2, ConstantsAssumption DEF PrefetchCount, n

\* With no file so large that the rounding up wraps, a read of a sector of the
\* file schedules its block.
NoWrap == \A file \in Files : FileSize[file] + CACHE_BLOCK_SIZE <= UINT32

\* If the size leaves room for rounding it up, a read asks for a block at
\* least: prefetch_count does not wrap to 0 (dbfiles.c:148).
LEMMA PrefetchCountPositive ==
  ASSUME NoWrap, NEW file \in Files, NEW o \in SectorsOf(file)
  PROVE  PrefetchCount(FileSize[file], o) >= 1
<1> DEFINE n == FileSize[file] - o + CACHE_BLOCK_SIZE - 1
<1>1. FileSize[file] \in Nat /\ o \in 0 .. FileSize[file] - 1
  BY ConstantsAssumption DEF SectorsOf
<1>2. n \in CACHE_BLOCK_SIZE .. UINT32 - 1
  BY <1>1, ConstantsAssumption DEF NoWrap
<1> HIDE DEF n
<1>3. n % UINT32 = n
  BY <1>2, ConstantsAssumption
<1>4. n \div CACHE_BLOCK_SIZE >= 1
  BY <1>2, ConstantsAssumption
<1> QED
  BY <1>3, <1>4, <1>2, ConstantsAssumption DEF PrefetchCount, n

\* What a slot of a read asks for is a key.
LEMMA SlotKeyType ==
  ASSUME NEW r, request[r] \in Requests, NEW j \in Slots
  PROVE  SlotKey(r, j) \in Keys
<1>1. request[r].file \in Files /\ request[r].offset \in Nat
  BY ConstantsAssumption DEF Requests, SectorsOf
<1>2. request[r].offset + CACHE_BLOCK_SIZE * j \in Int
  BY <1>1, ConstantsAssumption DEF Slots
<1>3. (request[r].offset + CACHE_BLOCK_SIZE * j) % UINT32 \in Nat
  BY <1>2, ModuloType, ConstantsAssumption
<1> QED
  BY <1>1, <1>3, BlockOffsetType DEF SlotKey, Keys

\* The slots held after one more is scheduled: the new one and the old ones.
LEMMA IntervalTail ==
  ASSUME NEW m \in Int, NEW n \in Int
  PROVE  m + 1 .. n = (m .. n) \ {m}
OBVIOUS

\* The slots held before one is released: that one and the rest.
LEMMA IntervalHead ==
  ASSUME NEW m \in Int, NEW n \in Int, m <= n
  PROVE  m .. n = (m + 1 .. n) \cup {m}
OBVIOUS

\* Ranks of access times are natural numbers.
LEMMA RanksType ==
  ASSUME NEW access
  PROVE  Ranks(access) \in [Blocks -> Nat]
<1> SUFFICES ASSUME NEW b \in Blocks
             PROVE  Cardinality({access[c] : c \in {d \in Blocks :
                      access[d] > 0 /\ access[d] < access[b]}}) \in Nat
  BY DEF Ranks
<1> DEFINE D == {d \in Blocks : access[d] > 0 /\ access[d] < access[b]}
           S == {access[c] : c \in D}
           f == [c \in D |-> access[c]]
<1>1. IsFiniteSet(Blocks)
  BY FS_Interval, ConstantsAssumption DEF Blocks
<1>2. IsFiniteSet(D)
  BY <1>1, FS_Subset
<1>3. f \in Surjection(D, S)
  BY DEF Surjection
<1>4. IsFiniteSet(S)
  BY <1>2, <1>3, FS_Surjection
<1> QED
  BY <1>4, FS_CardinalityType

(***************************************************************************)
(* The inductive invariant.                                                *)
(***************************************************************************)

\* Where a reader is and what it holds there.
ReaderInv ==
  \A r \in Readers :
    /\ low[r] <= prefetch_count[r]
    /\ rpc[r] = "idle" => prefetch_count[r] = 0 /\ request[r] = NoRequest
    /\ rpc[r] # "idle" => request[r] \in Requests
    /\ rpc[r] = "schedule" => low[r] > 0
    /\ rpc[r] \in {"wait", "check", "copy"} => low[r] = 0
    /\ rpc[r] # "release" => out[r] = Empty

\* The reader's part of HeldBlockKept; the fetcher's follows from FetcherInv.
SlotsKept ==
  \A r \in Readers : \A j \in Held(r) :
    block_key[block_indexes[r][j]] = SlotKey(r, j)

\* The key a busy fetcher read is still the key of its block, and after Fill
\* the buffer holds what the key names.
FetcherInv ==
  \A f \in Fetchers : fpc[f] # "idle" =>
    /\ block_key[block_index[f]] \in Keys
    /\ fpc[f] # "request" => response[f] = block_key[block_index[f]]
    /\ fpc[f] = "done" => buffer[block_index[f]] = response[f]

\* A block that was ever scheduled has a key.
ScheduledHasKey ==
  \A b \in Blocks : block_state[b] # "CLEAN" => block_key[b] \in Keys

Inv ==
  /\ TypeOK
  /\ ReferencesCounted
  /\ ReaderInv
  /\ SlotsKept
  /\ OneFetcherPerBlock
  /\ FetcherInv
  /\ ScheduledHasKey
  /\ CompletedHoldsKey

\* The set of references of a block is finite, before and after any step.
LEMMA ReferencesFinite ==
  ASSUME NEW b
  PROVE  IsFiniteSet(References(b)) /\ IsFiniteSet(References(b)')
<1> DEFINE All == (Readers \X Slots) \cup (Fetchers \X {0})
<1>1. IsFiniteSet(Slots)
  BY FS_Interval, ConstantsAssumption DEF Slots
<1>2. IsFiniteSet(Readers \X Slots) /\ IsFiniteSet(Fetchers \X {0})
  BY <1>1, FS_Product, FS_Singleton, ConstantsAssumption
<1>3. IsFiniteSet(All)
  BY <1>2, FS_Union
<1>4. References(b) \subseteq All /\ References(b)' \subseteq All
  BY DEF References
<1> QED
  BY <1>3, <1>4, FS_Subset

\* A block without references has no holder: neither a slot of a read nor a
\* fetcher.
LEMMA NoHolder ==
  ASSUME Inv, NEW b \in Blocks, ref_count[b] = 0
  PROVE  /\ \A r \in Readers : \A j \in Held(r) : block_indexes[r][j] # b
         /\ \A f \in Fetchers : fpc[f] # "idle" => block_index[f] # b
<1>1. References(b) = {}
  BY ReferencesFinite, FS_EmptySet DEF Inv, ReferencesCounted
<1>2. \A r \in Readers : Held(r) \subseteq Slots
  BY ConstantsAssumption DEF Held, Slots, Inv, TypeOK
<1>3. ASSUME NEW r \in Readers, NEW j \in Held(r), block_indexes[r][j] = b
      PROVE  FALSE
  <2>1. <<r, j>> \in References(b)
    BY <1>2, <1>3 DEF References
  <2> QED
    BY <2>1, <1>1
<1>4. ASSUME NEW f \in Fetchers, fpc[f] # "idle", block_index[f] = b
      PROVE  FALSE
  <2>1. <<f, 0>> \in References(b)
    BY <1>4 DEF References
  <2> QED
    BY <2>1, <1>1
<1> QED
  BY <1>3, <1>4

\* The converse: whatever is held has a positive count.
LEMMA HolderCounted ==
  ASSUME Inv, NEW b \in Blocks, NEW h \in References(b)
  PROVE  ref_count[b] >= 1
<1>1. Cardinality(References(b)) # 0
  BY ReferencesFinite, FS_EmptySet
<1> QED
  BY <1>1, ReferencesFinite, FS_CardinalityType DEF Inv, ReferencesCounted

(***************************************************************************)
(* How the references change, and the counts with them.                    *)
(***************************************************************************)

\* A reference count stays right when neither it nor its holders change.
LEMMA CountUnchanged ==
  ASSUME ReferencesCounted, UNCHANGED ref_count,
         \A b \in Blocks : References(b)' = References(b)
  PROVE  ReferencesCounted'
BY DEF ReferencesCounted, Blocks

\* A reference count stays right when it grows by one with one new holder.
LEMMA CountAdded ==
  ASSUME Inv, NEW d \in Blocks, NEW h,
         h \notin References(d),
         References(d)' = References(d) \cup {h},
         \A b \in Blocks \ {d} : References(b)' = References(b),
         ref_count' = [ref_count EXCEPT ![d] = @ + 1]
  PROVE  ReferencesCounted'
<1>1. Cardinality(References(d)') = Cardinality(References(d)) + 1
  BY FS_AddElement, ReferencesFinite
<1>2. ref_count'[d] = Cardinality(References(d)')
  BY <1>1 DEF Inv, TypeOK, ReferencesCounted
<1>3. \A b \in Blocks \ {d} : ref_count'[b] = Cardinality(References(b)')
  BY DEF Inv, TypeOK, ReferencesCounted
<1> QED
  BY <1>2, <1>3 DEF ReferencesCounted, Blocks

\* A reference count stays right when it drops by one with one holder less.
LEMMA CountRemoved ==
  ASSUME Inv, NEW d \in Blocks, NEW h,
         h \in References(d),
         References(d)' = References(d) \ {h},
         \A b \in Blocks \ {d} : References(b)' = References(b),
         ref_count' = [ref_count EXCEPT ![d] = @ - 1]
  PROVE  ReferencesCounted'
<1>1. Cardinality(References(d)') = Cardinality(References(d)) - 1
  BY FS_RemoveElement, ReferencesFinite
<1>2. ref_count'[d] = Cardinality(References(d)')
  BY <1>1 DEF Inv, TypeOK, ReferencesCounted
<1>3. \A b \in Blocks \ {d} : ref_count'[b] = Cardinality(References(b)')
  BY DEF Inv, TypeOK, ReferencesCounted
<1> QED
  BY <1>2, <1>3 DEF ReferencesCounted, Blocks

\* A reference count is a natural number whenever it counts the references.
LEMMA CountType ==
  ASSUME ReferencesCounted', ref_count' \in [Blocks -> Int]
  PROVE  ref_count' \in [Blocks -> Nat]
<1>1. \A b \in Blocks : Cardinality(References(b)') \in Nat
  BY ReferencesFinite, FS_CardinalityType
<1> QED
  BY <1>1 DEF ReferencesCounted, Blocks

(***************************************************************************)
(* Every action preserves the invariant.                                   *)
(***************************************************************************)

\* The call of a read preserves the invariant.
LEMMA ReadPreserves ==
  ASSUME Inv, NEW r \in Readers, NEW file \in Files, NEW o \in SectorsOf(file),
         Read(r, file, o)
  PROVE  Inv'
<1> DEFINE count == PrefetchCount(FileSize[file], o)
<1>1. count \in 0 .. MAX_BLOCK_PREFETCH
  BY PrefetchCountType, ConstantsAssumption DEF SectorsOf
<1>2. [file |-> file, offset |-> o] \in Requests
  BY DEF Requests
<1>3. Held(r) = {} /\ Held(r)' = {} /\ \A q \in Readers \ {r} : Held(q)' = Held(q)
  BY <1>1 DEF Inv, TypeOK, ReaderInv, Read, ReaderAt, Held
<1>4. \A b \in Blocks : References(b)' = References(b)
  BY <1>3 DEF References, Read, fetcherVars
<1>5. ReferencesCounted'
  BY <1>4, CountUnchanged DEF Inv, Read, cacheVars
<1>6. TypeOK'
  BY <1>1, ConstantsAssumption
     DEF Inv, TypeOK, Read, cacheVars, fetcherVars, SectorsOf
<1>7. ReaderInv'
  BY <1>1, <1>2 DEF Inv, TypeOK, ReaderInv, Read, ReaderAt
<1>8. SlotsKept'
  BY <1>3 DEF Inv, TypeOK, SlotsKept, SlotKey, Read, cacheVars
<1>9. OneFetcherPerBlock' /\ FetcherInv' /\ ScheduledHasKey' /\ CompletedHoldsKey'
  BY DEF Inv, OneFetcherPerBlock, FetcherInv, ScheduledHasKey,
         CompletedHoldsKey, Read, cacheVars, fetcherVars, Blocks
<1> QED
  BY <1>5, <1>6, <1>7, <1>8, <1>9 DEF Inv

\* The steps between the schedule and the release of the slots change rpc and
\* out only.
LEMMA QuietPreserves ==
  ASSUME Inv,
         UNCHANGED <<cacheVars, request, prefetch_count, block_indexes, low,
                     fetcherVars>>,
         rpc' \in [Readers ->
           {"idle", "schedule", "wait", "check", "copy", "release"}],
         out' \in [Readers -> Keys \cup {Empty, Failed}],
         aborted' \in BOOLEAN,
         ReaderInv'
  PROVE  Inv'
<1>1. \A b \in Blocks : References(b)' = References(b)
  BY DEF References, Held, fetcherVars
<1>2. ReferencesCounted'
  BY <1>1, CountUnchanged DEF Inv, cacheVars
<1>3. TypeOK'
  BY DEF Inv, TypeOK, cacheVars, fetcherVars
<1>4. SlotsKept'
  BY DEF Inv, SlotsKept, SlotKey, Held, cacheVars
<1>5. OneFetcherPerBlock' /\ FetcherInv' /\ ScheduledHasKey' /\ CompletedHoldsKey'
  BY DEF Inv, OneFetcherPerBlock, FetcherInv, ScheduledHasKey,
         CompletedHoldsKey, cacheVars, fetcherVars
<1> QED
  BY <1>2, <1>3, <1>4, <1>5 DEF Inv

\* The end of a wait, seen or timed out, preserves the invariant.
LEMMA WaitPreserves ==
  ASSUME Inv, NEW r \in Readers,
         WaitCompleted(r) \/ WaitExpired(r) \/ CheckCompleted(r)
  PROVE  Inv'
<1>1. ReaderInv'
  BY DEF Inv, TypeOK, ReaderInv, WaitCompleted, WaitExpired, CheckCompleted,
         ReaderAt
<1>2. rpc' \in [Readers ->
        {"idle", "schedule", "wait", "check", "copy", "release"}]
  BY DEF Inv, TypeOK, WaitCompleted, WaitExpired, CheckCompleted
<1> QED
  BY <1>1, <1>2, QuietPreserves
     DEF Inv, TypeOK, WaitCompleted, WaitExpired, CheckCompleted

\* The check after the wait and the copy preserve the invariant.
LEMMA AnswerPreserves ==
  ASSUME Inv, NEW r \in Readers, CheckFailed(r) \/ Copy(r)
  PROVE  Inv'
<1>1. ReaderInv'
  BY DEF Inv, TypeOK, ReaderInv, CheckFailed, Copy, ReaderAt
<1>2. rpc' \in [Readers ->
        {"idle", "schedule", "wait", "check", "copy", "release"}]
  BY DEF Inv, TypeOK, CheckFailed, Copy
<1>3. block_indexes[r][0] \in Blocks
  BY ConstantsAssumption DEF Inv, TypeOK, Slots
<1>4. out' \in [Readers -> Keys \cup {Empty, Failed}]
  BY <1>3 DEF Inv, TypeOK, CheckFailed, Copy
<1> QED
  BY <1>1, <1>2, <1>4, QuietPreserves DEF Inv, TypeOK, CheckFailed, Copy

\* The failed assertion of schedule_sector preserves the invariant.
LEMMA AbortPreserves ==
  ASSUME Inv, NEW r \in Readers, ScheduleAbort(r)
  PROVE  Inv'
<1>1. ReaderInv'
  BY DEF Inv, ReaderInv, ScheduleAbort, readerVars
<1> QED
  BY <1>1, QuietPreserves DEF Inv, TypeOK, ScheduleAbort, readerVars

\* release_cache_block preserves the invariant.
LEMMA ReleasePreserves ==
  ASSUME Inv, NEW r \in Readers, Release(r)
  PROVE  Inv'
<1>1. low[r] \in Slots /\ low[r] \in Held(r)
  BY ConstantsAssumption DEF Inv, TypeOK, Release, Slots, Held
<1>2. PICK j \in Slots : j = low[r] /\ j \in Held(r)
  BY <1>1
<1>3. PICK b \in Blocks : b = block_indexes[r][j]
  BY DEF Inv, TypeOK
<1>4. /\ Held(r)' = Held(r) \ {j}
      /\ \A q \in Readers \ {r} : Held(q)' = Held(q)
  <2>1. low' = [low EXCEPT ![r] = low[r] + 1]
        /\ low \in [Readers -> 0 .. MAX_BLOCK_PREFETCH]
        /\ prefetch_count' = prefetch_count
    BY DEF Inv, TypeOK, Release
  <2>2. j + 1 .. prefetch_count[r] - 1 = (j .. prefetch_count[r] - 1) \ {j}
    <3>1. j \in Int /\ prefetch_count[r] - 1 \in Int
      BY ConstantsAssumption DEF Inv, TypeOK, Slots
    <3> QED
      BY <3>1, IntervalTail
  <2>3. low'[r] = j + 1 /\ \A q \in Readers \ {r} : low'[q] = low[q]
    BY <2>1, <1>2
  <2> QED
    BY <1>2, <2>1, <2>2, <2>3 DEF Held
<1>5. UNCHANGED <<block_indexes, fpc, block_index>>
  BY DEF Release, fetcherVars
<1>6. <<r, j>> \in References(b)
  BY <1>2, <1>3 DEF References
<1>7. References(b)' = References(b) \ {<<r, j>>}
  BY <1>3, <1>4, <1>5, ConstantsAssumption DEF References
<1>8. \A c \in Blocks \ {b} : References(c)' = References(c)
  BY <1>3, <1>4, <1>5 DEF References
<1>9. ref_count' = [ref_count EXCEPT ![b] = @ - 1]
  BY <1>2, <1>3 DEF Release
<1>10. ReferencesCounted'
  BY <1>6, <1>7, <1>8, <1>9, CountRemoved
<1>11. ref_count' \in [Blocks -> Nat]
  BY <1>9, <1>10, CountType DEF Inv, TypeOK
<1>12. TypeOK'
  BY <1>2, <1>11, ConstantsAssumption DEF Inv, TypeOK, Release, fetcherVars
<1>13. ReaderInv'
  BY DEF Inv, TypeOK, ReaderInv, Release, ReaderAt
<1>14. SlotsKept'
  BY <1>4 DEF Inv, TypeOK, SlotsKept, SlotKey, Release
<1>15. OneFetcherPerBlock' /\ FetcherInv' /\ ScheduledHasKey' /\ CompletedHoldsKey'
  BY DEF Inv, OneFetcherPerBlock, FetcherInv, ScheduledHasKey,
         CompletedHoldsKey, Release, fetcherVars
<1> QED
  BY <1>10, <1>12, <1>13, <1>14, <1>15 DEF Inv

\* The return of a read preserves the invariant.
LEMMA ReturnPreserves ==
  ASSUME Inv, NEW r \in Readers, Return(r)
  PROVE  Inv'
<1>1. Held(r) = {} /\ Held(r)' = {} /\ \A q \in Readers \ {r} : Held(q)' = Held(q)
  BY DEF Inv, TypeOK, Return, Held
<1>2. \A b \in Blocks : References(b)' = References(b)
  BY <1>1 DEF References, Return, fetcherVars, Inv, TypeOK
<1>3. ReferencesCounted'
  BY <1>2, CountUnchanged DEF Inv, Return, cacheVars
<1>4. 0 \in Blocks
  BY ConstantsAssumption DEF Blocks
<1>5. TypeOK'
  BY <1>4, ConstantsAssumption DEF Inv, TypeOK, Return, cacheVars, fetcherVars
<1>6. ReaderInv'
  BY DEF Inv, TypeOK, ReaderInv, Return
<1>7. SlotsKept'
  BY <1>1 DEF Inv, TypeOK, SlotsKept, SlotKey, Return, cacheVars
<1>8. OneFetcherPerBlock' /\ FetcherInv' /\ ScheduledHasKey' /\ CompletedHoldsKey'
  BY DEF Inv, OneFetcherPerBlock, FetcherInv, ScheduledHasKey,
         CompletedHoldsKey, Return, cacheVars, fetcherVars
<1> QED
  BY <1>3, <1>5, <1>6, <1>7, <1>8 DEF Inv

\* What the two ways to schedule a slot have in common.
LEMMA TakeReferenceEffect ==
  ASSUME Inv, NEW r \in Readers, rpc[r] = "schedule",
         NEW b \in Blocks, TakeReference(r, b),
         NEW j \in Slots, j = low[r] - 1
  PROVE  /\ \A q \in Readers : \A i \in Held(q)' :
              \/ q = r /\ i = j /\ block_indexes'[q][i] = b
              \/ i \in Held(q) /\ block_indexes'[q][i] = block_indexes[q][i]
         /\ ReferencesCounted'
         /\ ReaderInv'
         /\ block_state' \in
              [Blocks -> {"CLEAN", "SCHEDULED", "DOWNLOADING", "COMPLETED"}]
            /\ block_key' \in [Blocks -> Keys \cup {Empty}] => TypeOK'
<1>1. /\ low' = [low EXCEPT ![r] = j]
      /\ prefetch_count' = prefetch_count
      /\ block_indexes' = [block_indexes EXCEPT ![r][j] = b]
      /\ ref_count' = [ref_count EXCEPT ![b] = @ + 1]
      /\ UNCHANGED <<fpc, block_index>>
  BY DEF TakeReference, fetcherVars
<1>2. low[r] \in Int /\ prefetch_count[r] \in Int /\ low[r] <= prefetch_count[r]
  BY ConstantsAssumption DEF Inv, TypeOK, ReaderInv
<1>3. low[r] .. prefetch_count[r] - 1 = Held(r)
  BY DEF Held
<1>4. Held(r)' = Held(r) \cup {j} /\ j \notin Held(r)
  <2>1. j .. prefetch_count[r] - 1 = Held(r) \cup {j}
    <3>1. j \in Int /\ j + 1 = low[r] /\ j <= prefetch_count[r] - 1
      BY <1>2, ConstantsAssumption DEF Slots
    <3>2. j .. prefetch_count[r] - 1 = (j + 1 .. prefetch_count[r] - 1) \cup {j}
      BY <1>2, <3>1, IntervalHead
    <3> QED
      BY <1>3, <3>1, <3>2
  <2>2. low'[r] = j
    BY <1>1 DEF Inv, TypeOK
  <2>3. j \notin Held(r)
    BY <1>2 DEF Held
  <2> QED
    BY <1>1, <2>1, <2>2, <2>3 DEF Held
<1>5. \A q \in Readers \ {r} : Held(q)' = Held(q)
  BY <1>1 DEF Held, Inv, TypeOK
<1>6. last_access' \in [Blocks -> Nat]
  BY RanksType DEF TakeReference, Touch
<1>7. /\ block_indexes'[r][j] = b
      /\ \A i \in Slots \ {j} : block_indexes'[r][i] = block_indexes[r][i]
      /\ \A q \in Readers \ {r} : block_indexes'[q] = block_indexes[q]
  BY <1>1 DEF Inv, TypeOK
<1>8. ReferencesCounted'
  <2>1. <<r, j>> \notin References(b)
    BY <1>4, ConstantsAssumption DEF References
  <2>2. References(b)' = References(b) \cup {<<r, j>>}
    BY <1>1, <1>4, <1>5, <1>7 DEF References
  <2>3. \A c \in Blocks \ {b} : References(c)' = References(c)
    BY <1>1, <1>4, <1>5, <1>7 DEF References
  <2> QED
    BY <1>1, <2>1, <2>2, <2>3, CountAdded
<1>9. ReaderInv'
  BY <1>1, <1>2 DEF Inv, TypeOK, ReaderInv, TakeReference, Slots
<1>10. /\ ref_count' \in [Blocks -> Nat]
       /\ low' \in [Readers -> 0 .. MAX_BLOCK_PREFETCH]
       /\ rpc' \in [Readers ->
            {"idle", "schedule", "wait", "check", "copy", "release"}]
       /\ block_indexes' \in [Readers -> [Slots -> Blocks]]
  <2>1. ref_count' \in [Blocks -> Nat]
    BY <1>1 DEF Inv, TypeOK
  <2>2. low' \in [Readers -> 0 .. MAX_BLOCK_PREFETCH]
    BY <1>1, ConstantsAssumption DEF Inv, TypeOK, Slots
  <2>3. rpc' \in [Readers ->
          {"idle", "schedule", "wait", "check", "copy", "release"}]
    BY DEF Inv, TypeOK, TakeReference
  <2>4. block_indexes' \in [Readers -> [Slots -> Blocks]]
    BY <1>1 DEF Inv, TypeOK
  <2> QED
    BY <2>1, <2>2, <2>3, <2>4
<1>11. ASSUME block_state' \in
                [Blocks -> {"CLEAN", "SCHEDULED", "DOWNLOADING", "COMPLETED"}],
              block_key' \in [Blocks -> Keys \cup {Empty}]
       PROVE  TypeOK'
  BY <1>6, <1>10, <1>11 DEF Inv, TypeOK, TakeReference, fetcherVars
<1>12. ASSUME NEW q \in Readers, NEW i \in Held(q)'
       PROVE  \/ q = r /\ i = j /\ block_indexes'[q][i] = b
              \/ i \in Held(q) /\ block_indexes'[q][i] = block_indexes[q][i]
  <2>1. CASE q = r /\ i = j
    BY <1>7, <2>1
  <2>2. CASE q = r /\ i # j
    <3>1. i \in Held(r)
      BY <1>4, <2>2
    <3>2. i \in Slots
      BY <3>1, ConstantsAssumption DEF Held, Slots, Inv, TypeOK
    <3> QED
      BY <1>7, <2>2, <3>1, <3>2
  <2>3. CASE q # r
    BY <1>5, <1>7, <2>3
  <2> QED
    BY <2>1, <2>2, <2>3
<1> QED
  BY <1>8, <1>9, <1>11, <1>12

\* schedule_sector preserves the invariant when it finds the block.
LEMMA ScheduleHitPreserves ==
  ASSUME Inv, NEW r \in Readers, ScheduleHit(r)
  PROVE  Inv'
<1>1. PICK j \in Slots : j = low[r] - 1
  BY ConstantsAssumption DEF Inv, TypeOK, ReaderInv, ScheduleHit, ReaderAt, Slots
<1>2. PICK b \in Blocks : block_key[b] = SlotKey(r, j) /\ TakeReference(r, b)
  BY <1>1 DEF ScheduleHit, IsHit
<1>3. rpc[r] = "schedule" /\ UNCHANGED <<block_state, block_key>>
  BY DEF ScheduleHit, ReaderAt
<1>4. /\ \A q \in Readers : \A i \in Held(q)' :
           \/ q = r /\ i = j /\ block_indexes'[q][i] = b
           \/ i \in Held(q) /\ block_indexes'[q][i] = block_indexes[q][i]
      /\ ReferencesCounted'
      /\ ReaderInv'
      /\ TypeOK'
  BY <1>1, <1>2, <1>3, TakeReferenceEffect DEF Inv, TypeOK
<1>5. SlotsKept'
  <2> SUFFICES ASSUME NEW q \in Readers, NEW i \in Held(q)'
               PROVE  block_key[block_indexes'[q][i]] = SlotKey(q, i)
    BY <1>2, <1>3 DEF SlotsKept, TakeReference, SlotKey
  <2> QED
    BY <1>2, <1>4 DEF Inv, SlotsKept
<1>6. OneFetcherPerBlock' /\ FetcherInv' /\ ScheduledHasKey' /\ CompletedHoldsKey'
  BY <1>2, <1>3 DEF Inv, OneFetcherPerBlock, FetcherInv, ScheduledHasKey,
         CompletedHoldsKey, TakeReference, fetcherVars
<1> QED
  BY <1>4, <1>5, <1>6 DEF Inv

\* schedule_sector preserves the invariant when it recycles a block.
LEMMA ScheduleMissPreserves ==
  ASSUME Inv, NEW r \in Readers, ScheduleMiss(r)
  PROVE  Inv'
<1>1. PICK j \in Slots : j = low[r] - 1
  BY ConstantsAssumption DEF Inv, TypeOK, ReaderInv, ScheduleMiss, ReaderAt, Slots
<1>2. PICK b \in Blocks :
        /\ IsVictim(b)
        /\ block_key' = [block_key EXCEPT ![b] = SlotKey(r, j)]
        /\ block_state' = [block_state EXCEPT ![b] = "SCHEDULED"]
        /\ TakeReference(r, b)
  BY <1>1 DEF ScheduleMiss
<1>3. rpc[r] = "schedule"
  BY DEF ScheduleMiss, ReaderAt
<1>4. SlotKey(r, j) \in Keys
  BY <1>3, SlotKeyType DEF Inv, ReaderInv
<1>5. /\ \A q \in Readers : \A i \in Held(q) : block_indexes[q][i] # b
      /\ \A f \in Fetchers : fpc[f] # "idle" => block_index[f] # b
  BY <1>2, NoHolder DEF IsVictim
<1>6. /\ \A q \in Readers : \A i \in Held(q)' :
           \/ q = r /\ i = j /\ block_indexes'[q][i] = b
           \/ i \in Held(q) /\ block_indexes'[q][i] = block_indexes[q][i]
      /\ ReferencesCounted'
      /\ ReaderInv'
  BY <1>1, <1>2, <1>3, TakeReferenceEffect
<1>7. TypeOK'
  <2>1. block_state' \in
          [Blocks -> {"CLEAN", "SCHEDULED", "DOWNLOADING", "COMPLETED"}]
    BY <1>2 DEF Inv, TypeOK
  <2>2. block_key' \in [Blocks -> Keys \cup {Empty}]
    BY <1>2, <1>4 DEF Inv, TypeOK
  <2> QED
    BY <1>1, <1>2, <1>3, <2>1, <2>2, TakeReferenceEffect
<1>8. SlotsKept'
  <2> SUFFICES ASSUME NEW q \in Readers, NEW i \in Held(q)'
               PROVE  block_key'[block_indexes'[q][i]] = SlotKey(q, i)
    BY <1>2 DEF SlotsKept, TakeReference, SlotKey
  <2>1. CASE q = r /\ i = j /\ block_indexes'[q][i] = b
    BY <1>2, <2>1 DEF Inv, TypeOK
  <2>2. CASE i \in Held(q) /\ block_indexes'[q][i] = block_indexes[q][i]
    <3>1. i \in Slots
      BY <2>2, ConstantsAssumption DEF Held, Slots, Inv, TypeOK
    <3>2. block_indexes[q][i] \in Blocks \ {b}
      BY <1>5, <2>2, <3>1 DEF Inv, TypeOK
    <3> QED
      BY <1>2, <2>2, <3>2 DEF Inv, TypeOK, SlotsKept
  <2> QED
    BY <1>6, <2>1, <2>2
<1>9. OneFetcherPerBlock' /\ FetcherInv'
  BY <1>2, <1>5 DEF Inv, TypeOK, OneFetcherPerBlock, FetcherInv,
         TakeReference, fetcherVars
<1>10. ScheduledHasKey' /\ CompletedHoldsKey'
  BY <1>2, <1>4 DEF Inv, TypeOK, ScheduledHasKey, CompletedHoldsKey, TakeReference
<1> QED
  BY <1>6, <1>7, <1>8, <1>9, <1>10 DEF Inv

\* The first critical section of a fetcher preserves the invariant.
LEMMA PickPreserves ==
  ASSUME Inv, NEW f \in Fetchers, Pick(f)
  PROVE  Inv'
<1>1. PICK b \in Blocks :
        /\ block_state[b] = "SCHEDULED"
        /\ ref_count' = [ref_count EXCEPT ![b] = @ + 1]
        /\ block_state' = [block_state EXCEPT ![b] = "DOWNLOADING"]
        /\ block_index' = [block_index EXCEPT ![f] = b]
  BY DEF Pick, IsNextDownload
<1>2. /\ fpc[f] = "idle"
      /\ fpc' = [fpc EXCEPT ![f] = "request"]
      /\ UNCHANGED <<last_access, block_key, buffer, rpc, request,
                     prefetch_count, block_indexes, low, out, response, aborted>>
  BY DEF Pick, FetcherAt, readerVars
<1>3. /\ fpc'[f] = "request" /\ block_index'[f] = b
      /\ \A g \in Fetchers \ {f} :
           fpc'[g] = fpc[g] /\ block_index'[g] = block_index[g]
  BY <1>1, <1>2 DEF Inv, TypeOK
<1>4. <<f, 0>> \notin References(b)
  BY <1>2, ConstantsAssumption DEF References
<1>5. References(b)' = References(b) \cup {<<f, 0>>}
  BY <1>2, <1>3 DEF References, Held
<1>6. \A c \in Blocks \ {b} : References(c)' = References(c)
  BY <1>2, <1>3 DEF References, Held
<1>7. ReferencesCounted'
  BY <1>1, <1>4, <1>5, <1>6, CountAdded
<1>8. TypeOK'
  BY <1>1, <1>2 DEF Inv, TypeOK
<1>9. ReaderInv' /\ SlotsKept'
  BY <1>2 DEF Inv, ReaderInv, SlotsKept, SlotKey, Held
<1>10. OneFetcherPerBlock'
  BY <1>1, <1>2, <1>3 DEF Inv, TypeOK, OneFetcherPerBlock
<1>11. FetcherInv'
  BY <1>1, <1>2, <1>3 DEF Inv, TypeOK, FetcherInv, ScheduledHasKey
<1>12. ScheduledHasKey' /\ CompletedHoldsKey'
  BY <1>1, <1>2 DEF Inv, TypeOK, ScheduledHasKey, CompletedHoldsKey
<1> QED
  BY <1>7, <1>8, <1>9, <1>10, <1>11, <1>12 DEF Inv

\* The steps of a fetcher outside the lock: nobody else works on its block, and
\* its block is not COMPLETED.
LEMMA DownloadPreserves ==
  ASSUME Inv, NEW f \in Fetchers,
         RequestBlock(f) \/ ReplyOk(f) \/ Fill(f) \/ ReplyFailed(f)
  PROVE  Inv'
<1>1. PICK b \in Blocks : b = block_index[f]
  BY DEF Inv, TypeOK
<1>2. /\ UNCHANGED <<ref_count, block_state, last_access, block_key, rpc, request,
                     prefetch_count, block_indexes, low, out, block_index,
                     aborted>>
      /\ fpc[f] # "idle" /\ fpc'[f] # "idle"
      /\ \A g \in Fetchers \ {f} :
           fpc'[g] = fpc[g] /\ response'[g] = response[g]
      /\ \A c \in Blocks \ {b} : buffer'[c] = buffer[c]
  BY <1>1 DEF Inv, TypeOK, RequestBlock, ReplyOk, Fill, ReplyFailed, FetcherAt,
              cacheVars, readerVars
<1>3. block_state[b] = "DOWNLOADING"
      /\ \A g \in Fetchers \ {f} : fpc[g] # "idle" => block_index[g] # b
  BY <1>1, <1>2 DEF Inv, OneFetcherPerBlock
<1>4. \A c \in Blocks : References(c)' = References(c)
  BY <1>2 DEF References, Held
<1>5. ReferencesCounted'
  BY <1>2, <1>4, CountUnchanged DEF Inv
<1>6. TypeOK'
  <2>1. fpc' \in [Fetchers ->
          {"idle", "request", "reply", "fill", "done", "failed"}]
    BY DEF Inv, TypeOK, RequestBlock, ReplyOk, Fill, ReplyFailed
  <2>2. response' \in [Fetchers -> Keys \cup {Empty}]
    BY <1>1 DEF Inv, TypeOK, RequestBlock, ReplyOk, Fill, ReplyFailed
  <2>3. buffer' \in [Blocks -> Keys \cup {Empty}]
    BY <1>1 DEF Inv, TypeOK, RequestBlock, ReplyOk, Fill, ReplyFailed, cacheVars
  <2> QED
    BY <1>2, <2>1, <2>2, <2>3 DEF Inv, TypeOK
<1>7. ReaderInv' /\ SlotsKept'
  BY <1>2 DEF Inv, ReaderInv, SlotsKept, SlotKey, Held
<1>8. OneFetcherPerBlock'
  BY <1>2 DEF Inv, OneFetcherPerBlock
<1>9. FetcherInv'
  <2> SUFFICES ASSUME NEW g \in Fetchers, fpc'[g] # "idle"
               PROVE  /\ block_key[block_index[g]] \in Keys
                      /\ fpc'[g] # "request" =>
                           response'[g] = block_key[block_index[g]]
                      /\ fpc'[g] = "done" => buffer'[block_index[g]] = response'[g]
    BY <1>2 DEF FetcherInv
  <2>1. CASE g = f
    BY <1>1, <1>2, <2>1
       DEF Inv, TypeOK, FetcherInv, RequestBlock, ReplyOk, Fill, ReplyFailed,
           FetcherAt
  <2>2. CASE g # f
    BY <1>2, <1>3, <2>2 DEF Inv, TypeOK, FetcherInv
  <2> QED
    BY <2>1, <2>2
<1>10. ScheduledHasKey' /\ CompletedHoldsKey'
  BY <1>2, <1>3 DEF Inv, TypeOK, ScheduledHasKey, CompletedHoldsKey
<1> QED
  BY <1>5, <1>6, <1>7, <1>8, <1>9, <1>10 DEF Inv

\* The second critical section of a fetcher preserves the invariant.
LEMMA FinishPreserves ==
  ASSUME Inv, NEW f \in Fetchers, Finish(f)
  PROVE  Inv'
<1>1. PICK b \in Blocks : b = block_index[f]
  BY DEF Inv, TypeOK
<1>2. /\ fpc[f] \in {"done", "failed"}
      /\ block_state' = [block_state EXCEPT ![b] =
                           IF fpc[f] = "done" THEN "COMPLETED" ELSE "SCHEDULED"]
      /\ ref_count' = [ref_count EXCEPT ![b] = @ - 1]
      /\ fpc' = [fpc EXCEPT ![f] = "idle"]
      /\ block_index' = [block_index EXCEPT ![f] = 0]
      /\ response' = [response EXCEPT ![f] = Empty]
      /\ UNCHANGED <<last_access, block_key, buffer, rpc, request,
                     prefetch_count, block_indexes, low, out, aborted>>
  BY <1>1 DEF Finish, FetcherAt, readerVars
<1>3. /\ fpc'[f] = "idle"
      /\ \A g \in Fetchers \ {f} : /\ fpc'[g] = fpc[g]
                                   /\ block_index'[g] = block_index[g]
                                   /\ response'[g] = response[g]
      /\ \A g \in Fetchers \ {f} : fpc[g] # "idle" => block_index[g] # b
  BY <1>1, <1>2 DEF Inv, TypeOK, OneFetcherPerBlock
<1>4. <<f, 0>> \in References(b)
  BY <1>1, <1>2 DEF References
<1>5. References(b)' = References(b) \ {<<f, 0>>}
  BY <1>1, <1>2, <1>3, ConstantsAssumption DEF References, Held
<1>6. \A c \in Blocks \ {b} : References(c)' = References(c)
  BY <1>1, <1>2, <1>3 DEF References, Held
<1>7. ReferencesCounted'
  BY <1>2, <1>4, <1>5, <1>6, CountRemoved
<1>8. ref_count' \in [Blocks -> Nat]
  BY <1>2, <1>7, CountType DEF Inv, TypeOK
<1>9. 0 \in Blocks
  BY ConstantsAssumption DEF Blocks
<1>10. TypeOK'
  BY <1>2, <1>8, <1>9 DEF Inv, TypeOK
<1>11. ReaderInv' /\ SlotsKept'
  BY <1>2 DEF Inv, ReaderInv, SlotsKept, SlotKey, Held
<1>12. OneFetcherPerBlock'
  BY <1>1, <1>2, <1>3 DEF Inv, TypeOK, OneFetcherPerBlock
<1>13. FetcherInv'
  BY <1>2, <1>3 DEF Inv, TypeOK, FetcherInv
<1>14. ScheduledHasKey' /\ CompletedHoldsKey'
  BY <1>1, <1>2 DEF Inv, TypeOK, FetcherInv, ScheduledHasKey, CompletedHoldsKey
<1> QED
  BY <1>7, <1>10, <1>11, <1>12, <1>13, <1>14 DEF Inv

\* The calloc-ed blocks satisfy the invariant.
LEMMA InitInv ==
  ASSUME Init
  PROVE  Inv
<1>1. 0 \in Blocks /\ 0 \in 0 .. MAX_BLOCK_PREFETCH
  BY ConstantsAssumption DEF Blocks
<1>2. TypeOK
  BY <1>1 DEF Init, TypeOK
<1>3. \A b \in Blocks : References(b) = {}
  BY DEF Init, References, Held
<1>4. ReferencesCounted
  BY <1>3, FS_EmptySet DEF Init, ReferencesCounted
<1> QED
  BY <1>2, <1>4 DEF Inv, Init, ReaderInv, SlotsKept, Held,
                    OneFetcherPerBlock, FetcherInv, ScheduledHasKey,
                    CompletedHoldsKey

\* A step that changes nothing preserves the invariant.
LEMMA StutterPreserves ==
  ASSUME Inv, UNCHANGED vars
  PROVE  Inv'
<1>1. ReaderInv'
  BY DEF Inv, ReaderInv, vars, readerVars
<1> QED
  BY <1>1, QuietPreserves DEF Inv, TypeOK, vars, readerVars

\* Every step preserves the invariant: one case per action.
LEMMA StepPreserves ==
  ASSUME Inv, [Next]_vars
  PROVE  Inv'
<1>1. CASE UNCHANGED vars
  BY <1>1, StutterPreserves
<1>2. ASSUME NEW r \in Readers, NEW file \in Files, NEW o \in SectorsOf(file),
             Read(r, file, o)
      PROVE  Inv'
  BY <1>2, ReadPreserves
<1>3. ASSUME NEW r \in Readers, ReaderStep(r)
      PROVE  Inv'
  BY <1>3, ScheduleHitPreserves, ScheduleMissPreserves, AbortPreserves,
     WaitPreserves, AnswerPreserves, ReleasePreserves, ReturnPreserves
     DEF ReaderStep
<1>4. ASSUME NEW f \in Fetchers, FetcherStep(f)
      PROVE  Inv'
  BY <1>4, PickPreserves, DownloadPreserves, FinishPreserves DEF FetcherStep
<1> QED
  BY <1>1, <1>2, <1>3, <1>4 DEF Next

(***************************************************************************)
(* The theorems.                                                           *)
(***************************************************************************)

\* Inv is an invariant of the block cache, whatever the number of threads and
\* blocks, and whatever the files.
THEOREM Invariance == Spec => []Inv
<1>1. Init => Inv
  BY InitInv
<1>2. Inv /\ [Next]_vars => Inv'
  BY StepPreserves
<1> QED
  BY <1>1, <1>2, PTL DEF Spec

\* Every variable keeps its type; no reference count ever goes below zero.
THEOREM TypeCorrect == Spec => []TypeOK
BY Invariance, PTL DEF Inv

\* Reference counts are exact: no reference is leaked, and none is given back
\* twice, whatever way a read or a download ends.
THEOREM CountsHold == Spec => []ReferencesCounted
BY Invariance, PTL DEF Inv

\* A block that a read holds through a slot keeps the key it was scheduled for,
\* and a block that is downloaded the key that was asked for: it is not recycled
\* under its holder.
THEOREM KeysHold == Spec => []HeldBlockKept
<1>1. Inv => HeldBlockKept
  BY DEF Inv, SlotsKept, FetcherInv, HeldBlockKept
<1> QED
  BY <1>1, Invariance, PTL

\* A block in DOWNLOADING has exactly one fetcher, also when downloads fail and
\* are tried again.
THEOREM OneFetcherHolds == Spec => []OneFetcherPerBlock
BY Invariance, PTL DEF Inv

\* The buffer of a COMPLETED block holds what its key names, although it was
\* downloaded and filled outside the lock.
THEOREM ContentHolds == Spec => []CompletedHoldsKey
BY Invariance, PTL DEF Inv

\* What a step does to the state of a block: it recycles one that has no
\* holder, or it takes or finishes a download.
LEMMA BlockStateChange ==
  ASSUME Inv, [Next]_vars, NEW b \in Blocks, block_state[b] = "COMPLETED"
  PROVE  block_state'[b] = "COMPLETED" \/ ref_count[b] = 0
<1>1. CASE UNCHANGED vars
  BY <1>1 DEF vars, cacheVars
<1>2. ASSUME NEW r \in Readers, NEW file \in Files, NEW o \in SectorsOf(file),
             Read(r, file, o)
      PROVE  block_state' = block_state
  BY <1>2 DEF Read, cacheVars
<1>3. ASSUME NEW r \in Readers, ReaderStep(r)
      PROVE  block_state'[b] = "COMPLETED" \/ ref_count[b] = 0
  <2>1. CASE ScheduleMiss(r)
    <3>1. PICK c \in Blocks :
            /\ IsVictim(c)
            /\ block_state' = [block_state EXCEPT ![c] = "SCHEDULED"]
      BY <2>1 DEF ScheduleMiss
    <3> QED
      BY <3>1 DEF IsVictim, Inv, TypeOK
  <2>2. CASE ~ScheduleMiss(r)
    BY <1>3, <2>2
       DEF ReaderStep, ScheduleHit, ScheduleAbort, WaitCompleted, WaitExpired,
           CheckFailed, CheckCompleted, Copy, Release, Return, cacheVars
  <2> QED
    BY <2>1, <2>2
<1>4. ASSUME NEW f \in Fetchers, FetcherStep(f)
      PROVE  block_state'[b] = "COMPLETED"
  <2>1. CASE Pick(f)
    BY <2>1 DEF Pick, IsNextDownload, Inv, TypeOK
  <2>2. CASE Finish(f)
    <3>1. block_state[block_index[f]] = "DOWNLOADING" /\ block_index[f] \in Blocks
      BY <2>2 DEF Finish, FetcherAt, Inv, TypeOK, OneFetcherPerBlock
    <3> QED
      BY <2>2, <3>1 DEF Finish, Inv, TypeOK
  <2>3. CASE RequestBlock(f) \/ ReplyOk(f) \/ Fill(f) \/ ReplyFailed(f)
    BY <2>3 DEF RequestBlock, ReplyOk, Fill, ReplyFailed, cacheVars
  <2> QED
    BY <1>4, <2>1, <2>2, <2>3 DEF FetcherStep
<1> QED
  BY <1>1, <1>2, <1>3, <1>4 DEF Next

\* A COMPLETED block is recycled only while nobody holds a reference on it.
THEOREM RecycledOnlyUnreferenced == Spec => CompletedUntilRecycled
<1>1. Inv /\ [Next]_vars =>
        [\A b \in Blocks :
           block_state[b] = "COMPLETED" /\ block_state'[b] # "COMPLETED"
             => ref_count[b] = 0]_vars
  BY BlockStateChange
<1> QED
  BY <1>1, Invariance, PTL DEF Spec, CompletedUntilRecycled

\* No two blocks ever cache the same block of the same file revision.
THEOREM NoDuplicateBlock == Spec => []KeysUnique
<1>1. Init => KeysUnique
  BY DEF Init, KeysUnique
<1>2. Inv /\ KeysUnique /\ [Next]_vars => KeysUnique'
  <2> SUFFICES ASSUME Inv, KeysUnique, [Next]_vars
               PROVE  KeysUnique'
    OBVIOUS
  <2>1. CASE block_key' = block_key
    BY <2>1 DEF KeysUnique
  <2>2. CASE \E r \in Readers : ScheduleMiss(r)
    <3>1. PICK r \in Readers : ScheduleMiss(r)
      BY <2>2
    <3>2. PICK k : /\ \A c \in Blocks : block_key[c] # k
                   /\ \E b \in Blocks : block_key' = [block_key EXCEPT ![b] = k]
      BY <3>1 DEF ScheduleMiss
    <3> QED
      BY <3>2 DEF KeysUnique, Inv, TypeOK
  <2>3. CASE ~(\E r \in Readers : ScheduleMiss(r))
    <3>1. block_key' = block_key
      BY <2>3 DEF Next, ReaderStep, FetcherStep, Read, ScheduleHit, ScheduleAbort,
         WaitCompleted, WaitExpired, CheckFailed, CheckCompleted, Copy, Release,
         Return, Pick, RequestBlock, ReplyOk, Fill, ReplyFailed, Finish, vars,
         cacheVars
    <3> QED
      BY <3>1, <2>1
  <2> QED
    BY <2>2, <2>3
<1> QED
  BY <1>1, <1>2, Invariance, PTL DEF Spec

(***************************************************************************)
(* What a read returns, when no file is so large that the number of its    *)
(* blocks wraps.                                                           *)
(***************************************************************************)

AnswerInv ==
  \A r \in Readers :
    /\ rpc[r] # "idle" => prefetch_count[r] >= 1
    /\ rpc[r] = "copy" => block_state[block_indexes[r][0]] = "COMPLETED"
    /\ rpc[r] = "release" => out[r] \in {Failed, Wanted(r)}

\* The block a read waits for, checks and copies from is held and has the key
\* of the request.
LEMMA OwnBlockHeld ==
  ASSUME Inv, AnswerInv, NEW r \in Readers, rpc[r] \in {"wait", "check", "copy"}
  PROVE  /\ block_indexes[r][0] \in Blocks
         /\ block_key[block_indexes[r][0]] = Wanted(r)
         /\ ref_count[block_indexes[r][0]] >= 1
<1>1. 0 \in Held(r) /\ 0 \in Slots
  <2>1. low[r] = 0 /\ prefetch_count[r] >= 1 /\ prefetch_count[r] \in Int
    BY ConstantsAssumption DEF Inv, TypeOK, ReaderInv, AnswerInv
  <2> QED
    BY <2>1, ConstantsAssumption DEF Held, Slots
<1>2. PICK b \in Blocks : b = block_indexes[r][0]
  BY <1>1 DEF Inv, TypeOK
<1>3. <<r, 0>> \in References(b)
  BY <1>1, <1>2 DEF References
<1> QED
  BY <1>1, <1>2, <1>3, HolderCounted DEF Inv, SlotsKept, Wanted

\* A step is a step of one reader, or leaves all the readers alone.
LEMMA OneReaderMoves ==
  ASSUME Inv, [Next]_vars, NEW r \in Readers
  PROVE  \/ \E file \in Files : \E o \in SectorsOf(file) : Read(r, file, o)
         \/ ReaderStep(r)
         \/ /\ rpc'[r] = rpc[r] /\ request'[r] = request[r]
            /\ prefetch_count'[r] = prefetch_count[r]
            /\ block_indexes'[r] = block_indexes[r]
            /\ out'[r] = out[r]
<1>1. CASE UNCHANGED vars
  BY <1>1 DEF vars, readerVars
<1>2. ASSUME NEW q \in Readers \ {r}, NEW file \in Files, NEW o \in SectorsOf(file),
             Read(q, file, o)
      PROVE  /\ rpc'[r] = rpc[r] /\ request'[r] = request[r]
             /\ prefetch_count'[r] = prefetch_count[r]
             /\ block_indexes'[r] = block_indexes[r]
             /\ out'[r] = out[r]
  BY <1>2 DEF Read, Inv, TypeOK
<1>3. ASSUME NEW q \in Readers \ {r}, ReaderStep(q)
      PROVE  /\ rpc'[r] = rpc[r] /\ request'[r] = request[r]
             /\ prefetch_count'[r] = prefetch_count[r]
             /\ block_indexes'[r] = block_indexes[r]
             /\ out'[r] = out[r]
  BY <1>3 DEF ReaderStep, ScheduleHit, ScheduleMiss, ScheduleAbort, TakeReference,
     WaitCompleted, WaitExpired, CheckFailed, CheckCompleted, Copy, Release, Return,
     readerVars, Inv, TypeOK
<1>4. ASSUME NEW f \in Fetchers, FetcherStep(f)
      PROVE  UNCHANGED readerVars
  BY <1>4 DEF FetcherStep, Pick, RequestBlock, ReplyOk, Fill, ReplyFailed, Finish
<1> QED
  BY <1>1, <1>2, <1>3, <1>4 DEF Next, readerVars

\* Every step preserves the invariant on the answers.
LEMMA AnswerStep ==
  ASSUME NoWrap, Inv, AnswerInv, [Next]_vars
  PROVE  AnswerInv'
<1> SUFFICES ASSUME NEW r \in Readers
             PROVE  /\ rpc'[r] # "idle" => prefetch_count'[r] >= 1
                    /\ rpc'[r] = "copy" =>
                         block_state'[block_indexes'[r][0]] = "COMPLETED"
                    /\ rpc'[r] = "release" => out'[r] \in {Failed, Wanted(r)'}
  BY DEF AnswerInv
<1>1. ASSUME NEW file \in Files, NEW o \in SectorsOf(file), Read(r, file, o)
      PROVE  rpc'[r] \in {"wait", "schedule"} /\ prefetch_count'[r] >= 1
  BY <1>1, PrefetchCountPositive DEF Read, Inv, TypeOK
<1>2. CASE ScheduleHit(r) \/ ScheduleMiss(r)
  BY <1>2 DEF ScheduleHit, ScheduleMiss, TakeReference, ReaderAt, Inv, TypeOK,
              AnswerInv
<1>3. CASE ScheduleAbort(r)
  BY <1>3 DEF ScheduleAbort, ReaderAt, cacheVars, readerVars, AnswerInv
<1>4. CASE WaitCompleted(r) \/ WaitExpired(r)
  BY <1>4 DEF WaitCompleted, WaitExpired, ReaderAt, Inv, TypeOK, AnswerInv
<1>5. CASE CheckFailed(r)
  BY <1>5 DEF CheckFailed, ReaderAt, Inv, TypeOK, AnswerInv
<1>6. CASE CheckCompleted(r)
  BY <1>6 DEF CheckCompleted, ReaderAt, cacheVars, Inv, TypeOK, AnswerInv
<1>7. CASE Copy(r)
  <2>1. /\ block_indexes[r][0] \in Blocks
        /\ block_key[block_indexes[r][0]] = Wanted(r)
    BY <1>7, OwnBlockHeld DEF Copy, ReaderAt
  <2>2. buffer[block_indexes[r][0]] = Wanted(r)
    BY <1>7, <2>1 DEF Copy, ReaderAt, AnswerInv, Inv, CompletedHoldsKey
  <2>3. out'[r] = Wanted(r) /\ rpc'[r] = "release" /\ Wanted(r)' = Wanted(r)
    BY <1>7, <2>2 DEF Copy, Inv, TypeOK, Wanted, SlotKey
  <2> QED
    BY <1>7, <2>3 DEF Copy, ReaderAt, AnswerInv
<1>8. CASE Release(r)
  <2>1. /\ rpc[r] = "release"
        /\ UNCHANGED <<rpc, request, prefetch_count, out>>
    BY <1>8 DEF Release, ReaderAt
  <2>2. Wanted(r)' = Wanted(r)
    BY <2>1 DEF Wanted, SlotKey
  <2> QED
    BY <2>1, <2>2 DEF AnswerInv
<1>9. CASE Return(r)
  BY <1>9 DEF Return, Inv, TypeOK
<1>10. CASE /\ rpc'[r] = rpc[r] /\ request'[r] = request[r]
            /\ prefetch_count'[r] = prefetch_count[r]
            /\ block_indexes'[r] = block_indexes[r]
            /\ out'[r] = out[r]
  <2>1. rpc[r] = "copy" => block_state'[block_indexes[r][0]] = "COMPLETED"
    BY OwnBlockHeld, BlockStateChange DEF AnswerInv
  <2> QED
    BY <1>10, <2>1 DEF AnswerInv, Wanted, SlotKey
<1> QED
  BY <1>1, <1>2, <1>3, <1>4, <1>5, <1>6, <1>7, <1>8, <1>9, <1>10, OneReaderMoves
     DEF ReaderStep

\* What a read is about to return is right in every reachable state.
LEMMA AnswerInvariance ==
  ASSUME NoWrap
  PROVE  Spec => []AnswerInv
<1>1. Init => AnswerInv
  BY DEF Init, AnswerInv
<1>2. Inv /\ AnswerInv /\ [Next]_vars => AnswerInv'
  BY AnswerStep
<1> QED
  BY <1>1, <1>2, Invariance, PTL DEF Spec

\* A read returns a failure or the block of its own file and offset, if the
\* size of every file leaves room for rounding it up to a block.
THEOREM ReadsCorrect ==
  ASSUME NoWrap
  PROVE  Spec => []ReadReturnsRequested
<1>1. Inv /\ AnswerInv => ReadReturnsRequested
  BY DEF Inv, ReaderInv, AnswerInv, ReadReturnsRequested, TypeOK
<1> QED
  BY <1>1, Invariance, AnswerInvariance, PTL

\* No fetcher touches the buffer a read copies from.
THEOREM CopiesNotTorn ==
  ASSUME NoWrap
  PROVE  Spec => []NoTornCopy
<1>1. Inv /\ AnswerInv => NoTornCopy
  BY DEF Inv, AnswerInv, OneFetcherPerBlock, NoTornCopy, TypeOK
<1> QED
  BY <1>1, Invariance, AnswerInvariance, PTL

(***************************************************************************)
(* The cache implements BlockRead.                                         *)
(***************************************************************************)

\* The initial states of the cache are initial states of BlockRead.
LEMMA RefinesInit ==
  ASSUME Init
  PROVE  Abs!Init
BY DEF Init, Abs!Init

\* No request of a reader is mistaken for the absence of one.
LEMMA NoRequestIsNone == NoRequest \notin Requests
<1>1. SUFFICES ASSUME NEW file \in Files, NEW o \in SectorsOf(file),
                      NoRequest = [file |-> file, offset |-> o]
               PROVE  FALSE
  BY DEF Requests
<1>2. NoRequest.file \in Files
  BY <1>1
<1> QED
  BY <1>2, ConstantsAssumption DEF NoRequest

\* Every step of the cache is a step of BlockRead or leaves its state alone.
LEMMA RefinesStep ==
  ASSUME NoWrap, Inv, AnswerInv, [Next]_vars
  PROVE  [Abs!Next]_<<request, out>>
<1>1. CASE UNCHANGED vars
  BY <1>1 DEF vars, readerVars
<1>2. ASSUME NEW r \in Readers, NEW file \in Files, NEW o \in SectorsOf(file),
             Read(r, file, o)
      PROVE  Abs!Call(r)
  <2>1. [file |-> file, offset |-> o] \in Requests
    BY DEF Requests
  <2>2. request[r] = NoRequest
    BY <1>2 DEF Read, ReaderAt, Inv, ReaderInv
  <2> QED
    BY <1>2, <2>1, <2>2 DEF Read, Abs!Call
<1>3. ASSUME NEW r \in Readers, CheckFailed(r) \/ Copy(r)
      PROVE  Abs!Answer(r)
  <2>1. /\ request[r] \in Requests /\ request[r] # NoRequest
        /\ out[r] = Empty
    BY <1>3, NoRequestIsNone DEF CheckFailed, Copy, ReaderAt, Inv, ReaderInv
  <2>2. SlotKey(r, 0) = <<request[r].file, BlockOffset(request[r].offset)>>
    <3>1. request[r].offset \in 0 .. UINT32 - 1
      BY <2>1, ConstantsAssumption DEF Requests, SectorsOf
    <3>2. (request[r].offset + CACHE_BLOCK_SIZE * 0) % UINT32 = request[r].offset
      BY <3>1, ConstantsAssumption
    <3> QED
      BY <3>2 DEF SlotKey
  <2>3. out' = [out EXCEPT ![r] = Failed] \/ out' = [out EXCEPT ![r] = SlotKey(r, 0)]
    <3>1. CASE CheckFailed(r)
      BY <3>1 DEF CheckFailed
    <3>2. CASE Copy(r)
      <4>1. /\ block_indexes[r][0] \in Blocks
            /\ block_key[block_indexes[r][0]] = SlotKey(r, 0)
        BY <3>2, OwnBlockHeld DEF Copy, ReaderAt, Wanted
      <4> QED
        BY <3>2, <4>1
           DEF Copy, ReaderAt, AnswerInv, Inv, CompletedHoldsKey
    <3> QED
      BY <1>3, <3>1, <3>2
  <2> QED
    BY <1>3, <2>1, <2>2, <2>3 DEF CheckFailed, Copy, Abs!Answer
<1>4. ASSUME NEW r \in Readers, Return(r)
      PROVE  Abs!Return(r)
  <2>1. out[r] \in {Failed, Wanted(r)} /\ request[r] \in Requests
    BY <1>4 DEF Return, ReaderAt, AnswerInv, Inv, ReaderInv
  <2>2. Wanted(r) \in Keys
    BY <2>1, SlotKeyType, ConstantsAssumption DEF Wanted, Slots
  <2> QED
    BY <1>4, <2>1, <2>2, ConstantsAssumption DEF Return, Abs!Return
<1>5. ASSUME NEW r \in Readers, ReaderStep(r),
             ~CheckFailed(r), ~Copy(r), ~Return(r)
      PROVE  UNCHANGED <<request, out>>
  BY <1>5 DEF ReaderStep, ScheduleHit, ScheduleMiss, ScheduleAbort, TakeReference,
     WaitCompleted, WaitExpired, CheckCompleted, Release, readerVars
<1>6. ASSUME NEW f \in Fetchers, FetcherStep(f)
      PROVE  UNCHANGED <<request, out>>
  BY <1>6 DEF FetcherStep, Pick, RequestBlock, ReplyOk, Fill, ReplyFailed, Finish,
     readerVars
<1> QED
  BY <1>1, <1>2, <1>3, <1>4, <1>5, <1>6 DEF Next, Abs!Next

\* The block cache implements BlockRead: seen by the threads that read, each
\* call is answered once, by a failure or by what it asked for.
THEOREM Refinement ==
  ASSUME NoWrap
  PROVE  Spec => AnswersRequests
<1>1. Init => Abs!Init
  BY RefinesInit
<1>2. Inv /\ AnswerInv /\ [Next]_vars => [Abs!Next]_<<request, out>>
  BY RefinesStep
<1> QED
  BY <1>1, <1>2, Invariance, AnswerInvariance, PTL
     DEF Spec, AnswersRequests, Abs!Spec

(***************************************************************************)
(* The size of the pool.                                                   *)
(***************************************************************************)

\* A block for every slot of every reader and one for every fetcher.
PoolSuffices ==
  CACHE_BLOCK_COUNT >=
    MAX_BLOCK_PREFETCH * Cardinality(Readers) + Cardinality(Fetchers)

\* All the references there can be at one time.
Holders == (Readers \X Slots) \cup (Fetchers \X {0})

\* There are as many possible holders as slots of the readers and fetchers.
LEMMA HoldersCount ==
  /\ IsFiniteSet(Holders)
  /\ Cardinality(Holders) =
       MAX_BLOCK_PREFETCH * Cardinality(Readers) + Cardinality(Fetchers)
<1>1. IsFiniteSet(Slots) /\ Cardinality(Slots) = MAX_BLOCK_PREFETCH
  BY FS_Interval, ConstantsAssumption DEF Slots
<1>2. /\ IsFiniteSet(Readers \X Slots)
      /\ Cardinality(Readers \X Slots) = Cardinality(Readers) * Cardinality(Slots)
  BY <1>1, FS_Product, ConstantsAssumption
<1>3. IsFiniteSet({0}) /\ Cardinality({0}) = 1
  BY FS_Singleton
<1>4. /\ IsFiniteSet(Fetchers \X {0})
      /\ Cardinality(Fetchers \X {0}) = Cardinality(Fetchers) * Cardinality({0})
  BY <1>3, FS_Product, ConstantsAssumption
<1>5. Cardinality(Readers) \in Nat /\ Cardinality(Fetchers) \in Nat
  BY FS_CardinalityType, ConstantsAssumption
<1>6. (Readers \X Slots) \cap (Fetchers \X {0}) = {}
  BY ConstantsAssumption
<1>7. /\ IsFiniteSet(Holders)
      /\ Cardinality(Holders) = Cardinality(Readers \X Slots)
           + Cardinality(Fetchers \X {0}) - Cardinality({})
  BY <1>2, <1>4, <1>6, FS_Union DEF Holders
<1> QED
  BY <1>1, <1>2, <1>3, <1>4, <1>5, <1>7, FS_EmptySet, ConstantsAssumption

\* A reader that is about to take a reference leaves a block free: if all the
\* blocks were held, there would be as many holders as blocks, one more than
\* there are holders other than the slot it is about to fill.
LEMMA FreeBlock ==
  ASSUME PoolSuffices, Inv, NEW r \in Readers, rpc[r] = "schedule"
  PROVE  \E b \in Blocks : ref_count[b] = 0
<1> SUFFICES ASSUME \A b \in Blocks : ref_count[b] # 0
             PROVE  FALSE
  OBVIOUS
<1>1. PICK j \in Slots : j = low[r] - 1 /\ j \notin Held(r)
  <2>1. low[r] \in 1 .. MAX_BLOCK_PREFETCH
    BY ConstantsAssumption DEF Inv, TypeOK, ReaderInv
  <2>2. low[r] - 1 \in Slots /\ low[r] - 1 \notin Held(r)
    BY <2>1, ConstantsAssumption DEF Slots, Held
  <2> QED
    BY <2>2
<1> DEFINE others == Holders \ {<<r, j>>}
           holder == [b \in Blocks |-> CHOOSE h : h \in References(b)]
<1>2. \A b \in Blocks : References(b) # {}
  BY FS_EmptySet DEF Inv, ReferencesCounted
<1>3. \A b \in Blocks : holder[b] \in References(b)
  BY <1>2
<1>4. <<r, j>> \in Holders /\ \A b \in Blocks : References(b) \subseteq others
  BY <1>1, ConstantsAssumption DEF References, Holders
<1>5. \A b, c \in Blocks : b # c => References(b) \cap References(c) = {}
  BY ConstantsAssumption DEF References
<1>6. holder \in Injection(Blocks, others)
  BY <1>3, <1>4, <1>5 DEF Injection, IsInjective
<1>7. /\ IsFiniteSet(others)
      /\ Cardinality(others) = Cardinality(Holders) - 1
  BY <1>4, HoldersCount, FS_RemoveElement
<1>8. Cardinality(Blocks) <= Cardinality(others)
  BY <1>6, <1>7, FS_Injection
<1>9. Cardinality(Blocks) = CACHE_BLOCK_COUNT
  BY FS_Interval, ConstantsAssumption DEF Blocks
<1>10. Cardinality(Holders) \in Nat
  BY HoldersCount, FS_CardinalityType
<1> QED
  BY <1>7, <1>8, <1>9, <1>10, HoldersCount, ConstantsAssumption DEF PoolSuffices

\* The assertion of schedule_sector never fails, if the pool has a block for
\* every slot of every reader and one for every fetcher.
THEOREM PoolNeverEmpty ==
  ASSUME PoolSuffices
  PROVE  Spec => []AlwaysAFreeBlock
<1>1. Init => AlwaysAFreeBlock
  BY DEF Init, AlwaysAFreeBlock
<1>2. Inv /\ AlwaysAFreeBlock /\ [Next]_vars => AlwaysAFreeBlock'
  <2> SUFFICES ASSUME Inv, AlwaysAFreeBlock, [Next]_vars
               PROVE  aborted' = aborted
    BY DEF AlwaysAFreeBlock
  <2>1. ASSUME NEW r \in Readers
        PROVE  ~ScheduleAbort(r)
    BY FreeBlock DEF ScheduleAbort, ReaderAt
  <2> QED
    BY <2>1 DEF Next, ReaderStep, FetcherStep, Read, ScheduleHit, ScheduleMiss,
       TakeReference, WaitCompleted, WaitExpired, CheckFailed, CheckCompleted,
       Copy, Release, Return, Pick, RequestBlock, ReplyOk, Fill, ReplyFailed,
       Finish, vars
<1> QED
  BY <1>1, <1>2, Invariance, PTL DEF Spec

=============================================================================
