------------------------------ MODULE BlockCache ------------------------------
(***************************************************************************)
(* The file block cache of dbfiles.c: CACHE_BLOCK_COUNT blocks shared by   *)
(* the FUSE threads, which read sectors (read_sector_from_cache), and by   *)
(* the block fetcher threads, which download the blocks                    *)
(* (block_fetcher_thread).                                                 *)
(*                                                                         *)
(* file_cache_lock guards schedule_sector, release_cache_block and the two *)
(* critical sections of the fetcher: each of these is one action.  What    *)
(* the threads do outside the lock (the polling of block_state, the copy   *)
(* out of the buffer, the download, the memset and the memcpy into the     *)
(* buffer) are actions of their own and interleave freely.                 *)
(*                                                                         *)
(* A file is a (path, rev) pair.  The content of a block is abstracted to  *)
(* the key (file, block offset) it was downloaded for, so "the right data" *)
(* is "the key of the request".  last_access is kept as a rank: the code   *)
(* only compares access times.  A read that waits may expire at any moment *)
(* (READ_SECTOR_TIMEOUT against the wall clock).                           *)
(***************************************************************************)
EXTENDS Integers, FiniteSets

CONSTANTS
  Readers,             \* FUSE threads that may be in read_sector_from_cache
  Fetchers,            \* the BLOCK_FETCHER_THREAD_COUNT fetcher threads
  CACHE_BLOCK_COUNT,   \* number of cached blocks
  CACHE_BLOCK_SIZE,    \* size of a cached block
  MAX_BLOCK_PREFETCH,  \* blocks one read schedules at most
  SectorSize,          \* BPB_BytesPerSector
  UINT32,              \* number of values of a uint32_t
  Files,               \* (path, rev) pairs
  FileSize,            \* FileSize[file]: metadata.size, a uint32_t
  Empty,               \* key and content of a block nothing was stored in
  Failed               \* the non-zero return value of a read

Blocks == 0 .. CACHE_BLOCK_COUNT - 1
Slots  == 0 .. MAX_BLOCK_PREFETCH - 1
Keys   == Files \X Nat

ASSUME ConstantsAssumption ==
  /\ IsFiniteSet(Readers) /\ IsFiniteSet(Fetchers)
  /\ Readers \cap Fetchers = {}
  /\ CACHE_BLOCK_COUNT \in Nat \ {0}
  /\ CACHE_BLOCK_SIZE \in Nat \ {0}
  /\ MAX_BLOCK_PREFETCH \in Nat \ {0}
  /\ SectorSize \in Nat \ {0}
  /\ UINT32 \in Nat \ {0}
  /\ FileSize \in [Files -> 0 .. UINT32 - 1]
  /\ Empty \notin Keys \cup Files /\ Failed \notin Keys /\ Empty # Failed

VARIABLES
  ref_count,      \* ref_count[b]: references held on block b
  block_state,    \* block_state[b]
  last_access,    \* last_access[b]: rank of the last access, 0 if never
  block_key,      \* block_key[b]: its utf8path, rev and offset
  buffer,         \* buffer[b]: what its buffer holds
  rpc,            \* rpc[r]: where reader r is in read_sector_from_cache
  request,        \* request[r]: the file and offset r reads
  prefetch_count, \* prefetch_count[r]
  block_indexes,  \* block_indexes[r]: one block per prefetch slot
  low,            \* low[r]: lowest slot r holds a reference through
  out,            \* out[r]: what r returns: Empty so far, Failed or a content
  fpc,            \* fpc[f]: where fetcher f is in its loop
  block_index,    \* block_index[f]: the block f downloads
  response,       \* response[f]: the content f's download is for
  aborted         \* an assertion failed and the process is gone

cacheVars   == <<ref_count, block_state, last_access, block_key, buffer>>
readerVars  == <<rpc, request, prefetch_count, block_indexes, low, out>>
fetcherVars == <<fpc, block_index, response>>
vars == <<cacheVars, readerVars, fetcherVars, aborted>>

(***************************************************************************)
(* Offsets.                                                                *)
(***************************************************************************)

\* offset & ~(CACHE_BLOCK_SIZE - 1): the first byte of the block of an offset.
BlockOffset(offset) == (offset \div CACHE_BLOCK_SIZE) * CACHE_BLOCK_SIZE

\* The sector offsets read_file_sector passes on: below the file's size.
SectorsOf(file) ==
  {o \in 0 .. FileSize[file] - 1 : o % SectorSize = 0}

\* Mutant: the division is not rounded up.
PrefetchCountRoundedDown(size, offset) ==
  LET left == (size - offset) \div CACHE_BLOCK_SIZE
  IN  IF left > MAX_BLOCK_PREFETCH THEN MAX_BLOCK_PREFETCH ELSE left

\* Blocks a read schedules: those left in the file, in uint32_t arithmetic,
\* and at most MAX_BLOCK_PREFETCH.
PrefetchCount(size, offset) ==
  LET left == ((size - offset + CACHE_BLOCK_SIZE - 1) % UINT32)
                \div CACHE_BLOCK_SIZE
  IN  IF left > MAX_BLOCK_PREFETCH THEN MAX_BLOCK_PREFETCH ELSE left

\* The block that slot j of r's read asks for.
SlotKey(r, j) ==
  <<request[r].file,
    BlockOffset((request[r].offset + CACHE_BLOCK_SIZE * j) % UINT32)>>

\* The content the read of r must return.
Wanted(r) == SlotKey(r, 0)

\* The slots through which r holds a reference.
Held(r) == low[r] .. prefetch_count[r] - 1

(***************************************************************************)
(* The initial state: calloc-ed blocks, all threads at their start.        *)
(***************************************************************************)
NoRequest == [file |-> Empty, offset |-> 0]

Init ==
  /\ ref_count      = [b \in Blocks |-> 0]
  /\ block_state    = [b \in Blocks |-> "CLEAN"]
  /\ last_access    = [b \in Blocks |-> 0]
  /\ block_key      = [b \in Blocks |-> Empty]
  /\ buffer         = [b \in Blocks |-> Empty]
  /\ rpc            = [r \in Readers |-> "idle"]
  /\ request        = [r \in Readers |-> NoRequest]
  /\ prefetch_count = [r \in Readers |-> 0]
  /\ block_indexes  = [r \in Readers |-> [j \in Slots |-> 0]]
  /\ low            = [r \in Readers |-> 0]
  /\ out            = [r \in Readers |-> Empty]
  /\ fpc            = [f \in Fetchers |-> "idle"]
  /\ block_index    = [f \in Fetchers |-> 0]
  /\ response       = [f \in Fetchers |-> Empty]
  /\ aborted        = FALSE

\* The thread is at this point of its code, in a process that still runs.
ReaderAt(r, point)   == ~aborted /\ rpc[r] = point
FetcherAt(f, points) == ~aborted /\ fpc[f] \in points

(***************************************************************************)
(* read_sector_from_cache, run by a FUSE thread.                           *)
(***************************************************************************)

\* The call: prefetch_count is computed, no slot is scheduled yet.
Read(r, file, offset) ==
  LET count == PrefetchCount(FileSize[file], offset)
  IN  /\ ReaderAt(r, "idle")
      /\ request' = [request EXCEPT ![r] = [file |-> file, offset |-> offset]]
      /\ prefetch_count' = [prefetch_count EXCEPT ![r] = count]
      /\ low' = [low EXCEPT ![r] = count]
      /\ rpc' = [rpc EXCEPT ![r] = IF count = 0 THEN "wait" ELSE "schedule"]
      /\ UNCHANGED <<cacheVars, block_indexes, out, fetcherVars, aborted>>

\* The first block in array order that already has key k.
IsHit(b, k) ==
  /\ block_key[b] = k
  /\ \A c \in Blocks : c < b => block_key[c] # k

\* Mutant: the oldest block is recycled whether it is referenced or not.
IsOldest(b) ==
  \A c \in Blocks :
    \/ last_access[b] < last_access[c]
    \/ last_access[b] = last_access[c] /\ b <= c

\* The unreferenced block with the oldest access, the first of them on a tie.
IsVictim(b) ==
  /\ ref_count[b] = 0
  /\ \A c \in Blocks : ref_count[c] = 0 =>
       \/ last_access[b] < last_access[c]
       \/ last_access[b] = last_access[c] /\ b <= c

\* Access times replaced by their ranks; 0 stays "never accessed".
Ranks(access) ==
  [b \in Blocks |->
     IF access[b] = 0 THEN 0
     ELSE 1 + Cardinality({access[c] : c \in
                {d \in Blocks : access[d] > 0 /\ access[d] < access[b]}})]

\* last_access = time_msec(): the newest access, in the same millisecond as
\* the newest one so far or in a later one.
Touch(b) ==
  LET newest == CHOOSE n \in {last_access[c] : c \in Blocks} :
                  \A c \in Blocks : last_access[c] <= n
  IN  \E t \in {newest, newest + 1} \ {0} :
        last_access' = Ranks([last_access EXCEPT ![b] = t])

\* The tail of schedule_sector, common to a hit and a miss: the reference is
\* taken and the loop over the slots goes on.
TakeReference(r, b) ==
  LET j == low[r] - 1
  IN  /\ Touch(b)
      /\ ref_count' = [ref_count EXCEPT ![b] = @ + 1]
      /\ block_indexes' = [block_indexes EXCEPT ![r][j] = b]
      /\ low' = [low EXCEPT ![r] = j]
      /\ rpc' = [rpc EXCEPT ![r] = IF j = 0 THEN "wait" ELSE "schedule"]
      /\ UNCHANGED <<buffer, request, prefetch_count, out, fetcherVars, aborted>>

\* schedule_sector finds the block in the cache.
ScheduleHit(r) ==
  /\ ReaderAt(r, "schedule")
  /\ \E b \in Blocks :
       /\ IsHit(b, SlotKey(r, low[r] - 1))
       /\ TakeReference(r, b)
  /\ UNCHANGED <<block_state, block_key>>

\* Mutant: only a COMPLETED block is looked up, another is scheduled again.
ScheduleMissUnlessCompleted(r) ==
  LET k == SlotKey(r, low[r] - 1)
  IN  /\ ReaderAt(r, "schedule")
      /\ \A b \in Blocks : ~(block_key[b] = k /\ block_state[b] = "COMPLETED")
      /\ \E b \in Blocks :
           /\ IsVictim(b)
           /\ block_key' = [block_key EXCEPT ![b] = k]
           /\ block_state' = [block_state EXCEPT ![b] = "SCHEDULED"]
           /\ TakeReference(r, b)

\* Mutant: the state of the recycled block is not reset.
ScheduleMissKeepingState(r) ==
  LET k == SlotKey(r, low[r] - 1)
  IN  /\ ReaderAt(r, "schedule")
      /\ \A b \in Blocks : block_key[b] # k
      /\ \E b \in Blocks :
           /\ IsVictim(b)
           /\ block_key' = [block_key EXCEPT ![b] = k]
           /\ block_state' = [block_state EXCEPT ![b] =
                                IF @ = "CLEAN" THEN "SCHEDULED" ELSE @]
           /\ TakeReference(r, b)

\* schedule_sector recycles a block for the new key.
ScheduleMiss(r) ==
  LET k == SlotKey(r, low[r] - 1)
  IN  /\ ReaderAt(r, "schedule")
      /\ \A b \in Blocks : block_key[b] # k
      /\ \E b \in Blocks :
           /\ IsVictim(b)
           /\ block_key' = [block_key EXCEPT ![b] = k]
           /\ block_state' = [block_state EXCEPT ![b] = "SCHEDULED"]
           /\ TakeReference(r, b)

\* assert(block_index != -1) of schedule_sector fails: every block is held.
ScheduleAbort(r) ==
  /\ ReaderAt(r, "schedule")
  /\ \A b \in Blocks : block_key[b] # SlotKey(r, low[r] - 1)
  /\ \A b \in Blocks : ref_count[b] # 0
  /\ aborted' = TRUE
  /\ UNCHANGED <<cacheVars, readerVars, fetcherVars>>

\* The polling loop ends because it sees COMPLETED ...
WaitCompleted(r) ==
  /\ ReaderAt(r, "wait")
  /\ block_state[block_indexes[r][0]] = "COMPLETED"
  /\ rpc' = [rpc EXCEPT ![r] = "check"]
  /\ UNCHANGED <<cacheVars, request, prefetch_count, block_indexes, low, out,
                 fetcherVars, aborted>>

\* Mutant: the timeout counts only until the download has begun.
WaitExpiredInQueue(r) ==
  /\ ReaderAt(r, "wait")
  /\ block_state[block_indexes[r][0]] = "SCHEDULED"
  /\ rpc' = [rpc EXCEPT ![r] = "check"]
  /\ UNCHANGED <<cacheVars, request, prefetch_count, block_indexes, low, out,
                 fetcherVars, aborted>>

\* Mutant: block_state is not read again after the timeout.
WaitExpiredUnchecked(r) ==
  /\ ReaderAt(r, "wait")
  /\ block_state[block_indexes[r][0]] # "COMPLETED"
  /\ rpc' = [rpc EXCEPT ![r] = "copy"]
  /\ UNCHANGED <<cacheVars, request, prefetch_count, block_indexes, low, out,
                 fetcherVars, aborted>>

\* ... or because READ_SECTOR_TIMEOUT has passed.
WaitExpired(r) ==
  /\ ReaderAt(r, "wait")
  /\ block_state[block_indexes[r][0]] # "COMPLETED"
  /\ rpc' = [rpc EXCEPT ![r] = "check"]
  /\ UNCHANGED <<cacheVars, request, prefetch_count, block_indexes, low, out,
                 fetcherVars, aborted>>

\* Mutant: a failing read gives its block back before the loop that does so.
CheckFailedReleasing(r) ==
  /\ ReaderAt(r, "check")
  /\ block_state[block_indexes[r][0]] # "COMPLETED"
  /\ out' = [out EXCEPT ![r] = Failed]
  /\ rpc' = [rpc EXCEPT ![r] = "release"]
  /\ ref_count' = [ref_count EXCEPT ![block_indexes[r][0]] = @ - 1]
  /\ UNCHANGED <<block_state, last_access, block_key, buffer, request,
                 prefetch_count, block_indexes, low, fetcherVars, aborted>>

\* block_state is read again after the loop: the download may just have ended.
CheckFailed(r) ==
  /\ ReaderAt(r, "check")
  /\ block_state[block_indexes[r][0]] # "COMPLETED"
  /\ out' = [out EXCEPT ![r] = Failed]
  /\ rpc' = [rpc EXCEPT ![r] = "release"]
  /\ UNCHANGED <<cacheVars, request, prefetch_count, block_indexes, low,
                 fetcherVars, aborted>>

\* Mutant: every read ends with the copy.
CheckNothing(r) ==
  /\ ReaderAt(r, "check")
  /\ rpc' = [rpc EXCEPT ![r] = "copy"]
  /\ UNCHANGED <<cacheVars, request, prefetch_count, block_indexes, low, out,
                 fetcherVars, aborted>>

CheckCompleted(r) ==
  /\ ReaderAt(r, "check")
  /\ block_state[block_indexes[r][0]] = "COMPLETED"
  /\ rpc' = [rpc EXCEPT ![r] = "copy"]
  /\ UNCHANGED <<cacheVars, request, prefetch_count, block_indexes, low, out,
                 fetcherVars, aborted>>

\* The memcpy out of the block, outside the lock.
Copy(r) ==
  /\ ReaderAt(r, "copy")
  /\ out' = [out EXCEPT ![r] = buffer[block_indexes[r][0]]]
  /\ rpc' = [rpc EXCEPT ![r] = "release"]
  /\ UNCHANGED <<cacheVars, request, prefetch_count, block_indexes, low,
                 fetcherVars, aborted>>

\* release_cache_block for the next slot.
Release(r) ==
  /\ ReaderAt(r, "release")
  /\ low[r] < prefetch_count[r]
  /\ ref_count' = [ref_count EXCEPT ![block_indexes[r][low[r]]] = @ - 1]
  /\ low' = [low EXCEPT ![r] = @ + 1]
  /\ UNCHANGED <<block_state, last_access, block_key, buffer, rpc, request,
                 prefetch_count, block_indexes, out, fetcherVars, aborted>>

\* All slots are released: the call returns and its locals are gone.
Return(r) ==
  /\ ReaderAt(r, "release")
  /\ low[r] = prefetch_count[r]
  /\ rpc' = [rpc EXCEPT ![r] = "idle"]
  /\ request' = [request EXCEPT ![r] = NoRequest]
  /\ prefetch_count' = [prefetch_count EXCEPT ![r] = 0]
  /\ block_indexes' = [block_indexes EXCEPT ![r] = [j \in Slots |-> 0]]
  /\ low' = [low EXCEPT ![r] = 0]
  /\ out' = [out EXCEPT ![r] = Empty]
  /\ UNCHANGED <<cacheVars, fetcherVars, aborted>>

(***************************************************************************)
(* block_fetcher_thread.                                                   *)
(***************************************************************************)

\* Mutant: only blocks that somebody waits for are downloaded.
IsNextAwaited(b) ==
  /\ block_state[b] = "SCHEDULED" /\ ref_count[b] > 0
  /\ \A c \in Blocks : block_state[c] = "SCHEDULED" =>
       \/ ref_count[b] > ref_count[c]
       \/ ref_count[b] = ref_count[c] /\ b <= c

\* The scheduled block with the most references, then the lowest offset, then
\* the first in array order.
IsNextDownload(b) ==
  /\ block_state[b] = "SCHEDULED"
  /\ \A c \in Blocks : block_state[c] = "SCHEDULED" =>
       \/ ref_count[b] > ref_count[c]
       \/ /\ ref_count[b] = ref_count[c]
          /\ \/ block_key[b][2] < block_key[c][2]
             \/ block_key[b][2] = block_key[c][2] /\ b <= c

\* First critical section: a block is taken.
Pick(f) ==
  /\ FetcherAt(f, {"idle"})
  /\ \E b \in Blocks :
       /\ IsNextDownload(b)
       /\ ref_count' = [ref_count EXCEPT ![b] = @ + 1]
       /\ block_state' = [block_state EXCEPT ![b] = "DOWNLOADING"]
       /\ block_index' = [block_index EXCEPT ![f] = b]
  /\ fpc' = [fpc EXCEPT ![f] = "request"]
  /\ UNCHANGED <<last_access, block_key, buffer, readerVars, response, aborted>>

\* dbapi_get_file is called: path, rev and offset are read outside the lock.
RequestBlock(f) ==
  /\ FetcherAt(f, {"request"})
  /\ response' = [response EXCEPT ![f] = block_key[block_index[f]]]
  /\ fpc' = [fpc EXCEPT ![f] = "reply"]
  /\ UNCHANGED <<cacheVars, readerVars, block_index, aborted>>

\* The download succeeds: the buffer is zeroed ...
ReplyOk(f) ==
  /\ FetcherAt(f, {"reply"})
  /\ buffer' = [buffer EXCEPT ![block_index[f]] = Empty]
  /\ fpc' = [fpc EXCEPT ![f] = "fill"]
  /\ UNCHANGED <<ref_count, block_state, last_access, block_key, readerVars,
                 block_index, response, aborted>>

\* ... and filled.
Fill(f) ==
  /\ FetcherAt(f, {"fill"})
  /\ buffer' = [buffer EXCEPT ![block_index[f]] = response[f]]
  /\ fpc' = [fpc EXCEPT ![f] = "done"]
  /\ UNCHANGED <<ref_count, block_state, last_access, block_key, readerVars,
                 block_index, response, aborted>>

\* The download fails: an HTTP error, a broken connection, a curl timeout.
ReplyFailed(f) ==
  /\ FetcherAt(f, {"reply"})
  /\ fpc' = [fpc EXCEPT ![f] = "failed"]
  /\ UNCHANGED <<cacheVars, readerVars, block_index, response, aborted>>

\* Mutant: the reference is given back only if the download succeeded.
FinishLeaking(f) ==
  LET b == block_index[f]
  IN  /\ FetcherAt(f, {"done", "failed"})
      /\ block_state' = [block_state EXCEPT ![b] =
                           IF fpc[f] = "done" THEN "COMPLETED" ELSE "SCHEDULED"]
      /\ ref_count' = [ref_count EXCEPT ![b] =
                         IF fpc[f] = "done" THEN @ - 1 ELSE @]
      /\ fpc' = [fpc EXCEPT ![f] = "idle"]
      /\ block_index' = [block_index EXCEPT ![f] = 0]
      /\ response' = [response EXCEPT ![f] = Empty]
      /\ UNCHANGED <<last_access, block_key, buffer, readerVars, aborted>>

\* Mutant: a block whose download failed is not scheduled again.
FinishWithoutRetry(f) ==
  LET b == block_index[f]
  IN  /\ FetcherAt(f, {"done", "failed"})
      /\ block_state' = [block_state EXCEPT ![b] =
                           IF fpc[f] = "done" THEN "COMPLETED" ELSE @]
      /\ ref_count' = [ref_count EXCEPT ![b] = @ - 1]
      /\ fpc' = [fpc EXCEPT ![f] = "idle"]
      /\ block_index' = [block_index EXCEPT ![f] = 0]
      /\ response' = [response EXCEPT ![f] = Empty]
      /\ UNCHANGED <<last_access, block_key, buffer, readerVars, aborted>>

\* Second critical section: the block is published, or scheduled again.
Finish(f) ==
  LET b == block_index[f]
  IN  /\ FetcherAt(f, {"done", "failed"})
      /\ block_state' = [block_state EXCEPT ![b] =
                           IF fpc[f] = "done" THEN "COMPLETED" ELSE "SCHEDULED"]
      /\ ref_count' = [ref_count EXCEPT ![b] = @ - 1]
      /\ fpc' = [fpc EXCEPT ![f] = "idle"]
      /\ block_index' = [block_index EXCEPT ![f] = 0]
      /\ response' = [response EXCEPT ![f] = Empty]
      /\ UNCHANGED <<last_access, block_key, buffer, readerVars, aborted>>

-----------------------------------------------------------------------------

\* The steps of a read that was called.
ReaderStep(r) ==
  \/ ScheduleHit(r) \/ ScheduleMiss(r) \/ ScheduleAbort(r)
  \/ WaitCompleted(r) \/ WaitExpired(r)
  \/ CheckFailed(r) \/ CheckCompleted(r)
  \/ Copy(r) \/ Release(r) \/ Return(r)

FetcherStep(f) ==
  \/ Pick(f) \/ RequestBlock(f) \/ ReplyOk(f) \/ Fill(f) \/ ReplyFailed(f)
  \/ Finish(f)

Next ==
  \/ \E r \in Readers, file \in Files : \E o \in SectorsOf(file) :
       Read(r, file, o)
  \/ \E r \in Readers : ReaderStep(r)
  \/ \E f \in Fetchers : FetcherStep(f)

Spec == Init /\ [][Next]_vars

\* Every thread that can take a step takes one: the threads are scheduled, the
\* lock is held for short sections only, the clock advances to the timeout of
\* a wait and curl ends every transfer after REQUEST_TIMEOUT at the latest.
Fairness ==
  /\ \A r \in Readers : WF_vars(ReaderStep(r))
  /\ \A f \in Fetchers : WF_vars(FetcherStep(f))

FairSpec == Spec /\ Fairness

\* An assumption on the network, not on the code: a fetcher whose downloads go
\* on and on does not see all of them fail.
NetworkRecovers == \A f \in Fetchers : SF_vars(ReplyOk(f))

(***************************************************************************)
(* Properties.                                                             *)
(***************************************************************************)

\* Who holds a reference on block b: the slots of the reads in progress and
\* the fetcher that downloads it.
References(b) ==
  {h \in Readers \X Slots :
     h[2] \in Held(h[1]) /\ block_indexes[h[1]][h[2]] = b}
  \cup {h \in Fetchers \X {0} : fpc[h[1]] # "idle" /\ block_index[h[1]] = b}

\* The types of the shared blocks and of the locals of every thread.
TypeOK ==
  /\ ref_count \in [Blocks -> Nat]
  /\ block_state \in
       [Blocks -> {"CLEAN", "SCHEDULED", "DOWNLOADING", "COMPLETED"}]
  /\ last_access \in [Blocks -> Nat]
  /\ block_key \in [Blocks -> Keys \cup {Empty}]
  /\ buffer \in [Blocks -> Keys \cup {Empty}]
  /\ rpc \in
       [Readers -> {"idle", "schedule", "wait", "check", "copy", "release"}]
  /\ request \in
       [Readers -> [file : Files, offset : Nat] \cup {NoRequest}]
  /\ prefetch_count \in [Readers -> 0 .. MAX_BLOCK_PREFETCH]
  /\ block_indexes \in [Readers -> [Slots -> Blocks]]
  /\ low \in [Readers -> 0 .. MAX_BLOCK_PREFETCH]
  /\ out \in [Readers -> Keys \cup {Empty, Failed}]
  /\ fpc \in
       [Fetchers -> {"idle", "request", "reply", "fill", "done", "failed"}]
  /\ block_index \in [Fetchers -> Blocks]
  /\ response \in [Fetchers -> Keys \cup {Empty}]
  /\ aborted \in BOOLEAN

\* ref_count is exactly the number of holders of the block, whatever the order
\* in which reads take and give back their slots and fetchers come and go: no
\* reference leaks on a timeout or a failed download, none is given back twice.
ReferencesCounted ==
  \A b \in Blocks : ref_count[b] = Cardinality(References(b))

\* While a read holds a slot, the block behind it keeps the key it was
\* scheduled for, and the block of a download the key that was asked for,
\* although other reads recycle blocks all the time.
HeldBlockKept ==
  /\ \A r \in Readers : \A j \in Held(r) :
       block_key[block_indexes[r][j]] = SlotKey(r, j)
  /\ \A f \in Fetchers : fpc[f] \notin {"idle", "request"} =>
       response[f] = block_key[block_index[f]]

\* A block is DOWNLOADING exactly while one fetcher works on it, and never two:
\* no block is downloaded twice at a time, none is left behind DOWNLOADING.
OneFetcherPerBlock ==
  /\ \A b \in Blocks : block_state[b] = "DOWNLOADING" <=>
       \E f \in Fetchers : fpc[f] # "idle" /\ block_index[f] = b
  /\ \A f, g \in Fetchers :
       fpc[f] # "idle" /\ fpc[g] # "idle" /\ block_index[f] = block_index[g]
         => f = g

\* The buffer of a COMPLETED block holds the content its key names, although
\* the fetcher reads the key and writes the buffer outside the lock.
CompletedHoldsKey ==
  \A b \in Blocks : block_state[b] = "COMPLETED" => buffer[b] = block_key[b]

\* No two blocks cache the same part of the same file revision.
KeysUnique ==
  \A b, c \in Blocks : block_key[b] = block_key[c] /\ block_key[b] # Empty
    => b = c

\* No fetcher zeroes or fills the buffer a read is about to copy from.
NoTornCopy ==
  \A r \in Readers : \A f \in Fetchers :
    rpc[r] = "copy" /\ fpc[f] # "idle" => block_indexes[r][0] # block_index[f]

\* A read returns an error or the content of the block of its own path, rev
\* and offset, never another file's, an older revision's or a half-written one.
ReadReturnsRequested ==
  \A r \in Readers : out[r] \in {Empty, Failed, Wanted(r)}

\* The assertion of schedule_sector holds: "There should always be at least
\* one free block" (dbfiles.c:120).
AlwaysAFreeBlock == ~aborted

\* A block leaves COMPLETED only while nobody holds a reference on it, so what
\* the polling loop saw still holds when block_state is read again after it.
CompletedUntilRecycled ==
  [][\A b \in Blocks :
       block_state[b] = "COMPLETED" /\ block_state'[b] # "COMPLETED"
         => ref_count[b] = 0]_vars

\* Every read returns: a COMPLETED block, a failure or the timeout ends its
\* wait and all its slots are released.
ReadReturns ==
  \A r \in Readers : rpc[r] # "idle" ~> rpc[r] = "idle"

\* If the network recovers and no more reads are called, the queue drains: every
\* block that was scheduled, by a prefetch or by a read that timed out, is
\* downloaded at last, also one that failed and those that stand behind it in
\* the priority order.
QueueDrains ==
  NetworkRecovers /\ <>[](\A r \in Readers : rpc[r] = "idle")
    => <>[](\A b \in Blocks : block_state[b] \in {"CLEAN", "COMPLETED"})

(***************************************************************************)
(* The cache implements BlockRead: the answer of a call is out.            *)
(***************************************************************************)
Requests ==
  UNION {{[file |-> file, offset |-> o] : o \in SectorsOf(file)} :
            file \in Files}

Abs == INSTANCE BlockRead WITH
         asked <- request, answer <- out, NoAnswer <- Empty,
         ContentOf <- [q \in Requests |-> <<q.file, BlockOffset(q.offset)>>]

\* Seen from the FUSE threads the cache is the promise of BlockRead: each call
\* is answered once, by a failure or by the content its own request names.
AnswersRequests == Abs!Spec

=============================================================================
