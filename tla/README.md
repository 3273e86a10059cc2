# DropboxBox in TLA+

DropboxBox shows a Dropbox folder as one file, `dbbox.img`, that is a read-only
FAT32 image: a kernel mounts the image, and the sectors it reads are computed
from a directory tree in memory or downloaded in blocks. This directory models
the program in TLA+, checks the models with TLC and proves the central ones
with TLAPS.

## 1. The system

`main` (dbbox.c:115-125) runs in this order, and the order decides which
behaviours are concurrent:

1. `initialize_dbfat`: an empty tree, an empty allocation table;
2. `initialize_file_cache`: the blocks of the cache, and the fetcher threads;
3. `start_dbapi_thread`: despite its name it reads the Dropbox folder
   synchronously, page by page, into the tree; the thread is commented out;
4. `fuse_main`: any number of FUSE threads read the image. From here on the
   tree never changes.

| part | state | operations | talks to |
|---|---|---|---|
| file block cache, dbfiles.c | `file_cache[]`: key, state, reference count, access time, buffer; one mutex | `read_sector_from_cache` (FUSE threads), `block_fetcher_thread` (8 threads) | called by the volume, downloads through `dbapi_get_file` |
| cluster allocator, cluster.c | `FAT_ENTRIES`, `DIR_ENTRIES`, `LAST_FREE_ENTRY` | allocate, reallocate, free a chain; look a cluster up | called by the tree under its write lock, by the volume under its read lock |
| directory tree, dbfat.c | linked `DirEntry`s; a read-write lock | add, remove, remove all | called by the synchronisation, calls the allocator |
| delta synchronisation, dbapi.c | `dbapi_cursor` | `dbapi_update` in a loop | asks Dropbox, edits the tree |
| directory listing, dbfat.c | none | `read_dir_sector` | reads the tree |
| volume, dbfat.c and dbbox.c | none | `dbbox_read`, `read_data`, `read_sector` | reads the tables, the tree and the cache |
| names, dbfat.c and dbapi.c | none | `get_file_path`, `utf16_to_utf8`, `db_url_escape` | make the path of a block and the URL of a request |
| HTTP, OAuth, JSON, FUSE glue | none of interest | | not modelled |

What is hard in each part, and so what the properties are about:

* **cache**: readers and fetchers share blocks whose buffers they read and write
  outside the lock; reads time out while their downloads go on; downloads fail
  and are tried again; the pool is small. Correct means: nobody reads a foreign
  or half-written buffer, no reference leaks, the pool is never exhausted, every
  read returns, and what was scheduled is downloaded.
* **allocator**: loops over a table they change. Correct means: chains are
  disjoint, end, and are exactly as long as the size of their entry.
* **tree**: files and directories replace each other at any depth, chains follow
  the sizes of directories. Correct means: the lists and the entries agree, and
  what a directory lists fits in its clusters.
* **synchronisation**: pages, resets, failures, while the folder changes.
  Correct means: what is served is the folder as of the cursor.
* **listing, volume**: pure computations at sector boundaries. Correct means:
  sector by sector they give what the layout of FAT32 defines, and a driver reads
  from it what the tree has.
* **names**: the name of a file goes one way into the directory entries and another
  into the URL of a request, through four encodings and a `uint8_t` or `char` at
  most turns. Correct means: the file that is asked for is the file that is shown.

## 2. The modules

| module | models | composed with |
|---|---|---|
| `BlockRead` | what the cache promises: a call has one answer, a failure or the content it named | |
| `BlockCache` | dbfiles.c | implements `BlockRead` (`AnswersRequests`) |
| `BlockCacheProofs` | theorems about `BlockCache` | |
| `ClusterSize` | how many clusters a number of bytes needs | shared by `ClusterChain` and `DirTree` |
| `ClusterChain` | cluster.c, one loop iteration per action | |
| `ClusterChainProofs` | which clusters a chain has and how an assignment to the table changes it; theorems about `ClusterChain` | |
| `DirTree` | the tree operations of dbfat.c, one call per action, and the calls of cluster.c each of them makes | |
| `DirTreeProofs` | what each function of the tree makes of it; theorems about `DirTree` | |
| `FatVolume` | the tree on the allocator, under the write lock | `EXTENDS ClusterChain, DirTree` |
| `FatVolumeProofs` | the composition implements the allocator; tables and tree agree | `EXTENDS FatVolume, ClusterChainProofs, DirTreeProofs` |
| `DeltaSync` | `dbapi_update` and its loop, with Dropbox as environment | `EXTENDS DirTree` |
| `DeltaSyncProofs` | theorems about `DeltaSync` | `EXTENDS DeltaSync, DirTreeProofs` |
| `DirListing` | `read_dir_sector`, `get_dir_contents`, `set_short_name`, `name_checksum` | |
| `FileNames` | `get_file_path`, `utf16_to_utf8`, `db_url_escape`, `hex_char` | `EXTENDS DirListing` |
| `DirListingProofs` | theorems about `DirListing` and `FileNames` | `EXTENDS FileNames, SetInduction` |
| `VolumeRead` | `dbbox_read`, `read_data`, `read_sector` | the failure of a sector is that of `BlockRead` |
| `VolumeReadProofs` | theorems about `VolumeRead` | |
| `SetInduction` | induction and recursion in the form of sets and functions, what `FlattenSeq` makes | |
| `MC...` | instances for TLC | |

Operators whose comment begins with "Mutant:" belong to no specification. Each
is a definition with a plausible bug; in place of the original it makes a
property of a run fail, which shows that the property depends on that line.

### BlockCache

The lock protects four critical sections; each is one action:
`ScheduleHit`/`ScheduleMiss`/`ScheduleAbort` (schedule_sector, lines 91-138),
`Release` (140-144), `Pick` (191-207), `Finish` (236-239). What runs outside the
lock is split where others can interfere: the end of the polling
(`WaitCompleted`, `WaitExpired`, 165-169), the second look at `block_state`
(`CheckFailed`, `CheckCompleted`, 172), the copy (`Copy`, 176), the reading of the
key for the request (`RequestBlock`, 218-222), the memset and the memcpy of the
response (`ReplyOk`, `Fill`, 226-227).

| variable | code |
|---|---|
| `ref_count`, `block_state`, `last_access`, `buffer` | fields of `CachedBlock` |
| `block_key` | `utf8path`, `rev` and `offset` of it |
| `rpc`, `request`, `prefetch_count`, `block_indexes`, `out` | program counter, arguments and locals of a read |
| `low` | the loop variables of lines 156 and 180: slots `low .. prefetch_count - 1` hold a reference |
| `fpc`, `block_index`, `response` | program counter and locals of a fetcher |
| `aborted` | an assertion ended the process |

Abstractions: path and rev are one value; the content of a buffer is the key it
was downloaded for; access times are ranks, since the code only compares them,
and two accesses may have the same time; a wait may expire at any moment, which
includes a timeout that comes together with the download; offsets keep the
width of a `uint32_t`. `block_state` and `ref_count` are `volatile` and read
without the lock in the polling loop: the model is sequentially consistent.
`DeltaSync` has ended when the first read comes, so that files do not change.

### ClusterChain

`FAT_ENTRIES`, `DIR_ENTRIES` and `LAST_FREE_ENTRY` are the tables of cluster.c;
`pc`, `entry`, `start`, `next_cluster`, `current_size`, `extending` and `freed` are
the call that runs (there is at most one, the callers hold the write lock).
`first_cluster` is the field of the entries, `size` the size that the chain of an
entry was last asked for: a file's is its `metadata.size`, a directory's may
have grown since. Every iteration of the
loops of `allocate_cluster_chain` (76-89), `reallocate_cluster_chain` (99-111)
and `free_cluster_chain` (124-128) is an action, so that the order in which
clusters are marked and searched for is the order of the code.

### DirTree

`tree` maps paths to entries; `children` is the linked list, newest first;
`clusters` is the length of the chain. `Added` follows the loop of
`add_file_entry` component by component. A chain that grows by k clusters gets
half of them, rounded up (`Reallocated`); that the allocator does just that is
`TablesMatchTree` of `FatVolume`. The code reads `next` of an entry it has freed (lines 162, 601);
the models take the value that the allocator of the build leaves there.

The operators that edit the tree map a record of the tree and a list of calls to
the next one; the list is what the code calls in cluster.c, in its order, from the
removal of the deepest entry to the allocation for the new one. `DirTree` itself
uses the tree only.

### FatVolume

An operation of `DirTree` (`BeginAddFileEntry`, `BeginRemoveFileEntry`,
`BeginRemoveAllFileEntries`) sets `tree` and `calls`; then `Call` begins the next call
of the list and `Go` carries it out iteration by iteration, until the list is
empty. Nobody else sees what lies between, because the operation holds the write
lock; so the tree may change in one step although the code changes it and the
tables by turns. What the composition adds: the calls come for entries, in an order
and with sizes that the program makes, the tables hold what the tree says, and the
number of clusters that `DirTree` and `DeltaSync` go by is the length of the real
chain. `Call` has the guards that the actions of `ClusterChain` have, so a call at
the wrong time would wait there for ever; `CallsReady` says that none does.

### DeltaSync

In `DeltaSync` a cursor is a position in the journal of the folder, `applied` is
the loop index of `dbapi_update`, and `Change` lets the folder change at any
moment. `Namespace` is the meaning of the journal, kept without any of the tree's
machinery: the comment at dbfat.c:531-534 states it for parents, the rest is how
src/ uses the entries. The sizes of `Changes` are those that `dbapi_update` has cut to
`FAT_MAX_FILE_SIZE` (dbapi.c:260-266). Dropbox itself is external.

### DirListing, FileNames and VolumeRead

They are pure: an initial state is a directory or a placement of chains, a step
is a call or an iteration of its loop, and the property compares the result with
an independent definition (`Listing` and what a driver reads from it, `Image`).
A name is its UTF-16 code units; the short name, the checksum, the parts in the
long entries, `wll` with the characters that lie behind the name, the two halves of
the cluster number, also those of the directory and its parent in "." and "..", and
the `uint8_t` of `name_offset` are computed as the code does.
`set_short_name` calls its helper at the last dot, where it stops at once: the
extension of every short name is blank. `FileNames` adds the way to the URL;
`CHAR_SIGNED` says what `char` is, since `db_url_escape` divides chars. `Image` goes from the chains to
the sectors, the code from the sector to the chain. A read of `VolumeRead` begins
at any byte of the image, as dbbox.c:95 lets it. What read_data makes of one that
begins inside a sector is wrong (dbfat.c:445), so that the properties that hold are
about reads that begin at a sector boundary (`Aligned`): those are what the page
cache of the kernel makes of all reads, with the mount of mount_dbbox.sh. The image of
the runs has, as the program's, sectors behind its last cluster that no cluster has.

## 3. The runs

| run | question | bounds | result |
|---|---|---|---|
| `cache_safety` | are references, keys, states and buffers consistent in every interleaving, and does the cache implement `BlockRead`? | 2 readers, 2 fetchers, 2 blocks, 3 keys in 2 files, prefetch 2 | holds |
| `cache_serving` | is there always a free block, does every read return, is everything scheduled downloaded at last? | 1 reader, 1 fetcher, prefetch 1, 2 blocks, 3 keys | holds |
| `cache_pool_short` | is there always a free block, with as many blocks as fetchers, as shipped? | 1 reader, 2 fetchers, 2 blocks, prefetch 2, 2 files of 2 blocks | violated |
| `fat_volume` | do the tables hold the chains of the tree; are chains disjoint, finite, complete and not too long, does every operation end, does every call come when its chain is there, does the allocator abort only when full? | 5 clusters, 4 paths up to 3 deep, files of 1, 2 and 3 clusters, directories of up to 2 | holds |
| `chain_short` | are chains long enough? | growth by two clusters | violated |
| `tree_filled` | do directories fit in their chains? | 3 names, whose entries fill a cluster exactly | violated |
| `delta_root` | is the folder as of the cursor served, do lists and entries agree, and does the synchronisation end? | 3 changes of 5 paths up to 3 deep, pages of 2, 2 resets, removals in the root directory | holds |
| `delta_nested` | is the folder as of the cursor served? | removals anywhere | violated |
| `dir_listing` | are the sectors of a directory its listing, when do they fit in the buffer they are made in, does it say of every child what it is, does a request name the file that is listed? | every list of up to 4 of 7 children, names below, at and above the end of an entry and of more entries than a sector has, with dots, blanks, percent signs, characters of 1 to 3 bytes | holds |
| `url_signed` | are the digits of an escaped path digits? | the same, where `char` is signed | violated |
| `volume_read` | does a read that begins at a sector boundary return the bytes of the image? | 19 sectors of 3 bytes, every placement of 2 entries on the clusters, every start and every length up to 7 | holds |
| `volume_beyond` | the same, for an image larger than the `uint32_t` range | | violated |

**Why the bounds are enough.** In `cache_safety` two blocks for three keys make
every schedule compete for a block: hits, misses, recycling of completed,
failed and waiting blocks, both fetchers on different blocks, the failing
assertion and a second read of a block in every state all happen. Two blocks
in `cache_serving` are exactly one for the slot of the reader and one for the
fetcher: a read that times out leaves its block to the fetcher while the next one
needs the other, and the third key must displace one of them. More readers or
slots need more blocks and still more keys, which is what the theorem
`PoolNeverEmpty` is for.
In `fat_volume` the files and directories can fill all five clusters, so that
chains are fragmented, the search wraps around and a call of every kind may find
no cluster. Two levels of directories below the root are the least at which the
removal of an entry cuts a chain that is removed itself, and an entry size that
does not divide a cluster makes directories grow and shrink. In `delta_root` a
journal longer than a page gives `has_more`, and a reset can come before, between
and after pages. In `dir_listing` a sector has four entries and a long entry three
characters instead of 16 and 13, so that four children span several sectors. The theorems of section 4 hold without these bounds.

**Fairness.** `BlockCache!FairSpec`: weak fairness of each thread. The code never
holds the lock for long, polls with timeouts, ends a wait after 30 seconds and
lets curl end every transfer after 60 (`CURLOPT_TIMEOUT`). Nothing in the code
makes a download succeed; `QueueDrains` assumes it of the network
(`NetworkRecovers`: a fetcher that tries again and again does not always fail),
and only there: `ReadReturns` holds although every download may fail. While reads
keep coming a scheduled block may wait for ever, because the order of the downloads is by references and offset, not by age;
therefore the property asks only that the queue drains once reads have stopped.
`VolumeSpec` and `DeltaSync!FairSpec`: the one thread that runs goes on; nothing is
assumed of when an operation begins.
The journal is bounded: a folder that changes faster than it is read could keep
the synchronisation from ending.

**Deadlock** is checked in `cache_serving` and `tree_filled`. It is switched off where the modelled
system stops: an assertion that fails ends the process (`cache_safety`,
`cache_pool_short`, `fat_volume`, `chain_short`), bounds of the journal are reached
(`delta_`), a read is followed to its end only (`volume_`), a directory is made only once
(`dir_listing`, `url_signed`).

### What the violations say

* **The pool is too small** (dbfiles.c:16, 120). The comment asks for more blocks
  than `max_prefetched_blocks * fuse_threads + block_fetcher_thread_count`; the
  constants give 8 blocks, 8 fetchers and prefetch 2. Reads give up after 30
  seconds, their downloads after 60 only, and a download keeps its block. The run
  shows it with a single reader, for whose two slots the two blocks suffice: its read
  gives up while the block is downloaded, and the next read, of another file, finds
  one block for its two slots, so that the assertion fails.
* **A chain that grows by k clusters gets about k/2** (cluster.c:105). The cluster
  that was just linked is still free in the table and is found again.
* **A directory that fills a cluster exactly is not extended** (dbfat.c:135).
* **A removed entry below the root stays** (dbfat.c:573): the loop of
  `remove_file_entry` does not advance.
* **Reads beyond 4 GB return foreign content** (dbbox.c:95).
* **A name beyond ASCII ends the process where char is signed** (dbapi.c:66):
  `url[i] / 16` is negative and the assertion of `hex_char` fails, on x86 though not
  on the Beaglebone.

Five more places have no run of their own; the models keep all of them.

* **A read that begins inside a sector** (dbfat.c:445): the bytes before it are
  subtracted twice. A read of one byte at offset 1 fails the assertion of line 446,
  longer ones may take too few bytes from the first sector, or some from behind
  `tmp_sector`. `volume_read` makes such reads; its properties are about the others,
  which are all that come through the page cache.
* **A long name** (dbfat.c:343): a name of more than 208 of the 255 characters that
  Dropbox allows has 18 to 21 entries, which behind 15 others do not fit in the two
  sectors of `tmp_buf`. `dir_listing` has such children, and `BufferSuffices` says
  exactly when the buffer overflows.
* **The prefetch count** wraps to 0 (dbfiles.c:148) for a file within a block of 4 GB.
  The sizes of the runs stay clear of it.
* **The size of a chain** wraps (cluster.c:85) above 0xFFFF8000 bytes, such as in every
  file of 4 GB and more, and the loop takes every cluster and aborts. The sizes of the
  runs stay clear of it.
* **A directory whose chain was cut** by a removal is not extended again, because the
  size is restored after it (dbfat.c:187). `DirHoldsChildren` fails in `tree_filled`
  before it comes to this.

## 4. The proofs

The theorems hold for every value of the constants that satisfies the
assumptions of the modules; TLC evaluates these on every run. Where a theorem has
a condition of its own, it stands in its statement and below.

| module | theorem | says | condition |
|---|---|---|---|
| `BlockCacheProofs` | `TypeCorrect`, `CountsHold`, `KeysHold`, `OneFetcherHolds`, `ContentHolds` | the safety invariants of `cache_safety` | |
| | `NoDuplicateBlock`, `RecycledOnlyUnreferenced` | no block is cached twice, none is recycled while it is held | |
| | `ReadsCorrect`, `CopiesNotTorn`, `Refinement` | reads return what they asked for, the cache implements `BlockRead` | `NoWrap` |
| | `PoolNeverEmpty` | `schedule_sector` never aborts | `PoolSuffices` |
| `ClusterChainProofs` | `TypesHold`, `EndsHold`, `PartitionHolds`, `TightHolds`, `FitHolds` | chains end, are disjoint and complete and not too long | |
| | `AbortsHold` | the allocator aborts only when full | `SizesReachable` |
| `FatVolumeProofs` | `VolumeAllocates` | the tree on the allocator implements the allocator | |
| | `VolumeChainsHold`, `VolumeCallsFit`, `VolumeAbortsHold` | so what is proved of chains is true of the volume | the last one: `SizesReachable` |
| | `VolumeInvariance`, `TablesMatch`, `CallsComeReady` | the tables hold the chains of the tree; no call comes for a chain that is not there, or there already | |
| `DirTreeProofs` | `TreeInvariance`, `TreeStaysLinked` | lists and entries agree | |
| `DeltaSyncProofs` | `SyncInvariance`, `SyncStaysLinked` | they do in whatever the synchronisation makes | |
| | `SyncTypesHold` | cursor, page and tree keep their types | |
| | `ServedAsOfCursor` | what is served is the folder as of the cursor | `RootRemovals` |
| `DirListingProofs` | `ListingInvariance`, `SectorsShowListing` | a sector made on its own is that part of the listing | |
| | `BufferIsEnough` | `read_dir_sector` stays within its buffer exactly when no child overhangs it | |
| | `ListingTells` | a driver reads from the listing what the children are | |
| | `RequestsAreForListed`, `HexDigitsAlwaysHold` | requests name the listed file; the assertions of `hex_char` hold | `CharsFit` |
| `VolumeReadProofs` | `AssertionsNeverFail` | the assertions of `read_data` hold | the read begins at a sector boundary (`Aligned`) |
| | `ReadsAreCorrect` | a read returns the bytes of the image | `Aligned`, and the read ends within 4 GB |

### BlockCacheProofs

For any finite numbers of readers and fetchers, any
number of blocks, any prefetch and any files: what `cache_safety` checks on an
instance, and `AlwaysAFreeBlock` of `cache_serving`.

* The inductive invariant `Inv` is the conjunction of `TypeOK`,
  `ReferencesCounted`, `SlotsKept`, `OneFetcherPerBlock`, `CompletedHoldsKey`
  and the facts these need of the program counters: which slots a reader
  holds at each point, and what a fetcher knows of its block. None of them is
  inductive alone: a block keeps its key only because it is recycled at
  reference count 0, and count 0 excludes holders only because the
  counts are exact. `Invariance` proves it, with one lemma per action;
  `TypeCorrect`, `CountsHold`, `OneFetcherHolds` and `ContentHolds`
  are its parts. `KeysHold` joins two of them: the blocks that slots hold keep the
  key they were scheduled for (`SlotsKept`), and a block that is downloaded keeps
  the one that was asked for (`FetcherInv`).
* `RecycledOnlyUnreferenced` proves the action property
  `CompletedUntilRecycled` from it, and `NoDuplicateBlock` proves `KeysUnique`
  with a second invariant.
* `ReadsCorrect` and `CopiesNotTorn` need the assumption `NoWrap`: no file is
  within a block of the end of the `uint32_t` range. It is needed: with
  `prefetch_count` 0 a read waits for a block it holds no reference on. The
  argument: a reader that waits holds slot 0, so its block keeps the key; a block
  it sees COMPLETED stays so; the buffer of a COMPLETED block holds its key.
* `Refinement`: under the same assumption every step of the cache is a step of
  `BlockRead` or leaves its variables alone.
* `PoolNeverEmpty`: under `PoolSuffices` (a block for every slot of every reader
  and for every fetcher) the assertion of `schedule_sector` never fails. The
  argument counts: were all the blocks referenced, there would be as many
  distinct holders as blocks; but the slot that is about to be filled is not one.
  `cache_pool_short` shows what happens below that number.

### ClusterChainProofs

The tables are consistent only between two calls. Inside one, the cluster at which
the call stands is to be the end of a chain but may not be marked as one yet, and a
chain that grows or is freed is in pieces. The invariant is therefore about the
table as it *will* be marked: `Table` is `FAT_ENTRIES` with `next_cluster` as EOFC
where the code has yet to write that, `Owners` likewise, and `Heads` are the
first clusters of all chains, those of the entries, the new one and what is left of one
that is being freed. `ChainInv` says that in `Table` the chains of the heads are
disjoint, end, and cover what is not free, and that each cluster names its entry.

* An iteration makes one of four edits of such a table: it makes a chain of one
  cluster, links a free cluster to the end of a chain, cuts a chain in two, or frees
  the head of one (`HeadAdded`, `ChainExtended`, `ChainCut`, `HeadFreed`). Each lemma
  says what becomes of every chain, from three facts on a chain: it has its first
  cluster, is closed under links, and is the least such set.
* `TypesHold`, `EndsHold` and `PartitionHolds` follow from `Inv`, for any number of
  clusters and entries and any sequence of calls.
* `TightHolds` and `FitHolds` need `SizeInv` as well: how many clusters a call has
  passed, and that `current_size` is that many clusters. Above 0xFFFF8000
  `current_size` wraps (`Unreachable`); then the call never returns (`Endless`), so that
  both theorems hold without a condition on sizes. They use that the `uint32_t`
  range is a multiple of the cluster size.
* `AbortsHold` counts: when the search fails, the sizes of the chains add up to
  `N_CLUSTERS - 2`; each is within the need of its entry, and the call needs one
  more. It needs `SizesReachable`, since a call whose size is not reachable takes
  every cluster there is, whatever the others leave.

### FatVolumeProofs

A call that an operation of the tree lists is carried out by the action of
`ClusterChain` for it, under the guard of that action, and an operation begins only
when no call runs. So `VolumeSpec => Spec`, every behaviour of the composition is one
of the allocator (`VolumeAllocates`), and the theorems above are theorems of the
volume. That alone does not say that the calls are the right ones, or that any of them
gets past its guard. `TablesMatch` and `CallsComeReady` do, and need an invariant over
tree, list of calls and tables together, `VolumeInv`:

* `After` says what one call makes of the lengths of all chains, by path, and `Ready` for
  which lengths it may come. `Replay(l, calls, m)` says that the calls lead, each of them
  ready in its turn, from the lengths `l` to the lengths `m`.
* `Settled` are the lengths that the tables will have when the call that runs
  returns. A chain that grows gets one cluster for every two it is asked for
  (`Reallocated`), because of the double find at cluster.c:105; `ExtInv` and
  `WalkSettles` follow the loop to show it. A call whose size wraps (`Stuck`) never
  returns, and so nothing is claimed of what it leaves.
* The invariant: the remaining calls lead from `Settled` to the lengths in the tree. It is
  set up by every operation, and every call takes one off the list. When the list is empty
  it is `TablesMatchTree`; while it is not, its first call is ready, which is `CallsReady`.
* That an operation sets it up is the larger part of the proof. The calls of a removal are
  made by recursion over the tree (`RemovalReplays`): every removed child cuts the chain of
  a directory that is freed later, so that the lengths in between are not those of any
  tree, and `Cleared` says which they may be. `ChildLeaves`, `ChildJoins`,
  `FileResized` and `ParentInOrder` say that each step of the loops of `add_file_entry`,
  `remove_file_entry` and `remove_all_file_entries` adds calls that lead from the old
  lengths to the new ones (`InOrder`).

`Replay` quantifies over functions, so that TLC cannot evaluate `VolumeInv` as a whole; it
checks the two properties, `TypeOK` and the invariants of the chains.

### DirTreeProofs and DeltaSyncProofs

`IsTree` is the inductive invariant of the tree: entries have their types, whatever
has a path is below a directory, and the list of a directory has the names below
it, each once. One conjunct is not obvious: a directory never has fewer bytes than the entry
of any of its children. Without it the removal of a child could ask the allocator
for a negative size, and the number of clusters would not stay a positive number.

Beyond the invariant, the lemmas state *exactly* what `add_child_entry`,
`remove_child_entry` and the loops of `add_file_entry` and
`remove_all_file_entries` make of the tree: which paths there are afterwards, and which
entries are unlike the ones before (`ChildAdded`, `ChildRemoved`, `LastAdded`,
`ParentAdded`, `FileAdded`, `FileRemoved`, `AllRemoved`). The loops are recursive
functions; `AddWalkExists` and `RemovalWalkExists` show that the functions exist, and
the rest is induction over the components of a path or the children of the root.

`ServedAsOfCursor` uses them. `Applied` says that the tree, seen as a set of files
and directories, is the folder after the first `applied` changes of the journal. The
meaning of a change is defined without the tree (`With`, `Without`), so the step
`ApplyEntry` is where both meet: add_file_entry, which creates parents, replaces files by
directories and removes subtrees, must come to the same as the definition.
`RootRemovals`, the condition, is that only entries of the root are removed. It
cannot be left out, as the run `delta_nested` shows: remove_file_entry ignores every
other path. Resets, pages, failing requests and changes meanwhile need no condition.

### VolumeReadProofs

`ReadInv` follows a read that begins at a sector boundary byte by byte: after every iteration the buffer holds the
first `n` bytes of what was asked for and the loop stands at the beginning of the
sector that has the next one. Hence the assertions of `read_data`. For
`ReadsAreCorrect` the code's way from a sector to its cluster, entry and position on
the chain is shown to be the inverse of the layout's way from chains to sectors
(`Image`); the recursion of `get_cluster_chain_size` ends at the position it is
asked for because a chain has no cluster twice. Neither theorem claims anything of reads that
begin inside a sector, for which line 445 is wrong. `ReadsAreCorrect` is about reads
that end within the `uint32_t` range; `volume_beyond` shows that the others do return
foreign content.

### DirListingProofs

`DirListing` and `FileNames` compute; what has to be proved are facts about the loops,
for any children, with names of up to 255 characters, as many as the `uint8_t` of the
code counts, and any number of entries in a sector.

* `SectorsShowListing`: the loops of `read_dir_sector` look for the first and last
  child of a sector by adding up numbers of entries. The lemmas on offsets say where
  each child begins in the whole listing; `StopFacts` says of which children the
  loop writes the entries, and `FilledShows` that what it has written from there
  (`Shows`) is the listing from the beginning of the first of them. The copy at the end
  then takes the sector out of it.
* `BufferIsEnough`: the buffer of the model has no end, the code's is two sectors long.
  The lemmas say that what was written ends with a whole child that begins before the
  end of the sector (`EndsWhole`), and so it is too long exactly when that child
  ends behind the second sector (`OverhangsAreBeyond`). A name of 208 characters or
  less has too few entries for that.
* `ListingTells`: short entries stand exactly at the ends of children
  (`ShortPlaces`), so that the n-th of them is that of the n-th child. The long
  entries before it, gathered part by part, have the name, then the
  terminator, then padding (`CharAt`, `PartsGathered`, `NameIsRead`), and no place
  is left with what was in the buffer before.
* `RequestsAreForListed`: the path of an entry is that of its directory and its name
  (`PathIs`), what `utf16_to_utf8` makes of it are bytes (`Utf8Typed`), and
  what `db_url_escape` makes of a byte decodes to that byte (`EscapeDecoded`). The
  condition `CharsFit` is that char is unsigned or all names are ASCII. Either kind of platform
  can meet it, and `url_signed` shows that it cannot be left out. Names are
  in the basic plane, as the code takes them to be.

### Only model-checked

* Liveness (`ReadReturns`, `QueueDrains`, `OperationsEnd`, `ServingStarts`): fairness
  and ENABLED are out of reach of the prover.
* Theorems that take an operator as a parameter, such as those for induction over
  data, cannot be used with the installed provers. `SetInduction` states induction and
  definition by recursion with sets and functions instead, and proves both from the
  well-foundedness of the natural numbers.

## 5. Not modelled

HTTP and OAuth (I/O; their outcomes are actions), the vendored JSON parser, iconv
beyond the encoding of the basic plane, the constant tables of the boot sector,
time stamps, `getattr`, `readdir` and `open`, the build and mount scripts.
Responses are well-formed and no longer than what was asked for. The decimal form
of a range and the lifetime of allocated memory are not modelled, nor is the memory
model of C. That short names differ within a directory is not stated: the code
says itself (dbfat.c:90) that it does not see to it.

## 6. Plan

Done, in this order: `BlockCache` with `BlockRead` and its proofs, `ClusterChain`,
`DirTree`, `DeltaSync`, `DirListing`, `VolumeRead`, `FatVolume`, `FileNames`,
`ClusterChainProofs`, `FatVolumeProofs`, `VolumeReadProofs`, `DirTreeProofs`,
`DeltaSyncProofs`, `DirListingProofs`.

Next: `DbBox`, the composition of the serving phase: FUSE reads over `VolumeRead`
with the answers of `BlockRead`, and a run that takes the place of `volume_read`.
