------------------------------ MODULE VolumeRead ------------------------------
(***************************************************************************)
(* Reading the image: dbbox_read of dbbox.c, read_data and read_sector of  *)
(* dbfat.c.  A FUSE read of bytes of the image becomes a loop over its     *)
(* sectors; a sector is mapped to the boot sector, the FSInfo sector, one  *)
(* of the two copies of the file allocation table, or the part of the      *)
(* directory or file whose chain its cluster is on.                        *)
(*                                                                         *)
(* A read may begin anywhere in the image, as dbbox_read lets it.  Where   *)
(* it begins inside a sector read_data counts the bytes before it twice,   *)
(* so that such a read fails an assertion or returns wrong bytes.  Reads   *)
(* through the page cache, as mount_dbbox.sh mounts the image, begin at    *)
(* sector boundaries.                                                      *)
(*                                                                         *)
(* While the image is served the tree and its chains do not change, so     *)
(* that a read is followed alone; a sector of a file may fail, as the      *)
(* cache of module BlockCache promises no more.  The content of a sector   *)
(* is abstracted to what it is a part of: a byte is such a content and its *)
(* index in the sector.                                                    *)
(***************************************************************************)
EXTENDS Integers, Sequences, SequencesExt

CONSTANTS
  SectorSize,              \* BPB_BytesPerSector
  SectorsPerCluster,       \* BPB_SectorsPerCluster
  ReservedSectorCount,     \* BPB_ReservedSectorCount
  BackupBootSector,        \* BPB_BackupBootSector
  FSInfo,                  \* BPB_FSInfo
  FATSz,                   \* BPB_FATSz32: sectors of one copy of the table
  FatEntriesPerSector,     \* entries of the table in a sector
  TotalSectors,            \* BPB_TotalSectors
  UINT32,                  \* number of values of a uint32_t
  Entries,                 \* the files and directories
  IsDir,                   \* IsDir[e]
  Size,                    \* Size[e]: its metadata.size, if it is a file
  MaxSize,                 \* bound: bytes of one read
  Garbage,                 \* what the stack holds behind tmp_sector
  FREE, EOFC               \* FAT_FREE_ENTRY and FAT_EOFC_ENTRY

FatRegion  == ReservedSectorCount
DataRegion == ReservedSectorCount + 2 * FATSz
DBBOX_SIZE == TotalSectors * SectorSize

\* The clusters of the data region; sectors may be left behind the last one.
N_CLUSTERS == (TotalSectors - DataRegion) \div SectorsPerCluster

\* The clusters find_free_cluster gives to entries.  The data region begins with
\* cluster 2, so that its last two clusters are never given to any.
Clusters == 2 .. N_CLUSTERS - 1

ASSUME ConstantsAssumption ==
  /\ SectorSize \in Nat \ {0} /\ SectorsPerCluster \in Nat \ {0}
  /\ ReservedSectorCount \in Nat
  /\ {BackupBootSector, FSInfo} \subseteq 1 .. ReservedSectorCount - 1
  /\ BackupBootSector # FSInfo
  /\ FATSz \in Nat /\ FatEntriesPerSector \in Nat
  /\ FATSz * FatEntriesPerSector >= N_CLUSTERS + 3
  /\ TotalSectors \in Nat
  /\ N_CLUSTERS \in Nat /\ N_CLUSTERS > 2
  /\ UINT32 \in Nat \ {0} /\ UINT32 % SectorSize = 0
  /\ IsDir \in [Entries -> BOOLEAN] /\ Size \in [Entries -> Nat]
  /\ MaxSize \in Nat /\ MaxSize < UINT32
  /\ FREE \notin Nat /\ EOFC \notin Nat /\ FREE # EOFC

VARIABLES
  chain,        \* chain[e]: the clusters of entry e, in their order
  pc,           \* "idle", "loop", "done", "failed", or "aborted" by an assertion
  offset,       \* of the FUSE read, a 64-bit off_t
  size,         \* of the read, clipped by dbbox_read
  sector,       \* sector of read_data
  sector_index, \* sector_index of read_data
  buf           \* the bytes read so far; buf_offset is its length

vars == <<chain, pc, offset, size, sector, sector_index, buf>>

(***************************************************************************)
(* The tables of cluster.c, for the chains there are.                      *)
(***************************************************************************)
OnChain(c, e) == c \in ToSet(chain[e])

\* The entry that has cluster c, and the position of c on its chain.
EntryOf(c)    == CHOOSE e \in Entries : OnChain(c, e)
PositionOf(c) == CHOOSE i \in DOMAIN chain[EntryOf(c)] : chain[EntryOf(c)][i] = c

FAT_ENTRIES ==
  [c \in Clusters |->
     IF \A e \in Entries : ~OnChain(c, e) THEN FREE
     ELSE IF PositionOf(c) = Len(chain[EntryOf(c)]) THEN EOFC
     ELSE chain[EntryOf(c)][PositionOf(c) + 1]]

DIR_ENTRIES == [c \in Clusters |-> EntryOf(c)]

\* get_cluster_chain_size: the bytes from the beginning of a chain to cluster c.
\* walk[n] is the cluster that n iterations of the loop lead to; its assertions
\* say that the chain does not end before c.
ChainSize(first, c) ==
  LET walk[n \in 0 .. N_CLUSTERS] ==
        IF n = 0 THEN first
        ELSE LET d == walk[n - 1]
             IN  IF d \in Clusters \ {c} THEN FAT_ENTRIES[d] ELSE d
      steps == CHOOSE n \in 0 .. N_CLUSTERS :
                 walk[n] = c /\ \A m \in 0 .. n - 1 : walk[m] # c
  IN  steps * SectorsPerCluster * SectorSize

(***************************************************************************)
(* read_sector                                                             *)
(***************************************************************************)

Boot == <<"boot">>
Info == <<"info">>
Zero == <<"zero">>
Fat(n) == <<"fat", n>>
Part(e, from) == <<"part", e, from>>

Reserved(s) ==
  IF s = 0 \/ s = BackupBootSector THEN Boot
  ELSE IF s = FSInfo THEN Info
  ELSE Zero

\* Both copies of the table are the same.
FatSector(s) ==
  Fat(IF s < FatRegion + FATSz THEN s - FatRegion ELSE s - FatRegion - FATSz)

\* Mutant: the numbers of clusters begin with 0.
ClusterOfFromZero(s) == (s - DataRegion) \div SectorsPerCluster

ClusterOf(s) == 2 + (s - DataRegion) \div SectorsPerCluster

DataSector(s) ==
  LET c == ClusterOf(s)
  IN  IF c \notin Clusters \/ FAT_ENTRIES[c] = FREE THEN Zero
      ELSE LET e == DIR_ENTRIES[c]
               from == ChainSize(chain[e][1], c)
                         + ((s - DataRegion) % SectorsPerCluster) * SectorSize
           IN  IF ~IsDir[e] /\ from >= Size[e] THEN Zero ELSE Part(e, from)

ReadSector(s) ==
  IF s < FatRegion THEN Reserved(s)
  ELSE IF s < DataRegion THEN FatSector(s)
  ELSE DataSector(s)

\* A sector of a file comes from the cache and may fail.
MayFail(s) ==
  LET content == ReadSector(s)
  IN  content[1] = "part" /\ ~IsDir[content[2]]

-----------------------------------------------------------------------------

(***************************************************************************)
(* The image that is served: disjoint chains, one for every entry.         *)
(***************************************************************************)
Chains ==
  {f \in [Entries -> {s \in BoundedSeq(Clusters, N_CLUSTERS - 2) : s # <<>>}] :
     \A e, g \in Entries : \A i \in DOMAIN f[e], j \in DOMAIN f[g] :
       f[e][i] = f[g][j] => e = g /\ i = j}

Init ==
  /\ chain \in Chains
  /\ pc = "idle"
  /\ offset = 0 /\ size = 0
  /\ sector = 0 /\ sector_index = 0
  /\ buf = <<>>

\* dbbox_read: a read of count bytes, clipped to the end of the image.
Read(from, count) ==
  /\ pc = "idle"
  /\ offset' = from
  /\ size' = IF from < DBBOX_SIZE
             THEN IF from + count > DBBOX_SIZE THEN DBBOX_SIZE - from ELSE count
             ELSE 0
  /\ sector' = (from % UINT32) \div SectorSize
  /\ sector_index' = (from % UINT32) % SectorSize
  /\ pc' = "loop"
  /\ UNCHANGED <<chain, buf>>

\* The bytes from the current position to the end of the read, in uint32_t.
EndIndex == ((offset % UINT32) + size - (sector * SectorSize + sector_index)) % UINT32

\* Mutant: the last sector of a read is always read in full.
ReadSizeFull == SectorSize

\* What this iteration reads.
ReadSize ==
  IF EndIndex - sector_index < SectorSize THEN EndIndex - sector_index
  ELSE SectorSize

\* The bytes it copies, from sector_index on: behind those of the sector comes what
\* is there on the stack.
ReadBytes ==
  [i \in 1 .. ReadSize |->
     IF sector_index + i <= SectorSize
     THEN <<ReadSector(sector), sector_index + i - 1>>
     ELSE Garbage]

\* An iteration of read_data, whose first assertion holds.
Iterate ==
  /\ pc = "loop" /\ Len(buf) < size
  /\ EndIndex > sector_index
  /\ buf' = buf \o ReadBytes
  /\ sector_index' = 0
  /\ sector' = sector + 1
  /\ UNCHANGED <<chain, pc, offset, size>>

\* The sector cannot be read: the whole read fails.
IterateFailed ==
  /\ pc = "loop" /\ Len(buf) < size
  /\ EndIndex > sector_index
  /\ MayFail(sector)
  /\ pc' = "failed"
  /\ UNCHANGED <<chain, offset, size, sector, sector_index, buf>>

\* The loop ends with the second assertion, and the call returns.
Done ==
  /\ pc = "loop" /\ Len(buf) = size
  /\ pc' = "done"
  /\ UNCHANGED <<chain, offset, size, sector, sector_index, buf>>

\* An assertion of read_data fails, in an iteration or behind the loop.
Abort ==
  /\ pc = "loop"
  /\ \/ Len(buf) < size /\ EndIndex <= sector_index
     \/ Len(buf) > size
  /\ pc' = "aborted"
  /\ UNCHANGED <<chain, offset, size, sector, sector_index, buf>>

Step == Iterate \/ IterateFailed \/ Done \/ Abort

Next ==
  \/ \E from \in 0 .. DBBOX_SIZE, count \in 0 .. MaxSize : Read(from, count)
  \/ Step

Spec == Init /\ [][Next]_vars

(***************************************************************************)
(* Properties.                                                             *)
(***************************************************************************)

\* Where the FAT layout puts sector j of the cluster at position k of the chain of
\* entry e, and which bytes of the entry are in it.
Place(e, k, j) == DataRegion + (chain[e][k] - 2) * SectorsPerCluster + j
From(k, j)     == ((k - 1) * SectorsPerCluster + j) * SectorSize

\* The sectors of both copies of the table, and those of an entry.
Fats     == {<<FatRegion + copy * FATSz + n, Fat(n)>> :
               copy \in {0, 1}, n \in 0 .. FATSz - 1}
Parts(e) == {<<Place(e, k, j), Part(e, From(k, j))>> :
               k \in DOMAIN chain[e], j \in 0 .. SectorsPerCluster - 1}

\* The image as the FAT layout defines it, from the chains to the sectors: what
\* is at which sector.
Contents ==
  {<<0, Boot>>, <<BackupBootSector, Boot>>, <<FSInfo, Info>>} \cup Fats
    \cup {p \in UNION {Parts(e) : e \in Entries} :
            IsDir[p[2][2]] \/ p[2][3] < Size[p[2][2]]}

Image(s) ==
  IF \E p \in Contents : p[1] = s
  THEN (CHOOSE p \in Contents : p[1] = s)[2]
  ELSE Zero

\* The read begins at a sector boundary.
Aligned == offset % SectorSize = 0

\* A read from a sector boundary that succeeds has the bytes of the image from its
\* offset on, up to its end: FUSE sees one file of DBBOX_SIZE bytes, in which every
\* chain is where the file allocation table says.
ReadCorrect ==
  pc = "done" /\ Aligned =>
    \A i \in 1 .. size :
      LET byte == offset + i - 1
      IN  buf[i] = <<Image(byte \div SectorSize), byte % SectorSize>>

\* In a read that begins at a sector boundary no assertion of read_data (dbfat.c:446
\* and 476) fails, wherever it ends: the loop makes progress and copies exactly as many
\* bytes as were asked for.  In one that begins inside a sector they do fail.
AlignedAssertionsHold == Aligned => pc # "aborted"

=============================================================================
