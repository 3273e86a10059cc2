------------------------------ MODULE DirListing ------------------------------
(***************************************************************************)
(* What the FAT image shows of a directory: read_dir_sector and            *)
(* get_dir_contents of dbfat.c, which make one sector of the directory at  *)
(* a time from the list of its children.                                   *)
(*                                                                         *)
(* The unit is the FAT directory entry of DIR_ENTRY_SIZE bytes.  A child   *)
(* has one short entry and, before it, the long entries of its name, the   *)
(* last part of the name first.  Of the fields of an entry those are kept  *)
(* that say what the child is; characters are UTF-16 code units or bytes.  *)
(***************************************************************************)
EXTENDS Integers, FiniteSets, Sequences, SequencesExt

CONSTANTS
  SectorEntries,   \* entries in a sector: BPB_BytesPerSector / DIR_ENTRY_SIZE
  EntryMetaData,   \* the children there may be, each with its first_cluster
  LONG_NAME_CHARS_PER_ENTRY,
  MaxChildren,     \* bound: children of the directory
  FirstCluster,    \* first_cluster of the directory, if it is not the root
  ParentCluster,   \* first_cluster of its parent
  ParentIsRoot,    \* whether its parent is ROOT_DIR_ENTRY
  Garbage,         \* what memory holds behind a name
  NoEntry          \* 32 zero bytes: the end of the listing

UINT8  == 2 ^ 8
UINT16 == 2 ^ 16

ASSUME ConstantsAssumption ==
  /\ SectorEntries \in Nat /\ SectorEntries >= 2
  /\ \A child \in EntryMetaData :
       /\ child.name \in Seq(1 .. UINT16 - 1) /\ Len(child.name) \in 1 .. UINT8 - 1
       /\ child.is_dir \in BOOLEAN
       /\ child.size \in Nat /\ child.first_cluster \in Nat
  /\ \A child, other \in EntryMetaData : child.name = other.name => child = other
  /\ LONG_NAME_CHARS_PER_ENTRY \in Nat \ {0}
  /\ \A child \in EntryMetaData :   \* a child alone fits in tmp_buf
       (Len(child.name) + LONG_NAME_CHARS_PER_ENTRY - 1)
         \div LONG_NAME_CHARS_PER_ENTRY + 1 <= 2 * SectorEntries
  /\ MaxChildren \in Nat
  /\ {FirstCluster, ParentCluster} \subseteq Nat /\ ParentIsRoot \in BOOLEAN
  /\ Garbage \notin Nat

VARIABLES
  is_root,    \* the directory is ROOT_DIR_ENTRY
  children,   \* the metadata of the children, in the order of the list
  offset,     \* the offset that was read last, in entries
  tmp_buf,    \* what read_dir_sector collected for it
  sector      \* what it returned; empty before the first read

vars == <<is_root, children, offset, tmp_buf, sector>>

(***************************************************************************)
(* The short name of a child.                                              *)
(***************************************************************************)
PATH_SPACE      == 32
PATH_DOT        == 46
PATH_UNDERSCORE == 95
PATH_TILDA      == 126

ToUpper(char) == IF char \in 97 .. 122 THEN char - 32 ELSE char

Padded(chars, length) == chars \o [i \in 1 .. length - Len(chars) |-> PATH_SPACE]

\* _short_name_helper: what it copies, at most max characters, of the name from
\* position from on.  It leaves blanks out and stops at a dot.
ShortPart(name, from, max) ==
  LET dots == {i \in from .. Len(name) : name[i] = PATH_DOT}
      end  == IF dots = {} THEN Len(name) + 1
              ELSE CHOOSE i \in dots : \A j \in dots : i <= j
      kept == SelectSeq(SubSeq(name, from, end - 1), LAMBDA c : c # PATH_SPACE)
  IN  [i \in 1 .. (IF Len(kept) < max THEN Len(kept) ELSE max) |->
         IF kept[i] <= 127 THEN ToUpper(kept[i]) ELSE PATH_UNDERSCORE]

\* set_short_name: the part before the first dot that follows another character,
\* and the part from the last dot on.  The helper is called at that dot, so that
\* it stops at once and the extension is blank.
ShortName(name) ==
  LET others == {i \in 1 .. Len(name) : name[i] # PATH_DOT}
      start  == IF others = {} THEN Len(name) + 1
                ELSE CHOOSE i \in others : \A j \in others : i <= j
      dots   == {i \in start .. Len(name) : name[i] = PATH_DOT}
      base   == ShortPart(name, start, 6) \o <<PATH_TILDA, 49>>
      extension ==
        IF dots = {} THEN <<>>
        ELSE ShortPart(name, CHOOSE i \in dots : \A j \in dots : i >= j, 3)
  IN  Padded(Padded(base, 8) \o extension, 11)

\* name_checksum: rotate right and add, in a byte.
NameChecksum(short_name) ==
  FoldLeft(LAMBDA sum, char :
             ((IF sum % 2 = 1 THEN 128 ELSE 0) + sum \div 2 + char) % UINT8,
           0, short_name)

(***************************************************************************)
(* The entries of a child.                                                 *)
(***************************************************************************)
DotEntry(kind, cluster) ==
  [kind |-> kind, cluster_hi |-> cluster \div UINT16, cluster_lo |-> cluster % UINT16]

\* ".." of a directory below the root names cluster 0.
Dot    == DotEntry("dot", FirstCluster)
DotDot == DotEntry("dotdot", IF ParentIsRoot THEN 0 ELSE ParentCluster)
Dots   == IF is_root THEN <<>> ELSE <<Dot, DotDot>>

LongEntries(i) ==
  (Len(children[i].name) + LONG_NAME_CHARS_PER_ENTRY - 1)
    \div LONG_NAME_CHARS_PER_ENTRY

\* get_entry_size
GetEntrySize(i) == LongEntries(i) + 1

\* The part of the name at name_offset as memcpy takes it, without regard to the
\* end of the name.
Copied(name, name_offset) ==
  [k \in 1 .. LONG_NAME_CHARS_PER_ENTRY |->
     IF name_offset + k <= Len(name) THEN name[name_offset + k] ELSE Garbage]

\* Mutant: a name that does not fill its last part is not terminated.
LastPartUnterminated(name, name_offset) ==
  [k \in 1 .. LONG_NAME_CHARS_PER_ENTRY |->
     IF name_offset + k <= Len(name) THEN name[name_offset + k] ELSE UINT16 - 1]

\* The last part of the name: it ends with 0, if there is room, and is filled up
\* with 0xFFFF.
LastPart(name, name_offset) ==
  [k \in 1 .. LONG_NAME_CHARS_PER_ENTRY |->
     IF name_offset + k <= Len(name) THEN name[name_offset + k]
     ELSE IF name_offset + k = Len(name) + 1 THEN 0
     ELSE UINT16 - 1]

\* get_dir_contents: the long entries from the last part of the name to the
\* first, then the short entry.  name_offset is a uint8_t: the test for a next
\* part (name_offset >= 0) always succeeds, and behind the first part follows
\* one that nothing is made of.
GetDirContents(i) ==
  LET child == children[i]
      short_name == ShortName(child.name)
      last_offset == (LongEntries(i) - 1) * LONG_NAME_CHARS_PER_ENTRY
      parts[n \in 1 .. LongEntries(i) + 1] ==   \* name_offset and wll
        IF n = 1 THEN [offset |-> last_offset, wll |-> LastPart(child.name, last_offset)]
        ELSE LET next == (parts[n - 1].offset - LONG_NAME_CHARS_PER_ENTRY) % UINT8
             IN  [offset |-> next, wll |-> Copied(child.name, next)]
      longEntry(n) ==
        [kind |-> "long", ord |-> LongEntries(i) + 1 - n, last |-> n = 1,
         checksum |-> NameChecksum(short_name), chars |-> parts[n].wll]
      shortEntry ==
        [kind |-> "short", short_name |-> short_name, is_dir |-> child.is_dir,
         cluster_hi |-> child.first_cluster \div UINT16,
         cluster_lo |-> child.first_cluster % UINT16,
         size |-> IF child.is_dir THEN 0 ELSE child.size]
  IN  Append([n \in 1 .. LongEntries(i) |-> longEntry(n)], shortEntry)

\* child_offset once the loop of read_dir_sector has passed the children before i.
ChildOffset(i) ==
  LET before[j \in 1 .. Len(children) + 1] ==
        IF j = 1 THEN Len(Dots) ELSE before[j - 1] + GetEntrySize(j - 1)
  IN  before[i]

\* Mutant: the loop passes a child that begins before the offset.
StopsLate(i, from) ==
  i > Len(children) \/ ChildOffset(i) >= from

\* The loop stops at child i: there is no such child, or it begins at the
\* offset or behind it, or contains it.
Stops(i, from) ==
  \/ i > Len(children)
  \/ ChildOffset(i) >= from
  \/ ChildOffset(i) + GetEntrySize(i) > from

StopChild(from) ==
  CHOOSE i \in 1 .. Len(children) + 1 :
    Stops(i, from) /\ \A j \in 1 .. i - 1 : ~Stops(j, from)

\* Mutant: <= instead of <: one child more when the sector is just full.
FilledOneMore(buf, first) ==
  LET after[i \in first - 1 .. Len(children)] ==
        IF i = first - 1 THEN buf
        ELSE IF Len(after[i - 1]) <= SectorEntries
        THEN after[i - 1] \o GetDirContents(i)
        ELSE after[i - 1]
  IN  after[Len(children)]

\* The last loop: children from the first on until the sector is full.
Filled(buf, first) ==
  LET after[i \in first - 1 .. Len(children)] ==
        IF i = first - 1 THEN buf
        ELSE IF Len(after[i - 1]) < SectorEntries
        THEN after[i - 1] \o GetDirContents(i)
        ELSE after[i - 1]
  IN  after[Len(children)]

\* tmp_buf of read_dir_sector: it begins with the dot entries, with the rest of
\* a child that began in the sector before, or with a child.
TmpBuf(from) ==
  LET i == StopChild(from)
  IN  IF from = 0 /\ ~is_root THEN Filled(Dots, i)
      ELSE IF i <= Len(children) /\ ChildOffset(i) < from
      THEN Filled(SubSeq(GetDirContents(i), from - ChildOffset(i) + 1, GetEntrySize(i)),
                  i + 1)
      ELSE Filled(<<>>, i)

\* The first sector of a zeroed buffer.
Cut(buf) ==
  [n \in 1 .. SectorEntries |-> IF n <= Len(buf) THEN buf[n] ELSE NoEntry]

-----------------------------------------------------------------------------

Init ==
  /\ is_root \in BOOLEAN
  /\ children \in {s \in BoundedSeq(EntryMetaData, MaxChildren) : IsInjective(s)}
  /\ offset = 0
  /\ tmp_buf = <<>>
  /\ sector = <<>>

\* read_dir_sector, for any sector of the directory up to the one behind it.
ReadDirSector(from) ==
  /\ offset' = from
  /\ tmp_buf' = TmpBuf(from)
  /\ sector' = Cut(TmpBuf(from))
  /\ UNCHANGED <<is_root, children>>

Next ==
  \E n \in 0 .. ChildOffset(Len(children) + 1) \div SectorEntries + 1 :
    ReadDirSector(n * SectorEntries)

Spec == Init /\ [][Next]_vars

(***************************************************************************)
(* Properties.                                                             *)
(***************************************************************************)

\* The whole directory, as it would be written in one piece.
Listing ==
  Dots \o FlattenSeq([i \in 1 .. Len(children) |-> GetDirContents(i)])

\* Every sector is the part of the whole listing that begins at its offset, with
\* zeros behind its end: no entry of a child is lost, doubled or torn between
\* two sectors, although each sector is made on its own.
SectorsMatchListing ==
  sector # <<>> =>
    sector = [n \in 1 .. SectorEntries |->
                IF offset + n <= Len(Listing) THEN Listing[offset + n]
                ELSE NoEntry]

\* Child i begins before the end of the sector that was read last and ends behind
\* the sector after it.  Its name then has more parts than a sector has entries:
\* more than 208 of the 255 characters there may be.
Overhangs(i) ==
  /\ ChildOffset(i) < offset + SectorEntries
  /\ ChildOffset(i) + GetEntrySize(i) > offset + 2 * SectorEntries

\* read_dir_sector keeps within its tmp_buf of two sectors (dbfat.c:282) exactly
\* when no child overhangs: whatever else the sector begins and ends with, and
\* however many children it shows, they fit; a child that overhangs is written
\* beyond the buffer (dbfat.c:343).
BufferSuffices ==
  sector # <<>> =>
    (Len(tmp_buf) <= 2 * SectorEntries <=> \A i \in 1 .. Len(children) : ~Overhangs(i))

\* What a FAT driver makes of the long entries that end before entry n: the
\* parts in the order of their ordinals, up to the terminator.
NameBefore(listing, n) ==
  LET chars[m \in 0 .. n - 1] ==
        IF m = 0 \/ listing[m].kind # "long" THEN <<>>
        ELSE IF listing[m].last THEN listing[m].chars
        ELSE listing[m].chars \o chars[m - 1]
      read == chars[n - 1]
      ends == {k \in DOMAIN read : read[k] = 0}
  IN  IF ends = {} THEN read
      ELSE SubSeq(read, 1, (CHOOSE k \in ends : \A j \in ends : k <= j) - 1)

\* The positions of the short entries, and which one is at n.
ShortEntries(listing) == {n \in DOMAIN listing : listing[n].kind = "short"}
Ordinal(listing, n)   == Cardinality({m \in ShortEntries(listing) : m <= n})

\* The directory says of every child what it is: the name that its long entries
\* spell, which belong to its short entry by number and checksum, its cluster
\* and, of a file, its size.  No padding, terminator or character from outside
\* the name gets into it.
ListingTellsChildren ==
  LET listing == Listing
  IN  /\ Cardinality(ShortEntries(listing)) = Len(children)
      /\ \A n \in ShortEntries(listing) :
           LET i == Ordinal(listing, n)
               short == listing[n]
           IN  /\ NameBefore(listing, n) = children[i].name
               /\ \A k \in 1 .. LongEntries(i) :
                    LET long == listing[n - k]
                    IN  /\ long.kind = "long" /\ long.ord = k
                        /\ long.last <=> k = LongEntries(i)
                        /\ long.checksum = NameChecksum(short.short_name)
               /\ short.is_dir = children[i].is_dir
               /\ short.cluster_hi * UINT16 + short.cluster_lo
                    = children[i].first_cluster
               /\ ~short.is_dir => short.size = children[i].size

================================================================================
