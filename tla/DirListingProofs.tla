---------------------------- MODULE DirListingProofs ----------------------------
(***************************************************************************)
(* Proofs about DirListing and FileNames: the sectors of a directory are   *)
(* its listing, the listing says of every child what it is, and a request  *)
(* asks for the file that is listed.                                       *)
(***************************************************************************)
EXTENDS FileNames, SetInduction, FiniteSetTheorems

\* The types of a directory.
DirTyped ==
  /\ is_root \in BOOLEAN
  /\ children \in Seq(EntryMetaData)

(***************************************************************************)
(* The recursions of the module define what they seem to define.           *)
(***************************************************************************)

\* A recursion over an interval.
Unfolds(w, a, b, V, v0, step) ==
  /\ w \in [a .. b -> V]
  /\ \A i \in a .. b : w[i] = IF i = a THEN v0 ELSE step[i][w[i - 1]]

LEMMA RecursionFrom ==
  ASSUME NEW V, NEW v0 \in V, NEW step \in [Int -> [V -> V]], NEW a \in Int, NEW b \in Int
  PROVE  \E w : Unfolds(w, a, b, V, v0, step)
<1>1. PICK s \in [Nat -> [V -> V]] : \A n \in Nat : s[n] = step[a + n + 1]
  <2>1. [n \in Nat |-> step[a + n + 1]] \in [Nat -> [V -> V]]
    OBVIOUS
  <2> QED
    BY <2>1
<1>2. PICK f \in [Nat -> V] : f[0] = v0 /\ \A n \in Nat : f[n + 1] = s[n][f[n]]
  BY Recursion, SMTT(60)
<1>3. PICK w : w = [i \in a .. b |-> f[i - a]]
  OBVIOUS
<1>4. w \in [a .. b -> V]
  BY <1>2, <1>3
<1>5. ASSUME NEW i \in a .. b PROVE w[i] = IF i = a THEN v0 ELSE step[i][w[i - 1]]
  <2>1. CASE i = a
    BY <1>2, <1>3, <2>1
  <2>2. CASE i # a
    <3>1. i - 1 \in a .. b /\ (i - 1) - a = i - a - 1 /\ i - a - 1 \in Nat
          /\ (i - a - 1) + 1 = i - a /\ a + (i - a - 1) + 1 = i
      BY <2>2
    <3>2. f[i - a] = s[i - a - 1][f[i - a - 1]]
      BY <1>2, <3>1
    <3>3. s[i - a - 1] = step[i]
      BY <1>1, <3>1
    <3>4. w[i] = f[i - a] /\ w[i - 1] = f[i - a - 1]
      BY <1>3, <3>1
    <3> QED
      BY <2>2, <3>2, <3>3, <3>4
  <2> QED
    BY <2>1, <2>2
<1> QED
  BY <1>4, <1>5 DEF Unfolds

\* How many entries a child has.
LEMMA EntriesFacts ==
  ASSUME DirTyped, NEW i \in 1 .. Len(children)
  PROVE  /\ children[i] \in EntryMetaData
         /\ LongEntries(i) \in Nat \ {0}
         /\ GetEntrySize(i) = LongEntries(i) + 1
         /\ LongEntries(i) * LONG_NAME_CHARS_PER_ENTRY >= Len(children[i].name)
         /\ (LongEntries(i) - 1) * LONG_NAME_CHARS_PER_ENTRY < Len(children[i].name)
<1> DEFINE c == Len(children[i].name)
           L == LONG_NAME_CHARS_PER_ENTRY
           q == (c + L - 1) \div L
<1>1. children[i] \in EntryMetaData
  BY ElementOfSeq DEF DirTyped
<1>2. c \in 1 .. UINT8 - 1 /\ L \in Nat \ {0}
  BY <1>1, ConstantsAssumption
<1>3. c \in Nat \ {0}
  BY <1>2 DEF UINT8
<1> HIDE DEF c, L
<1>4. q \in Int /\ q * L <= c + L - 1 /\ c + L - 1 < (q + 1) * L
  BY <1>2, <1>3
<1>5. q * L >= c /\ (q - 1) * L < c
  <2>1. (q + 1) * L = q * L + L /\ (q - 1) * L = q * L - L /\ q * L \in Int
    BY <1>2, <1>4
  <2> HIDE DEF q
  <2> QED
    BY <1>2, <1>3, <1>4, <2>1
<1>6. q >= 1
  <2> HIDE DEF q
  <2>1. CASE q <= 0
    <3>1. q * L <= 0
      BY <1>2, <1>4, <2>1
    <3>2. q * L >= c
      BY <1>5
    <3>3. q * L \in Int
      BY <1>2, <1>4
    <3> QED
      BY <1>3, <3>1, <3>2, <3>3
  <2> QED
    BY <1>4, <2>1
<1>7. LongEntries(i) = q
  BY DEF LongEntries, q, c, L
<1> QED
  BY <1>1, <1>4, <1>5, <1>6, <1>7 DEF GetEntrySize, c, L

\* Where the entries of a child begin.
LEMMA OffsetsFacts ==
  ASSUME DirTyped
  PROVE  /\ ChildOffset(1) = Len(Dots)
         /\ \A i \in 1 .. Len(children) :
              ChildOffset(i + 1) = ChildOffset(i) + GetEntrySize(i)
         /\ \A i \in 1 .. Len(children) + 1 : ChildOffset(i) \in Nat
<1> DEFINE n == Len(children)
           Body(w) == [j \in 1 .. n + 1 |->
                         IF j = 1 THEN Len(Dots) ELSE w[j - 1] + GetEntrySize(j - 1)]
           before == CHOOSE w : w = Body(w)
<1>1. n \in Nat
  BY LenProperties DEF DirTyped
<1>2. Len(Dots) \in Nat
  BY DEF Dots
<1>3. \A i : ChildOffset(i) = before[i]
  BY Zenon DEF ChildOffset
<1>4. \E w : w = Body(w)
  <2>1. PICK step : step = [j \in Int |-> [v \in Nat |->
                              IF j \in 2 .. n + 1 THEN v + GetEntrySize(j - 1) ELSE v]]
    OBVIOUS
  <2>2. ASSUME NEW j \in 2 .. n + 1 PROVE GetEntrySize(j - 1) \in Nat
    <3>1. j - 1 \in 1 .. Len(children)
      BY <1>1
    <3> QED
      BY <3>1, EntriesFacts
  <2>3. step \in [Int -> [Nat -> Nat]]
    <3>1. ASSUME NEW j \in Int
          PROVE  [v \in Nat |-> IF j \in 2 .. n + 1 THEN v + GetEntrySize(j - 1) ELSE v]
                   \in [Nat -> Nat]
      BY <2>2
    <3> QED
      BY <2>1, <3>1
  <2>4. PICK w : Unfolds(w, 1, n + 1, Nat, Len(Dots), step)
    <3>1. 1 \in Int /\ n + 1 \in Int
      BY <1>1
    <3> QED
      BY <1>2, <2>3, <3>1, RecursionFrom, Zenon
  <2>5. ASSUME NEW i \in 1 .. n + 1, i # 1
        PROVE  step[i][w[i - 1]] = w[i - 1] + GetEntrySize(i - 1)
    <3>1. i \in 2 .. n + 1 /\ i \in Int /\ w[i - 1] \in Nat
      BY <1>1, <2>4, <2>5 DEF Unfolds
    <3> QED
      BY <2>1, <3>1
  <2>6. w = [i \in 1 .. n + 1 |-> w[i]]
        /\ \A i \in 1 .. n + 1 : w[i] = IF i = 1 THEN Len(Dots) ELSE step[i][w[i - 1]]
    BY <2>4 DEF Unfolds
  <2>7. w = Body(w)
    BY <2>5, <2>6
  <2> QED
    BY <2>7
<1>5. before = Body(before)
  BY <1>4, Zenon
<1> HIDE DEF before
<1>6. before[1] = Len(Dots)
  BY <1>1, <1>5
<1>7. ASSUME NEW i \in 1 .. n PROVE before[i + 1] = before[i] + GetEntrySize(i)
  <2>1. i + 1 \in 1 .. n + 1 /\ i + 1 # 1 /\ (i + 1) - 1 = i
    BY <1>1
  <2> QED
    BY <1>5, <2>1
<1>8. ASSUME NEW i \in 1 .. n + 1 PROVE before[i] \in Nat
  <2> DEFINE T == {j \in 0 .. n : before[j + 1] \in Nat}
  <2>1. 0 \in T
    BY <1>1, <1>2, <1>6
  <2>2. ASSUME NEW j \in 0 .. n - 1, j \in T PROVE j + 1 \in T
    <3>1. j + 1 \in 1 .. n /\ j + 1 \in 0 .. n
      BY <1>1
    <3>2. GetEntrySize(j + 1) \in Nat
      BY <3>1, EntriesFacts
    <3> QED
      BY <1>7, <2>2, <3>1, <3>2
  <2>3. 0 .. n \subseteq T
    <3> HIDE DEF T
    <3> QED
      BY <1>1, <2>1, <2>2, IntervalInduction
  <2>4. i - 1 \in 0 .. n /\ (i - 1) + 1 = i
    BY <1>1
  <2> QED
    BY <2>3, <2>4
<1> QED
  BY <1>1, <1>3, <1>6, <1>7, <1>8

\* A child that comes later begins behind the end of one before it.
LEMMA OffsetsRise ==
  ASSUME DirTyped, NEW i \in 1 .. Len(children), NEW j \in i + 1 .. Len(children) + 1
  PROVE  ChildOffset(i) + GetEntrySize(i) <= ChildOffset(j)
<1> DEFINE n == Len(children)
           T == {m \in 0 .. n - i : ChildOffset(i + 1) <= ChildOffset(i + 1 + m)}
<1>1. n \in Nat /\ i \in Nat /\ 1 <= i /\ i <= n
  BY LenProperties DEF DirTyped
<1>2. ChildOffset(i + 1) = ChildOffset(i) + GetEntrySize(i)
  BY OffsetsFacts
<1>3. ChildOffset(i + 1) \in Nat
  <2>1. i + 1 \in 1 .. n + 1
    BY <1>1
  <2> QED
    BY <2>1, OffsetsFacts
<1>4. 0 \in T
  BY <1>1, <1>3
<1>5. ASSUME NEW m \in 0 .. (n - i) - 1, m \in T PROVE m + 1 \in T
  <2>1. /\ i + 1 + m \in 1 .. n /\ i + 1 + m \in 1 .. n + 1 /\ m + 1 \in 0 .. n - i
        /\ i + 1 + (m + 1) = (i + 1 + m) + 1
    BY <1>1
  <2>2. /\ ChildOffset((i + 1 + m) + 1) = ChildOffset(i + 1 + m) + GetEntrySize(i + 1 + m)
        /\ ChildOffset(i + 1 + m) \in Nat
    BY <2>1, OffsetsFacts
  <2>3. LongEntries(i + 1 + m) \in Nat /\ GetEntrySize(i + 1 + m) = LongEntries(i + 1 + m) + 1
    BY <2>1, EntriesFacts
  <2>4. ChildOffset(i + 1) <= ChildOffset(i + 1 + m)
    BY <1>5
  <2>5. ChildOffset(i + 1) <= ChildOffset((i + 1 + m) + 1)
    BY <1>3, <2>2, <2>3, <2>4
  <2> QED
    BY <2>1, <2>5
<1>6. 0 .. n - i \subseteq T
  <2>1. n - i \in Nat
    BY <1>1
  <2> HIDE DEF T
  <2> QED
    BY <1>4, <1>5, <2>1, IntervalInduction
<1>7. j - (i + 1) \in 0 .. n - i /\ i + 1 + (j - (i + 1)) = j
  BY <1>1
<1>8. j - (i + 1) \in T
  <2> HIDE DEF T
  <2> QED
    BY <1>6, <1>7
<1> QED
  BY <1>2, <1>7, <1>8

(***************************************************************************)
(* The entries of one child.                                               *)
(***************************************************************************)

\* What a long entry holds for a character.
NameChars == (0 .. UINT16 - 1) \cup {Garbage}

\* The part of the name in the long entry of this ordinal.
PartAt(i, ord) ==
  LET name == children[i].name
      name_offset == (ord - 1) * LONG_NAME_CHARS_PER_ENTRY
  IN  IF ord = LongEntries(i) THEN LastPart(name, name_offset)
      ELSE Copied(name, name_offset)

LongEntryAt(i, ord) ==
  [kind |-> "long", ord |-> ord, last |-> ord = LongEntries(i),
   checksum |-> NameChecksum(ShortName(children[i].name)), chars |-> PartAt(i, ord)]

ShortEntryOf(i) ==
  LET child == children[i]
  IN  [kind |-> "short", short_name |-> ShortName(child.name), is_dir |-> child.is_dir,
       cluster_hi |-> child.first_cluster \div UINT16,
       cluster_lo |-> child.first_cluster % UINT16,
       size |-> IF child.is_dir THEN 0 ELSE child.size]

\* Both kinds of parts have characters.
LEMMA PartsTyped ==
  ASSUME DirTyped, NEW i \in 1 .. Len(children), NEW o \in Nat
  PROVE  /\ LastPart(children[i].name, o) \in [1 .. LONG_NAME_CHARS_PER_ENTRY -> NameChars]
         /\ Copied(children[i].name, o) \in [1 .. LONG_NAME_CHARS_PER_ENTRY -> NameChars]
<1>1. UINT16 \in Nat /\ UINT16 > 0
  BY DEF UINT16
<1>2. PICK name : name = children[i].name
  OBVIOUS
<1>3. name \in Seq(1 .. UINT16 - 1)
  BY <1>2, EntriesFacts, ConstantsAssumption
<1>4. Len(name) \in Nat /\ \A k \in 1 .. Len(name) : name[k] \in 1 .. UINT16 - 1
  BY <1>3, ElementOfSeq, LenProperties
<1>5. ASSUME NEW k \in 1 .. LONG_NAME_CHARS_PER_ENTRY, o + k <= Len(name)
      PROVE  name[o + k] \in NameChars
  <2>1. o + k \in 1 .. Len(name)
    BY <1>4, <1>5, ConstantsAssumption
  <2> QED
    BY <1>1, <1>4, <2>1 DEF NameChars
<1>6. 0 \in NameChars /\ UINT16 - 1 \in NameChars /\ Garbage \in NameChars
  BY <1>1 DEF NameChars
<1>7. LastPart(name, o) \in [1 .. LONG_NAME_CHARS_PER_ENTRY -> NameChars]
  BY <1>5, <1>6 DEF LastPart
<1>8. Copied(name, o) \in [1 .. LONG_NAME_CHARS_PER_ENTRY -> NameChars]
  BY <1>5, <1>6 DEF Copied
<1> QED
  BY <1>2, <1>7, <1>8

\* name_offset, from the last part to the first, stays in its range.
LEMMA OffsetsOfParts ==
  ASSUME DirTyped, NEW i \in 1 .. Len(children), NEW ord \in 1 .. LongEntries(i)
  PROVE  /\ (ord - 1) * LONG_NAME_CHARS_PER_ENTRY \in 0 .. UINT8 - 1
         /\ ord # LongEntries(i) =>
              (ord * LONG_NAME_CHARS_PER_ENTRY - LONG_NAME_CHARS_PER_ENTRY) % UINT8
                = (ord - 1) * LONG_NAME_CHARS_PER_ENTRY
<1> DEFINE L == LONG_NAME_CHARS_PER_ENTRY
           e == LongEntries(i)
<1>1. L \in Nat \ {0} /\ e \in Nat \ {0} /\ ord \in Nat /\ 1 <= ord /\ ord <= e
  BY EntriesFacts, ConstantsAssumption
<1>2. Len(children[i].name) \in 1 .. UINT8 - 1 /\ UINT8 \in Nat /\ UINT8 > 0
  BY EntriesFacts, ConstantsAssumption DEF UINT8
<1>3. (e - 1) * L < UINT8 /\ (e - 1) * L \in Int
  BY <1>1, <1>2, EntriesFacts
<1> HIDE DEF L, e
<1>4. (ord - 1) * L <= (e - 1) * L /\ (ord - 1) * L \in Nat
  <2>1. PICK a \in Nat : a = ord - 1
    BY <1>1
  <2>2. PICK d \in Nat : d = e - ord
    BY <1>1
  <2>3. e - 1 = a + d
    BY <1>1, <2>1, <2>2
  <2>4. (a + d) * L = a * L + d * L /\ a * L \in Nat /\ d * L \in Nat
    BY <1>1
  <2> QED
    BY <2>1, <2>3, <2>4
<1>5. ord * L - L = (ord - 1) * L
  BY <1>1
<1>6. (ord - 1) * L \in 0 .. UINT8 - 1
  BY <1>2, <1>3, <1>4
<1>7. \A x \in 0 .. UINT8 - 1 : x % UINT8 = x
  BY <1>2
<1> QED
  BY <1>5, <1>6, <1>7 DEF L, e

\* get_dir_contents makes the long entries of the parts of the name, the last one
\* first, and the short entry.
LEMMA ContentsFacts ==
  ASSUME DirTyped, NEW i \in 1 .. Len(children)
  PROVE  GetDirContents(i) =
           Append([n \in 1 .. LongEntries(i) |-> LongEntryAt(i, LongEntries(i) + 1 - n)],
                  ShortEntryOf(i))
<1> DEFINE child == children[i]
           L == LONG_NAME_CHARS_PER_ENTRY
           e == LongEntries(i)
           last_offset == (e - 1) * L
           V == [offset : 0 .. UINT8 - 1, wll : [1 .. L -> NameChars]]
           v0 == [offset |-> last_offset, wll |-> LastPart(child.name, last_offset)]
           Turn(v) == LET next == (v.offset - L) % UINT8
                      IN  [offset |-> next, wll |-> Copied(child.name, next)]
           Body(w) == [n \in 1 .. e + 1 |-> IF n = 1 THEN v0 ELSE Turn(w[n - 1])]
           parts == CHOOSE w : w = Body(w)
           longEntry(n) == [kind |-> "long", ord |-> e + 1 - n, last |-> n = 1,
                            checksum |-> NameChecksum(ShortName(child.name)),
                            chars |-> parts[n].wll]
<1>1. GetDirContents(i) = Append([n \in 1 .. e |-> longEntry(n)], ShortEntryOf(i))
  BY Zenon DEF GetDirContents, ShortEntryOf
<1>2. e \in Nat \ {0} /\ L \in Nat \ {0} /\ UINT8 \in Nat \ {0}
  BY EntriesFacts, ConstantsAssumption DEF UINT8
<1>3. v0 \in V
  <2>1. last_offset \in 0 .. UINT8 - 1
    BY <1>2, OffsetsOfParts
  <2>2. LastPart(child.name, last_offset) \in [1 .. L -> NameChars]
    BY <1>2, <2>1, PartsTyped
  <2> QED
    BY <2>1, <2>2
<1>4. \A v \in V : Turn(v) \in V
  <2> SUFFICES ASSUME NEW v \in V PROVE Turn(v) \in V
    OBVIOUS
  <2>1. PICK next : next = (v.offset - L) % UINT8
    OBVIOUS
  <2>2. next \in 0 .. UINT8 - 1
    BY <1>2, <2>1
  <2>3. Copied(child.name, next) \in [1 .. L -> NameChars]
    BY <1>2, <2>2, PartsTyped
  <2> QED
    BY <2>1, <2>2, <2>3
<1>5. \E w : w = Body(w)
  <2>1. PICK step : step = [j \in Int |-> [v \in V |-> Turn(v)]]
    OBVIOUS
  <2>2. step \in [Int -> [V -> V]] /\ \A j \in Int, v \in V : step[j][v] = Turn(v)
    <3> HIDE DEF V, Turn
    <3> QED
      BY <1>4, <2>1
  <2>3. PICK w : Unfolds(w, 1, e + 1, V, v0, step)
    <3>1. 1 \in Int /\ e + 1 \in Int
      BY <1>2
    <3> HIDE DEF V, v0
    <3> QED
      BY <1>3, <2>2, <3>1, RecursionFrom, Zenon
  <2> HIDE DEF V, Turn, v0, e
  <2>4. ASSUME NEW n \in 1 .. e + 1, n # 1 PROVE step[n][w[n - 1]] = Turn(w[n - 1])
    <3>1. n - 1 \in 1 .. e + 1 /\ n \in Int
      BY <1>2, <2>4
    <3>2. w[n - 1] \in V
      BY <2>3, <3>1 DEF Unfolds
    <3> QED
      BY <2>2, <3>1, <3>2
  <2>5. w = [n \in 1 .. e + 1 |-> w[n]]
        /\ \A n \in 1 .. e + 1 : w[n] = IF n = 1 THEN v0 ELSE step[n][w[n - 1]]
    BY <2>3 DEF Unfolds
  <2>6. w = Body(w)
    BY <2>4, <2>5
  <2> QED
    BY <2>6
<1>6. parts = Body(parts)
  <2> HIDE DEF Turn, v0, e
  <2> QED
    BY <1>5, Zenon
<1> HIDE DEF parts
<1>7. parts[1] = v0
  BY <1>2, <1>6
<1>8. ASSUME NEW n \in 1 .. e PROVE n + 1 \in 1 .. e + 1 /\ parts[n + 1] = Turn(parts[n])
  <2>1. n + 1 \in 1 .. e + 1 /\ n + 1 # 1 /\ (n + 1) - 1 = n
    BY <1>2
  <2> HIDE DEF Turn, v0, e
  <2> QED
    BY <1>6, <2>1
<1>9. ASSUME NEW n \in 1 .. e
      PROVE  parts[n] = [offset |-> (e - n) * L, wll |-> PartAt(i, e + 1 - n)]
  <2> DEFINE T == {m \in 0 .. e - 1 :
                     parts[m + 1] = [offset |-> (e - (m + 1)) * L,
                                     wll |-> PartAt(i, e + 1 - (m + 1))]}
  <2>1. 0 \in T
    <3>1. e + 1 - 1 = e /\ 0 \in 0 .. e - 1
      BY <1>2
    <3> QED
      BY <1>7, <3>1 DEF PartAt
  <2>2. ASSUME NEW m \in 0 .. (e - 1) - 1, m \in T PROVE m + 1 \in T
    <3>1. m + 1 \in 1 .. e /\ m + 1 \in 0 .. e - 1 /\ (m + 1) + 1 = m + 2
      BY <1>2
    <3>2. PICK ord : ord = e - (m + 1)
      OBVIOUS
    <3>3. /\ ord \in 1 .. LongEntries(i) /\ ord # LongEntries(i) /\ e - (m + 2) = ord - 1
          /\ e + 1 - (m + 2) = ord
      BY <1>2, <3>2
    <3>4. (ord * L - L) % UINT8 = (ord - 1) * L
      BY <3>3, OffsetsOfParts
    <3>5. parts[m + 1].offset = ord * L
      BY <2>2, <3>2
    <3>6. parts[m + 2] = [offset |-> (ord - 1) * L, wll |-> Copied(child.name, (ord - 1) * L)]
      BY <1>8, <3>1, <3>4, <3>5
    <3>7. PartAt(i, ord) = Copied(child.name, (ord - 1) * L)
      BY <3>3 DEF PartAt
    <3> QED
      BY <3>1, <3>3, <3>6, <3>7
  <2>3. 0 .. e - 1 \subseteq T
    <3> HIDE DEF T, e
    <3>1. e - 1 \in Nat
      BY <1>2
    <3> QED
      BY <2>1, <2>2, <3>1, IntervalInduction
  <2>4. n - 1 \in 0 .. e - 1 /\ (n - 1) + 1 = n
    BY <1>2
  <2>5. n - 1 \in T
    <3> HIDE DEF T
    <3> QED
      BY <2>3, <2>4
  <2> QED
    BY <2>4, <2>5
<1>10. ASSUME NEW n \in 1 .. e PROVE longEntry(n) = LongEntryAt(i, e + 1 - n)
  <2>1. parts[n].wll = PartAt(i, e + 1 - n)
    <3>1. parts[n] = [offset |-> (e - n) * L, wll |-> PartAt(i, e + 1 - n)]
      BY <1>9
    <3> HIDE DEF e, L
    <3> QED
      BY <3>1
  <2>2. n = 1 <=> e + 1 - n = e
    BY <1>2
  <2> QED
    BY <2>1, <2>2 DEF LongEntryAt
<1> HIDE DEF longEntry
<1> QED
  BY <1>1, <1>10

\* The entries of a listing.
Shown ==
  {LongEntryAt(i, ord) : i \in 1 .. Len(children), ord \in Nat}
    \cup {ShortEntryOf(i) : i \in 1 .. Len(children)}
    \cup {Dot, DotDot}

LEMMA ContentsAt ==
  ASSUME DirTyped, NEW i \in 1 .. Len(children)
  PROVE  /\ GetDirContents(i) \in Seq(Shown)
         /\ Len(GetDirContents(i)) = GetEntrySize(i)
         /\ \A k \in 1 .. LongEntries(i) :
              GetDirContents(i)[k] = LongEntryAt(i, LongEntries(i) + 1 - k)
         /\ GetDirContents(i)[GetEntrySize(i)] = ShortEntryOf(i)
<1> DEFINE e == LongEntries(i)
<1>1. e \in Nat \ {0} /\ GetEntrySize(i) = e + 1
  BY EntriesFacts
<1>2. PICK longs : longs = [n \in 1 .. e |-> LongEntryAt(i, e + 1 - n)]
  OBVIOUS
<1>3. GetDirContents(i) = Append(longs, ShortEntryOf(i))
  BY <1>2, ContentsFacts
<1> HIDE DEF e
<1>4. longs \in Seq(Shown) /\ Len(longs) = e
  <2>1. \A n \in 1 .. e : LongEntryAt(i, e + 1 - n) \in Shown
    <3> SUFFICES ASSUME NEW n \in 1 .. e PROVE LongEntryAt(i, e + 1 - n) \in Shown
      OBVIOUS
    <3>1. e + 1 - n \in Nat
      BY <1>1
    <3> QED
      BY <3>1 DEF Shown
  <2>2. longs \in [1 .. e -> Shown]
    BY <1>2, <2>1
  <2> QED
    BY <1>1, <2>2
<1>5. ShortEntryOf(i) \in Shown
  BY DEF Shown
<1>6. /\ GetDirContents(i) \in Seq(Shown) /\ Len(GetDirContents(i)) = e + 1
      /\ \A k \in 1 .. e : GetDirContents(i)[k] = longs[k]
      /\ GetDirContents(i)[e + 1] = ShortEntryOf(i)
  BY <1>1, <1>3, <1>4, <1>5, AppendProperties
<1> QED
  BY <1>1, <1>2, <1>6 DEF e

(***************************************************************************)
(* The listing, child by child.                                            *)
(***************************************************************************)

LEMMA ListingAt ==
  ASSUME DirTyped
  PROVE  /\ Listing \in Seq(Shown)
         /\ Len(Listing) = ChildOffset(Len(children) + 1)
         /\ \A k \in 1 .. Len(Dots) : Listing[k] = Dots[k]
         /\ \A i \in 1 .. Len(children), k \in Nat :
              k \in 1 .. GetEntrySize(i) =>
                Listing[ChildOffset(i) + k] = GetDirContents(i)[k]
<1> DEFINE n == Len(children)
           d == Len(Dots)
<1>1. n \in Nat
  BY LenProperties DEF DirTyped
<1>2. d \in Nat /\ Dots \in Seq(Shown)
  <2>1. Dot \in Shown /\ DotDot \in Shown
    BY DEF Shown
  <2> QED
    BY <2>1 DEF Dots
<1>3. PICK parts : parts = [i \in 1 .. n |-> GetDirContents(i)]
  OBVIOUS
<1>4. parts \in Seq(Seq(Shown)) /\ Len(parts) = n
  <2>1. \A i \in 1 .. n : GetDirContents(i) \in Seq(Shown)
    BY ContentsAt
  <2>2. parts \in [1 .. n -> Seq(Shown)]
    BY <1>3, <2>1
  <2> HIDE DEF n
  <2> QED
    BY <1>1, <2>2
<1>5. PICK f : IsJoined(f, parts)
  BY <1>4, JoinedExists
<1>6. /\ f[0] = <<>>
      /\ \A j \in 1 .. n : f[j] = f[j - 1] \o GetDirContents(j)
      /\ Listing = Dots \o f[n]
  BY <1>3, <1>4, <1>5 DEF IsJoined, Listing
<1>7. \A j \in 0 .. n : f[j] \in Seq(Shown)
  BY <1>4, <1>5, JoinedTyped
<1>8. \A i \in 1 .. n : /\ ChildOffset(i) \in Nat /\ GetEntrySize(i) \in Nat
                        /\ ChildOffset(i + 1) = ChildOffset(i) + GetEntrySize(i)
                        /\ GetDirContents(i) \in Seq(Shown)
                        /\ Len(GetDirContents(i)) = GetEntrySize(i)
  <2> SUFFICES ASSUME NEW i \in 1 .. n
               PROVE  /\ ChildOffset(i) \in Nat /\ GetEntrySize(i) \in Nat
                      /\ ChildOffset(i + 1) = ChildOffset(i) + GetEntrySize(i)
                      /\ GetDirContents(i) \in Seq(Shown)
                      /\ Len(GetDirContents(i)) = GetEntrySize(i)
    OBVIOUS
  <2>1. i \in 1 .. n + 1
    BY <1>1
  <2>2. LongEntries(i) \in Nat \ {0} /\ GetEntrySize(i) = LongEntries(i) + 1
    BY EntriesFacts
  <2> QED
    BY <2>1, <2>2, OffsetsFacts, ContentsAt
<1>9. ChildOffset(1) = d
  BY OffsetsFacts
<1> HIDE DEF n, d
<1> DEFINE T == {j \in 0 .. n :
                   /\ d + Len(f[j]) = ChildOffset(j + 1)
                   /\ \A i \in 1 .. j, k \in Nat :
                        k \in 1 .. GetEntrySize(i) =>
                          /\ ChildOffset(i) - d + k \in 1 .. Len(f[j])
                          /\ f[j][ChildOffset(i) - d + k] = GetDirContents(i)[k]}
<1>10. 0 \in T
  <2>1. f[0] = <<>> /\ Len(<<>>) = 0 /\ 0 \in 0 .. n
    BY <1>1, <1>6
  <2>2. d + Len(f[0]) = ChildOffset(0 + 1)
    BY <1>2, <1>9, <2>1
  <2> QED
    BY <2>1, <2>2
<1>11. ASSUME NEW j \in 0 .. n - 1, j \in T PROVE j + 1 \in T
  <2>1. j + 1 \in 1 .. n /\ (j + 1) - 1 = j /\ j \in 0 .. n /\ j + 1 \in 0 .. n
    BY <1>1
  <2>2. PICK s, g, c : s = f[j] /\ g = f[j + 1] /\ c = GetDirContents(j + 1)
    OBVIOUS
  <2>3. g = s \o c /\ s \in Seq(Shown) /\ c \in Seq(Shown) /\ Len(c) = GetEntrySize(j + 1)
    BY <1>6, <1>7, <1>8, <2>1, <2>2
  <2>4. /\ Len(s) \in Nat /\ Len(c) \in Nat /\ Len(g) = Len(s) + Len(c)
        /\ \A m \in 1 .. Len(s) + Len(c) :
             g[m] = IF m <= Len(s) THEN s[m] ELSE c[m - Len(s)]
    BY <2>3, ConcatProperties, LenProperties
  <2>5. d + Len(s) = ChildOffset(j + 1)
    BY <1>11, <2>2
  <2>6. d + Len(g) = ChildOffset((j + 1) + 1)
    BY <1>2, <1>8, <2>1, <2>3, <2>4, <2>5
  <2>7. ASSUME NEW i \in 1 .. j + 1, NEW k \in Nat, k \in 1 .. GetEntrySize(i)
        PROVE  /\ ChildOffset(i) - d + k \in 1 .. Len(g)
               /\ g[ChildOffset(i) - d + k] = GetDirContents(i)[k]
    <3>1. CASE i = j + 1
      <4>1. ChildOffset(i) - d + k = Len(s) + k
        BY <1>2, <2>4, <2>5, <3>1
      <4>2. Len(s) + k \in 1 .. Len(g) /\ ~(Len(s) + k <= Len(s)) /\ (Len(s) + k) - Len(s) = k
        BY <2>3, <2>4, <2>7, <3>1
      <4> QED
        BY <2>2, <2>4, <3>1, <4>1, <4>2
    <3>2. CASE i \in 1 .. j
      <4>1. /\ ChildOffset(i) - d + k \in 1 .. Len(s)
            /\ s[ChildOffset(i) - d + k] = GetDirContents(i)[k]
        BY <1>11, <2>2, <2>7, <3>2
      <4> QED
        BY <2>4, <4>1
    <3> QED
      BY <2>1, <3>1, <3>2
  <2> QED
    BY <2>1, <2>2, <2>6, <2>7
<1>12. n \in T
  <2>1. 0 .. n \subseteq T
    <3> HIDE DEF T
    <3> QED
      BY <1>1, <1>10, <1>11, IntervalInduction
  <2>2. n \in 0 .. n
    BY <1>1
  <2> HIDE DEF T
  <2> QED
    BY <2>1, <2>2
<1>13. PICK g : g = f[n]
  OBVIOUS
<1>14. g \in Seq(Shown) /\ Listing = Dots \o g
  BY <1>1, <1>6, <1>7, <1>13
<1>15. /\ Listing \in Seq(Shown) /\ Len(g) \in Nat /\ Len(Listing) = d + Len(g)
       /\ \A m \in 1 .. d + Len(g) : Listing[m] = IF m <= d THEN Dots[m] ELSE g[m - d]
  BY <1>2, <1>14, ConcatProperties, LenProperties DEF d
<1>16. ASSUME NEW i \in 1 .. n, NEW k \in Nat, k \in 1 .. GetEntrySize(i)
       PROVE  Listing[ChildOffset(i) + k] = GetDirContents(i)[k]
  <2>1. /\ ChildOffset(i) - d + k \in 1 .. Len(g)
        /\ g[ChildOffset(i) - d + k] = GetDirContents(i)[k]
    BY <1>12, <1>13, <1>16
  <2>2. ChildOffset(i) \in Nat
    BY <1>8
  <2>3. /\ ChildOffset(i) + k \in 1 .. d + Len(g) /\ ~(ChildOffset(i) + k <= d)
        /\ (ChildOffset(i) + k) - d = ChildOffset(i) - d + k
    BY <1>2, <1>15, <2>1, <2>2
  <2> QED
    BY <1>15, <2>1, <2>3
<1>17. Len(Listing) = ChildOffset(n + 1)
  BY <1>12, <1>13, <1>15
<1>18. \A k \in 1 .. d : Listing[k] = Dots[k]
  BY <1>2, <1>15
<1> QED
  BY <1>15, <1>16, <1>17, <1>18 DEF n, d

(***************************************************************************)
(* A sector is its part of the listing.                                    *)
(***************************************************************************)

\* The last loop goes from child to child.
IsFilled(after, buf, first) ==
  /\ \A i \in first - 1 .. Len(children) : after[i] \in Seq(Shown)
  /\ after[first - 1] = buf
  /\ \A i \in first .. Len(children) :
       after[i] = IF Len(after[i - 1]) < SectorEntries
                  THEN after[i - 1] \o GetDirContents(i) ELSE after[i - 1]
  /\ Filled(buf, first) = after[Len(children)]

LEMMA FilledExists ==
  ASSUME DirTyped, NEW buf \in Seq(Shown), NEW first \in 1 .. Len(children) + 1
  PROVE  \E after : IsFilled(after, buf, first)
<1> DEFINE n == Len(children)
           V == Seq(Shown)
           Turn(v, i) == IF Len(v) < SectorEntries THEN v \o GetDirContents(i) ELSE v
           Body(w) == [i \in first - 1 .. n |->
                         IF i = first - 1 THEN buf
                         ELSE IF Len(w[i - 1]) < SectorEntries
                         THEN w[i - 1] \o GetDirContents(i) ELSE w[i - 1]]
           after == CHOOSE w : w = Body(w)
<1>1. n \in Nat /\ first \in Nat /\ 1 <= first /\ first <= n + 1
  BY LenProperties DEF DirTyped
<1>2. Filled(buf, first) = after[n]
  BY Zenon DEF Filled
<1>3. \A v \in V, i \in 1 .. n : Turn(v, i) \in V
  BY ContentsAt, ConcatProperties
<1>4. \E w : w = Body(w)
  <2>1. PICK step : step = [i \in Int |-> [v \in V |-> IF i \in 1 .. n THEN Turn(v, i) ELSE v]]
    OBVIOUS
  <2>2. step \in [Int -> [V -> V]] /\ \A i \in 1 .. n, v \in V : step[i][v] = Turn(v, i)
    <3> HIDE DEF V, Turn
    <3>1. ASSUME NEW i \in Int
          PROVE  [v \in V |-> IF i \in 1 .. n THEN Turn(v, i) ELSE v] \in [V -> V]
      BY <1>3
    <3> QED
      BY <1>1, <2>1, <3>1
  <2>3. PICK w : Unfolds(w, first - 1, n, V, buf, step)
    <3>1. first - 1 \in Int /\ n \in Int
      BY <1>1
    <3> QED
      BY <2>2, <3>1, RecursionFrom, Zenon
  <2>4. ASSUME NEW i \in first - 1 .. n, i # first - 1
        PROVE  step[i][w[i - 1]] = Turn(w[i - 1], i)
    <3>1. i - 1 \in first - 1 .. n /\ i \in 1 .. n
      BY <1>1, <2>4
    <3>2. w[i - 1] \in V
      BY <2>3, <3>1 DEF Unfolds
    <3> HIDE DEF V, Turn
    <3> QED
      BY <2>2, <3>1, <3>2
  <2>5. w = [i \in first - 1 .. n |-> w[i]]
        /\ \A i \in first - 1 .. n : w[i] = IF i = first - 1 THEN buf ELSE step[i][w[i - 1]]
    BY <2>3 DEF Unfolds
  <2>6. \A i \in first - 1 .. n :
          w[i] = IF i = first - 1 THEN buf ELSE Turn(w[i - 1], i)
    <3> HIDE DEF Turn, n
    <3> QED
      BY <2>4, <2>5
  <2>7. w = Body(w)
    BY <2>5, <2>6
  <2> QED
    BY <2>7
<1>5. after = Body(after)
  <2> HIDE DEF n
  <2> QED
    BY <1>4, Zenon
<1> HIDE DEF after
<1>6. after[first - 1] = buf
  BY <1>1, <1>5
<1>7. ASSUME NEW i \in first .. n PROVE after[i] = Turn(after[i - 1], i)
  <2>1. i \in first - 1 .. n /\ i # first - 1
    BY <1>1
  <2> HIDE DEF n
  <2> QED
    BY <1>5, <2>1
<1>8. ASSUME NEW i \in first - 1 .. n PROVE after[i] \in V
  <2> DEFINE T == {m \in 0 .. n - first + 1 : after[first - 1 + m] \in V}
  <2>1. 0 \in T
    BY <1>1, <1>6
  <2>2. ASSUME NEW m \in 0 .. (n - first + 1) - 1, m \in T PROVE m + 1 \in T
    <3>1. /\ first + m \in first .. n /\ first + m \in 1 .. n /\ m + 1 \in 0 .. n - first + 1
          /\ first - 1 + (m + 1) = first + m /\ (first + m) - 1 = first - 1 + m
      BY <1>1
    <3>2. after[first + m] = Turn(after[first - 1 + m], first + m)
      BY <1>7, <3>1
    <3>3. after[first - 1 + m] \in V
      BY <2>2
    <3>4. after[first + m] \in V
      <4> HIDE DEF V, Turn
      <4> QED
        BY <1>3, <3>1, <3>2, <3>3
    <3> QED
      BY <3>1, <3>4
  <2>3. 0 .. n - first + 1 \subseteq T
    <3>1. n - first + 1 \in Nat
      BY <1>1
    <3> HIDE DEF T, n
    <3> QED
      BY <2>1, <2>2, <3>1, IntervalInduction
  <2>4. i - (first - 1) \in 0 .. n - first + 1 /\ first - 1 + (i - (first - 1)) = i
    BY <1>1
  <2>5. i - (first - 1) \in T
    <3> HIDE DEF T
    <3> QED
      BY <2>3, <2>4
  <2> QED
    BY <2>4, <2>5
<1> QED
  BY <1>2, <1>6, <1>7, <1>8 DEF IsFilled

\* A buffer shows the listing from an entry on.
Shows(buf, from) ==
  \A k \in 1 .. Len(buf) : from + k <= Len(Listing) /\ buf[k] = Listing[from + k]

\* The entries from an entry on, as many as there are in a buffer, end where a child
\* begins, and the child before that begins in the sector, if it is not before first.
EndsWithChild(buf, from, first) ==
  \E j \in first .. Len(children) + 1 :
    /\ from + Len(buf) = ChildOffset(j)
    /\ j = first \/ ChildOffset(j - 1) < from + SectorEntries

\* The last loop adds whole children until the sector is full or the listing ends.
LEMMA FilledShows ==
  ASSUME DirTyped, NEW first \in 1 .. Len(children) + 1, NEW from \in Nat,
         NEW buf \in Seq(Shown), Shows(buf, from), from + Len(buf) = ChildOffset(first)
  PROVE  /\ Filled(buf, first) \in Seq(Shown) /\ Shows(Filled(buf, first), from)
         /\ \/ Len(Filled(buf, first)) >= SectorEntries
            \/ from + Len(Filled(buf, first)) = Len(Listing)
         /\ EndsWithChild(Filled(buf, first), from, first)
<1> DEFINE n == Len(children)
<1>1. n \in Nat /\ first \in Nat /\ 1 <= first /\ first <= n + 1
  BY LenProperties DEF DirTyped
<1>2. PICK after : IsFilled(after, buf, first)
  BY FilledExists
<1>3. SectorEntries \in Nat
  BY ConstantsAssumption
<1>4. Len(Listing) \in Nat /\ Len(Listing) = ChildOffset(n + 1)
  BY ListingAt, LenProperties
<1>5. \A i \in first - 1 .. n : after[i] \in Seq(Shown) /\ Len(after[i]) \in Nat
  BY <1>2, LenProperties DEF IsFilled
<1> DEFINE Good(i) ==
             /\ Shows(after[i], from)
             /\ Len(after[i]) >= SectorEntries \/ from + Len(after[i]) = ChildOffset(i + 1)
             /\ \E j \in first .. i + 1 :
                  /\ from + Len(after[i]) = ChildOffset(j)
                  /\ j = first \/ ChildOffset(j - 1) < from + SectorEntries
           T == {m \in 0 .. n - first + 1 : Good(first - 1 + m)}
<1>6. 0 \in T
  <2>1. after[first - 1] = buf /\ first - 1 + 0 = first - 1 /\ (first - 1) + 1 = first
        /\ 0 \in 0 .. n - first + 1 /\ first \in first .. (first - 1) + 1
    BY <1>1, <1>2 DEF IsFilled
  <2>2. Good(first - 1)
    BY <2>1
  <2> QED
    BY <2>1, <2>2
<1>7. ASSUME NEW i \in first .. n, Good(i - 1) PROVE Good(i)
  <2>1. i \in 1 .. n /\ i - 1 \in first - 1 .. n /\ i \in first - 1 .. n /\ (i - 1) + 1 = i
    BY <1>1
  <2>2. PICK s, g, c : s = after[i - 1] /\ g = after[i] /\ c = GetDirContents(i)
    OBVIOUS
  <2>3. s \in Seq(Shown) /\ Len(s) \in Nat /\ g \in Seq(Shown) /\ Len(g) \in Nat
    BY <1>5, <2>1, <2>2
  <2>4. g = IF Len(s) < SectorEntries THEN s \o c ELSE s
    BY <1>2, <2>1, <2>2 DEF IsFilled
  <2>5. CASE Len(s) >= SectorEntries
    <3>1. g = s
      BY <1>3, <2>3, <2>4, <2>5
    <3>2. PICK j \in first .. (i - 1) + 1 :
            /\ from + Len(after[i - 1]) = ChildOffset(j)
            /\ j = first \/ ChildOffset(j - 1) < from + SectorEntries
      BY <1>7
    <3>3. j \in first .. i + 1
      BY <1>1
    <3> QED
      BY <1>7, <2>2, <2>5, <3>1, <3>2, <3>3
  <2>6. CASE Len(s) < SectorEntries
    <3>1. /\ c \in Seq(Shown) /\ Len(c) = GetEntrySize(i) /\ GetEntrySize(i) \in Nat
          /\ ChildOffset(i) \in Nat /\ ChildOffset(i + 1) = ChildOffset(i) + GetEntrySize(i)
      <4>1. i \in 1 .. n + 1
        BY <1>1, <2>1
      <4> QED
        BY <2>1, <2>2, <4>1, ContentsAt, OffsetsFacts, EntriesFacts
    <3>2. /\ Len(g) = Len(s) + Len(c)
          /\ \A m \in 1 .. Len(s) + Len(c) :
               g[m] = IF m <= Len(s) THEN s[m] ELSE c[m - Len(s)]
      BY <2>3, <2>4, <2>6, <3>1, ConcatProperties
    <3>3. from + Len(s) = ChildOffset(i)
      BY <1>3, <1>7, <2>1, <2>2, <2>3, <2>6
    <3>4. from + Len(g) = ChildOffset(i + 1)
      BY <2>3, <3>1, <3>2, <3>3
    <3>5. ChildOffset(i + 1) <= Len(Listing)
      <4>1. ChildOffset(i) + GetEntrySize(i) <= ChildOffset(n + 1)
        BY <2>1, OffsetsRise
      <4> QED
        BY <1>4, <3>1, <4>1
    <3>6. ASSUME NEW m \in 1 .. Len(g)
          PROVE  from + m <= Len(Listing) /\ g[m] = Listing[from + m]
      <4>1. from + m <= Len(Listing)
        BY <1>4, <2>3, <3>1, <3>4, <3>5
      <4>2. CASE m <= Len(s)
        <5>1. m \in 1 .. Len(s) /\ m \in 1 .. Len(s) + Len(c)
          BY <2>3, <3>1, <3>2, <4>2
        <5>2. s[m] = Listing[from + m]
          BY <1>7, <2>2, <5>1 DEF Shows
        <5>3. g[m] = s[m]
          BY <3>2, <4>2, <5>1
        <5> QED
          BY <4>1, <5>2, <5>3
      <4>3. CASE ~(m <= Len(s))
        <5>1. m - Len(s) \in Nat /\ m - Len(s) \in 1 .. GetEntrySize(i)
              /\ ChildOffset(i) + (m - Len(s)) = from + m
          <6> HIDE DEF Good, T
          <6>1. m \in Nat /\ Len(s) < m /\ m <= Len(s) + Len(c)
            BY <2>3, <3>1, <3>2, <4>3
          <6> QED
            BY <2>3, <3>1, <3>3, <6>1
        <5>2. Listing[ChildOffset(i) + (m - Len(s))] = GetDirContents(i)[m - Len(s)]
          BY <2>1, <5>1, ListingAt
        <5>3. g[m] = c[m - Len(s)]
          BY <3>1, <3>2, <2>3, <4>3
        <5> QED
          BY <2>2, <4>1, <5>1, <5>2, <5>3
      <4> QED
        BY <4>2, <4>3
    <3>7. i + 1 \in first .. i + 1 /\ (i + 1) - 1 = i
      BY <1>1
    <3>8. ChildOffset(i) < from + SectorEntries
      BY <1>3, <2>3, <2>6, <3>3
    <3> QED
      BY <2>2, <3>4, <3>6, <3>7, <3>8 DEF Shows
  <2> QED
    BY <1>3, <2>3, <2>5, <2>6
<1>8. ASSUME NEW m \in 0 .. (n - first + 1) - 1, m \in T PROVE m + 1 \in T
  <2>1. /\ first + m \in first .. n /\ m + 1 \in 0 .. n - first + 1
        /\ first - 1 + (m + 1) = first + m /\ (first + m) - 1 = first - 1 + m
    BY <1>1
  <2>2. Good(first - 1 + m)
    BY <1>8
  <2> HIDE DEF Good
  <2>3. Good(first + m)
    BY <1>7, <2>1, <2>2
  <2> QED
    BY <2>1, <2>3
<1>9. Good(n)
  <2>1. n - first + 1 \in Nat /\ first - 1 + (n - first + 1) = n
    BY <1>1
  <2>2. 0 .. n - first + 1 \subseteq T
    <3> HIDE DEF T, n
    <3> QED
      BY <1>6, <1>8, <2>1, IntervalInduction
  <2>3. n - first + 1 \in 0 .. n - first + 1
    BY <2>1
  <2>4. n - first + 1 \in T
    <3> HIDE DEF T
    <3> QED
      BY <2>2, <2>3
  <2> HIDE DEF Good
  <2> QED
    BY <2>1, <2>4
<1>10. Filled(buf, first) = after[n]
  BY <1>2 DEF IsFilled
<1>11. n \in first - 1 .. n
  BY <1>1
<1> QED
  BY <1>4, <1>5, <1>9, <1>10, <1>11 DEF EndsWithChild

\* The first loop stops at the first child that it has to.
LEMMA StopFacts ==
  ASSUME DirTyped, NEW from \in Nat
  PROVE  /\ StopChild(from) \in 1 .. Len(children) + 1
         /\ Stops(StopChild(from), from)
         /\ \A j \in 1 .. StopChild(from) - 1 : ~Stops(j, from)
<1> DEFINE n == Len(children)
           S == {i \in 1 .. n + 1 : Stops(i, from)}
<1>1. n \in Nat
  BY LenProperties DEF DirTyped
<1>2. S \subseteq Nat /\ n + 1 \in S
  BY <1>1 DEF Stops
<1>3. PICK i \in S : \A j \in S : i <= j
  <2> HIDE DEF S
  <2> QED
    BY <1>2, LeastElement
<1>4. Stops(i, from) /\ \A j \in 1 .. i - 1 : ~Stops(j, from)
  <2>1. ASSUME NEW j \in 1 .. i - 1, Stops(j, from) PROVE FALSE
    <3>1. j \in 1 .. n + 1 /\ j < i
      BY <1>1
    <3> QED
      BY <1>3, <2>1, <3>1
  <2> QED
    BY <2>1
<1>5. \E m \in 1 .. n + 1 : Stops(m, from) /\ \A j \in 1 .. m - 1 : ~Stops(j, from)
  BY <1>4
<1> QED
  BY <1>5 DEF StopChild

\* The same without regard to where the buffer begins: it has no more than the dot
\* entries, or ends with a child that begins in the sector.
EndsWhole(buf, from) ==
  \/ Len(buf) <= 2 /\ from + Len(buf) >= Len(Listing)
  \/ \E j \in 1 .. Len(children) + 1 :
       /\ from + Len(buf) = ChildOffset(j)
       /\ Len(buf) <= 2 \/ (j # 1 /\ ChildOffset(j - 1) < from + SectorEntries)

\* Up to a directory's end at least, the buffer has what the listing has there, and a
\* sector of it.
LEMMA BufferShows ==
  ASSUME DirTyped, NEW from \in Nat, from = 0 \/ from >= SectorEntries
  PROVE  /\ TmpBuf(from) \in Seq(Shown) /\ Shows(TmpBuf(from), from)
         /\ \/ Len(TmpBuf(from)) >= SectorEntries
            \/ from + Len(TmpBuf(from)) >= Len(Listing)
         /\ EndsWhole(TmpBuf(from), from)
<1> DEFINE n == Len(children)
<1>1. PICK i : i = StopChild(from)
  OBVIOUS
<1>2. /\ i \in 1 .. n + 1 /\ Stops(i, from)
      /\ \A j \in 1 .. i - 1 : ~Stops(j, from)
  BY <1>1, StopFacts
<1>3. n \in Nat /\ SectorEntries \in Nat /\ SectorEntries >= 2
  BY LenProperties, ConstantsAssumption DEF DirTyped
<1>4. /\ Len(Dots) \in 0 .. 2 /\ Dots \in Seq(Shown) /\ ChildOffset(1) = Len(Dots)
      /\ is_root => Len(Dots) = 0
  <2>1. Dot \in Shown /\ DotDot \in Shown
    BY DEF Shown
  <2> QED
    BY <2>1, OffsetsFacts DEF Dots
<1>5. Len(Listing) \in Nat /\ Len(Listing) = ChildOffset(n + 1)
  BY ListingAt, LenProperties
<1>6. \A j \in 1 .. n + 1 : ChildOffset(j) \in Nat
  BY OffsetsFacts
<1>7. <<>> \in Seq(Shown) /\ Len(<<>>) = 0 /\ Shows(<<>>, from)
  BY DEF Shows
<1>8. ASSUME i # 1
      PROVE  ChildOffset(i) <= from
  <2>1. i - 1 \in 1 .. n /\ i - 1 \in 1 .. i - 1 /\ (i - 1) + 1 = i
    BY <1>2, <1>3, <1>8
  <2>2. ~Stops(i - 1, from)
    BY <1>2, <2>1
  <2>3. ~(ChildOffset(i - 1) + GetEntrySize(i - 1) > from)
    BY <2>2 DEF Stops
  <2>4. ChildOffset(i) = ChildOffset(i - 1) + GetEntrySize(i - 1)
    BY <2>1, OffsetsFacts
  <2>5. ChildOffset(i) \in Nat
    BY <1>2, <1>6
  <2> QED
    BY <2>1, <2>3, <2>4, <2>5
<1>9. CASE from = 0
  <2>1. i = 1
    <3>1. 1 \in 1 .. n + 1 /\ Stops(1, from)
      BY <1>3, <1>4, <1>9 DEF Stops
    <3> QED
      BY <1>2, <1>3, <3>1
  <2>2. CASE is_root
    <3>1. TmpBuf(from) = Filled(<<>>, 1)
      BY <1>1, <1>4, <1>9, <2>1, <2>2 DEF TmpBuf
    <3>2. from + Len(<<>>) = ChildOffset(1)
      BY <1>4, <1>7, <1>9, <2>2
    <3>3. 1 \in 1 .. Len(children) + 1
      BY <1>3
    <3>4. /\ Filled(<<>>, 1) \in Seq(Shown) /\ Shows(Filled(<<>>, 1), from)
          /\ \/ Len(Filled(<<>>, 1)) >= SectorEntries
             \/ from + Len(Filled(<<>>, 1)) = Len(Listing)
          /\ EndsWithChild(Filled(<<>>, 1), from, 1)
      BY <1>7, <3>2, <3>3, FilledShows
    <3>5. Len(Filled(<<>>, 1)) \in Nat
      BY <3>4, LenProperties
    <3>6. EndsWhole(Filled(<<>>, 1), from)
      BY <1>3, <1>4, <1>9, <2>2, <3>4, <3>5 DEF EndsWithChild, EndsWhole
    <3> QED
      BY <1>5, <3>1, <3>4, <3>6
  <2>3. CASE ~is_root
    <3>1. TmpBuf(from) = Filled(Dots, 1)
      BY <1>1, <1>9, <2>1, <2>3 DEF TmpBuf
    <3>2. from + Len(Dots) = ChildOffset(1)
      BY <1>4, <1>9
    <3>3. Shows(Dots, from)
      <4>1. Len(Dots) <= Len(Listing)
        <5>1. n = 0 \/ (1 \in 1 .. n /\ n + 1 \in 1 + 1 .. n + 1)
          BY <1>3
        <5>2. CASE n = 0
          BY <1>4, <1>5, <5>2
        <5>3. CASE 1 \in 1 .. n /\ n + 1 \in 1 + 1 .. n + 1
          <6>1. ChildOffset(1) + GetEntrySize(1) <= ChildOffset(n + 1)
            BY <5>3, OffsetsRise
          <6>2. GetEntrySize(1) \in Nat
            BY <5>3, EntriesFacts
          <6> QED
            BY <1>4, <1>5, <6>1, <6>2
        <5> QED
          BY <5>1, <5>2, <5>3
      <4> QED
        BY <1>4, <1>5, <1>9, <4>1, ListingAt DEF Shows
    <3>4. 1 \in 1 .. Len(children) + 1
      BY <1>3
    <3>5. /\ Filled(Dots, 1) \in Seq(Shown) /\ Shows(Filled(Dots, 1), from)
          /\ \/ Len(Filled(Dots, 1)) >= SectorEntries
             \/ from + Len(Filled(Dots, 1)) = Len(Listing)
          /\ EndsWithChild(Filled(Dots, 1), from, 1)
      BY <1>4, <3>2, <3>3, <3>4, FilledShows
    <3>6. Len(Filled(Dots, 1)) \in Nat
      BY <3>5, LenProperties
    <3>7. EndsWhole(Filled(Dots, 1), from)
      BY <1>3, <1>4, <1>9, <3>5, <3>6 DEF EndsWithChild, EndsWhole
    <3> QED
      BY <1>5, <3>1, <3>5, <3>7
  <2> QED
    BY <2>2, <2>3
<1>10. CASE from # 0 /\ i <= n /\ ChildOffset(i) < from
  <2>1. i \in 1 .. n /\ i + 1 \in 1 .. n + 1
    BY <1>2, <1>3, <1>10
  <2>2. PICK c, o, e : c = GetDirContents(i) /\ o = ChildOffset(i) /\ e = GetEntrySize(i)
    OBVIOUS
  <2>3. /\ c \in Seq(Shown) /\ Len(c) = e /\ e \in Nat /\ o \in Nat
        /\ ChildOffset(i + 1) = o + e /\ o + e > from /\ o < from
    <3>1. o + e > from
      BY <1>2, <1>3, <1>6, <1>10, <2>1, <2>2 DEF Stops
    <3>2. e \in Nat
      BY <2>1, <2>2, EntriesFacts
    <3>3. c \in Seq(Shown) /\ Len(c) = e
      BY <2>1, <2>2, ContentsAt
    <3>4. ChildOffset(i + 1) = o + e /\ o \in Nat
      BY <1>6, <2>1, <2>2, OffsetsFacts
    <3> QED
      BY <1>10, <2>2, <3>1, <3>2, <3>3, <3>4
  <2>4. PICK d \in Nat : d = from - o
    BY <2>3
  <2>5. PICK b : b = SubSeq(c, d + 1, e)
    OBVIOUS
  <2>6. /\ b \in Seq(Shown) /\ Len(b) = e - d /\ Len(b) \in Nat /\ d < e /\ 1 <= d
        /\ \A m \in 1 .. e - d : b[m] = c[d + m]
    <3>1. d < e /\ 1 <= d
      BY <2>3, <2>4
    <3>2. d + 1 \in 1 .. Len(c) + 1 /\ e \in 0 .. Len(c) /\ d + 1 <= e + 1
      BY <2>3, <2>4, <3>1
    <3>3. /\ b \in Seq(Shown) /\ Len(b) = e - (d + 1) + 1
          /\ \A m \in 1 .. e - (d + 1) + 1 : b[m] = c[(d + 1) + m - 1]
      BY <2>3, <2>5, <3>1, <3>2, SubSeqProperties
    <3>4. e - (d + 1) + 1 = e - d /\ \A m \in 1 .. e - d : (d + 1) + m - 1 = d + m
      BY <2>3, <2>4
    <3>5. e - d \in Nat
      BY <2>3, <2>4, <3>1
    <3> QED
      BY <3>1, <3>3, <3>4, <3>5
  <2>7. TmpBuf(from) = Filled(b, i + 1)
    <3>1. ~(from = 0 /\ ~is_root) /\ i <= Len(children) /\ ChildOffset(i) < from
      BY <1>10
    <3>2. TmpBuf(from) = Filled(SubSeq(GetDirContents(i), from - ChildOffset(i) + 1, GetEntrySize(i)),
                                i + 1)
      BY <1>1, <3>1, Zenon DEF TmpBuf
    <3> QED
      BY <2>2, <2>4, <2>5, <3>2
  <2>8. from + Len(b) = ChildOffset(i + 1)
    BY <2>3, <2>4, <2>6
  <2>9. Shows(b, from)
    <3> SUFFICES ASSUME NEW m \in 1 .. Len(b)
                 PROVE  from + m <= Len(Listing) /\ b[m] = Listing[from + m]
      BY DEF Shows
    <3>1. d + m \in Nat /\ d + m \in 1 .. e /\ o + (d + m) = from + m /\ m \in 1 .. e - d
      BY <2>3, <2>4, <2>6
    <3>2. Listing[o + (d + m)] = c[d + m]
      BY <2>1, <2>2, <3>1, ListingAt
    <3>3. o + e <= Len(Listing)
      <4>1. n + 1 \in i + 1 .. n + 1
        BY <2>1, <1>3
      <4> QED
        BY <1>5, <2>1, <2>2, <4>1, OffsetsRise
    <3>4. from + m <= o + e
      BY <2>3, <3>1
    <3>5. b[m] = Listing[from + m]
      BY <2>6, <3>1, <3>2
    <3> QED
      BY <1>5, <2>3, <3>1, <3>3, <3>4, <3>5
  <2>10. /\ Filled(b, i + 1) \in Seq(Shown) /\ Shows(Filled(b, i + 1), from)
         /\ \/ Len(Filled(b, i + 1)) >= SectorEntries
            \/ from + Len(Filled(b, i + 1)) = Len(Listing)
         /\ EndsWithChild(Filled(b, i + 1), from, i + 1)
    BY <2>1, <2>6, <2>8, <2>9, FilledShows
  <2>11. Len(Filled(b, i + 1)) \in Nat
    BY <2>10, LenProperties
  <2>12. EndsWhole(Filled(b, i + 1), from)
    <3>1. PICK j \in i + 1 .. n + 1 :
            /\ from + Len(Filled(b, i + 1)) = ChildOffset(j)
            /\ j = i + 1 \/ ChildOffset(j - 1) < from + SectorEntries
      BY <2>10 DEF EndsWithChild
    <3>2. j \in 1 .. n + 1 /\ j # 1
      BY <1>3, <2>1
    <3>3. ChildOffset(j - 1) < from + SectorEntries
      <4>1. CASE j = i + 1
        <5>1. j - 1 = i
          BY <2>1, <4>1
        <5> QED
          BY <1>3, <1>10, <2>2, <2>3, <5>1
      <4> QED
        BY <3>1, <4>1
    <3> QED
      BY <3>1, <3>2, <3>3 DEF EndsWhole
  <2> QED
    BY <1>5, <2>7, <2>10, <2>11, <2>12
<1>11. CASE from # 0 /\ ~(i <= n /\ ChildOffset(i) < from)
  <2>1. TmpBuf(from) = Filled(<<>>, i)
    <3>1. ~(from = 0 /\ ~is_root) /\ ~(i <= Len(children) /\ ChildOffset(i) < from)
      BY <1>11
    <3> QED
      BY <1>1, <3>1, Zenon DEF TmpBuf
  <2>2. from >= 2
    BY <1>3, <1>11
  <2>3. ChildOffset(i) <= from /\ ChildOffset(i) \in Nat
    <3>1. CASE i = 1
      BY <1>2, <1>4, <1>6, <2>2, <3>1
    <3>2. CASE i # 1
      BY <1>2, <1>6, <1>8, <3>2
    <3> QED
      BY <3>1, <3>2
  <2>4. CASE i <= n
    <3>1. from + Len(<<>>) = ChildOffset(i)
      BY <1>7, <1>11, <2>3, <2>4
    <3>2. i \in 1 .. Len(children) + 1
      BY <1>2
    <3>3. /\ Filled(<<>>, i) \in Seq(Shown) /\ Shows(Filled(<<>>, i), from)
          /\ \/ Len(Filled(<<>>, i)) >= SectorEntries
             \/ from + Len(Filled(<<>>, i)) = Len(Listing)
          /\ EndsWithChild(Filled(<<>>, i), from, i)
      BY <1>7, <3>1, <3>2, FilledShows
    <3>4. Len(Filled(<<>>, i)) \in Nat
      BY <3>3, LenProperties
    <3>5. EndsWhole(Filled(<<>>, i), from)
      <4>1. PICK j \in i .. n + 1 :
              /\ from + Len(Filled(<<>>, i)) = ChildOffset(j)
              /\ j = i \/ ChildOffset(j - 1) < from + SectorEntries
        BY <3>3 DEF EndsWithChild
      <4>2. j \in 1 .. n + 1 /\ (j # i => j # 1)
        BY <1>2, <1>3
      <4>3. j = i => Len(Filled(<<>>, i)) <= 2
        BY <1>7, <3>1, <3>4, <4>1
      <4> QED
        BY <4>1, <4>2, <4>3 DEF EndsWhole
    <3> QED
      BY <1>5, <2>1, <3>3, <3>5
  <2>5. CASE ~(i <= n)
    <3>1. i = n + 1
      BY <1>2, <1>3, <2>5
    <3>2. PICK after : IsFilled(after, <<>>, i)
      BY <1>2, <1>7, FilledExists
    <3>3. Filled(<<>>, i) = <<>>
      <4>1. i - 1 = n
        BY <1>3, <3>1
      <4> QED
        BY <3>2, <4>1 DEF IsFilled
    <3>4. from + 0 >= Len(Listing) /\ Len(<<>>) <= 2
      BY <1>5, <1>7, <2>3, <3>1
    <3>5. EndsWhole(<<>>, from)
      BY <1>7, <3>4 DEF EndsWhole
    <3> QED
      BY <1>7, <2>1, <3>3, <3>4, <3>5
  <2> QED
    BY <2>4, <2>5
<1> QED
  BY <1>9, <1>10, <1>11

\* Overhangs, for a sector that is about to be read.
OverhangsFrom(i, from) ==
  /\ ChildOffset(i) < from + SectorEntries
  /\ ChildOffset(i) + GetEntrySize(i) > from + 2 * SectorEntries

\* A buffer that ends with whole children is longer than two sectors exactly when one
\* of them overhangs.
LEMMA OverhangsAreBeyond ==
  ASSUME DirTyped, NEW from \in Nat, NEW buf, Len(buf) \in Nat,
         Len(buf) >= SectorEntries \/ from + Len(buf) >= Len(Listing),
         EndsWhole(buf, from)
  PROVE  Len(buf) <= 2 * SectorEntries <=>
           \A i \in 1 .. Len(children) : ~OverhangsFrom(i, from)
<1> DEFINE n == Len(children)
<1>1. n \in Nat /\ SectorEntries \in Nat /\ SectorEntries >= 2
  BY LenProperties, ConstantsAssumption DEF DirTyped
<1>2. Len(Listing) = ChildOffset(n + 1) /\ \A j \in 1 .. n + 1 : ChildOffset(j) \in Nat
  BY ListingAt, OffsetsFacts
<1>3. ASSUME NEW i \in 1 .. n, OverhangsFrom(i, from) PROVE Len(buf) > 2 * SectorEntries
  <2>1. GetEntrySize(i) \in Nat /\ i \in 1 .. n + 1 /\ ChildOffset(i) \in Nat
    BY <1>1, <1>2, EntriesFacts
  <2>2. ChildOffset(i) < from + SectorEntries
        /\ ChildOffset(i) + GetEntrySize(i) > from + 2 * SectorEntries
    BY <1>3 DEF OverhangsFrom
  <2>3. CASE from + Len(buf) >= Len(Listing)
    <3>1. ChildOffset(i) + GetEntrySize(i) <= ChildOffset(n + 1)
      <4>1. n + 1 \in i + 1 .. n + 1
        BY <1>1
      <4> QED
        BY <4>1, OffsetsRise
    <3>2. ChildOffset(n + 1) \in Nat
      BY <1>1, <1>2
    <3> QED
      BY <1>1, <1>2, <2>1, <2>2, <2>3, <3>1, <3>2
  <2>4. CASE ~(from + Len(buf) >= Len(Listing))
    <3>1. PICK j \in 1 .. n + 1 : from + Len(buf) = ChildOffset(j)
      BY <2>4 DEF EndsWhole
    <3>2. ChildOffset(i) < ChildOffset(j)
      BY <1>1, <2>1, <2>2, <2>4, <3>1
    <3>3. j \in i + 1 .. n + 1
      <4> SUFFICES ASSUME j <= i PROVE FALSE
        BY <1>1
      <4>1. CASE j = i
        BY <2>1, <3>2, <4>1
      <4>2. CASE j # i
        <5>1. j \in 1 .. n /\ i \in j + 1 .. n + 1
          BY <1>1, <4>2
        <5>2. ChildOffset(j) + GetEntrySize(j) <= ChildOffset(i)
          BY <5>1, OffsetsRise
        <5>3. GetEntrySize(j) \in Nat /\ ChildOffset(j) \in Nat
          BY <1>2, <5>1, EntriesFacts
        <5> QED
          BY <2>1, <3>2, <5>2, <5>3
      <4> QED
        BY <4>1, <4>2
    <3>4. ChildOffset(i) + GetEntrySize(i) <= ChildOffset(j)
      BY <3>3, OffsetsRise
    <3> QED
      BY <1>1, <2>1, <2>2, <3>1, <3>4
  <2> QED
    BY <2>3, <2>4
<1>4. ASSUME Len(buf) > 2 * SectorEntries PROVE \E i \in 1 .. n : OverhangsFrom(i, from)
  <2>1. PICK j \in 1 .. n + 1 : /\ from + Len(buf) = ChildOffset(j)
                               /\ j # 1 /\ ChildOffset(j - 1) < from + SectorEntries
    BY <1>1, <1>4 DEF EndsWhole
  <2>2. PICK i \in 1 .. n : j = i + 1 /\ j - 1 = i
    <3>1. j - 1 \in 1 .. n /\ j = (j - 1) + 1
      BY <1>1, <2>1
    <3> QED
      BY <3>1
  <2>3. ChildOffset(i + 1) = ChildOffset(i) + GetEntrySize(i)
    BY OffsetsFacts
  <2>4. ChildOffset(i + 1) > from + 2 * SectorEntries
    BY <1>1, <1>4, <2>1, <2>2
  <2> QED
    BY <2>1, <2>2, <2>3, <2>4 DEF OverhangsFrom
<1> QED
  BY <1>1, <1>3, <1>4

(***************************************************************************)
(* The invariant of DirListing, and the theorems about sectors.            *)
(***************************************************************************)

ListingInv == DirTyped /\ SectorsMatchListing /\ BufferSuffices

LEMMA ListingStarts == Init => ListingInv
<1> SUFFICES ASSUME Init PROVE ListingInv
  OBVIOUS
<1>1. children \in Seq(EntryMetaData)
  <2>1. PICK m \in 0 .. MaxChildren : children \in [1 .. m -> EntryMetaData]
    BY DEF Init, BoundedSeq, SeqOf
  <2> QED
    BY <2>1, ConstantsAssumption
<1>2. SectorEntries \in Nat /\ Len(<<>>) = 0
  BY ConstantsAssumption
<1> QED
  BY <1>1, <1>2 DEF Init, ListingInv, DirTyped, SectorsMatchListing, BufferSuffices

\* The directory does not change while it is read, and so does not its listing.
LEMMA ListingStays ==
  ASSUME UNCHANGED <<is_root, children>>
  PROVE  /\ Listing' = Listing /\ Dots' = Dots
         /\ \A i : /\ GetEntrySize(i)' = GetEntrySize(i) /\ LongEntries(i)' = LongEntries(i)
                  /\ GetDirContents(i)' = GetDirContents(i)
                  /\ ChildOffset(i)' = ChildOffset(i)
<1>1. Dots' = Dots
  BY DEF Dots
<1>2. \A i : GetEntrySize(i)' = GetEntrySize(i) /\ LongEntries(i)' = LongEntries(i)
  BY DEF GetEntrySize, LongEntries
<1>3. \A i : GetDirContents(i)' = GetDirContents(i)
  BY SMT DEF GetDirContents, LongEntries
<1>4. [i \in 1 .. Len(children) |-> GetDirContents(i)]'
        = [i \in 1 .. Len(children) |-> GetDirContents(i)]
  BY <1>3
<1>5. Listing' = Listing
  BY <1>1, <1>4 DEF Listing
<1>6. \A i : ChildOffset(i)' = ChildOffset(i)
  BY SMT DEF ChildOffset, GetEntrySize, LongEntries, Dots, Dot, DotDot, DotEntry
<1> QED
  BY <1>1, <1>2, <1>3, <1>5, <1>6

LEMMA SectorsMatch ==
  ASSUME DirTyped, NEW n \in Nat, ReadDirSector(n * SectorEntries)
  PROVE  SectorsMatchListing' /\ BufferSuffices'
<1>1. PICK from : from = n * SectorEntries
  OBVIOUS
<1>2. SectorEntries \in Nat /\ SectorEntries >= 2
  BY ConstantsAssumption
<1>3. from \in Nat /\ (from = 0 \/ from >= SectorEntries)
  <2>1. CASE n = 0
    BY <1>1, <1>2, <2>1
  <2>2. CASE n # 0
    <3>1. PICK m \in Nat : n = m + 1
      <4>1. n - 1 \in Nat /\ n = (n - 1) + 1
        BY <2>2
      <4> QED
        BY <4>1
    <3>2. n * SectorEntries = m * SectorEntries + SectorEntries /\ m * SectorEntries \in Nat
      BY <1>2, <3>1
    <3> QED
      BY <1>1, <1>2, <3>2
  <2> QED
    BY <2>1, <2>2
<1>4. PICK b : b = TmpBuf(from)
  OBVIOUS
<1>5. /\ b \in Seq(Shown) /\ Shows(b, from) /\ Len(b) \in Nat
      /\ Len(b) >= SectorEntries \/ from + Len(b) >= Len(Listing)
      /\ EndsWhole(b, from)
  BY <1>3, <1>4, BufferShows, LenProperties
<1>6. offset' = from /\ tmp_buf' = b /\ sector' = Cut(b) /\ UNCHANGED <<is_root, children>>
  BY <1>1, <1>4 DEF ReadDirSector
<1>7. Listing' = Listing
  BY <1>6, ListingStays
<1>8. Len(Listing) \in Nat
  BY ListingAt, LenProperties
<1>9. Cut(b) = [k \in 1 .. SectorEntries |->
                  IF from + k <= Len(Listing) THEN Listing[from + k] ELSE NoEntry]
  <2>1. ASSUME NEW k \in 1 .. SectorEntries
        PROVE  (IF k <= Len(b) THEN b[k] ELSE NoEntry)
                 = IF from + k <= Len(Listing) THEN Listing[from + k] ELSE NoEntry
    <3>1. CASE k <= Len(b)
      <4>1. k \in 1 .. Len(b)
        BY <1>5, <3>1
      <4> QED
        BY <1>5, <3>1, <4>1 DEF Shows
    <3>2. CASE ~(k <= Len(b))
      <4>1. ~(from + k <= Len(Listing))
        BY <1>2, <1>3, <1>5, <1>8, <3>2
      <4> QED
        BY <3>2, <4>1
    <3> QED
      BY <3>1, <3>2
  <2> QED
    BY <2>1 DEF Cut
<1>10. SectorsMatchListing'
  BY <1>6, <1>7, <1>9 DEF SectorsMatchListing
<1>11. Len(b) <= 2 * SectorEntries <=>
         \A i \in 1 .. Len(children) : ~OverhangsFrom(i, from)
  BY <1>3, <1>5, OverhangsAreBeyond
<1>12. \A i : OverhangsFrom(i, from) <=> Overhangs(i)'
  BY <1>6, ListingStays DEF OverhangsFrom, Overhangs
<1> QED
  BY <1>6, <1>10, <1>11, <1>12 DEF BufferSuffices

LEMMA ListingKept == ListingInv /\ [Next]_vars => ListingInv'
<1> SUFFICES ASSUME ListingInv, [Next]_vars PROVE ListingInv'
  OBVIOUS
<1>1. UNCHANGED <<is_root, children>>
  BY DEF Next, ReadDirSector, vars
<1>2. DirTyped'
  BY <1>1 DEF ListingInv, DirTyped
<1>3. CASE Next
  <2>1. PICK n \in 0 .. ChildOffset(Len(children) + 1) \div SectorEntries + 1 :
          ReadDirSector(n * SectorEntries)
    BY <1>3 DEF Next
  <2>2. n \in Nat
    OBVIOUS
  <2>3. SectorsMatchListing' /\ BufferSuffices'
    BY <2>1, <2>2, SectorsMatch DEF ListingInv
  <2> QED
    BY <1>2, <2>3 DEF ListingInv
<1>4. CASE UNCHANGED vars
  <2>1. UNCHANGED <<offset, tmp_buf, sector>> /\ Listing' = Listing
    BY <1>1, <1>4, ListingStays DEF vars
  <2>2. SectorsMatchListing' <=> SectorsMatchListing
    BY <2>1 DEF SectorsMatchListing
  <2>3. \A i : Overhangs(i)' <=> Overhangs(i)
    BY <1>1, <2>1, ListingStays DEF Overhangs
  <2>4. BufferSuffices' <=> BufferSuffices
    BY <1>1, <2>1, <2>3 DEF BufferSuffices
  <2> QED
    BY <1>2, <2>2, <2>4 DEF ListingInv
<1> QED
  BY <1>3, <1>4

THEOREM ListingInvariance == Spec => []ListingInv
BY ListingStarts, ListingKept, PTL DEF Spec

\* Whatever sector of a directory is asked for, in whatever order, what read_dir_sector
\* makes on its own is that part of the whole listing: no entry is lost, doubled or torn
\* where a sector ends, for any children and any number of entries in a sector.
THEOREM SectorsShowListing == Spec => []SectorsMatchListing
<1>1. ListingInv => SectorsMatchListing
  BY DEF ListingInv
<1> QED
  BY <1>1, ListingInvariance, PTL

\* In every directory, with any names, read_dir_sector keeps within its buffer of two
\* sectors exactly when no child that begins before the end of the sector ends behind
\* the sector after it.
THEOREM BufferIsEnough == Spec => []BufferSuffices
<1>1. ListingInv => BufferSuffices
  BY DEF ListingInv
<1> QED
  BY <1>1, ListingInvariance, PTL

(***************************************************************************)
(* What a driver reads from the listing.                                   *)
(***************************************************************************)

\* Every entry of the listing is a dot entry or one of a child.
LEMMA PlaceOf ==
  ASSUME DirTyped, NEW p \in 1 .. Len(Listing)
  PROVE  \/ p \in 1 .. Len(Dots)
         \/ \E i \in 1 .. Len(children) :
              \E k \in 1 .. GetEntrySize(i) : p = ChildOffset(i) + k
<1> DEFINE n == Len(children)
           Placed(q) == \/ q \in 1 .. Len(Dots)
                        \/ \E i \in 1 .. n : \E k \in 1 .. GetEntrySize(i) : q = ChildOffset(i) + k
           T == {j \in 0 .. n : \A q \in 1 .. ChildOffset(j + 1) : Placed(q)}
<1>1. n \in Nat /\ Len(Listing) = ChildOffset(n + 1)
  BY ListingAt, LenProperties DEF DirTyped
<1>2. 0 \in T
  BY <1>1, OffsetsFacts
<1>3. ASSUME NEW j \in 0 .. n - 1, j \in T PROVE j + 1 \in T
  <2>1. j + 1 \in 1 .. n /\ j + 1 \in 0 .. n /\ j + 1 \in 1 .. n + 1
    BY <1>1
  <2>2. /\ ChildOffset((j + 1) + 1) = ChildOffset(j + 1) + GetEntrySize(j + 1)
        /\ ChildOffset(j + 1) \in Nat
    BY <2>1, OffsetsFacts
  <2>3. GetEntrySize(j + 1) \in Nat
    BY <2>1, EntriesFacts
  <2>4. ASSUME NEW q \in 1 .. ChildOffset((j + 1) + 1) PROVE Placed(q)
    <3>1. CASE q <= ChildOffset(j + 1)
      <4>1. q \in 1 .. ChildOffset(j + 1)
        BY <2>2, <2>3, <3>1
      <4> QED
        BY <1>3, <4>1
    <3>2. CASE ~(q <= ChildOffset(j + 1))
      <4>1. PICK k : k = q - ChildOffset(j + 1)
        OBVIOUS
      <4>2. k \in 1 .. GetEntrySize(j + 1) /\ q = ChildOffset(j + 1) + k
        BY <2>2, <2>3, <3>2, <4>1
      <4> QED
        BY <2>1, <4>2
    <3> QED
      BY <3>1, <3>2
  <2> HIDE DEF Placed
  <2> QED
    BY <2>1, <2>4
<1>4. 0 .. n \subseteq T
  <2> HIDE DEF T
  <2> QED
    BY <1>1, <1>2, <1>3, IntervalInduction
<1>5. n \in T
  <2>1. n \in 0 .. n
    BY <1>1
  <2> HIDE DEF T
  <2> QED
    BY <1>4, <2>1
<1> HIDE DEF Placed
<1>6. Placed(p)
  BY <1>1, <1>5
<1> QED
  BY <1>6 DEF Placed

\* What the listing has at each place of a child.
LEMMA EntriesListed ==
  ASSUME DirTyped, NEW i \in 1 .. Len(children)
  PROVE  /\ ChildOffset(i) \in Nat
         /\ ChildOffset(i + 1) = ChildOffset(i) + LongEntries(i) + 1
         /\ ChildOffset(i + 1) \in 1 .. Len(Listing)
         /\ Listing[ChildOffset(i + 1)] = ShortEntryOf(i)
         /\ \A k \in 1 .. LongEntries(i) :
              Listing[ChildOffset(i) + k] = LongEntryAt(i, LongEntries(i) + 1 - k)
<1> DEFINE n == Len(children)
<1>1. n \in Nat /\ Len(Listing) = ChildOffset(n + 1) /\ i \in 1 .. n + 1 /\ n + 1 \in 1 .. n + 1
  BY ListingAt, LenProperties DEF DirTyped
<1>2. LongEntries(i) \in Nat \ {0} /\ GetEntrySize(i) = LongEntries(i) + 1
  BY EntriesFacts
<1>3. /\ ChildOffset(i) \in Nat /\ ChildOffset(n + 1) \in Nat
      /\ ChildOffset(i + 1) = ChildOffset(i) + GetEntrySize(i)
  BY <1>1, OffsetsFacts
<1>4. ChildOffset(i) + GetEntrySize(i) <= ChildOffset(n + 1)
  <2>1. n + 1 \in i + 1 .. n + 1
    BY <1>1
  <2> QED
    BY <2>1, OffsetsRise
<1>5. ChildOffset(i + 1) = ChildOffset(i) + LongEntries(i) + 1
      /\ ChildOffset(i + 1) \in 1 .. Len(Listing)
  BY <1>1, <1>2, <1>3, <1>4
<1>6. Listing[ChildOffset(i + 1)] = ShortEntryOf(i)
  <2>1. GetEntrySize(i) \in Nat /\ GetEntrySize(i) \in 1 .. GetEntrySize(i)
    BY <1>2
  <2> QED
    BY <1>3, <2>1, ListingAt, ContentsAt
<1>7. ASSUME NEW k \in 1 .. LongEntries(i)
      PROVE  Listing[ChildOffset(i) + k] = LongEntryAt(i, LongEntries(i) + 1 - k)
  <2>1. k \in Nat /\ k \in 1 .. GetEntrySize(i)
    BY <1>2
  <2> QED
    BY <2>1, ListingAt, ContentsAt
<1> QED
  BY <1>3, <1>5, <1>6, <1>7

\* Where the short entries of the first children are.
ShortPlaces(j) == {ChildOffset(i + 1) : i \in 1 .. j}

LEMMA ShortEntriesAre ==
  ASSUME DirTyped
  PROVE  ShortEntries(Listing) = ShortPlaces(Len(children))
<1> DEFINE n == Len(children)
<1>1. DOMAIN Listing = 1 .. Len(Listing)
  BY ListingAt, LenProperties
<1>2. ASSUME NEW i \in 1 .. n PROVE ChildOffset(i + 1) \in ShortEntries(Listing)
  <2>1. ChildOffset(i + 1) \in DOMAIN Listing /\ Listing[ChildOffset(i + 1)] = ShortEntryOf(i)
    BY <1>1, EntriesListed
  <2>2. ShortEntryOf(i).kind = "short"
    BY DEF ShortEntryOf
  <2> QED
    BY <2>1, <2>2 DEF ShortEntries
<1>3. ASSUME NEW p \in ShortEntries(Listing) PROVE p \in ShortPlaces(n)
  <2>1. p \in 1 .. Len(Listing) /\ Listing[p].kind = "short"
    BY <1>1 DEF ShortEntries
  <2>2. p \notin 1 .. Len(Dots)
    <3> SUFFICES ASSUME p \in 1 .. Len(Dots) PROVE FALSE
      OBVIOUS
    <3>1. Listing[p] = Dots[p]
      BY ListingAt
    <3>2. Dots[p].kind # "short"
      BY DEF Dots, Dot, DotDot, DotEntry
    <3> QED
      BY <2>1, <3>1, <3>2
  <2>3. PICK i \in 1 .. n : \E k \in 1 .. GetEntrySize(i) : p = ChildOffset(i) + k
    BY <2>1, <2>2, PlaceOf
  <2>4. PICK k \in 1 .. GetEntrySize(i) : p = ChildOffset(i) + k
    BY <2>3
  <2>5. LongEntries(i) \in Nat /\ GetEntrySize(i) = LongEntries(i) + 1
    BY EntriesFacts
  <2>6. k \notin 1 .. LongEntries(i)
    <3> SUFFICES ASSUME k \in 1 .. LongEntries(i) PROVE FALSE
      OBVIOUS
    <3>1. Listing[p] = LongEntryAt(i, LongEntries(i) + 1 - k)
      BY <2>4, EntriesListed
    <3>2. Listing[p].kind = "long"
      BY <3>1 DEF LongEntryAt
    <3> QED
      BY <2>1, <3>2
  <2>7. p = ChildOffset(i + 1)
    <3>1. k = LongEntries(i) + 1
      BY <2>5, <2>6
    <3>2. ChildOffset(i) \in Nat /\ ChildOffset(i + 1) = ChildOffset(i) + LongEntries(i) + 1
      BY EntriesListed
    <3> QED
      BY <2>4, <2>5, <3>1, <3>2
  <2> QED
    BY <2>7 DEF ShortPlaces
<1> QED
  BY <1>2, <1>3 DEF ShortPlaces

\* They are in the order of the children.
LEMMA ShortPlacesRise ==
  ASSUME DirTyped, NEW i \in 1 .. Len(children), NEW j \in 1 .. Len(children)
  PROVE  /\ ChildOffset(i + 1) \in Nat
         /\ ChildOffset(i + 1) <= ChildOffset(j + 1) <=> i <= j
<1> DEFINE n == Len(children)
<1>1. n \in Nat
  BY LenProperties DEF DirTyped
<1>2. \A a, b \in 1 .. n : a < b => ChildOffset(a + 1) < ChildOffset(b + 1)
  <2> SUFFICES ASSUME NEW a \in 1 .. n, NEW b \in 1 .. n, a < b
               PROVE  ChildOffset(a + 1) < ChildOffset(b + 1)
    OBVIOUS
  <2>1. b \in a + 1 .. n + 1
    BY <1>1
  <2>2. ChildOffset(a + 1) <= ChildOffset(b)
    BY <2>1, OffsetsRise, OffsetsFacts
  <2>3. ChildOffset(b + 1) = ChildOffset(b) + LongEntries(b) + 1 /\ ChildOffset(b) \in Nat
    BY EntriesListed
  <2>4. LongEntries(b) \in Nat
    BY EntriesFacts
  <2>5. ChildOffset(a + 1) \in 1 .. Len(Listing)
    BY EntriesListed
  <2> QED
    BY <2>2, <2>3, <2>4, <2>5
<1>3. ChildOffset(i + 1) \in Nat /\ ChildOffset(j + 1) \in Nat
  <2>1. i + 1 \in 1 .. n + 1 /\ j + 1 \in 1 .. n + 1
    BY <1>1
  <2> QED
    BY <2>1, OffsetsFacts
<1>4. CASE i < j
  BY <1>2, <1>3, <1>4
<1>5. CASE i = j
  BY <1>3, <1>5
<1>6. CASE j < i
  <2>1. ChildOffset(j + 1) < ChildOffset(i + 1)
    BY <1>2, <1>6
  <2> QED
    BY <1>3, <1>6, <2>1
<1> QED
  BY <1>1, <1>4, <1>5, <1>6

\* There are as many as children.
LEMMA ShortPlacesCount ==
  ASSUME DirTyped
  PROVE  \A j \in 0 .. Len(children) : Cardinality(ShortPlaces(j)) = j
<1> DEFINE n == Len(children)
           T == {j \in 0 .. n : IsFiniteSet(ShortPlaces(j)) /\ Cardinality(ShortPlaces(j)) = j}
<1>1. n \in Nat
  BY LenProperties DEF DirTyped
<1>2. 0 \in T
  <2>1. ShortPlaces(0) = {}
    BY DEF ShortPlaces
  <2> QED
    BY <1>1, <2>1, FS_EmptySet
<1>3. ASSUME NEW j \in 0 .. n - 1, j \in T PROVE j + 1 \in T
  <2>1. j + 1 \in 1 .. n /\ j + 1 \in 0 .. n /\ 1 .. j + 1 = (1 .. j) \cup {j + 1}
    BY <1>1
  <2>2. ShortPlaces(j + 1) = ShortPlaces(j) \cup {ChildOffset((j + 1) + 1)}
    BY <2>1 DEF ShortPlaces
  <2>3. ChildOffset((j + 1) + 1) \notin ShortPlaces(j)
    <3> SUFFICES ASSUME NEW i \in 1 .. j, ChildOffset((j + 1) + 1) = ChildOffset(i + 1)
                 PROVE  FALSE
      BY DEF ShortPlaces
    <3>1. i \in 1 .. n /\ ~(j + 1 <= i)
      BY <1>1
    <3>2. ChildOffset((j + 1) + 1) \in Nat /\ ~(ChildOffset((j + 1) + 1) <= ChildOffset(i + 1))
      BY <2>1, <3>1, ShortPlacesRise
    <3> QED
      BY <3>2
  <2>4. IsFiniteSet(ShortPlaces(j)) /\ Cardinality(ShortPlaces(j)) = j
    BY <1>3
  <2>5. /\ IsFiniteSet(ShortPlaces(j + 1))
        /\ Cardinality(ShortPlaces(j + 1)) = Cardinality(ShortPlaces(j)) + 1
    <3>1. PICK S, x : S = ShortPlaces(j) /\ x = ChildOffset((j + 1) + 1)
      OBVIOUS
    <3>2. IsFiniteSet(S) /\ x \notin S /\ ShortPlaces(j + 1) = S \cup {x}
      BY <2>2, <2>3, <2>4, <3>1
    <3>3. IsFiniteSet(S \cup {x}) /\ Cardinality(S \cup {x}) = Cardinality(S) + 1
      BY <3>2, FS_AddElement
    <3> QED
      BY <3>1, <3>2, <3>3
  <2> QED
    BY <2>1, <2>4, <2>5
<1>4. 0 .. n \subseteq T
  <2> HIDE DEF T
  <2> QED
    BY <1>1, <1>2, <1>3, IntervalInduction
<1> QED
  BY <1>4

LEMMA OrdinalIs ==
  ASSUME DirTyped, NEW i \in 1 .. Len(children)
  PROVE  Ordinal(Listing, ChildOffset(i + 1)) = i
<1> DEFINE n == Len(children)
           upTo == {m \in ShortEntries(Listing) : m <= ChildOffset(i + 1)}
<1>1. upTo = ShortPlaces(i)
  <2>1. ShortEntries(Listing) = ShortPlaces(n)
    BY ShortEntriesAre
  <2>2. \A j \in 1 .. n : ChildOffset(j + 1) <= ChildOffset(i + 1) <=> j \in 1 .. i
    BY ShortPlacesRise
  <2>3. \A j \in 1 .. i : j \in 1 .. n
    BY LenProperties DEF DirTyped
  <2> QED
    BY <2>1, <2>2, <2>3 DEF ShortPlaces
<1>2. i \in 0 .. n
  OBVIOUS
<1> QED
  BY <1>1, <1>2, ShortPlacesCount DEF Ordinal

LEMMA LongCharsTyped ==
  ASSUME DirTyped, NEW p \in 1 .. Len(Listing), Listing[p].kind = "long"
  PROVE  Listing[p].chars \in Seq(NameChars)
<1>1. p \notin 1 .. Len(Dots)
  <2> SUFFICES ASSUME p \in 1 .. Len(Dots) PROVE FALSE
    OBVIOUS
  <2>1. Listing[p] = Dots[p]
    BY ListingAt
  <2>2. Dots[p].kind # "long"
    BY DEF Dots, Dot, DotDot, DotEntry
  <2> QED
    BY <2>1, <2>2
<1>2. PICK i \in 1 .. Len(children) : \E k \in 1 .. GetEntrySize(i) : p = ChildOffset(i) + k
  BY <1>1, PlaceOf
<1>3. PICK k \in 1 .. GetEntrySize(i) : p = ChildOffset(i) + k
  BY <1>2
<1>4. LongEntries(i) \in Nat /\ GetEntrySize(i) = LongEntries(i) + 1
  BY EntriesFacts
<1>5. k \in 1 .. LongEntries(i)
  <2> SUFFICES ASSUME k = LongEntries(i) + 1 PROVE FALSE
    BY <1>4
  <2>1. p = ChildOffset(i + 1)
    BY <1>3, <1>4, EntriesListed
  <2>2. Listing[p] = ShortEntryOf(i)
    BY <2>1, EntriesListed
  <2>3. ShortEntryOf(i).kind = "short"
    BY DEF ShortEntryOf
  <2> QED
    BY <2>2, <2>3
<1>6. PICK ord \in 1 .. LongEntries(i) : ord = LongEntries(i) + 1 - k
  BY <1>4, <1>5
<1>7. Listing[p] = LongEntryAt(i, ord)
  BY <1>3, <1>5, <1>6, EntriesListed
<1>8. Listing[p].chars = PartAt(i, ord)
  BY <1>7 DEF LongEntryAt
<1>9. PartAt(i, ord) \in [1 .. LONG_NAME_CHARS_PER_ENTRY -> NameChars]
  <2>1. (ord - 1) * LONG_NAME_CHARS_PER_ENTRY \in Nat
    BY OffsetsOfParts
  <2> QED
    BY <2>1, PartsTyped DEF PartAt
<1> QED
  BY <1>8, <1>9, ConstantsAssumption

\* The long entries that end at each place, put together.
Gathers(w, n) ==
  \A m \in 0 .. n - 1 :
    w[m] = IF m = 0 \/ Listing[m].kind # "long" THEN <<>>
           ELSE IF Listing[m].last THEN Listing[m].chars
           ELSE Listing[m].chars \o w[m - 1]

\* Characters up to the terminator.
Terminated(read) ==
  LET ends == {k \in DOMAIN read : read[k] = 0}
  IN  IF ends = {} THEN read
      ELSE SubSeq(read, 1, (CHOOSE k \in ends : \A j \in ends : k <= j) - 1)

LEMMA NameGathered ==
  ASSUME DirTyped, NEW n \in 1 .. Len(Listing)
  PROVE  \E w : Gathers(w, n) /\ NameBefore(Listing, n) = Terminated(w[n - 1])
<1> DEFINE V == Seq(NameChars)
           Body(w) == [m \in 0 .. n - 1 |->
                         IF m = 0 \/ Listing[m].kind # "long" THEN <<>>
                         ELSE IF Listing[m].last THEN Listing[m].chars
                         ELSE Listing[m].chars \o w[m - 1]]
           Turn(v, m) == IF Listing[m].kind # "long" THEN <<>>
                         ELSE IF Listing[m].last THEN Listing[m].chars
                         ELSE Listing[m].chars \o v
           chars == CHOOSE w : w = Body(w)
<1>1. n \in Nat /\ 1 <= n /\ n <= Len(Listing) /\ Len(Listing) \in Nat
  BY ListingAt, LenProperties
<1>2. NameBefore(Listing, n) = Terminated(chars[n - 1])
  BY Zenon DEF NameBefore, Terminated
<1>3. \A v \in V, m \in 1 .. n - 1 : Turn(v, m) \in V
  <2> SUFFICES ASSUME NEW v \in V, NEW m \in 1 .. n - 1 PROVE Turn(v, m) \in V
    OBVIOUS
  <2>1. m \in 1 .. Len(Listing)
    BY <1>1
  <2>2. CASE Listing[m].kind = "long"
    <3>1. Listing[m].chars \in V
      BY <2>1, <2>2, LongCharsTyped
    <3>2. Listing[m].chars \o v \in V
      BY <3>1, ConcatProperties
    <3> QED
      BY <3>1, <3>2
  <2> QED
    BY <2>2
<1>4. \E w : w = Body(w)
  <2>1. PICK step : step = [m \in Int |->
                              [v \in V |-> IF m \in 1 .. n - 1 THEN Turn(v, m) ELSE v]]
    OBVIOUS
  <2>2. step \in [Int -> [V -> V]] /\ \A m \in 1 .. n - 1, v \in V : step[m][v] = Turn(v, m)
    <3> HIDE DEF V, Turn
    <3>1. ASSUME NEW m \in Int
          PROVE  [v \in V |-> IF m \in 1 .. n - 1 THEN Turn(v, m) ELSE v] \in [V -> V]
      BY <1>3
    <3> QED
      BY <1>1, <2>1, <3>1
  <2>3. PICK w : Unfolds(w, 0, n - 1, V, <<>>, step)
    <3>1. 0 \in Int /\ n - 1 \in Int /\ <<>> \in V
      BY <1>1
    <3> QED
      BY <2>2, <3>1, RecursionFrom, Zenon
  <2>4. ASSUME NEW m \in 0 .. n - 1, m # 0 PROVE step[m][w[m - 1]] = Turn(w[m - 1], m)
    <3>1. m - 1 \in 0 .. n - 1 /\ m \in 1 .. n - 1
      BY <1>1, <2>4
    <3>2. w[m - 1] \in V
      BY <2>3, <3>1 DEF Unfolds
    <3> HIDE DEF V, Turn
    <3> QED
      BY <2>2, <3>1, <3>2
  <2>5. w = [m \in 0 .. n - 1 |-> w[m]]
        /\ \A m \in 0 .. n - 1 : w[m] = IF m = 0 THEN <<>> ELSE step[m][w[m - 1]]
    BY <2>3 DEF Unfolds
  <2>6. \A m \in 0 .. n - 1 : w[m] = IF m = 0 THEN <<>> ELSE Turn(w[m - 1], m)
    <3> HIDE DEF Turn
    <3> QED
      BY <2>4, <2>5
  <2>7. \A m \in 0 .. n - 1 :
          w[m] = IF m = 0 \/ Listing[m].kind # "long" THEN <<>>
                 ELSE IF Listing[m].last THEN Listing[m].chars
                 ELSE Listing[m].chars \o w[m - 1]
    BY <2>6
  <2>8. w = Body(w)
    BY <2>5, <2>7
  <2> QED
    BY <2>8
<1>5. chars = Body(chars)
  BY <1>4, Zenon
<1> HIDE DEF chars
<1>6. Gathers(chars, n)
  BY <1>5, Zenon DEF Gathers
<1> QED
  BY <1>2, <1>6

\* The characters of all parts of a name in a row: the name, the terminator, padding.
CharAt(name, y) ==
  IF y <= Len(name) THEN name[y] ELSE IF y = Len(name) + 1 THEN 0 ELSE UINT16 - 1

\* The long entries of a child, from the last part on, make the end of that row.
LEMMA PartsGathered ==
  ASSUME DirTyped, NEW i \in 1 .. Len(children), NEW w,
         Gathers(w, ChildOffset(i + 1)), NEW k \in 1 .. LongEntries(i)
  PROVE  /\ w[ChildOffset(i) + k] \in Seq(NameChars)
         /\ Len(w[ChildOffset(i) + k]) = k * LONG_NAME_CHARS_PER_ENTRY
         /\ \A x \in 1 .. k * LONG_NAME_CHARS_PER_ENTRY :
              w[ChildOffset(i) + k][x]
                = CharAt(children[i].name,
                         (LongEntries(i) - k) * LONG_NAME_CHARS_PER_ENTRY + x)
<1> DEFINE L == LONG_NAME_CHARS_PER_ENTRY
           e == LongEntries(i)
           off == ChildOffset(i)
           name == children[i].name
           c == Len(name)
           W(m) == w[off + m]
           T == {m \in 0 .. e - 1 :
                   /\ W(m + 1) \in Seq(NameChars)
                   /\ Len(W(m + 1)) = (m + 1) * L
                   /\ \A x \in 1 .. (m + 1) * L :
                        W(m + 1)[x] = CharAt(name, (e - (m + 1)) * L + x)}
<1>1. /\ L \in Nat \ {0} /\ e \in Nat \ {0} /\ off \in Nat
      /\ ChildOffset(i + 1) = off + e + 1 /\ e * L >= c /\ (e - 1) * L < c /\ c \in Nat
  <2>1. name \in Seq(1 .. UINT16 - 1)
    BY EntriesFacts, ConstantsAssumption
  <2> QED
    BY <2>1, LenProperties, EntriesFacts, EntriesListed, ConstantsAssumption
<1>2. \A m \in 1 .. e :
        /\ Listing[off + m].kind = "long"
        /\ Listing[off + m].last <=> m = 1
        /\ Listing[off + m].chars = PartAt(i, e + 1 - m)
  <2> SUFFICES ASSUME NEW m \in 1 .. e
               PROVE  /\ Listing[off + m].kind = "long"
                      /\ Listing[off + m].last <=> m = 1
                      /\ Listing[off + m].chars = PartAt(i, e + 1 - m)
    OBVIOUS
  <2>1. Listing[off + m] = LongEntryAt(i, e + 1 - m)
    BY EntriesListed
  <2>2. (e + 1 - m = e) <=> m = 1
    BY <1>1
  <2>3. PICK ord : ord = e + 1 - m
    OBVIOUS
  <2>4. LongEntryAt(i, ord).kind = "long" /\ (LongEntryAt(i, ord).last <=> ord = e)
        /\ LongEntryAt(i, ord).chars = PartAt(i, ord)
    BY DEF LongEntryAt
  <2> QED
    BY <2>1, <2>2, <2>3, <2>4
<1>3. /\ W(1) = PartAt(i, e)
      /\ \A m \in 2 .. e : W(m) = PartAt(i, e + 1 - m) \o W(m - 1)
  <2>1. ASSUME NEW m \in 1 .. e
        PROVE  W(m) = IF m = 1 THEN PartAt(i, e + 1 - m)
                      ELSE PartAt(i, e + 1 - m) \o w[(off + m) - 1]
    <3>1. off + m \in 0 .. ChildOffset(i + 1) - 1 /\ off + m # 0
      BY <1>1
    <3> QED
      BY <1>2, <3>1 DEF Gathers
  <2>2. 1 \in 1 .. e /\ e + 1 - 1 = e
    BY <1>1
  <2>3. \A m \in 2 .. e : m \in 1 .. e /\ m # 1 /\ (off + m) - 1 = off + (m - 1)
    BY <1>1
  <2> QED
    BY <2>1, <2>2, <2>3
<1>4. \A ord \in 1 .. e : /\ PartAt(i, ord) \in [1 .. L -> NameChars]
                          /\ PartAt(i, ord) \in Seq(NameChars) /\ Len(PartAt(i, ord)) = L
                          /\ \A x \in 1 .. L : PartAt(i, ord)[x] = CharAt(name, (ord - 1) * L + x)
  <2> SUFFICES ASSUME NEW ord \in 1 .. e
               PROVE  /\ PartAt(i, ord) \in [1 .. L -> NameChars]
                      /\ PartAt(i, ord) \in Seq(NameChars) /\ Len(PartAt(i, ord)) = L
                      /\ \A x \in 1 .. L : PartAt(i, ord)[x] = CharAt(name, (ord - 1) * L + x)
    OBVIOUS
  <2>1. (ord - 1) * L \in Nat
    BY OffsetsOfParts
  <2>2. PartAt(i, ord) \in [1 .. L -> NameChars]
    BY <2>1, PartsTyped DEF PartAt
  <2>3. PartAt(i, ord) \in Seq(NameChars) /\ Len(PartAt(i, ord)) = L
    BY <1>1, <2>2
  <2>4. ASSUME NEW x \in 1 .. L PROVE PartAt(i, ord)[x] = CharAt(name, (ord - 1) * L + x)
    <3>1. CASE ord = e
      BY <3>1 DEF PartAt, LastPart, CharAt
    <3>2. CASE ord # e
      <4>1. PICK d \in Nat : e - 1 = ord + d
        <5>1. (e - 1) - ord \in Nat /\ e - 1 = ord + ((e - 1) - ord)
          BY <1>1, <3>2
        <5> QED
          BY <5>1
      <4>2. (ord + d) * L = ord * L + d * L /\ ord * L \in Nat /\ d * L \in Nat
            /\ (ord - 1) * L = ord * L - L
        BY <1>1
      <4>3. (ord - 1) * L + x <= c
        <5> HIDE DEF L, e, c
        <5> QED
          BY <1>1, <4>1, <4>2
      <4> QED
        BY <3>2, <4>3 DEF PartAt, Copied, CharAt
    <3> QED
      BY <3>1, <3>2
  <2> QED
    BY <2>2, <2>3, <2>4
<1> HIDE DEF L, e, off, name, c
<1>5. 0 \in T
  <2>1. e \in 1 .. e /\ 0 \in 0 .. e - 1 /\ (0 + 1) * L = L /\ e - (0 + 1) = e - 1
    BY <1>1
  <2> QED
    BY <1>3, <1>4, <2>1
<1>6. ASSUME NEW m \in 0 .. (e - 1) - 1, m \in T PROVE m + 1 \in T
  <2>1. PICK q : q = m + 2
    OBVIOUS
  <2>2. /\ q \in 2 .. e /\ q - 1 = m + 1 /\ e + 1 - q \in 1 .. e /\ m + 1 \in 0 .. e - 1
        /\ (m + 1) + 1 = q /\ (e + 1 - q) - 1 = e - q /\ e - (m + 1) = (e - q) + 1
    BY <1>1, <2>1
  <2>3. PICK p, v : p = PartAt(i, e + 1 - q) /\ v = W(m + 1)
    OBVIOUS
  <2>4. W(q) = p \o v
    BY <1>3, <2>2, <2>3
  <2>5. /\ p \in Seq(NameChars) /\ Len(p) = L
        /\ \A x \in 1 .. L : p[x] = CharAt(name, (e - q) * L + x)
    BY <1>4, <2>2, <2>3
  <2>6. /\ v \in Seq(NameChars) /\ Len(v) = (m + 1) * L
        /\ \A x \in 1 .. (m + 1) * L : v[x] = CharAt(name, (e - (m + 1)) * L + x)
    BY <1>6, <2>3
  <2>7. /\ q * L = (m + 1) * L + L /\ (m + 1) * L \in Nat
        /\ (e - (m + 1)) * L = (e - q) * L + L /\ (e - q) * L \in Nat
    <3>1. e - q \in Nat /\ e - (m + 1) = (e - q) + 1 /\ q = (m + 1) + 1
      BY <2>2
    <3>2. PICK a \in Nat : a = e - q
      BY <3>1
    <3>3. (a + 1) * L = a * L + L /\ a * L \in Nat /\ ((m + 1) + 1) * L = (m + 1) * L + L
      BY <1>1
    <3>4. (m + 1) * L \in Nat
      BY <1>1
    <3> QED
      BY <3>1, <3>2, <3>3, <3>4
  <2>8. /\ W(q) \in Seq(NameChars) /\ Len(W(q)) = q * L
        /\ \A x \in 1 .. q * L : W(q)[x] = IF x <= L THEN p[x] ELSE v[x - L]
    <3>1. L + (m + 1) * L = q * L
      BY <1>1, <2>7
    <3>2. /\ p \o v \in Seq(NameChars) /\ Len(p \o v) = Len(p) + Len(v)
          /\ \A x \in 1 .. Len(p) + Len(v) :
               (p \o v)[x] = IF x <= Len(p) THEN p[x] ELSE v[x - Len(p)]
      BY <2>5, <2>6, ConcatProperties
    <3>3. Len(p) + Len(v) = q * L
      BY <2>5, <2>6, <3>1
    <3> QED
      BY <2>4, <2>5, <3>2, <3>3, Zenon
  <2>9. ASSUME NEW x \in 1 .. q * L PROVE W(q)[x] = CharAt(name, (e - q) * L + x)
    <3>1. CASE x <= L
      BY <2>5, <2>8, <3>1
    <3>2. CASE ~(x <= L)
      <4>1. x - L \in 1 .. (m + 1) * L
        BY <1>1, <2>7, <3>2
      <4>2. (e - (m + 1)) * L + (x - L) = (e - q) * L + x
        BY <1>1, <2>7
      <4> QED
        BY <2>6, <2>8, <3>2, <4>1, <4>2
    <3> QED
      BY <3>1, <3>2
  <2> HIDE DEF W
  <2> QED
    BY <2>2, <2>8, <2>9
<1>7. 0 .. e - 1 \subseteq T
  <2>1. e - 1 \in Nat
    BY <1>1
  <2> HIDE DEF T
  <2> QED
    BY <1>5, <1>6, <2>1, IntervalInduction
<1>8. k - 1 \in 0 .. e - 1 /\ (k - 1) + 1 = k
  BY <1>1 DEF e
<1>9. k - 1 \in T
  <2> HIDE DEF T
  <2> QED
    BY <1>7, <1>8
<1> QED
  BY <1>8, <1>9 DEF L, e, off, name

\* So a driver reads the name of the child.
LEMMA NameIsRead ==
  ASSUME DirTyped, NEW i \in 1 .. Len(children)
  PROVE  NameBefore(Listing, ChildOffset(i + 1)) = children[i].name
<1> DEFINE L == LONG_NAME_CHARS_PER_ENTRY
           e == LongEntries(i)
           name == children[i].name
           c == Len(name)
<1>1. /\ L \in Nat \ {0} /\ e \in Nat \ {0} /\ ChildOffset(i) \in Nat
      /\ ChildOffset(i + 1) = ChildOffset(i) + e + 1
      /\ ChildOffset(i + 1) \in 1 .. Len(Listing)
      /\ e * L >= c /\ (e - 1) * L < c
  BY EntriesFacts, EntriesListed, ConstantsAssumption
<1>2. name \in Seq(1 .. UINT16 - 1) /\ c \in Nat /\ \A y \in 1 .. c : name[y] \in 1 .. UINT16 - 1
  <2>1. name \in Seq(1 .. UINT16 - 1)
    BY EntriesFacts, ConstantsAssumption
  <2> QED
    BY <2>1, LenProperties, ElementOfSeq
<1>3. PICK w : /\ Gathers(w, ChildOffset(i + 1))
               /\ NameBefore(Listing, ChildOffset(i + 1)) = Terminated(w[ChildOffset(i + 1) - 1])
  BY <1>1, NameGathered
<1>4. PICK r : r = w[ChildOffset(i) + e]
  OBVIOUS
<1>5. ChildOffset(i + 1) - 1 = ChildOffset(i) + e
  BY <1>1
<1>6. /\ r \in Seq(NameChars) /\ Len(r) = e * L
      /\ \A x \in 1 .. e * L : r[x] = CharAt(name, x)
  <2>1. e \in 1 .. e /\ (e - e) * L = 0
    BY <1>1
  <2>2. /\ r \in Seq(NameChars) /\ Len(r) = e * L
        /\ \A x \in 1 .. e * L : r[x] = CharAt(name, (e - e) * L + x)
    BY <1>3, <1>4, <2>1, PartsGathered
  <2>3. \A x \in 1 .. e * L : 0 + x = x
    BY <1>1
  <2> QED
    BY <2>1, <2>2, <2>3
<1> HIDE DEF L, e, name, c
<1>7. e * L \in Nat /\ DOMAIN r = 1 .. e * L
  BY <1>1, <1>6, LenProperties
<1>8. UINT16 - 1 # 0
  BY DEF UINT16
<1>9. \A x \in 1 .. e * L : r[x] = 0 <=> x = c + 1
  <2> SUFFICES ASSUME NEW x \in 1 .. e * L PROVE r[x] = 0 <=> x = c + 1
    OBVIOUS
  <2>1. CASE x <= c
    <3>1. r[x] = name[x] /\ x \in 1 .. c
      BY <1>2, <1>6, <1>7, <2>1 DEF CharAt, c
    <3>2. name[x] # 0
      BY <1>2, <3>1
    <3> QED
      BY <1>2, <2>1, <3>1, <3>2
  <2>2. CASE ~(x <= c)
    BY <1>6, <1>8, <2>2 DEF CharAt, c
  <2> QED
    BY <2>1, <2>2
<1>10. {x \in DOMAIN r : r[x] = 0} = IF c < e * L THEN {c + 1} ELSE {}
  BY <1>1, <1>2, <1>7, <1>9
<1>11. \A x \in 1 .. c : r[x] = name[x]
  <2>1. \A x \in 1 .. c : x \in 1 .. e * L /\ x <= Len(name)
    BY <1>1, <1>2, <1>7 DEF c
  <2> QED
    BY <1>6, <2>1 DEF CharAt
<1>12. Terminated(r) = name
  <2>1. CASE c < e * L
    <3>1. {x \in DOMAIN r : r[x] = 0} = {c + 1}
      BY <1>10, <2>1
    <3>2. Terminated(r) = SubSeq(r, 1, (c + 1) - 1)
      <4>1. (CHOOSE k \in {c + 1} : \A j \in {c + 1} : k <= j) = c + 1
        BY <1>2
      <4> QED
        BY <3>1, <4>1 DEF Terminated
    <3>3. SubSeq(r, 1, c) \in Seq(NameChars) /\ Len(SubSeq(r, 1, c)) = c
          /\ \A x \in 1 .. c : SubSeq(r, 1, c)[x] = r[x]
      BY <1>1, <1>2, <1>6, <2>1, SubSeqProperties
    <3>4. SubSeq(r, 1, c) = name
      BY <1>2, <1>11, <3>3, SeqEqual DEF c
    <3> QED
      BY <1>2, <3>2, <3>4
  <2>2. CASE ~(c < e * L)
    <3>1. {x \in DOMAIN r : r[x] = 0} = {}
      BY <1>10, <2>2
    <3>2. Terminated(r) = r
      BY <3>1 DEF Terminated
    <3>3. Len(r) = c
      BY <1>1, <1>2, <1>6, <1>7, <2>2
    <3>4. r = name
      BY <1>2, <1>6, <1>11, <3>3, SeqEqual DEF c
    <3> QED
      BY <3>2, <3>4
  <2> QED
    BY <2>1, <2>2
<1> QED
  BY <1>3, <1>4, <1>5, <1>12 DEF name, e

\* Of one child.
ToldAt(n) ==
  LET i == Ordinal(Listing, n)
      short == Listing[n]
  IN  /\ NameBefore(Listing, n) = children[i].name
      /\ \A k \in 1 .. LongEntries(i) :
           LET long == Listing[n - k]
           IN  /\ long.kind = "long" /\ long.ord = k
               /\ long.last <=> k = LongEntries(i)
               /\ long.checksum = NameChecksum(short.short_name)
      /\ short.is_dir = children[i].is_dir
      /\ short.cluster_hi * UINT16 + short.cluster_lo = children[i].first_cluster
      /\ ~short.is_dir => short.size = children[i].size

LEMMA ChildTold ==
  ASSUME DirTyped, NEW i \in 1 .. Len(children)
  PROVE  ToldAt(ChildOffset(i + 1))
<1> DEFINE e == LongEntries(i)
<1>1. PICK n : n = ChildOffset(i + 1)
  OBVIOUS
<1>2. Ordinal(Listing, n) = i /\ NameBefore(Listing, n) = children[i].name
  BY <1>1, OrdinalIs, NameIsRead
<1>3. PICK short : short = Listing[n]
  OBVIOUS
<1>4. short = ShortEntryOf(i)
  BY <1>1, <1>3, EntriesListed
<1>5. /\ short.short_name = ShortName(children[i].name)
      /\ short.is_dir = children[i].is_dir
      /\ short.cluster_hi = children[i].first_cluster \div UINT16
      /\ short.cluster_lo = children[i].first_cluster % UINT16
      /\ ~short.is_dir => short.size = children[i].size
  BY <1>4 DEF ShortEntryOf
<1>6. short.cluster_hi * UINT16 + short.cluster_lo = children[i].first_cluster
  <2>1. PICK f \in Nat : f = children[i].first_cluster
    BY EntriesFacts, ConstantsAssumption
  <2>2. ((f \div UINT16) * UINT16) + (f % UINT16) = f
    BY DEF UINT16
  <2> QED
    BY <1>5, <2>1, <2>2
<1>7. ASSUME NEW k \in 1 .. e
      PROVE  /\ Listing[n - k].kind = "long" /\ Listing[n - k].ord = k
             /\ Listing[n - k].last <=> k = e
             /\ Listing[n - k].checksum = NameChecksum(short.short_name)
  <2>1. e \in Nat /\ ChildOffset(i) \in Nat /\ n = ChildOffset(i) + e + 1
    BY <1>1, EntriesFacts, EntriesListed
  <2>2. e + 1 - k \in 1 .. e /\ n - k = ChildOffset(i) + (e + 1 - k) /\ e + 1 - (e + 1 - k) = k
    BY <2>1
  <2>3. Listing[ChildOffset(i) + (e + 1 - k)] = LongEntryAt(i, e + 1 - (e + 1 - k))
    BY <2>2, EntriesListed
  <2>4. Listing[n - k] = LongEntryAt(i, k)
    BY <2>2, <2>3
  <2>5. /\ LongEntryAt(i, k).kind = "long" /\ LongEntryAt(i, k).ord = k
        /\ LongEntryAt(i, k).last <=> k = e
        /\ LongEntryAt(i, k).checksum = NameChecksum(ShortName(children[i].name))
    BY DEF LongEntryAt
  <2> QED
    BY <1>5, <2>4, <2>5, Zenon
<1> QED
  BY <1>1, <1>2, <1>3, <1>5, <1>6, <1>7 DEF ToldAt

LEMMA ChildrenTold ==
  ASSUME DirTyped
  PROVE  ListingTellsChildren
<1> DEFINE n == Len(children)
<1>1. ShortEntries(Listing) = ShortPlaces(n)
  BY ShortEntriesAre
<1>2. n \in 0 .. n
  BY LenProperties DEF DirTyped
<1>3. Cardinality(ShortEntries(Listing)) = Len(children)
  BY <1>1, <1>2, ShortPlacesCount
<1>4. \A m \in ShortEntries(Listing) : ToldAt(m)
  BY <1>1, ChildTold DEF ShortPlaces
<1> QED
  BY <1>3, <1>4 DEF ListingTellsChildren, ToldAt

\* What get_dir_contents writes of a directory tells of every child what it is: its name
\* as a driver puts it together from the long entries, which are numbered and summed as
\* their short entry demands, for a name of up to 255 characters; its cluster from the two
\* halves in which it is stored; and the size of a file.
THEOREM ListingTells == Spec => []ListingTellsChildren
<1>1. ListingInv => ListingTellsChildren
  BY ChildrenTold DEF ListingInv
<1> QED
  BY <1>1, ListingInvariance, PTL

(***************************************************************************)
(* What a request asks for.                                                *)
(***************************************************************************)

\* Every char is the byte it is read from: the type is unsigned, or the names are ASCII.
CharsFit ==
  CHAR_SIGNED =>
    /\ \A child \in EntryMetaData : child.name \in Seq(1 .. 127)
    /\ ParentNames \in Seq(Seq(1 .. 127))

Units == IF CHAR_SIGNED THEN 1 .. 127 ELSE 1 .. UINT16 - 1
Bytes == IF CHAR_SIGNED THEN 0 .. 127 ELSE 0 .. UINT8 - 1

LEMMA NamesTyped ==
  ASSUME CharsFit
  PROVE  /\ \A child \in EntryMetaData : child.name \in Seq(Units)
         /\ ParentNames \in Seq(Seq(Units)) /\ PATH_SEPARATOR \in Units
<1>1. PATH_SEPARATOR \in Units
  BY DEF PATH_SEPARATOR, Units, UINT16
<1>2. CASE CHAR_SIGNED
  BY <1>1, <1>2 DEF CharsFit, Units
<1>3. CASE ~CHAR_SIGNED
  <2>1. Units = 1 .. UINT16 - 1
    BY <1>3 DEF Units
  <2> HIDE DEF Units
  <2> QED
    BY <1>1, <2>1, ConstantsAssumption, NamesAssumption
<1> QED
  BY <1>2, <1>3

\* get_file_path, from the name up.
Names(i) == <<children[i].name>> \o (IF is_root THEN <<>> ELSE ParentNames)

LEMMA PathExists ==
  ASSUME DirTyped, CharsFit, NEW i \in 1 .. Len(children)
  PROVE  /\ Names(i) \in Seq(Seq(Units))
         /\ \E w : /\ w \in [0 .. Len(Names(i)) -> Seq(Units)] /\ w[0] = <<>>
                   /\ \A k \in 1 .. Len(Names(i)) :
                        w[k] = <<PATH_SEPARATOR>> \o Names(i)[k] \o w[k - 1]
                   /\ FilePath(i) = w[Len(Names(i))]
<1> DEFINE names == Names(i)
           N == Len(names)
           V == Seq(Units)
           Turn(v, k) == <<PATH_SEPARATOR>> \o names[k] \o v
           Body(w) == [k \in 0 .. N |->
                         IF k = 0 THEN <<>> ELSE <<PATH_SEPARATOR>> \o names[k] \o w[k - 1]]
           path == CHOOSE w : w = Body(w)
<1>1. names \in Seq(V)
  <2>1. children[i].name \in V
    BY EntriesFacts, NamesTyped
  <2>2. <<children[i].name>> \in Seq(V)
    BY <2>1
  <2>3. (IF is_root THEN <<>> ELSE ParentNames) \in Seq(V)
    BY NamesTyped
  <2> QED
    BY <2>2, <2>3, ConcatProperties DEF Names
<1>2. N \in Nat /\ \A k \in 1 .. N : names[k] \in V
  BY <1>1, LenProperties, ElementOfSeq
<1>3. FilePath(i) = path[N]
  BY Zenon DEF FilePath, Names
<1>4. \A v \in V, k \in 1 .. N : Turn(v, k) \in V
  <2> SUFFICES ASSUME NEW v \in V, NEW k \in 1 .. N PROVE Turn(v, k) \in V
    OBVIOUS
  <2>1. <<PATH_SEPARATOR>> \in V
    BY NamesTyped
  <2> HIDE DEF names, N, V
  <2>2. <<PATH_SEPARATOR>> \o names[k] \in V
    BY <1>2, <2>1, ConcatProperties DEF V
  <2> QED
    BY <2>2, ConcatProperties DEF V
<1> HIDE DEF names, N
<1>5. \E w : w \in [0 .. N -> V] /\ w = Body(w)
  <2>1. PICK step : step = [k \in Int |-> [v \in V |-> IF k \in 1 .. N THEN Turn(v, k) ELSE v]]
    OBVIOUS
  <2>2. step \in [Int -> [V -> V]] /\ \A k \in 1 .. N, v \in V : step[k][v] = Turn(v, k)
    <3> HIDE DEF V, Turn
    <3>1. ASSUME NEW k \in Int
          PROVE  [v \in V |-> IF k \in 1 .. N THEN Turn(v, k) ELSE v] \in [V -> V]
      BY <1>4
    <3> QED
      BY <1>2, <2>1, <3>1
  <2>3. PICK w : Unfolds(w, 0, N, V, <<>>, step)
    <3>1. 0 \in Int /\ N \in Int /\ <<>> \in V
      BY <1>2
    <3> QED
      BY <2>2, <3>1, RecursionFrom, Zenon
  <2>4. ASSUME NEW k \in 0 .. N, k # 0 PROVE step[k][w[k - 1]] = Turn(w[k - 1], k)
    <3>1. k - 1 \in 0 .. N /\ k \in 1 .. N
      BY <1>2, <2>4
    <3>2. w[k - 1] \in V
      BY <2>3, <3>1 DEF Unfolds
    <3> HIDE DEF V, Turn
    <3> QED
      BY <2>2, <3>1, <3>2
  <2>5. w \in [0 .. N -> V]
        /\ \A k \in 0 .. N : w[k] = IF k = 0 THEN <<>> ELSE step[k][w[k - 1]]
    BY <2>3 DEF Unfolds
  <2>6. \A k \in 0 .. N : w[k] = IF k = 0 THEN <<>> ELSE Turn(w[k - 1], k)
    <3> HIDE DEF Turn
    <3> QED
      BY <2>4, <2>5
  <2>7. w = [k \in 0 .. N |-> w[k]]
    BY <2>5
  <2>8. w = Body(w)
    BY <2>6, <2>7
  <2> QED
    BY <2>5, <2>8
<1>6. PICK w : w \in [0 .. N -> V] /\ w = Body(w)
  BY <1>5
<1>7. path = Body(path)
  BY <1>6, Zenon
<1> HIDE DEF path
<1>8. \A k \in 0 .. N : path[k] = IF k = 0 THEN <<>> ELSE Turn(path[k - 1], k)
  BY <1>7
<1>9. path = [k \in 0 .. N |-> path[k]]
  BY <1>7
<1>10. path[0] = <<>> /\ \A k \in 1 .. N : path[k] = Turn(path[k - 1], k)
  <2>1. 0 \in 0 .. N /\ \A k \in 1 .. N : k \in 0 .. N /\ k # 0
    BY <1>2
  <2> HIDE DEF Turn
  <2> QED
    BY <1>8, <2>1
<1>11. \A k \in 0 .. N : path[k] \in V
  <2> DEFINE T == {k \in 0 .. N : path[k] \in V}
  <2>1. 0 \in T
    <3>1. <<>> \in V /\ 0 \in 0 .. N
      BY <1>2
    <3> QED
      BY <1>10, <3>1
  <2>2. ASSUME NEW k \in 0 .. N - 1, k \in T PROVE k + 1 \in T
    <3>1. k + 1 \in 1 .. N /\ (k + 1) - 1 = k /\ k + 1 \in 0 .. N
      BY <1>2
    <3> HIDE DEF V, Turn
    <3>2. path[k + 1] = Turn(path[k], k + 1) /\ path[k] \in V
      BY <1>10, <2>2, <3>1
    <3> QED
      BY <1>4, <3>1, <3>2
  <2>3. 0 .. N \subseteq T
    <3> HIDE DEF T
    <3> QED
      BY <1>2, <2>1, <2>2, IntervalInduction
  <2> QED
    BY <2>3
<1>12. path \in [0 .. N -> V]
  <2> HIDE DEF V
  <2> QED
    BY <1>9, <1>11
<1> QED
  BY <1>1, <1>3, <1>10, <1>12 DEF names, N

\* The path is that of the directory, and the name.
LEMMA PathIs ==
  ASSUME DirTyped, CharsFit, NEW i \in 1 .. Len(children)
  PROVE  /\ FilePath(i) \in Seq(Units)
         /\ FilePath(i) = DirectoryPath \o <<PATH_SEPARATOR>> \o children[i].name
<1> DEFINE V == Seq(Units)
<1>1. PICK name, sep : name = children[i].name /\ sep = <<PATH_SEPARATOR>>
  OBVIOUS
<1>2. name \in V /\ sep \in V /\ <<>> \in V /\ ParentNames \in Seq(V)
  BY <1>1, EntriesFacts, NamesTyped
<1>3. PICK w : /\ w \in [0 .. Len(Names(i)) -> V] /\ w[0] = <<>>
               /\ \A k \in 1 .. Len(Names(i)) : w[k] = sep \o Names(i)[k] \o w[k - 1]
               /\ FilePath(i) = w[Len(Names(i))]
  BY <1>1, PathExists
<1>4. Len(Names(i)) \in Nat
  BY PathExists, LenProperties
<1> HIDE DEF V
<1>5. sep \o name \in V /\ (sep \o name) \o <<>> = sep \o name
  BY <1>2, ConcatProperties, ConcatEmptySeq DEF V
<1>6. CASE is_root
  <2>1. Len(Names(i)) = 1 /\ Names(i)[1] = name
    BY <1>1, <1>6 DEF Names
  <2>2. 1 \in 1 .. Len(Names(i)) /\ 1 - 1 = 0
    BY <2>1
  <2>3. FilePath(i) = sep \o name \o <<>>
    BY <1>3, <2>1, <2>2
  <2>4. DirectoryPath = <<>> /\ <<>> \o sep = sep
    BY <1>2, <1>6, ConcatEmptySeq DEF DirectoryPath, V
  <2> QED
    BY <1>1, <1>5, <2>3, <2>4 DEF V
<1>7. CASE ~is_root
  <2> DEFINE N == Len(ParentNames)
  <2>1. N \in Nat /\ DOMAIN ParentNames = 1 .. N /\ \A k \in 1 .. N : ParentNames[k] \in V
    BY <1>2, LenProperties, ElementOfSeq
  <2>2. Len(Names(i)) = N + 1 /\ Names(i)[1] = name
        /\ \A k \in 1 .. N : Names(i)[k + 1] = ParentNames[k]
    <3>1. Names(i) = <<name>> \o ParentNames /\ <<name>> \in Seq(V) /\ Len(<<name>>) = 1
      BY <1>1, <1>2, <1>7 DEF Names
    <3>2. /\ Len(Names(i)) = 1 + N
          /\ \A k \in 1 .. 1 + N :
               Names(i)[k] = IF k <= 1 THEN <<name>>[k] ELSE ParentNames[k - 1]
      <4>1. PICK s : s = <<name>>
        OBVIOUS
      <4>2. s \in Seq(V) /\ Len(s) = 1 /\ Names(i) = s \o ParentNames
        BY <3>1, <4>1
      <4>3. /\ Len(s \o ParentNames) = Len(s) + Len(ParentNames)
            /\ \A k \in 1 .. Len(s) + Len(ParentNames) :
                 (s \o ParentNames)[k]
                   = IF k <= Len(s) THEN s[k] ELSE ParentNames[k - Len(s)]
        BY <1>2, <4>2, ConcatProperties
      <4> QED
        BY <4>1, <4>2, <4>3
    <3>3. 1 \in 1 .. 1 + N /\ 1 <= 1 /\ <<name>>[1] = name
      BY <2>1
    <3>4. \A k \in 1 .. N : k + 1 \in 1 .. 1 + N /\ ~(k + 1 <= 1) /\ (k + 1) - 1 = k
      BY <2>1
    <3> HIDE DEF N
    <3> QED
      BY <2>1, <3>2, <3>3, <3>4
  <2>3. PICK parts : parts = [k \in DOMAIN ParentNames |->
                                <<PATH_SEPARATOR>> \o Reverse(ParentNames)[k]]
    OBVIOUS
  <2> HIDE DEF N
  <2>4. \A k \in 1 .. N : parts[k] = sep \o ParentNames[N - k + 1] /\ parts[k] \in V
    <3> SUFFICES ASSUME NEW k \in 1 .. N
                 PROVE  parts[k] = sep \o ParentNames[N - k + 1] /\ parts[k] \in V
      OBVIOUS
    <3>1. N - k + 1 \in 1 .. N
      BY <2>1
    <3>2. Reverse(ParentNames)[k] = ParentNames[N - k + 1]
      BY <2>1 DEF Reverse, N
    <3>3. parts[k] = sep \o ParentNames[N - k + 1]
      BY <1>1, <2>1, <2>3, <3>2
    <3>4. ParentNames[N - k + 1] \in V
      BY <2>1, <3>1
    <3> QED
      BY <1>2, <3>3, <3>4, ConcatProperties DEF V
  <2>5. parts \in Seq(V) /\ Len(parts) = N
    <3>1. parts \in [1 .. N -> V]
      BY <2>1, <2>3, <2>4
    <3> QED
      BY <2>1, <3>1
  <2>6. PICK f : IsJoined(f, parts)
    BY <2>5, JoinedExists DEF V
  <2>7. /\ f[0] = <<>> /\ DirectoryPath = f[N]
        /\ \A j \in 1 .. N : f[j] = f[j - 1] \o parts[j]
        /\ \A j \in 0 .. N : f[j] \in V
    BY <1>7, <2>3, <2>5, <2>6, JoinedTyped DEF IsJoined, DirectoryPath, V
  <2>8. w[1] = sep \o name
    <3>1. 1 \in 1 .. Len(Names(i)) /\ 1 - 1 = 0
      BY <2>1, <2>2
    <3>2. w[1] = sep \o name \o <<>>
      BY <1>3, <2>2, <3>1
    <3> QED
      BY <1>5, <3>2
  <2>9. \A k \in 0 .. N + 1 : w[k] \in V
    BY <1>3, <2>2
  <2> DEFINE T == {k \in 0 .. N : f[N - k] \o w[k + 1] = f[N] \o w[1]}
  <2>10. 0 \in T
    <3>1. 0 \in 0 .. N /\ N - 0 = N /\ 0 + 1 = 1
      BY <2>1
    <3> QED
      BY <3>1
  <2>11. ASSUME NEW k \in 0 .. N - 1, k \in T PROVE k + 1 \in T
    <3>1. /\ N - k \in 1 .. N /\ (N - k) - 1 = N - (k + 1) /\ N - (k + 1) \in 0 .. N
          /\ N - (N - k) + 1 = k + 1 /\ k + 1 \in 0 .. N /\ k + 1 \in 1 .. N
          /\ k + 2 \in 1 .. N + 1 /\ (k + 2) - 1 = k + 1 /\ (k + 1) + 1 = k + 2
          /\ k + 1 \in 0 .. N + 1
      BY <2>1
    <3>2. w[k + 2] = sep \o Names(i)[k + 2] \o w[k + 1]
      BY <1>3, <2>2, <3>1
    <3>3. Names(i)[k + 2] = ParentNames[k + 1]
      BY <2>2, <3>1
    <3>4. parts[N - k] = sep \o ParentNames[k + 1] /\ parts[N - k] \in V
      BY <2>4, <3>1
    <3>5. w[k + 2] = parts[N - k] \o w[k + 1]
      BY <3>2, <3>3, <3>4
    <3>6. f[N - k] = f[N - (k + 1)] \o parts[N - k] /\ f[N - (k + 1)] \in V
      BY <2>7, <3>1
    <3>7. PICK a, p, x : a = f[N - (k + 1)] /\ p = parts[N - k] /\ x = w[k + 1]
      OBVIOUS
    <3>8. a \in V /\ p \in V /\ x \in V
      BY <2>9, <3>1, <3>4, <3>6, <3>7
    <3>9. a \o (p \o x) = (a \o p) \o x
      BY <3>8, ConcatAssociative DEF V
    <3>10. f[N - (k + 1)] \o w[k + 2] = f[N - k] \o w[k + 1]
      BY <3>5, <3>6, <3>7, <3>9
    <3>11. f[N - k] \o w[k + 1] = f[N] \o w[1]
      BY <2>11
    <3> QED
      BY <3>1, <3>10, <3>11
  <2>12. N \in T
    <3>1. 0 .. N \subseteq T
      <4> HIDE DEF T
      <4> QED
        BY <2>1, <2>10, <2>11, IntervalInduction
    <3>2. N \in 0 .. N
      BY <2>1
    <3> HIDE DEF T
    <3> QED
      BY <3>1, <3>2
  <2>13. N \in 0 .. N /\ N + 1 \in 0 .. N + 1 /\ N - N = 0
    BY <2>1
  <2>14. FilePath(i) = w[N + 1] /\ w[N + 1] \in V
    BY <1>3, <2>2, <2>9, <2>13
  <2>15. <<>> \o w[N + 1] = w[N + 1]
    BY <2>14, ConcatEmptySeq DEF V
  <2>16. FilePath(i) = f[N] \o (sep \o name)
    BY <2>7, <2>8, <2>12, <2>13, <2>14, <2>15
  <2>17. f[N] \o (sep \o name) = (f[N] \o sep) \o name
    <3>1. PICK d : d = f[N]
      OBVIOUS
    <3>2. d \in V /\ sep \in V /\ name \in V
      BY <1>2, <2>7, <2>13, <3>1
    <3>3. d \o (sep \o name) = (d \o sep) \o name
      BY <3>2, ConcatAssociative DEF V
    <3> QED
      BY <3>1, <3>3
  <2> QED
    BY <1>1, <2>7, <2>14, <2>16, <2>17 DEF V
<1> QED
  BY <1>6, <1>7

\* The bytes of which the UTF-8 of a character is made.
IsByte(v) == v \in Nat /\ v < UINT8

LEMMA Utf8CharTyped ==
  ASSUME NEW B, \A v : IsByte(v) => v \in B,
         NEW unit \in Nat, unit < UINT16
  PROVE  Utf8Char(unit) \in Seq(B)
<1>1. CASE unit < 2 ^ 7
  <2>1. Utf8Char(unit) = <<unit>>
    BY <1>1 DEF Utf8Char
  <2>2. IsByte(unit)
    BY <1>1 DEF IsByte, UINT8
  <2> QED
    BY <2>1, <2>2
<1>2. CASE ~(unit < 2 ^ 7) /\ unit < 2 ^ 11
  <2>1. PICK a, b : a = 192 + (unit \div 64) /\ b = 128 + (unit % 64)
    OBVIOUS
  <2>2. Utf8Char(unit) = <<a, b>>
    BY <1>2, <2>1 DEF Utf8Char
  <2>3. IsByte(a)
    BY <1>2, <2>1 DEF IsByte, UINT8
  <2>4. IsByte(b)
    BY <2>1 DEF IsByte, UINT8
  <2> QED
    BY <2>2, <2>3, <2>4
<1>3. CASE ~(unit < 2 ^ 7) /\ ~(unit < 2 ^ 11)
  <2>1. PICK a, b, c : /\ a = 224 + (unit \div 4096) /\ b = 128 + ((unit \div 64) % 64)
                       /\ c = 128 + (unit % 64)
    OBVIOUS
  <2>2. Utf8Char(unit) = <<a, b, c>>
    BY <1>3, <2>1 DEF Utf8Char
  <2>3. IsByte(a)
    BY <2>1 DEF IsByte, UINT8, UINT16
  <2>4. IsByte(b)
    BY <2>1 DEF IsByte, UINT8
  <2>5. IsByte(c)
    BY <2>1 DEF IsByte, UINT8
  <2> QED
    BY <2>2, <2>3, <2>4, <2>5
<1> QED
  BY <1>1, <1>2, <1>3

\* The UTF-8 of a path is bytes, of an ASCII path ASCII.
LEMMA Utf8Typed ==
  ASSUME NEW path \in Seq(Units)
  PROVE  Utf8(path) \in Seq(Bytes)
<1>1. ASSUME NEW unit \in Units PROVE Utf8Char(unit) \in Seq(Bytes)
  <2>1. CASE CHAR_SIGNED
    <3>1. unit \in 1 .. 127
      BY <1>1, <2>1 DEF Units
    <3>2. unit < 2 ^ 7 /\ unit \in Bytes
      BY <2>1, <3>1 DEF Bytes
    <3> QED
      BY <3>2 DEF Utf8Char
  <2>2. CASE ~CHAR_SIGNED
    <3>1. UINT16 \in Nat /\ UINT8 \in Nat
      BY DEF UINT16, UINT8
    <3>2. unit \in 1 .. UINT16 - 1 /\ Bytes = 0 .. UINT8 - 1
      BY <1>1, <2>2 DEF Units, Bytes
    <3>3. unit \in Nat /\ unit < UINT16
      BY <3>1, <3>2
    <3>4. \A v : IsByte(v) => v \in Bytes
      BY <3>1, <3>2 DEF IsByte
    <3> QED
      BY <3>3, <3>4, Utf8CharTyped
  <2> QED
    BY <2>1, <2>2
<1>2. PICK parts : parts = [k \in DOMAIN path |-> Utf8Char(path[k])]
  OBVIOUS
<1>3. Len(path) \in Nat /\ DOMAIN path = 1 .. Len(path) /\ \A k \in 1 .. Len(path) : path[k] \in Units
  BY LenProperties, ElementOfSeq
<1>4. parts \in Seq(Seq(Bytes))
  <2>1. parts \in [1 .. Len(path) -> Seq(Bytes)]
    BY <1>1, <1>2, <1>3
  <2> QED
    BY <1>3, <2>1
<1>5. PICK f : IsJoined(f, parts)
  BY <1>4, JoinedExists
<1>6. Len(parts) \in 0 .. Len(parts)
  BY <1>4, LenProperties
<1> QED
  BY <1>2, <1>4, <1>5, <1>6, JoinedTyped DEF IsJoined, Utf8

\* What db_url_escape makes of a byte that a char can hold.
Escape(byte) ==
  LET char == AsChar(byte)
  IN  IF char \in Unescaped THEN <<char>>
      ELSE <<PERCENT, HexChar(High(char)), HexChar(Low(char))>>

LEMMA ByteFacts ==
  ASSUME NEW byte \in Bytes
  PROVE  /\ byte \in Nat /\ AsChar(byte) = byte
         /\ High(byte) \in Nat /\ High(byte) <= 15 /\ Low(byte) \in Nat /\ Low(byte) <= 15
         /\ 16 * High(byte) + Low(byte) = byte
<1>1. byte \in Nat /\ byte < UINT8 /\ (CHAR_SIGNED => byte < 128)
  <2>1. CASE CHAR_SIGNED
    <3>1. byte \in 0 .. 127
      BY <2>1 DEF Bytes
    <3> QED
      BY <3>1 DEF UINT8
  <2>2. CASE ~CHAR_SIGNED
    <3>1. UINT8 \in Nat /\ byte \in 0 .. UINT8 - 1
      BY <2>2 DEF Bytes, UINT8
    <3> QED
      BY <2>2, <3>1
  <2> QED
    BY <2>1, <2>2
<1>2. AsChar(byte) = byte
  BY <1>1 DEF AsChar
<1>3. High(byte) = byte \div 16
  BY <1>1 DEF High
<1>4. Low(byte) = byte - (16 * (byte \div 16))
  BY <1>3 DEF Low
<1>5. byte \div 16 \in Nat /\ byte \div 16 <= 15
  BY <1>1 DEF UINT8
<1>6. byte - (16 * (byte \div 16)) \in Nat /\ byte - (16 * (byte \div 16)) <= 15
  BY <1>1
<1>7. (16 * (byte \div 16)) + (byte - (16 * (byte \div 16))) = byte
  BY <1>1
<1> QED
  BY <1>1, <1>2, <1>3, <1>4, <1>5, <1>6, <1>7

LEMMA HexFacts ==
  ASSUME NEW h \in Nat, h <= 15
  PROVE  HexChar(h) \in Unescaped /\ HexChar(h) \in Nat /\ Digit(HexChar(h)) = h
<1>1. CASE h < 10
  <2>1. HexChar(h) = 48 + h
    BY <1>1 DEF HexChar
  <2>2. 48 + h \in 48 .. 57
    BY <1>1
  <2>3. Digit(48 + h) = h
    BY <1>1 DEF Digit
  <2> QED
    BY <2>1, <2>2, <2>3 DEF Unescaped
<1>2. CASE ~(h < 10)
  <2>1. HexChar(h) = 87 + h
    BY <1>2 DEF HexChar
  <2>2. 87 + h \in 97 .. 122
    BY <1>2
  <2>3. Digit(87 + h) = h
    BY <1>2 DEF Digit
  <2> QED
    BY <2>1, <2>2, <2>3 DEF Unescaped
<1> QED
  BY <1>1, <1>2

\* The characters of a URL.
UrlChars == Unescaped \cup {PERCENT}

LEMMA EscapeFacts ==
  ASSUME NEW byte \in Bytes
  PROVE  /\ Escape(byte) \in Seq(UrlChars)
         /\ \/ Escape(byte) = <<byte>> /\ byte # PERCENT
            \/ Escape(byte) = <<PERCENT, HexChar(High(byte)), HexChar(Low(byte))>>
<1>1. AsChar(byte) = byte
  BY ByteFacts
<1>2. PERCENT \in UrlChars /\ PERCENT \notin Unescaped
  BY DEF UrlChars, PERCENT, Unescaped
<1>3. Unescaped \subseteq UrlChars
  BY DEF UrlChars
<1>4. HexChar(High(byte)) \in UrlChars /\ HexChar(Low(byte)) \in UrlChars
  BY <1>3, ByteFacts, HexFacts
<1>5. CASE byte \in Unescaped
  <2>1. Escape(byte) = <<byte>>
    BY <1>1, <1>5, Zenon DEF Escape
  <2> QED
    BY <1>2, <1>3, <1>5, <2>1
<1>6. CASE byte \notin Unescaped
  <2>1. Escape(byte) = <<PERCENT, HexChar(High(byte)), HexChar(Low(byte))>>
    BY <1>1, <1>6, Zenon DEF Escape
  <2> QED
    BY <1>2, <1>4, <2>1
<1> QED
  BY <1>5, <1>6

LEMMA SeqOfMore ==
  ASSUME NEW S, NEW R, S \subseteq R, NEW s \in Seq(S)
  PROVE  s \in Seq(R)
<1>1. Len(s) \in Nat /\ s \in [1 .. Len(s) -> S]
  BY LenProperties
<1>2. s \in [1 .. Len(s) -> R]
  BY <1>1
<1> QED
  BY <1>1, <1>2

\* The recursion of Decoded.
Reads == [bytes : Seq(Int), due : Int, high : Int]

ReadState(bytes, due, high) == [bytes |-> bytes, due |-> due, high |-> high]

LEMMA ReadStates ==
  ASSUME NEW v \in Reads
  PROVE  \E b \in Seq(Int), e \in Int, h \in Int : v = ReadState(b, e, h)
<1>1. v = ReadState(v.bytes, v.due, v.high)
  BY DEF Reads, ReadState
<1>2. v.bytes \in Seq(Int) /\ v.due \in Int /\ v.high \in Int
  BY DEF Reads
<1> QED
  BY <1>1, <1>2

LEMMA ReadSteps ==
  ASSUME NEW b, NEW e, NEW h, NEW c
  PROVE  DecodeNext(ReadState(b, e, h), c)
           = IF e = 2 THEN ReadState(b, 1, Digit(c))
             ELSE IF e = 1 THEN ReadState(Append(b, 16 * h + Digit(c)), 0, 0)
             ELSE IF c = PERCENT THEN ReadState(b, 2, 0)
             ELSE ReadState(Append(b, c), 0, 0)
<1>1. PICK read : read = ReadState(b, e, h)
  OBVIOUS
<1>2. read.bytes = b /\ read.due = e /\ read.high = h
  BY <1>1 DEF ReadState
<1> QED
  BY <1>1, <1>2, Zenon DEF DecodeNext, ReadState

LEMMA DecodeNextTyped ==
  ASSUME NEW v \in Reads, NEW c \in Int
  PROVE  DecodeNext(v, c) \in Reads
<1>1. PICK b \in Seq(Int), e \in Int, h \in Int : v = ReadState(b, e, h)
  BY ReadStates
<1>2. \A p \in Seq(Int), q \in Int, m \in Int : ReadState(p, q, m) \in Reads
  BY DEF ReadState, Reads
<1>3. Digit(c) \in Int
  BY DEF Digit
<1>4. 16 * h + Digit(c) \in Int
  BY <1>3
<1>5. Append(b, 16 * h + Digit(c)) \in Seq(Int) /\ Append(b, c) \in Seq(Int) /\ 0 \in Int
  BY <1>4, AppendProperties
<1>6. CASE e = 2
  <2>1. DecodeNext(v, c) = ReadState(b, 1, Digit(c))
    BY <1>1, <1>6, ReadSteps
  <2> QED
    BY <1>2, <1>3, <2>1
<1>7. CASE e = 1
  <2>1. DecodeNext(v, c) = ReadState(Append(b, 16 * h + Digit(c)), 0, 0)
    BY <1>1, <1>7, ReadSteps
  <2> QED
    BY <1>2, <1>5, <2>1, Zenon
<1>8. CASE e # 2 /\ e # 1 /\ c = PERCENT
  <2>1. DecodeNext(v, c) = ReadState(b, 2, 0)
    BY <1>1, <1>8, ReadSteps
  <2> QED
    BY <1>2, <2>1
<1>9. CASE e # 2 /\ e # 1 /\ c # PERCENT
  <2>1. DecodeNext(v, c) = ReadState(Append(b, c), 0, 0)
    BY <1>1, <1>9, ReadSteps
  <2> QED
    BY <1>2, <1>5, <2>1, Zenon
<1> QED
  BY <1>6, <1>7, <1>8, <1>9

LEMMA DecodedReads ==
  ASSUME NEW url \in Seq(Int)
  PROVE  \E r : /\ r[0] = [bytes |-> <<>>, due |-> 0, high |-> 0]
                /\ \A k \in 0 .. Len(url) : r[k] \in Reads
                /\ \A k \in 1 .. Len(url) : r[k] = DecodeNext(r[k - 1], url[k])
                /\ Decoded(url) = r[Len(url)].bytes
<1> DEFINE N == Len(url)
           v0 == [bytes |-> <<>>, due |-> 0, high |-> 0]
           Body(w) == [k \in 0 .. N |-> IF k = 0 THEN [bytes |-> <<>>, due |-> 0, high |-> 0]
                                        ELSE DecodeNext(w[k - 1], url[k])]
           read == CHOOSE w : w = Body(w)
<1>1. N \in Nat /\ \A k \in 1 .. N : url[k] \in Int
  BY LenProperties, ElementOfSeq
<1>2. Decoded(url) = read[N].bytes
  BY Zenon DEF Decoded
<1>3. v0 \in Reads
  BY DEF Reads
<1>4. \A v \in Reads, c \in Int : DecodeNext(v, c) \in Reads
  BY DecodeNextTyped
<1>5. PICK step : step = [k \in Int |-> [v \in Reads |->
                            IF k \in 1 .. N THEN DecodeNext(v, url[k]) ELSE v]]
  OBVIOUS
<1>6. step \in [Int -> [Reads -> Reads]]
      /\ \A k \in 1 .. N, v \in Reads : step[k][v] = DecodeNext(v, url[k])
  <2> HIDE DEF N
  <2>1. ASSUME NEW k \in Int
        PROVE  [v \in Reads |-> IF k \in 1 .. N THEN DecodeNext(v, url[k]) ELSE v]
                 \in [Reads -> Reads]
    BY <1>1, <1>4
  <2> QED
    BY <1>1, <1>5, <2>1
<1>7. PICK w : Unfolds(w, 0, N, Reads, v0, step)
  <2>1. 0 \in Int /\ N \in Int
    BY <1>1
  <2> QED
    BY <1>3, <1>6, <2>1, RecursionFrom, Zenon
<1>8. w \in [0 .. N -> Reads]
      /\ \A k \in 0 .. N : w[k] = IF k = 0 THEN v0 ELSE step[k][w[k - 1]]
  BY <1>7 DEF Unfolds
<1> HIDE DEF N, v0
<1>9. \A k \in 0 .. N : w[k] = IF k = 0 THEN v0 ELSE DecodeNext(w[k - 1], url[k])
  <2> SUFFICES ASSUME NEW k \in 0 .. N, k # 0 PROVE w[k] = DecodeNext(w[k - 1], url[k])
    BY <1>8
  <2>1. k - 1 \in 0 .. N /\ k \in 1 .. N
    BY <1>1
  <2>2. w[k - 1] \in Reads
    BY <1>8, <2>1
  <2> QED
    BY <1>6, <1>8, <2>1, <2>2
<1>10. w = [k \in 0 .. N |-> w[k]]
  BY <1>8
<1>11. w = Body(w)
  BY <1>9, <1>10 DEF v0
<1>12. read = Body(read)
  BY <1>11, Zenon
<1> HIDE DEF read
<1>13. \A k \in 0 .. N : read[k] = IF k = 0 THEN v0 ELSE DecodeNext(read[k - 1], url[k])
  BY <1>12 DEF v0
<1>14. read[0] = v0 /\ \A k \in 1 .. N : read[k] = DecodeNext(read[k - 1], url[k])
  <2>1. 0 \in 0 .. N /\ \A k \in 1 .. N : k \in 0 .. N /\ k # 0
    BY <1>1
  <2> QED
    BY <1>13, <2>1
<1>15. \A k \in 0 .. N : read[k] \in Reads
  <2> DEFINE T == {k \in 0 .. N : read[k] \in Reads}
  <2>1. 0 \in T
    BY <1>1, <1>3, <1>14
  <2>2. ASSUME NEW k \in 0 .. N - 1, k \in T PROVE k + 1 \in T
    <3>1. k + 1 \in 1 .. N /\ (k + 1) - 1 = k /\ k + 1 \in 0 .. N
      BY <1>1
    <3>2. read[k + 1] = DecodeNext(read[k], url[k + 1]) /\ read[k] \in Reads
      BY <1>14, <2>2, <3>1
    <3> QED
      BY <1>1, <1>4, <3>1, <3>2
  <2>3. 0 .. N \subseteq T
    <3> HIDE DEF T
    <3> QED
      BY <1>1, <2>1, <2>2, IntervalInduction
  <2> QED
    BY <2>3
<1> QED
  BY <1>2, <1>14, <1>15 DEF N, v0

\* How an escaped byte is read.
LEMMA DecodeEscape ==
  ASSUME NEW b, NEW h, NEW byte \in Bytes
  PROVE  /\ byte # PERCENT =>
              DecodeNext(ReadState(b, 0, h), byte) = ReadState(Append(b, byte), 0, 0)
         /\ DecodeNext(DecodeNext(DecodeNext(ReadState(b, 0, h), PERCENT),
                                  HexChar(High(byte))),
                       HexChar(Low(byte)))
              = ReadState(Append(b, byte), 0, 0)
<1>1. PICK hi, lo : hi = High(byte) /\ lo = Low(byte)
  OBVIOUS
<1>2. Digit(HexChar(hi)) = hi /\ Digit(HexChar(lo)) = lo /\ 16 * hi + lo = byte
  BY <1>1, ByteFacts, HexFacts
<1>3. byte # PERCENT => DecodeNext(ReadState(b, 0, h), byte) = ReadState(Append(b, byte), 0, 0)
  BY ReadSteps
<1>4. DecodeNext(ReadState(b, 0, h), PERCENT) = ReadState(b, 2, 0)
  BY ReadSteps
<1>5. DecodeNext(ReadState(b, 2, 0), HexChar(hi)) = ReadState(b, 1, hi)
  BY <1>2, ReadSteps
<1>6. DecodeNext(ReadState(b, 1, hi), HexChar(lo)) = ReadState(Append(b, byte), 0, 0)
  <2>1. DecodeNext(ReadState(b, 1, hi), HexChar(lo))
          = ReadState(Append(b, 16 * hi + Digit(HexChar(lo))), 0, 0)
    BY ReadSteps
  <2> QED
    BY <1>2, <2>1
<1> QED
  BY <1>1, <1>3, <1>4, <1>5, <1>6

\* What is escaped is read as it was.
LEMMA EscapeDecoded ==
  ASSUME NEW u \in Seq(Bytes)
  PROVE  /\ ToSet(DbUrlEscape(u)) \subseteq UrlChars
         /\ Decoded(DbUrlEscape(u)) = u
<1> DEFINE n == Len(u)
<1>1. n \in Nat /\ DOMAIN u = 1 .. n /\ \A k \in 1 .. n : u[k] \in Bytes
  BY LenProperties, ElementOfSeq
<1>2. PICK parts : parts = [k \in DOMAIN u |-> Escape(u[k])]
  OBVIOUS
<1>3. DbUrlEscape(u) = FlattenSeq(parts)
  BY <1>2, Zenon DEF DbUrlEscape, Escape
<1>4. \A k \in 1 .. n : parts[k] = Escape(u[k])
  BY <1>1, <1>2
<1>5. parts \in Seq(Seq(UrlChars)) /\ Len(parts) = n
  <2>1. parts \in [1 .. n -> Seq(UrlChars)]
    BY <1>1, <1>2, EscapeFacts
  <2> HIDE DEF n
  <2> QED
    BY <1>1, <2>1
<1>6. PICK f : IsJoined(f, parts)
  BY <1>5, JoinedExists
<1>7. /\ f[0] = <<>> /\ \A j \in 1 .. n : f[j] = f[j - 1] \o parts[j]
      /\ \A j \in 0 .. n : f[j] \in Seq(UrlChars)
  BY <1>5, <1>6, JoinedTyped DEF IsJoined
<1>8. PICK url : url = f[n]
  OBVIOUS
<1>9. DbUrlEscape(u) = url /\ url \in Seq(UrlChars)
  BY <1>1, <1>3, <1>5, <1>6, <1>7, <1>8 DEF IsJoined
<1>10. url \in Seq(Int)
  <2>1. UrlChars \subseteq Int
    BY DEF UrlChars, Unescaped, PERCENT
  <2> QED
    BY <1>9, <2>1, SeqOfMore
<1>11. PICK r : /\ r[0] = [bytes |-> <<>>, due |-> 0, high |-> 0]
                /\ \A k \in 0 .. Len(url) : r[k] \in Reads
                /\ \A k \in 1 .. Len(url) : r[k] = DecodeNext(r[k - 1], url[k])
                /\ Decoded(url) = r[Len(url)].bytes
  BY <1>10, DecodedReads
<1> HIDE DEF n
<1> DEFINE IsRead(v, j) == \E s \in Seq(Int), h \in Int :
                             /\ v = ReadState(s, 0, h) /\ Len(s) = j
                             /\ \A x \in 1 .. j : s[x] = u[x]
           T == {j \in 0 .. n : IsRead(r[Len(f[j])], j)}
<1>12. 0 \in T
  <2>1. Len(f[0]) = 0 /\ Len(url) \in Nat
    BY <1>7, <1>10, LenProperties
  <2>2. r[0] = ReadState(<<>>, 0, 0)
    BY <1>11 DEF ReadState
  <2>3. \E s \in Seq(Int) : Len(s) = 0 /\ s = <<>> /\ \A x \in 1 .. 0 : s[x] = u[x]
    <3>1. PICK s : s = <<>>
      OBVIOUS
    <3>2. s \in Seq(Int) /\ Len(s) = 0 /\ \A x \in 1 .. 0 : s[x] = u[x]
      BY <3>1
    <3> QED
      BY <3>1, <3>2
  <2>4. IsRead(r[0], 0)
    BY <2>2, <2>3, 0 \in Int
  <2> HIDE DEF IsRead
  <2> QED
    BY <1>1, <2>1, <2>4
<1>13. ASSUME NEW j \in 0 .. n - 1, j \in T PROVE j + 1 \in T
  <2>1. j + 1 \in 1 .. n /\ (j + 1) - 1 = j /\ j \in 0 .. n /\ j + 1 \in 0 .. n /\ j \in Nat
    BY <1>1
  <2>2. PICK off, byte, part : off = Len(f[j]) /\ byte = u[j + 1] /\ part = parts[j + 1]
    OBVIOUS
  <2>3. byte \in Bytes /\ part = Escape(byte) /\ part \in Seq(UrlChars)
    BY <1>1, <1>4, <2>1, <2>2, EscapeFacts
  <2>4. off \in Nat /\ Len(f[j + 1]) = off + Len(part)
    <3>1. PICK s : s = f[j] /\ s \in Seq(UrlChars)
      BY <1>7, <2>1
    <3>2. f[j + 1] = s \o part
      BY <1>7, <2>1, <2>2, <3>1
    <3>3. Len(s \o part) = Len(s) + Len(part) /\ Len(s) \in Nat
      BY <2>3, <3>1, ConcatProperties, LenProperties
    <3> QED
      BY <2>2, <3>1, <3>2, <3>3
  <2>5. \A x \in 1 .. Len(part) : off + x \in 1 .. Len(url) /\ url[off + x] = part[x]
    <3> SUFFICES ASSUME NEW x \in 1 .. Len(part)
                 PROVE  off + x \in 1 .. Len(url) /\ url[off + x] = part[x]
      OBVIOUS
    <3>1. j + 1 \in 1 .. Len(parts) /\ x \in 1 .. Len(parts[j + 1])
      BY <1>5, <2>1, <2>2
    <3>2. /\ Len(f[(j + 1) - 1]) + x \in 1 .. Len(f[Len(parts)])
          /\ f[Len(parts)][Len(f[(j + 1) - 1]) + x] = parts[j + 1][x]
      BY <1>5, <1>6, <3>1, JoinedPlaces
    <3> QED
      BY <1>5, <1>8, <2>1, <2>2, <3>2
  <2>6. \A x \in 1 .. Len(part) : r[off + x] = DecodeNext(r[off + x - 1], part[x])
    <3> SUFFICES ASSUME NEW x \in 1 .. Len(part)
                 PROVE  r[off + x] = DecodeNext(r[off + x - 1], part[x])
      OBVIOUS
    <3>1. off + x \in 1 .. Len(url) /\ url[off + x] = part[x]
      BY <2>5
    <3>2. PICK m : m = off + x
      OBVIOUS
    <3>3. r[m] = DecodeNext(r[m - 1], url[m]) /\ url[m] = part[x]
      BY <1>11, <3>1, <3>2
    <3> QED
      BY <2>4, <3>2, <3>3
  <2>7. PICK v, w : v = r[off] /\ w = r[off + Len(part)]
    OBVIOUS
  <2>8. IsRead(v, j)
    BY <1>13, <2>2, <2>7
  <2>9. PICK s \in Seq(Int), h \in Int : /\ v = ReadState(s, 0, h) /\ Len(s) = j
                                       /\ \A x \in 1 .. j : s[x] = u[x]
    BY <2>8
  <2>10. w = ReadState(Append(s, byte), 0, 0)
    <3> HIDE DEF IsRead
    <3>1. CASE part = <<byte>> /\ byte # PERCENT
      <4>1. Len(part) = 1 /\ part[1] = byte /\ 1 \in 1 .. Len(part)
        BY <3>1
      <4>2. off + 1 - 1 = off
        BY <2>4
      <4>3. w = DecodeNext(v, byte)
        BY <2>6, <2>7, <4>1, <4>2
      <4> QED
        BY <2>3, <2>9, <3>1, <4>3, DecodeEscape
    <3>2. CASE part = <<PERCENT, HexChar(High(byte)), HexChar(Low(byte))>>
      <4>1. /\ Len(part) = 3 /\ part[1] = PERCENT /\ part[2] = HexChar(High(byte))
            /\ part[3] = HexChar(Low(byte))
            /\ 1 \in 1 .. Len(part) /\ 2 \in 1 .. Len(part) /\ 3 \in 1 .. Len(part)
        BY <3>2
      <4>2. off + 1 - 1 = off /\ off + 2 - 1 = off + 1 /\ off + 3 - 1 = off + 2
        BY <2>4
      <4>3. /\ r[off + 1] = DecodeNext(v, PERCENT)
            /\ r[off + 2] = DecodeNext(r[off + 1], HexChar(High(byte)))
            /\ w = DecodeNext(r[off + 2], HexChar(Low(byte)))
        BY <2>6, <2>7, <4>1, <4>2
      <4> QED
        BY <2>3, <2>9, <4>3, DecodeEscape
    <3> QED
      BY <2>3, <3>1, <3>2, EscapeFacts
  <2>11. IsRead(w, j + 1)
    <3>1. byte \in Int
      BY <2>3, ByteFacts
    <3>2. PICK t : t = Append(s, byte)
      OBVIOUS
    <3>3. t \in Seq(Int) /\ Len(t) = j + 1 /\ t[j + 1] = byte /\ \A x \in 1 .. j : t[x] = s[x]
      BY <2>1, <2>9, <3>1, <3>2, AppendProperties
    <3>4. \A x \in 1 .. j + 1 : t[x] = u[x]
      <4>1. \A x \in 1 .. j + 1 : x \in 1 .. j \/ x = j + 1
        BY <2>1
      <4> QED
        BY <2>2, <2>9, <3>3, <4>1
    <3> QED
      BY <2>10, <3>2, <3>3, <3>4, 0 \in Int
  <2> HIDE DEF IsRead
  <2> QED
    BY <2>1, <2>2, <2>4, <2>7, <2>11
<1>14. n \in T
  <2>1. 0 .. n \subseteq T
    <3> HIDE DEF T
    <3> QED
      BY <1>1, <1>12, <1>13, IntervalInduction
  <2>2. n \in 0 .. n
    BY <1>1
  <2> HIDE DEF T
  <2> QED
    BY <2>1, <2>2
<1>15. PICK s \in Seq(Int), h \in Int : /\ r[Len(url)] = ReadState(s, 0, h) /\ Len(s) = n
                                      /\ \A x \in 1 .. n : s[x] = u[x]
  BY <1>8, <1>14
<1>16. r[Len(url)].bytes = s
  BY <1>15 DEF ReadState
<1>17. s = u
  <2>1. u \in Seq(Int)
    <3>1. Bytes \subseteq Int
      BY ByteFacts
    <3> QED
      BY <3>1, SeqOfMore
  <2> QED
    BY <1>15, <2>1, SeqEqual DEF n
<1>18. Decoded(DbUrlEscape(u)) = u
  BY <1>9, <1>11, <1>16, <1>17
<1>19. ToSet(DbUrlEscape(u)) \subseteq UrlChars
  <2>1. \A k \in DOMAIN url : url[k] \in UrlChars
    BY <1>9, LenProperties, ElementOfSeq
  <2> QED
    BY <1>9, <2>1 DEF ToSet
<1> QED
  BY <1>18, <1>19

LEMMA RequestsNamed ==
  ASSUME DirTyped, CharsFit
  PROVE  RequestNamesListed /\ HexDigitsHold
<1>1. ASSUME NEW i \in 1 .. Len(children)
      PROVE  /\ Utf8(FilePath(i)) \in Seq(Bytes)
             /\ FilePath(i) = DirectoryPath \o <<PATH_SEPARATOR>> \o children[i].name
  BY PathIs, Utf8Typed
<1>2. RequestNamesListed
  <2> DEFINE Named(n) == LET i == Ordinal(Listing, n)
                             url == DbUrlEscape(Utf8(FilePath(i)))
                         IN  i \in Files =>
                               /\ ToSet(url) \subseteq Unescaped \cup {PERCENT}
                               /\ Decoded(url)
                                    = Utf8(DirectoryPath \o <<PATH_SEPARATOR>>
                                             \o NameBefore(Listing, n))
  <2>1. ASSUME NEW i \in 1 .. Len(children) PROVE Named(ChildOffset(i + 1))
    <3>1. PICK n : n = ChildOffset(i + 1)
      OBVIOUS
    <3>2. Ordinal(Listing, n) = i /\ NameBefore(Listing, n) = children[i].name
      BY <3>1, OrdinalIs, NameIsRead
    <3>3. PICK path : path = FilePath(i)
      OBVIOUS
    <3>4. /\ ToSet(DbUrlEscape(Utf8(path))) \subseteq Unescaped \cup {PERCENT}
          /\ Decoded(DbUrlEscape(Utf8(path))) = Utf8(path)
      BY <1>1, <3>3, EscapeDecoded DEF UrlChars
    <3>5. path = DirectoryPath \o <<PATH_SEPARATOR>> \o NameBefore(Listing, n)
      BY <1>1, <3>2, <3>3
    <3> QED
      BY <3>1, <3>2, <3>3, <3>4, <3>5
  <2>2. \A n \in ShortEntries(Listing) : Named(n)
    <3> HIDE DEF Named
    <3> QED
      BY <2>1, ShortEntriesAre DEF ShortPlaces
  <2> QED
    BY <2>2 DEF RequestNamesListed
<1>3. HexDigitsHold
  <2> SUFFICES ASSUME NEW i \in Files, NEW byte \in ToSet(Utf8(FilePath(i)))
               PROVE  High(AsChar(byte)) \in 0 .. 15 /\ Low(AsChar(byte)) \in 0 .. 15
    BY DEF HexDigitsHold
  <2>1. i \in 1 .. Len(children)
    BY LenProperties DEF Files, DirTyped
  <2>2. PICK u : u = Utf8(FilePath(i)) /\ u \in Seq(Bytes)
    BY <1>1, <2>1
  <2>3. byte \in Bytes
    <3>1. PICK k \in DOMAIN u : byte = u[k]
      BY <2>2 DEF ToSet
    <3> QED
      BY <2>2, <3>1, LenProperties, ElementOfSeq
  <2>4. AsChar(byte) = byte /\ High(byte) \in Nat /\ High(byte) <= 15
        /\ Low(byte) \in Nat /\ Low(byte) <= 15
    BY <2>3, ByteFacts
  <2> QED
    BY <2>4
<1> QED
  BY <1>2, <1>3

\* Where a char holds the bytes of the names, on a platform with an unsigned char or with
\* names in ASCII, the request for a file asks for the one that the listing shows: the
\* URL decodes to the path of the directory and the name that a driver reads, whatever
\* characters of the basic plane the names have.
THEOREM RequestsAreForListed ==
  ASSUME CharsFit
  PROVE  Spec => []RequestNamesListed
<1>1. ListingInv => RequestNamesListed
  BY RequestsNamed DEF ListingInv
<1> QED
  BY <1>1, ListingInvariance, PTL

\* There the assertions of hex_char hold too: only a signed char makes them fail.
THEOREM HexDigitsAlwaysHold ==
  ASSUME CharsFit
  PROVE  Spec => []HexDigitsHold
<1>1. ListingInv => HexDigitsHold
  BY RequestsNamed DEF ListingInv
<1> QED
  BY <1>1, ListingInvariance, PTL


================================================================================
