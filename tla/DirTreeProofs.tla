----------------------------- MODULE DirTreeProofs -----------------------------
(***************************************************************************)
(* Proofs about the directory tree of dbfat.c: whatever entries are added, *)
(* replaced and removed, in whatever order, the lists of children and the  *)
(* entries agree (TreeLinked), and every entry keeps the fields that its   *)
(* kind has (TreeTypeOK).                                                  *)
(*                                                                         *)
(* The lemmas follow the functions of dbfat.c: each says what one of them  *)
(* makes of a tree that is linked, exactly, so that the theorems about the *)
(* delta synchronisation can use them too.                                 *)
(***************************************************************************)
EXTENDS DirTree, SequenceTheorems, SetInduction

(***************************************************************************)
(* Paths.                                                                  *)
(***************************************************************************)

\* The parent and the name of a path that was made of them.
LEMMA FrontLastOfAppend ==
  ASSUME NEW S, NEW p \in Seq(S), NEW c \in S
  PROVE  /\ Append(p, c) \in Seq(S)
         /\ Append(p, c) # <<>>
         /\ Len(Append(p, c)) = Len(p) + 1
         /\ Front(Append(p, c)) = p
         /\ Last(Append(p, c)) = c
<1>1. /\ Append(p, c) \in Seq(S)
      /\ Len(Append(p, c)) = Len(p) + 1
      /\ \A i \in 1 .. Len(p) : Append(p, c)[i] = p[i]
      /\ Append(p, c)[Len(p) + 1] = c
  BY AppendProperties
<1>2. Front(Append(p, c)) = p
  <2>1. Front(Append(p, c)) = SubSeq(Append(p, c), 1, Len(p))
    BY <1>1 DEF Front
  <2>2. SubSeq(Append(p, c), 1, Len(p)) \in Seq(S)
        /\ Len(SubSeq(Append(p, c), 1, Len(p))) = Len(p)
        /\ \A i \in 1 .. Len(p) : SubSeq(Append(p, c), 1, Len(p))[i] = Append(p, c)[i]
    BY <1>1
  <2> QED
    BY <1>1, <2>1, <2>2, SeqEqual
<1> QED
  BY <1>1, <1>2 DEF Last

\* A path that is not the root is made of its parent and its name.
LEMMA PathOfFrontLast ==
  ASSUME NEW S, NEW p \in Seq(S), p # <<>>
  PROVE  /\ Front(p) \in Seq(S)
         /\ Len(Front(p)) = Len(p) - 1
         /\ Last(p) \in S
         /\ p = Append(Front(p), Last(p))
<1>1. Len(p) \in Nat \ {0} /\ p \in [1 .. Len(p) -> S]
  BY LenProperties, EmptySeq
<1>2. Front(p) \in Seq(S) /\ Len(Front(p)) = Len(p) - 1
      /\ \A i \in 1 .. Len(p) - 1 : Front(p)[i] = p[i]
  BY <1>1 DEF Front
<1>3. Last(p) \in S
  BY <1>1 DEF Last
<1>4. /\ Append(Front(p), Last(p)) \in Seq(S)
      /\ Len(Append(Front(p), Last(p))) = Len(p)
      /\ \A i \in 1 .. Len(p) : Append(Front(p), Last(p))[i] = p[i]
  <2>1. /\ Append(Front(p), Last(p)) \in Seq(S)
        /\ Len(Append(Front(p), Last(p))) = Len(Front(p)) + 1
        /\ \A i \in 1 .. Len(Front(p)) : Append(Front(p), Last(p))[i] = Front(p)[i]
        /\ Append(Front(p), Last(p))[Len(Front(p)) + 1] = Last(p)
    BY <1>2, <1>3, AppendProperties
  <2>2. Last(p) = p[Len(p)]
    BY DEF Last
  <2> QED
    BY <1>1, <1>2, <2>1, <2>2
<1>5. p = Append(Front(p), Last(p))
  BY <1>4, SeqEqual
<1> QED
  BY <1>2, <1>3, <1>5

\* A prefix, element by element.
LEMMA PrefixElements ==
  ASSUME NEW S, NEW q \in Seq(S), NEW p \in Seq(S)
  PROVE  IsPrefix(q, p) <=> Len(q) <= Len(p) /\ \A i \in 1 .. Len(q) : q[i] = p[i]
<1>1. SubSeq(q, 1, Len(q)) = q
  BY SubSeqFull
<1>2. CASE Len(q) <= Len(p)
  <2>1. SubSeq(p, 1, Len(q)) \in Seq(S) /\ Len(SubSeq(p, 1, Len(q))) = Len(q)
        /\ \A i \in 1 .. Len(q) : SubSeq(p, 1, Len(q))[i] = p[i]
    BY <1>2
  <2>2. IsPrefix(q, p) <=> q = SubSeq(p, 1, Len(q))
    BY <1>1, <1>2 DEF IsPrefix
  <2>3. q = SubSeq(p, 1, Len(q)) <=> \A i \in 1 .. Len(q) : q[i] = p[i]
    BY <2>1, SeqEqual
  <2> QED
    BY <1>2, <2>2, <2>3
<1>3. CASE ~(Len(q) <= Len(p))
  BY <1>3 DEF IsPrefix
<1> QED
  BY <1>2, <1>3

\* Every path is a prefix of itself, and no prefix is longer.
LEMMA PrefixOfItself ==
  ASSUME NEW S, NEW p \in Seq(S)
  PROVE  IsPrefix(p, p) /\ (\A q \in Seq(S) : IsPrefix(q, p) => Len(q) <= Len(p))
BY PrefixElements

\* What is at or below q is q, or its parent is at or below q.
LEMMA PrefixOfAppend ==
  ASSUME NEW S, NEW q \in Seq(S), NEW p \in Seq(S), NEW c \in S
  PROVE  IsPrefix(q, Append(p, c)) <=> (q = Append(p, c) \/ IsPrefix(q, p))
<1>1. /\ Append(p, c) \in Seq(S)
      /\ Len(Append(p, c)) = Len(p) + 1
      /\ \A i \in 1 .. Len(p) : Append(p, c)[i] = p[i]
  BY AppendProperties
<1>2. PICK a \in Seq(S) : /\ a = Append(p, c)
                         /\ Len(a) = Len(p) + 1
                         /\ \A i \in 1 .. Len(p) : a[i] = p[i]
  BY <1>1
<1>3. IsPrefix(q, a) <=> Len(q) <= Len(a) /\ \A i \in 1 .. Len(q) : q[i] = a[i]
  BY PrefixElements
<1>4. IsPrefix(q, p) <=> Len(q) <= Len(p) /\ \A i \in 1 .. Len(q) : q[i] = p[i]
  BY PrefixElements
<1>5. q = a <=> Len(q) = Len(a) /\ \A i \in 1 .. Len(q) : q[i] = a[i]
  BY SeqEqual
<1>6. Len(q) \in Nat /\ Len(p) \in Nat
  OBVIOUS
<1>7. Len(a) = Len(p) + 1 /\ \A i \in 1 .. Len(p) : a[i] = p[i]
  BY <1>2
<1>8. IsPrefix(q, a) <=> (q = a \/ IsPrefix(q, p))
  BY <1>3, <1>4, <1>5, <1>6, <1>7
<1> QED
  BY <1>2, <1>8, Zenon

\* The first i names of a path are the first i - 1 and the next one.
LEMMA NextOfPath ==
  ASSUME NEW S, NEW path \in Seq(S), NEW i \in 1 .. Len(path)
  PROVE  /\ SubSeq(path, 1, i - 1) \in Seq(S)
         /\ Len(SubSeq(path, 1, i - 1)) = i - 1
         /\ path[i] \in S
         /\ SubSeq(path, 1, i) = Append(SubSeq(path, 1, i - 1), path[i])
<1>1. path[i] \in S
  BY ElementOfSeq
<1>2. SubSeq(path, 1, i) \in Seq(S) /\ Len(SubSeq(path, 1, i)) = i
      /\ \A j \in 1 .. i : SubSeq(path, 1, i)[j] = path[j]
  OBVIOUS
<1>3. SubSeq(path, 1, i - 1) \in Seq(S) /\ Len(SubSeq(path, 1, i - 1)) = i - 1
      /\ \A j \in 1 .. i - 1 : SubSeq(path, 1, i - 1)[j] = path[j]
  OBVIOUS
<1>4. /\ Append(SubSeq(path, 1, i - 1), path[i]) \in Seq(S)
      /\ Len(Append(SubSeq(path, 1, i - 1), path[i])) = i
      /\ \A j \in 1 .. i : Append(SubSeq(path, 1, i - 1), path[i])[j] = path[j]
  BY <1>1, <1>3, AppendProperties
<1>5. SubSeq(path, 1, i) = Append(SubSeq(path, 1, i - 1), path[i])
  BY <1>2, <1>4, SeqEqual
<1> QED
  BY <1>1, <1>3, <1>5

(***************************************************************************)
(* Lists of children.                                                      *)
(***************************************************************************)

\* No name is twice in the list.
Distinct(s) == \A i, j \in DOMAIN s : s[i] = s[j] => i = j

\* add_child_entry puts a new name in front of the list.
LEMMA ListWithFirst ==
  ASSUME NEW S, NEW s \in Seq(S), Distinct(s), NEW x \in S, x \notin ToSet(s)
  PROVE  /\ <<x>> \o s \in Seq(S)
         /\ Distinct(<<x>> \o s)
         /\ ToSet(<<x>> \o s) = ToSet(s) \cup {x}
<1>1. <<x>> \in Seq(S) /\ Len(<<x>>) = 1 /\ <<x>>[1] = x
  OBVIOUS
<1> PICK r : r = <<x>> \o s
  OBVIOUS
<1>2. /\ r \in Seq(S)
      /\ Len(r) = 1 + Len(s)
      /\ r[1] = x
      /\ \A i \in 2 .. Len(r) : r[i] = s[i - 1]
  <2>1. /\ <<x>> \o s \in Seq(S)
        /\ Len(<<x>> \o s) = 1 + Len(s)
        /\ \A i \in 1 .. 1 + Len(s) :
             (<<x>> \o s)[i] = IF i <= 1 THEN <<x>>[i] ELSE s[i - 1]
    BY <1>1, ConcatProperties
  <2> QED
    BY <2>1
<1>3. Len(s) \in Nat /\ DOMAIN s = 1 .. Len(s) /\ DOMAIN r = 1 .. 1 + Len(s)
  BY <1>2, LenProperties
<1>4. ASSUME NEW i \in DOMAIN r, NEW j \in DOMAIN r, r[i] = r[j] PROVE i = j
  BY <1>2, <1>3, <1>4 DEF Distinct, ToSet
<1>5. ToSet(r) = ToSet(s) \cup {x}
  <2>1. ASSUME NEW y \in ToSet(r) PROVE y \in ToSet(s) \cup {x}
    <3>1. PICK i \in 1 .. 1 + Len(s) : y = r[i]
      BY <1>3, <2>1 DEF ToSet
    <3> QED
      BY <1>2, <1>3, <3>1 DEF ToSet
  <2>2. ASSUME NEW y \in ToSet(s) PROVE y \in ToSet(r)
    <3>1. PICK i \in 1 .. Len(s) : y = s[i]
      BY <1>3, <2>2 DEF ToSet
    <3>2. i + 1 \in DOMAIN r /\ r[i + 1] = y
      BY <1>2, <1>3, <3>1
    <3> QED
      BY <3>2 DEF ToSet
  <2>3. x \in ToSet(r)
    BY <1>2, <1>3 DEF ToSet
  <2> QED
    BY <2>1, <2>2, <2>3
<1> QED
  BY <1>2, <1>4, <1>5, Zenon DEF Distinct

\* remove_child_entry takes one name out of the list.
LEMMA ListWithout ==
  ASSUME NEW S, NEW s \in Seq(S), Distinct(s), NEW x \in ToSet(s)
  PROVE  /\ Unlisted(s, x) \in Seq(S)
         /\ Distinct(Unlisted(s, x))
         /\ ToSet(Unlisted(s, x)) = ToSet(s) \ {x}
<1>1. PICK k \in DOMAIN s : k = CHOOSE i \in DOMAIN s : s[i] = x
  BY DEF ToSet
<1>2. s[k] = x
  BY <1>1 DEF ToSet
<1>3. Len(s) \in Nat /\ DOMAIN s = 1 .. Len(s) /\ k \in 1 .. Len(s)
  BY LenProperties
<1>a. PICK a : a = SubSeq(s, 1, k - 1)
  OBVIOUS
<1>b. PICK b : b = SubSeq(s, k + 1, Len(s))
  OBVIOUS
<1>r. PICK r : r = a \o b
  OBVIOUS
<1>4. a \in Seq(S) /\ Len(a) = k - 1 /\ \A i \in 1 .. k - 1 : a[i] = s[i]
  BY <1>3, <1>a
<1>5. b \in Seq(S) /\ Len(b) = Len(s) - k /\ \A i \in 1 .. Len(s) - k : b[i] = s[i + k]
  <2>1. k + 1 \in 1 .. Len(s) + 1 /\ Len(s) \in (k + 1) - 1 .. Len(s)
    BY <1>3
  <2>2. /\ b \in Seq(S)
        /\ Len(b) = IF k + 1 <= Len(s) THEN Len(s) - (k + 1) + 1 ELSE 0
        /\ \A i \in 1 .. Len(s) - (k + 1) + 1 : b[i] = s[(k + 1) + i - 1]
    BY <2>1, <1>b, SubSeqProperties
  <2>3. \A i \in 1 .. Len(s) - k : (k + 1) + i - 1 = i + k
    BY <1>3
  <2>4. Len(s) - (k + 1) + 1 = Len(s) - k
    BY <1>3
  <2>5. Len(b) = Len(s) - k
    BY <1>3, <2>2
  <2>6. \A i \in 1 .. Len(s) - k : b[i] = s[i + k]
    BY <2>2, <2>3, <2>4
  <2> QED
    BY <2>2, <2>5, <2>6
<1>6. /\ r \in Seq(S)
      /\ Len(r) = Len(s) - 1
      /\ \A i \in 1 .. Len(s) - 1 : i < k => r[i] = s[i]
      /\ \A i \in 1 .. Len(s) - 1 : i >= k => r[i] = s[i + 1]
  <2>1. /\ r \in Seq(S)
        /\ Len(r) = Len(a) + Len(b)
        /\ \A i \in 1 .. Len(a) + Len(b) :
             r[i] = IF i <= Len(a) THEN a[i] ELSE b[i - Len(a)]
    BY <1>4, <1>5, <1>r, ConcatProperties, Zenon
  <2>2. Len(a) + Len(b) = Len(s) - 1
    BY <1>3, <1>4, <1>5
  <2>3. ASSUME NEW i \in 1 .. Len(s) - 1, i < k PROVE r[i] = s[i]
    <3>1. i <= Len(a) /\ i \in 1 .. k - 1
      BY <1>3, <1>4, <2>3
    <3> QED
      BY <1>4, <2>1, <2>2, <3>1
  <2>4. ASSUME NEW i \in 1 .. Len(s) - 1, i >= k PROVE r[i] = s[i + 1]
    <3>1. /\ i - Len(a) \in 1 .. Len(s) - k
          /\ (i - Len(a)) + k = i + 1
          /\ ~(i <= Len(a))
      BY <1>3, <1>4, <2>4
    <3>2. r[i] = b[i - Len(a)]
      BY <2>1, <2>2, <3>1
    <3> QED
      BY <1>5, <3>1, <3>2
  <2> QED
    BY <2>1, <2>2, <2>3, <2>4
<1>7. r = Unlisted(s, x)
  BY <1>1, <1>a, <1>b, <1>r, Zenon DEF Unlisted, RemoveAt
<1>8. DOMAIN r = 1 .. Len(s) - 1
  BY <1>6, LenProperties
<1>9. ASSUME NEW i \in DOMAIN r, NEW j \in DOMAIN r, r[i] = r[j] PROVE i = j
  <2>1. \A m \in 1 .. Len(s), n \in 1 .. Len(s) : s[m] = s[n] => m = n
    BY <1>3 DEF Distinct
  <2>2. i \in 1 .. Len(s) - 1 /\ j \in 1 .. Len(s) - 1
    BY <1>8
  <2> QED
    BY <1>3, <1>6, <1>9, <2>1, <2>2
<1>10. ToSet(r) = ToSet(s) \ {x}
  <2>1. ASSUME NEW y \in ToSet(r) PROVE y \in ToSet(s) \ {x}
    <3>1. PICK i \in 1 .. Len(s) - 1 : y = r[i]
      BY <1>8, <2>1 DEF ToSet
    <3>2. PICK j \in 1 .. Len(s) : j # k /\ y = s[j]
      BY <1>3, <1>6, <3>1
    <3> QED
      BY <1>2, <1>3, <3>2 DEF ToSet, Distinct
  <2>2. ASSUME NEW y \in ToSet(s) \ {x} PROVE y \in ToSet(r)
    <3>1. PICK j \in 1 .. Len(s) : y = s[j] /\ j # k
      BY <1>2, <1>3, <2>2 DEF ToSet
    <3>2. CASE j < k
      <4>1. j \in DOMAIN r /\ r[j] = y
        BY <1>3, <1>6, <1>8, <3>1, <3>2
      <4> QED
        BY <4>1 DEF ToSet
    <3>3. CASE j > k
      <4>1. j - 1 \in DOMAIN r /\ r[j - 1] = y
        BY <1>3, <1>6, <1>8, <3>1, <3>3
      <4> QED
        BY <4>1 DEF ToSet
    <3> QED
      BY <1>3, <3>1, <3>2, <3>3
  <2> QED
    BY <2>1, <2>2
<1> QED
  BY <1>6, <1>7, <1>9, <1>10, Zenon DEF Distinct

(***************************************************************************)
(* Trees.                                                                  *)
(***************************************************************************)

\* The DirEntry of a path.
EntryType ==
  [is_dir : BOOLEAN, size : Nat, rev : Revs \cup {NoRev}, clusters : Nat \ {0},
   children : Seq(Names)]

Typed(t) ==
  /\ DOMAIN t \subseteq Seq(Names)
  /\ t \in [DOMAIN t -> EntryType]

\* There is a root, and whatever has a path is below a directory.  A directory
\* never has fewer bytes than the entry of any child: when the child goes, the
\* chain is not cut to a negative size.
Rooted(t) ==
  /\ Root \in DOMAIN t /\ t[Root].is_dir
  /\ \A p \in Seq(Names), c \in Names : Append(p, c) \in DOMAIN t =>
       p \in DOMAIN t /\ t[p].is_dir /\ EntrySize[c] <= t[p].size

\* The list of a directory has the names of the entries below it, each once.
Lists(t) ==
  \A p \in DOMAIN t :
    /\ Distinct(t[p].children)
    /\ \A c \in Names : c \in ToSet(t[p].children) <=> Append(p, c) \in DOMAIN t

\* The invariant of the tree.
IsTree(t) == Typed(t) /\ Rooted(t) /\ Lists(t)

\* Two entries that say the same of a file or a directory of the folder.
Alike(d, e) ==
  d.is_dir = e.is_dir /\ (~d.is_dir => d.size = e.size /\ d.rev = e.rev)

\* A chain always has a cluster, also after its entry has grown or shrunk.
LEMMA ChainNotEmpty ==
  ASSUME NEW bytes \in Nat, NEW clusters \in Nat \ {0}
  PROVE  ClustersFor(bytes) \in Nat \ {0} /\ Reallocated(clusters, bytes) \in Nat \ {0}
<1> DEFINE B == BYTES_PER_CLUSTER
<1>1. B \in Nat \ {0}
  BY TreeAssumption DEF ConstantsOK
<1>2. ClustersFor(bytes) \in Nat \ {0}
  <2>1. CASE bytes = 0
    BY <2>1 DEF ClustersFor
  <2>2. CASE bytes # 0
    <3> DEFINE a == bytes + B - 1
               q == a \div B
               r == a % B
    <3>1. a \in Nat /\ a >= B
      BY <1>1, <2>2
    <3> HIDE DEF a
    <3>2. q \in Nat /\ r \in 0 .. B - 1 /\ a = q * B + r
      BY <1>1, <3>1
    <3> HIDE DEF q, r
    <3>3. q # 0
      BY <1>1, <3>1, <3>2
    <3>4. ClustersFor(bytes) = q
      BY <2>2 DEF ClustersFor, q, a
    <3> QED
      BY <3>2, <3>3, <3>4
  <2> QED
    BY <2>1, <2>2
<1>3. PICK needed \in Nat \ {0} : needed = ClustersFor(bytes)
  BY <1>2
<1>4. Reallocated(clusters, bytes)
        = IF needed <= clusters THEN needed
          ELSE clusters + (needed - clusters + 1) \div 2
  BY <1>3 DEF Reallocated
<1>5. CASE needed <= clusters
  BY <1>2, <1>4, <1>5
<1>6. CASE ~(needed <= clusters)
  <2>1. needed - clusters + 1 \in Nat
    BY <1>6
  <2>2. ((needed - clusters + 1) \div 2) \in Nat
    BY <2>1
  <2>3. clusters + ((needed - clusters + 1) \div 2) \in Nat \ {0}
    BY <2>2
  <2> QED
    BY <1>2, <1>4, <1>6, <2>3
<1> QED
  BY <1>5, <1>6

\* There is nothing below a file.
LEMMA NothingBelowFile ==
  ASSUME NEW t, IsTree(t), NEW p \in DOMAIN t, ~t[p].is_dir
  PROVE  \A q \in DOMAIN t : IsPrefix(p, q) => q = p
<1> DEFINE T == {n \in Nat : \A q \in DOMAIN t :
                            Len(q) = n /\ IsPrefix(p, q) => q = p}
<1>1. DOMAIN t \subseteq Seq(Names)
  BY DEF IsTree, Typed
<1>2. 0 \in T
  <2> SUFFICES ASSUME NEW q \in DOMAIN t, Len(q) = 0, IsPrefix(p, q) PROVE q = p
    OBVIOUS
  <2>1. p \in Seq(Names) /\ q \in Seq(Names)
    BY <1>1
  <2>2. Len(p) <= 0
    BY <2>1, PrefixOfItself
  <2>3. p = <<>> /\ q = <<>>
    BY <2>1, <2>2
  <2> QED
    BY <2>3
<1>3. ASSUME NEW n \in Nat, n \in T PROVE n + 1 \in T
  <2> SUFFICES ASSUME NEW q \in DOMAIN t, Len(q) = n + 1, IsPrefix(p, q) PROVE q = p
    OBVIOUS
  <2>1. p \in Seq(Names) /\ q \in Seq(Names) /\ q # <<>>
    BY <1>1
  <2>2. PICK d \in Seq(Names), c \in Names : q = Append(d, c) /\ Len(d) = n
    <3>1. /\ Front(q) \in Seq(Names) /\ Last(q) \in Names
          /\ q = Append(Front(q), Last(q)) /\ Len(Front(q)) = Len(q) - 1
      BY <2>1, PathOfFrontLast
    <3> QED
      BY <3>1
  <2>3. d \in DOMAIN t /\ t[d].is_dir
    BY <2>2 DEF IsTree, Rooted
  <2>4. q = p \/ IsPrefix(p, d)
    BY <2>1, <2>2, PrefixOfAppend
  <2>5. IsPrefix(p, d) => d = p
    BY <1>3, <2>2, <2>3
  <2> QED
    BY <2>3, <2>4, <2>5
<1>4. Nat \subseteq T
  BY <1>2, <1>3, NatSetInduction
<1>5. ASSUME NEW q \in DOMAIN t PROVE Len(q) \in Nat
  BY <1>1
<1> QED
  BY <1>4, <1>5

(***************************************************************************)
(* The two edits of a directory.                                           *)
(***************************************************************************)

\* The directory that a child is removed from keeps its bytes and has a cluster.
LEMMA DirectoryWithoutChild ==
  ASSUME NEW d \in EntryType, Distinct(d.children),
         NEW name \in Names, name \in ToSet(d.children), EntrySize[name] <= d.size
  PROVE  /\ WithoutChild(d, name) \in EntryType
         /\ WithoutChild(d, name).is_dir = d.is_dir
         /\ WithoutChild(d, name).size = d.size
         /\ WithoutChild(d, name).rev = d.rev
         /\ Distinct(WithoutChild(d, name).children)
         /\ ToSet(WithoutChild(d, name).children) = ToSet(d.children) \ {name}
<1> DEFINE list == Unlisted(d.children, name)
           n == IF Cuts(d, EntrySize[name])
                THEN Reallocated(d.clusters, Reduced(d, EntrySize[name]))
                ELSE d.clusters
<1>1. /\ d.is_dir \in BOOLEAN /\ d.size \in Nat /\ d.rev \in Revs \cup {NoRev}
      /\ d.clusters \in Nat \ {0} /\ d.children \in Seq(Names)
  BY DEF EntryType
<1>2. list \in Seq(Names) /\ Distinct(list) /\ ToSet(list) = ToSet(d.children) \ {name}
  BY <1>1, ListWithout
<1>3. EntrySize[name] \in Nat
  BY TreeAssumption DEF ConstantsOK
<1>4. Reduced(d, EntrySize[name]) \in Nat
  BY <1>1, <1>3 DEF Reduced
<1>5. n \in Nat \ {0}
  BY <1>1, <1>4, ChainNotEmpty
<1>6. WithoutChild(d, name) = [d EXCEPT !.clusters = n, !.children = list]
  BY DEF WithoutChild
<1> HIDE DEF n, list
<1>7. PICK r : r = WithoutChild(d, name)
  OBVIOUS
<1>8. r \in EntryType
  BY <1>2, <1>5, <1>6, <1>7 DEF EntryType
<1>9. r.is_dir = d.is_dir /\ r.size = d.size /\ r.rev = d.rev /\ r.children = list
  BY <1>6, <1>7 DEF EntryType
<1> QED
  BY <1>2, <1>7, <1>8, <1>9

\* remove_child_entry: the entry goes with all that is below it, and nothing else
\* changes but the list and the chain of the directory.
LEMMA ChildRemoved ==
  ASSUME NEW t, IsTree(t), NEW dir \in Seq(Names), NEW name \in Names,
         Append(dir, name) \in DOMAIN t
  PROVE  /\ IsTree(Unlinked(t, dir, name))
         /\ DOMAIN Unlinked(t, dir, name)
              = {q \in DOMAIN t : ~IsPrefix(Append(dir, name), q)}
         /\ \A q \in DOMAIN Unlinked(t, dir, name) :
              Alike(Unlinked(t, dir, name)[q], t[q])
<1> DEFINE path == Append(dir, name)
           D == {q \in DOMAIN t : ~IsPrefix(path, q)}
           e == WithoutChild(t[dir], name)
<1>1. PICK u : u = Unlinked(t, dir, name)
  OBVIOUS
<1>2. u = [p \in D |-> IF p = dir THEN e ELSE t[p]]
  BY <1>1 DEF Unlinked
<1>3. /\ DOMAIN u = D
      /\ u[dir] = e \/ dir \notin D
      /\ \A p \in D : p # dir => u[p] = t[p]
  BY <1>2
<1>4. path \in Seq(Names) /\ path # <<>> /\ Len(path) = Len(dir) + 1
  BY FrontLastOfAppend
<1>5. DOMAIN t \subseteq Seq(Names) /\ t \in [DOMAIN t -> EntryType]
  BY DEF IsTree, Typed
<1>6. dir \in DOMAIN t /\ t[dir].is_dir /\ EntrySize[name] <= t[dir].size
  BY DEF IsTree, Rooted
<1>7. Distinct(t[dir].children) /\ name \in ToSet(t[dir].children)
  BY <1>6 DEF IsTree, Lists
<1>8. /\ e \in EntryType
      /\ e.is_dir = t[dir].is_dir /\ e.size = t[dir].size /\ e.rev = t[dir].rev
      /\ Distinct(e.children)
      /\ ToSet(e.children) = ToSet(t[dir].children) \ {name}
  BY <1>5, <1>6, <1>7, DirectoryWithoutChild
<1>9. ASSUME NEW p \in Seq(Names), NEW c \in Names
      PROVE  IsPrefix(path, Append(p, c))
               <=> (p = dir /\ c = name) \/ IsPrefix(path, p)
  <2>1. IsPrefix(path, Append(p, c)) <=> (path = Append(p, c) \/ IsPrefix(path, p))
    BY <1>4, PrefixOfAppend
  <2>2. path = Append(p, c) <=> (p = dir /\ c = name)
    BY FrontLastOfAppend
  <2> QED
    BY <2>1, <2>2
<1>10. dir \in D
  <2>1. ~(Len(path) <= Len(dir))
    BY <1>4
  <2>2. ~IsPrefix(path, dir)
    BY <1>4, <2>1, PrefixOfItself
  <2> QED
    BY <1>6, <2>2
<1>11. Root \in D
  <2>1. Root \in Seq(Names) /\ Len(Root) = 0
    BY EmptySeq DEF Root
  <2>2. ~(Len(path) <= 0)
    BY <1>4
  <2> QED
    BY <1>4, <2>1, <2>2, PrefixOfItself DEF IsTree, Rooted
<1> HIDE DEF e, D, path
<1>12. \A p \in D : u[p].is_dir = t[p].is_dir /\ u[p].size = t[p].size /\ u[p].rev = t[p].rev
  BY <1>3, <1>8
<1>13. Typed(u)
  <2>1. D \subseteq DOMAIN t
    BY DEF D
  <2>2. \A p \in D : u[p] \in EntryType
    BY <1>3, <1>5, <1>8, <2>1
  <2>3. u = [p \in D |-> u[p]]
    BY <1>2
  <2> QED
    BY <1>3, <1>5, <2>1, <2>2, <2>3 DEF Typed
<1>14. Rooted(u)
  <2>1. Root \in DOMAIN u /\ u[Root].is_dir
    BY <1>3, <1>11, <1>12 DEF IsTree, Rooted
  <2>2. ASSUME NEW p \in Seq(Names), NEW c \in Names, Append(p, c) \in DOMAIN u
        PROVE  p \in DOMAIN u /\ u[p].is_dir /\ EntrySize[c] <= u[p].size
    <3>1. Append(p, c) \in DOMAIN t /\ ~IsPrefix(path, Append(p, c))
      BY <1>3, <2>2 DEF D
    <3>2. p \in DOMAIN t /\ t[p].is_dir /\ EntrySize[c] <= t[p].size
      BY <3>1 DEF IsTree, Rooted
    <3>3. p \in D
      BY <1>9, <3>1, <3>2 DEF D
    <3> QED
      BY <1>3, <1>12, <3>2, <3>3
  <2> QED
    BY <2>1, <2>2 DEF Rooted
<1>15. Lists(u)
  <2> SUFFICES ASSUME NEW p \in D
               PROVE  /\ Distinct(u[p].children)
                      /\ \A c \in Names :
                           c \in ToSet(u[p].children) <=> Append(p, c) \in D
    BY <1>3 DEF Lists
  <2>1. p \in DOMAIN t /\ p \in Seq(Names) /\ ~IsPrefix(path, p)
    BY <1>5 DEF D
  <2>2. /\ Distinct(t[p].children)
        /\ \A c \in Names : c \in ToSet(t[p].children) <=> Append(p, c) \in DOMAIN t
    BY <2>1 DEF IsTree, Lists
  <2>3. \A c \in Names : Append(p, c) \in D
          <=> Append(p, c) \in DOMAIN t /\ ~(p = dir /\ c = name)
    BY <1>9, <2>1 DEF D
  <2>4. CASE p = dir
    BY <1>3, <1>8, <1>10, <2>2, <2>3, <2>4
  <2>5. CASE p # dir
    BY <1>3, <2>2, <2>3, <2>5
  <2> QED
    BY <2>4, <2>5
<1>16. \A q \in D : Alike(u[q], t[q])
  BY <1>12 DEF Alike
<1>17. DOMAIN u = {q \in DOMAIN t : ~IsPrefix(Append(dir, name), q)}
  BY <1>3 DEF D, path
<1> QED
  BY <1>1, <1>3, <1>13, <1>14, <1>15, <1>16, <1>17 DEF IsTree

\* The tree u is t with an entry at one more path.
OneMore(u, t, path, is_dir, bytes, rev) ==
  /\ IsTree(u)
  /\ DOMAIN u = DOMAIN t \cup {path}
  /\ \A q \in DOMAIN t : Alike(u[q], t[q])
  /\ u[path].is_dir = is_dir
  /\ u[path].size = bytes
  /\ u[path].rev = rev

\* add_child_entry: the new entry comes without children, and nothing else changes
\* but the list, the size and the chain of the directory.
LEMMA ChildAdded ==
  ASSUME NEW t, IsTree(t), NEW st, st.tree = t,
         NEW dir \in DOMAIN t, t[dir].is_dir,
         NEW name \in Names, Append(dir, name) \notin DOMAIN t,
         NEW is_dir \in BOOLEAN, NEW bytes \in Nat, NEW rev \in Revs
  PROVE  OneMore(AddChild(st, dir, name, is_dir, bytes, rev).tree, t,
                 Append(dir, name), is_dir, bytes, rev)
<1>1. t = st.tree
  OBVIOUS
<1>0. PICK u : u = AddChild(st, dir, name, is_dir, bytes, rev).tree
  OBVIOUS
<1>2. PICK path : path = Append(dir, name)
  OBVIOUS
<1>3. PICK e : e = [is_dir |-> is_dir, size |-> bytes, rev |-> rev,
                    clusters |-> ClustersFor(bytes), children |-> <<>>]
  OBVIOUS
<1> DEFINE extra == EntrySize[name]
           grown == t[dir].size + extra
           crosses == (t[dir].size % BYTES_PER_CLUSTER) + extra > BYTES_PER_CLUSTER
           n == IF crosses THEN Reallocated(t[dir].clusters, grown) ELSE t[dir].clusters
           list == <<name>> \o t[dir].children
           f == [t[dir] EXCEPT !.size = grown, !.clusters = n, !.children = list]
<1>4. IsTree(t) /\ dir \in DOMAIN t /\ t[dir].is_dir /\ path \notin DOMAIN t
  BY <1>1, <1>2
<1>5. /\ DOMAIN t \subseteq Seq(Names) /\ t \in [DOMAIN t -> EntryType]
      /\ dir \in Seq(Names)
  BY <1>4 DEF IsTree, Typed
<1>6. /\ path \in Seq(Names) /\ path # <<>> /\ path # Root /\ path # dir
  <2>1. path \in Seq(Names) /\ path # <<>>
    BY <1>2, <1>5, FrontLastOfAppend
  <2> QED
    BY <1>4, <2>1 DEF Root
<1>7. u = [p \in DOMAIN t \cup {path} |->
             IF p = path THEN e ELSE IF p = dir THEN f ELSE t[p]]
  BY <1>0, <1>1, <1>2, <1>3, Zenon DEF AddChild
<1>8. /\ DOMAIN u = DOMAIN t \cup {path}
      /\ u[path] = e
      /\ u[dir] = f
      /\ \A p \in DOMAIN t : p # dir => u[p] = t[p]
  <2> HIDE DEF f
  <2> QED
    BY <1>4, <1>6, <1>7
<1>9. /\ t[dir] \in EntryType
      /\ t[dir].is_dir \in BOOLEAN /\ t[dir].size \in Nat /\ t[dir].rev \in Revs \cup {NoRev}
      /\ t[dir].clusters \in Nat \ {0} /\ t[dir].children \in Seq(Names)
  BY <1>4, <1>5 DEF EntryType
<1>10. /\ Distinct(t[dir].children)
       /\ \A c \in Names : c \in ToSet(t[dir].children) <=> Append(dir, c) \in DOMAIN t
  BY <1>4 DEF IsTree, Lists
<1>11. list \in Seq(Names) /\ Distinct(list) /\ ToSet(list) = ToSet(t[dir].children) \cup {name}
  <2>1. name \notin ToSet(t[dir].children)
    BY <1>2, <1>4, <1>10
  <2> QED
    BY <1>9, <1>10, <2>1, ListWithFirst
<1>12. extra \in Nat /\ grown \in Nat /\ grown >= t[dir].size /\ grown >= extra
  <2>1. extra \in Nat
    BY TreeAssumption DEF ConstantsOK
  <2> HIDE DEF extra
  <2> QED
    BY <1>9, <2>1
<1> HIDE DEF extra, grown
<1>13. n \in Nat \ {0}
  <2>1. Reallocated(t[dir].clusters, grown) \in Nat \ {0}
    BY <1>9, <1>12, ChainNotEmpty
  <2> HIDE DEF crosses
  <2> QED
    BY <1>9, <2>1
<1> HIDE DEF crosses, n, list
<1>14. f \in EntryType
  BY <1>9, <1>11, <1>12, <1>13 DEF EntryType
<1>15. /\ f.is_dir = t[dir].is_dir /\ f.size = grown /\ f.rev = t[dir].rev
       /\ f.children = list
  BY <1>9 DEF EntryType
<1> HIDE DEF f
<1>16. /\ e \in EntryType
       /\ e.is_dir = is_dir /\ e.size = bytes /\ e.rev = rev /\ e.children = <<>>
  <2>1. PICK m \in Nat \ {0} : m = ClustersFor(bytes)
    BY ChainNotEmpty
  <2>2. <<>> \in Seq(Names)
    BY EmptySeq
  <2> QED
    BY <1>3, <2>1, <2>2 DEF EntryType
<1>17. ASSUME NEW p \in Seq(Names), NEW c \in Names
       PROVE  Append(p, c) = path <=> (p = dir /\ c = name)
  <2>1. Front(Append(p, c)) = p /\ Last(Append(p, c)) = c
    BY FrontLastOfAppend
  <2>2. Front(path) = dir /\ Last(path) = name
    BY <1>2, <1>5, FrontLastOfAppend
  <2> QED
    BY <1>2, <2>1, <2>2, Zenon
<1>18. Typed(u)
  <2>1. \A p \in DOMAIN t \cup {path} : u[p] \in EntryType
    BY <1>5, <1>8, <1>14, <1>16
  <2>2. u = [p \in DOMAIN t \cup {path} |-> u[p]]
    BY <1>7
  <2> QED
    BY <1>5, <1>6, <1>8, <2>1, <2>2 DEF Typed
<1>19. \A p \in DOMAIN t :
         u[p].is_dir = t[p].is_dir /\ u[p].rev = t[p].rev /\ (p # dir => u[p].size = t[p].size)
  BY <1>8, <1>15
<1>20. Rooted(u)
  <2>1. Root \in DOMAIN t /\ t[Root].is_dir
    BY <1>4 DEF IsTree, Rooted
  <2>2. ASSUME NEW p \in Seq(Names), NEW c \in Names, Append(p, c) \in DOMAIN u
        PROVE  p \in DOMAIN u /\ u[p].is_dir /\ EntrySize[c] <= u[p].size
    <3>1. EntrySize[c] \in Nat
      BY TreeAssumption DEF ConstantsOK
    <3>2. CASE Append(p, c) = path
      <4>1. p = dir /\ c = name
        BY <1>17, <3>2
      <4> QED
        BY <1>4, <1>8, <1>12, <1>15, <4>1 DEF extra
    <3>3. CASE Append(p, c) # path
      <4>1. p \in DOMAIN t /\ t[p].is_dir /\ EntrySize[c] <= t[p].size
        BY <1>4, <1>8, <2>2, <3>3 DEF IsTree, Rooted
      <4>2. CASE p = dir
        <5>1. u[p].is_dir /\ u[p].size = grown
          BY <1>4, <1>8, <1>15, <4>2
        <5>2. EntrySize[c] <= grown
          BY <1>9, <1>12, <3>1, <4>1, <4>2
        <5> QED
          BY <1>8, <4>1, <5>1, <5>2
      <4>3. CASE p # dir
        BY <1>8, <4>1, <4>3
      <4> QED
        BY <4>2, <4>3
    <3> QED
      BY <3>2, <3>3
  <2>3. Root \in DOMAIN u /\ u[Root].is_dir
    BY <1>8, <1>19, <2>1
  <2> QED
    BY <2>2, <2>3 DEF Rooted
<1>21. Lists(u)
  <2>1. ASSUME NEW c \in Names PROVE Append(path, c) \notin DOMAIN u
    <3>1. Append(path, c) # path
      <4>1. Len(Append(path, c)) = Len(path) + 1 /\ Len(path) \in Nat
        BY <1>6, FrontLastOfAppend
      <4> QED
        BY <4>1
    <3>2. Append(path, c) \notin DOMAIN t
      BY <1>4, <1>6 DEF IsTree, Rooted
    <3> QED
      BY <1>8, <3>1, <3>2
  <2>2. Distinct(<<>>) /\ ToSet(<<>>) = {}
    BY DEF Distinct, ToSet
  <2>3. ASSUME NEW p \in DOMAIN t
        PROVE  /\ Distinct(u[p].children)
               /\ \A c \in Names : c \in ToSet(u[p].children) <=> Append(p, c) \in DOMAIN u
    <3>1. /\ Distinct(t[p].children)
          /\ \A c \in Names : c \in ToSet(t[p].children) <=> Append(p, c) \in DOMAIN t
      BY <1>4 DEF IsTree, Lists
    <3>2. \A c \in Names : Append(p, c) \in DOMAIN u
            <=> (Append(p, c) \in DOMAIN t \/ (p = dir /\ c = name))
      BY <1>5, <1>8, <1>17
    <3>3. CASE p = dir
      BY <1>8, <1>11, <1>15, <3>1, <3>2, <3>3
    <3>4. CASE p # dir
      BY <1>8, <3>1, <3>2, <3>4
    <3> QED
      BY <3>3, <3>4
  <2>4. u[path].children = <<>>
    BY <1>8, <1>16
  <2> QED
    BY <1>8, <2>1, <2>2, <2>3, <2>4 DEF Lists
<1>22. \A q \in DOMAIN t : Alike(u[q], t[q])
  BY <1>4, <1>19 DEF Alike
<1>23. OneMore(u, t, path, is_dir, bytes, rev)
  BY <1>8, <1>16, <1>18, <1>20, <1>21, <1>22 DEF IsTree, OneMore
<1> QED
  BY <1>0, <1>2, <1>23

\* An entry that is updated where it is leaves the tree linked: a directory may
\* get another revision, a file another size and revision.
LEMMA EntryUpdated ==
  ASSUME NEW t, IsTree(t), NEW path \in DOMAIN t,
         NEW e \in EntryType, e.is_dir = t[path].is_dir, e.children = t[path].children,
         e.is_dir => e.size = t[path].size,
         NEW u, u = [t EXCEPT ![path] = e]
  PROVE  /\ IsTree(u)
         /\ DOMAIN u = DOMAIN t
         /\ u[path] = e
         /\ \A q \in DOMAIN t : q # path => Alike(u[q], t[q])
<1>1. DOMAIN t \subseteq Seq(Names) /\ t \in [DOMAIN t -> EntryType]
  BY DEF IsTree, Typed
<1>2. u \in [DOMAIN t -> EntryType] /\ u[path] = e /\ \A q \in DOMAIN t : q # path => u[q] = t[q]
  BY <1>1
<1>3. DOMAIN u = DOMAIN t
  BY <1>2
<1>4. \A q \in DOMAIN t : u[q].is_dir = t[q].is_dir /\ u[q].children = t[q].children
                            /\ (t[q].is_dir => u[q].size = t[q].size)
  BY <1>2
<1>5. Typed(u)
  BY <1>1, <1>2, <1>3 DEF Typed
<1>6. Rooted(u)
  <2>1. Root \in DOMAIN t /\ t[Root].is_dir
    BY DEF IsTree, Rooted
  <2>2. ASSUME NEW p \in Seq(Names), NEW c \in Names, Append(p, c) \in DOMAIN t
        PROVE  p \in DOMAIN t /\ t[p].is_dir /\ EntrySize[c] <= t[p].size
    BY <2>2 DEF IsTree, Rooted
  <2> QED
    BY <1>3, <1>4, <2>1, <2>2 DEF Rooted
<1>7. Lists(u)
  <2>1. \A p \in DOMAIN t :
          /\ Distinct(t[p].children)
          /\ \A c \in Names : c \in ToSet(t[p].children) <=> Append(p, c) \in DOMAIN t
    BY DEF IsTree, Lists
  <2> QED
    BY <1>3, <1>4, <2>1 DEF Lists
<1>8. \A q \in DOMAIN t : q # path => Alike(u[q], t[q])
  BY <1>2 DEF Alike
<1> QED
  BY <1>2, <1>3, <1>5, <1>6, <1>7, <1>8 DEF IsTree

(***************************************************************************)
(* add_file_entry.                                                         *)
(***************************************************************************)

\* What is left when an entry of this kind comes to the path: an entry of the
\* other kind goes with all that is below it.
KeptFor(t, path, is_dir) ==
  IF path \in DOMAIN t /\ t[path].is_dir # is_dir
  THEN {q \in DOMAIN t : ~IsPrefix(path, q)} ELSE DOMAIN t

\* The fields of the metadata.
LEMMA MetadataFields ==
  ASSUME NEW metadata \in Metadata
  PROVE  metadata.is_dir \in BOOLEAN /\ metadata.size \in Nat /\ metadata.rev \in Revs
<1>1. FileSizes \subseteq Nat
  BY TreeAssumption DEF ConstantsOK
<1>2. CASE metadata \in [is_dir : {TRUE}, size : {0}, rev : Revs]
  <2>1. metadata.is_dir \in {TRUE} /\ metadata.size \in {0} /\ metadata.rev \in Revs
    BY <1>2
  <2>2. metadata.size \in Nat
    BY <2>1
  <2>3. metadata.is_dir \in BOOLEAN
    BY <2>1, Zenon
  <2> QED
    BY <2>1, <2>2, <2>3
<1>3. CASE metadata \in [is_dir : {FALSE}, size : FileSizes, rev : Revs]
  BY <1>1, <1>3
<1> QED
  BY <1>2, <1>3 DEF Metadata

\* The tree u is what the entry at the end of the path makes of t.
LastPut(u, t, path, metadata) ==
  /\ IsTree(u)
  /\ DOMAIN u = KeptFor(t, path, metadata.is_dir) \cup {path}
  /\ \A q \in DOMAIN u : q # path => Alike(u[q], t[q])
  /\ u[path].is_dir = metadata.is_dir
  /\ ~metadata.is_dir => u[path].size = metadata.size /\ u[path].rev = metadata.rev

\* The entry at the end of the path.
LEMMA LastAdded ==
  ASSUME NEW t, IsTree(t), NEW calls, NEW st, st = [tree |-> t, calls |-> calls],
         NEW dir \in DOMAIN t, t[dir].is_dir, NEW name \in Names,
         NEW metadata \in Metadata
  PROVE  LastPut(AddLast(st, dir, name, metadata).tree, t, Append(dir, name), metadata)
<1>0. PICK u : u = AddLast(st, dir, name, metadata).tree
  OBVIOUS
<1>1. PICK path : path = Append(dir, name)
  OBVIOUS
<1>2. PICK kept : kept = IF path \in DOMAIN t /\ t[path].is_dir # metadata.is_dir
                         THEN RemoveChild(st, dir, name) ELSE st
  OBVIOUS
<1>3. st.tree = t
  OBVIOUS
<1>4. DOMAIN t \subseteq Seq(Names) /\ dir \in Seq(Names) /\ path \in Seq(Names)
      /\ path # dir /\ ~IsPrefix(path, dir) /\ IsPrefix(path, path)
  <2>1. DOMAIN t \subseteq Seq(Names) /\ dir \in Seq(Names)
    BY DEF IsTree, Typed
  <2>2. path \in Seq(Names) /\ Len(path) = Len(dir) + 1 /\ Len(dir) \in Nat
    BY <1>1, <2>1, FrontLastOfAppend
  <2>3. path # dir /\ ~(Len(path) <= Len(dir))
    BY <2>2
  <2> QED
    BY <2>1, <2>2, <2>3, PrefixOfItself
<1>5. /\ metadata.is_dir \in BOOLEAN /\ metadata.size \in Nat /\ metadata.rev \in Revs
  BY MetadataFields
<1>6. PICK k : k = kept.tree
  OBVIOUS
<1>7. PICK c : c = kept.calls
  OBVIOUS
<1>8. kept = [tree |-> k, calls |-> c]
  BY <1>2, <1>6, <1>7 DEF RemoveChild
<1>9. /\ IsTree(k)
      /\ DOMAIN k = KeptFor(t, path, metadata.is_dir)
      /\ \A q \in DOMAIN k : Alike(k[q], t[q])
  <2>1. CASE path \in DOMAIN t /\ t[path].is_dir # metadata.is_dir
    <3>1. k = Unlinked(t, dir, name)
      BY <1>2, <1>3, <1>6, <2>1 DEF RemoveChild
    <3>2. /\ IsTree(Unlinked(t, dir, name))
          /\ DOMAIN Unlinked(t, dir, name)
              = {q \in DOMAIN t : ~IsPrefix(Append(dir, name), q)}
          /\ \A q \in DOMAIN Unlinked(t, dir, name) :
               Alike(Unlinked(t, dir, name)[q], t[q])
      BY <1>1, <1>4, <2>1, ChildRemoved
    <3>3. KeptFor(t, path, metadata.is_dir) = {q \in DOMAIN t : ~IsPrefix(path, q)}
      BY <2>1 DEF KeptFor
    <3> QED
      BY <1>1, <3>1, <3>2, <3>3
  <2>2. CASE ~(path \in DOMAIN t /\ t[path].is_dir # metadata.is_dir)
    <3>1. k = t
      BY <1>2, <1>3, <1>6, <2>2
    <3>2. KeptFor(t, path, metadata.is_dir) = DOMAIN t
      BY <2>2 DEF KeptFor
    <3> QED
      BY <3>1, <3>2 DEF Alike
  <2> QED
    BY <2>1, <2>2
<1>10. dir \in DOMAIN k /\ k[dir].is_dir
  <2>1. dir \in DOMAIN k
    BY <1>4, <1>9 DEF KeptFor
  <2> QED
    BY <1>9, <2>1 DEF Alike
<1>11. ASSUME path \notin DOMAIN k PROVE LastPut(u, t, path, metadata)
  <2>1. PICK bytes : bytes = IF metadata.is_dir THEN DotsSize ELSE metadata.size
    OBVIOUS
  <2>2. bytes \in Nat
    BY <1>5, <2>1, TreeAssumption DEF ConstantsOK
  <2>3. u = AddChild(kept, dir, name, metadata.is_dir, bytes, metadata.rev).tree
    BY <1>0, <1>1, <1>2, <1>3, <1>6, <1>11, <2>1, Zenon DEF AddLast
  <2>4. /\ kept.tree = k
        /\ IsTree(k)
        /\ dir \in DOMAIN k /\ k[dir].is_dir
        /\ Append(dir, name) \notin DOMAIN k
    BY <1>1, <1>6, <1>9, <1>10, <1>11
  <2>5. /\ IsTree(u)
        /\ DOMAIN u = DOMAIN k \cup {path}
        /\ \A q \in DOMAIN k : Alike(u[q], k[q])
        /\ u[path].is_dir = metadata.is_dir
        /\ u[path].size = bytes
        /\ u[path].rev = metadata.rev
    <3>1. /\ IsTree(u)
          /\ DOMAIN u = DOMAIN k \cup {Append(dir, name)}
          /\ \A q \in DOMAIN k : Alike(u[q], k[q])
          /\ u[Append(dir, name)].is_dir = metadata.is_dir
          /\ u[Append(dir, name)].size = bytes
          /\ u[Append(dir, name)].rev = metadata.rev
      <4>1. PICK b \in BOOLEAN : b = metadata.is_dir
        BY <1>5
      <4>2. PICK r \in Revs : r = metadata.rev
        BY <1>5
      <4>3. u = AddChild(kept, dir, name, b, bytes, r).tree
        BY <2>3, <4>1, <4>2
      <4>4. OneMore(u, k, Append(dir, name), b, bytes, r)
        BY <2>2, <2>4, <4>3, ChildAdded
      <4> QED
        BY <4>1, <4>2, <4>4 DEF OneMore
    <3> QED
      BY <1>1, <1>6, <3>1
  <2>6. \A q \in DOMAIN k : Alike(u[q], t[q])
    BY <1>9, <2>5 DEF Alike
  <2> QED
    BY <1>9, <2>1, <2>5, <2>6 DEF LastPut
<1>12. ASSUME path \in DOMAIN k PROVE LastPut(u, t, path, metadata)
  <2>1. path \in DOMAIN t /\ t[path].is_dir = metadata.is_dir
    BY <1>4, <1>9, <1>12 DEF KeptFor
  <2>2. k = t /\ kept = st
    BY <1>2, <1>3, <1>6, <2>1
  <2>3. t \in [DOMAIN t -> EntryType]
    BY DEF IsTree, Typed
  <2>4. PICK d : d = t[path]
    OBVIOUS
  <2>5. /\ d \in EntryType
        /\ d.clusters \in Nat \ {0}
    BY <2>1, <2>3, <2>4 DEF EntryType
  <2>6. CASE metadata.is_dir
    <3>1. PICK e : e = [d EXCEPT !.rev = metadata.rev]
      OBVIOUS
    <3>2. e \in EntryType /\ e.is_dir = d.is_dir /\ e.size = d.size /\ e.children = d.children
      BY <1>5, <2>5, <3>1 DEF EntryType
    <3>3. u = [t EXCEPT ![path].rev = metadata.rev]
      <4>1. AddLast(st, dir, name, metadata) = [kept EXCEPT !.tree[path].rev = metadata.rev]
        BY <1>1, <1>2, <1>3, <1>6, <1>12, <2>6, Zenon DEF AddLast
      <4>2. PICK v : v = [t EXCEPT ![path].rev = metadata.rev]
        OBVIOUS
      <4>3. [st EXCEPT !.tree[path].rev = metadata.rev] = [st EXCEPT !.tree = v]
        BY <1>3, <4>2
      <4> QED
        BY <1>0, <2>2, <4>1, <4>2, <4>3
    <3>4. u = [t EXCEPT ![path] = e]
      BY <2>4, <3>1, <3>3
    <3>5. IsTree(u) /\ DOMAIN u = DOMAIN t /\ u[path] = e
          /\ \A q \in DOMAIN t : q # path => Alike(u[q], t[q])
      BY <2>1, <2>4, <3>2, <3>4, EntryUpdated
    <3> QED
      BY <1>9, <2>1, <2>2, <2>4, <2>6, <3>2, <3>5 DEF LastPut
  <2>7. CASE ~metadata.is_dir
    <3>1. PICK e : e = [d EXCEPT !.size = metadata.size,
                                 !.clusters = Reallocated(d.clusters, metadata.size),
                                 !.rev = metadata.rev]
      OBVIOUS
    <3>2. Reallocated(d.clusters, metadata.size) \in Nat \ {0}
      BY <1>5, <2>5, ChainNotEmpty
    <3>3. e \in EntryType /\ e.is_dir = d.is_dir /\ e.children = d.children
          /\ e.size = metadata.size /\ e.rev = metadata.rev
      BY <1>5, <2>5, <3>1, <3>2 DEF EntryType
    <3>4. u = [t EXCEPT ![path].size = metadata.size,
                        ![path].clusters = Reallocated(@, metadata.size),
                        ![path].rev = metadata.rev]
      BY <1>0, <1>1, <1>2, <1>3, <1>6, <1>12, <2>2, <2>7, Zenon DEF AddLast
    <3>5. u = [t EXCEPT ![path] = e]
      BY <2>1, <2>3, <2>4, <2>5, <3>1, <3>4 DEF EntryType
    <3>6. IsTree(u) /\ DOMAIN u = DOMAIN t /\ u[path] = e
          /\ \A q \in DOMAIN t : q # path => Alike(u[q], t[q])
      BY <2>1, <2>4, <2>7, <3>3, <3>5, EntryUpdated
    <3> QED
      BY <1>9, <2>1, <2>2, <2>4, <2>7, <3>3, <3>6 DEF LastPut
  <2> QED
    BY <2>6, <2>7
<1> QED
  BY <1>0, <1>1, <1>11, <1>12

\* The tree u is what a directory on the way to an entry makes of t.
ParentPut(u, t, path) ==
  /\ IsTree(u)
  /\ DOMAIN u = DOMAIN t \cup {path}
  /\ \A q \in DOMAIN t : q # path => Alike(u[q], t[q])
  /\ u[path].is_dir

\* A directory on the way to the entry.
LEMMA ParentAdded ==
  ASSUME NEW t, IsTree(t), NEW calls, NEW st, st = [tree |-> t, calls |-> calls],
         NEW dir \in DOMAIN t, t[dir].is_dir, NEW name \in Names,
         NEW metadata \in Metadata
  PROVE  /\ ParentPut(AddParent(st, dir, name, metadata).tree, t, Append(dir, name))
         /\ AddParent(st, dir, name, metadata)
              = [tree |-> AddParent(st, dir, name, metadata).tree,
                 calls |-> AddParent(st, dir, name, metadata).calls]
<1>0. PICK r : r = AddParent(st, dir, name, metadata)
  OBVIOUS
<1>1. PICK path : path = Append(dir, name)
  OBVIOUS
<1>2. PICK kept : kept = IF path \in DOMAIN t /\ ~t[path].is_dir
                         THEN RemoveChild(st, dir, name) ELSE st
  OBVIOUS
<1>3. st.tree = t
  OBVIOUS
<1>4. DOMAIN t \subseteq Seq(Names) /\ dir \in Seq(Names) /\ path \in Seq(Names)
      /\ path # dir /\ IsPrefix(path, path)
  <2>1. DOMAIN t \subseteq Seq(Names) /\ dir \in Seq(Names)
    BY DEF IsTree, Typed
  <2>2. path \in Seq(Names) /\ Len(path) = Len(dir) + 1 /\ Len(dir) \in Nat
    BY <1>1, <2>1, FrontLastOfAppend
  <2> QED
    BY <2>1, <2>2, PrefixOfItself
<1>5. PICK k : k = kept.tree
  OBVIOUS
<1>6. kept = [tree |-> kept.tree, calls |-> kept.calls]
  BY <1>2 DEF RemoveChild
<1>7. r = IF path \in DOMAIN k THEN kept
          ELSE AddChild(kept, dir, name, TRUE, DotsSize, metadata.rev)
  BY <1>0, <1>1, <1>2, <1>3, <1>5, Zenon DEF AddParent
<1>8. r = [tree |-> r.tree, calls |-> r.calls]
  BY <1>6, <1>7 DEF AddChild
<1>9. CASE path \in DOMAIN t /\ t[path].is_dir
  <2>1. k = t /\ r.tree = t
    BY <1>2, <1>3, <1>5, <1>7, <1>9
  <2>2. ParentPut(r.tree, t, path)
    BY <1>9, <2>1 DEF ParentPut, Alike
  <2> QED
    BY <1>0, <1>1, <1>8, <2>2
<1>10. CASE ~(path \in DOMAIN t /\ t[path].is_dir)
  <2>1. /\ IsTree(k)
        /\ DOMAIN k = DOMAIN t \ {path}
        /\ \A q \in DOMAIN k : Alike(k[q], t[q])
    <3>1. CASE path \in DOMAIN t
      <4>1. k = Unlinked(t, dir, name)
        BY <1>2, <1>3, <1>5, <1>10, <3>1 DEF RemoveChild
      <4>2. /\ IsTree(Unlinked(t, dir, name))
            /\ DOMAIN Unlinked(t, dir, name)
                = {q \in DOMAIN t : ~IsPrefix(Append(dir, name), q)}
            /\ \A q \in DOMAIN Unlinked(t, dir, name) :
                 Alike(Unlinked(t, dir, name)[q], t[q])
        BY <1>1, <1>4, <3>1, ChildRemoved
      <4>3. \A q \in DOMAIN t : IsPrefix(path, q) => q = path
        BY <1>10, <3>1, NothingBelowFile
      <4>4. {q \in DOMAIN t : ~IsPrefix(path, q)} = DOMAIN t \ {path}
        BY <1>4, <4>3
      <4> QED
        BY <1>1, <4>1, <4>2, <4>4
    <3>2. CASE path \notin DOMAIN t
      <4>1. k = t
        BY <1>2, <1>3, <1>5, <3>2
      <4> QED
        BY <3>2, <4>1 DEF Alike
    <3> QED
      BY <3>1, <3>2
  <2>2. dir \in DOMAIN k /\ k[dir].is_dir
    BY <1>4, <2>1 DEF Alike
  <2>3. kept.tree = k /\ Append(dir, name) \notin DOMAIN k
    BY <1>1, <1>5, <2>1
  <2>4. DotsSize \in Nat
    BY TreeAssumption DEF ConstantsOK
  <2>5. PICK rev \in Revs : rev = metadata.rev
    BY MetadataFields
  <2>6. TRUE \in BOOLEAN
    OBVIOUS
  <2>7. OneMore(AddChild(kept, dir, name, TRUE, DotsSize, rev).tree, k,
                Append(dir, name), TRUE, DotsSize, rev)
    BY <2>1, <2>2, <2>3, <2>4, <2>6, ChildAdded
  <2>8. r.tree = AddChild(kept, dir, name, TRUE, DotsSize, rev).tree
    BY <1>1, <1>7, <2>3, <2>5
  <2>9. OneMore(r.tree, k, path, TRUE, DotsSize, rev)
    BY <1>1, <2>7, <2>8
  <2>10. ParentPut(r.tree, t, path)
    BY <2>1, <2>9 DEF OneMore, ParentPut, Alike
  <2> QED
    BY <1>0, <1>1, <1>8, <2>10
<1> QED
  BY <1>9, <1>10

\* One turn of the loop over the names of the path.
AddStep(st, path, metadata, i) ==
  IF i = Len(path) THEN AddLast(st, SubSeq(path, 1, i - 1), path[i], metadata)
  ELSE AddParent(st, SubSeq(path, 1, i - 1), path[i], metadata)

\* What the loop has made after each turn.
IsAddWalk(walk, path, metadata) ==
  /\ walk[0] = {Unchanged}
  /\ \A i \in 1 .. Len(path) :
       walk[i] = {AddStep(st, path, metadata, i) : st \in walk[i - 1]}
  /\ Added(path, metadata) = walk[Len(path)]

\* The recursion of Added defines what it seems to define.
LEMMA AddWalkExists ==
  ASSUME NEW path \in Seq(Names), NEW metadata
  PROVE  \E walk : IsAddWalk(walk, path, metadata)
<1> DEFINE step(st, i) == LET dir == SubSeq(path, 1, i - 1)
                          IN  IF i = Len(path) THEN AddLast(st, dir, path[i], metadata)
                              ELSE AddParent(st, dir, path[i], metadata)
           Turn(w, i) == IF i = 0 THEN {Unchanged} ELSE {step(st, i) : st \in w[i - 1]}
           IsPart(w, n) == w = [i \in 0 .. n |-> Turn(w, i)]
           T == {n \in Nat : \E w : IsPart(w, n)}
           walk == CHOOSE w : w = [i \in 0 .. Len(path) |-> Turn(w, i)]
<1>1. Len(path) \in Nat
  BY LenProperties
<1>2. Added(path, metadata) = walk[Len(path)]
  BY Zenon DEF Added
<1>3. \A st, i : step(st, i) = AddStep(st, path, metadata, i)
  BY DEF AddStep
<1> HIDE DEF step
<1>4. 0 \in T
  <2>1. PICK w : w = [i \in 0 .. 0 |-> {Unchanged}]
    OBVIOUS
  <2>2. IsPart(w, 0)
    BY <2>1
  <2> QED
    BY <2>2
<1>5. ASSUME NEW n \in Nat, n \in T PROVE n + 1 \in T
  <2>1. PICK w : IsPart(w, n)
    BY <1>5
  <2>2. PICK v : v = [i \in 0 .. n + 1 |-> IF i = n + 1 THEN Turn(w, n + 1) ELSE w[i]]
    OBVIOUS
  <2>3. \A i \in 0 .. n : v[i] = w[i]
    BY <2>2
  <2>4. v[n + 1] = Turn(w, n + 1) /\ n + 1 # 0 /\ (n + 1) - 1 = n
    BY <2>2
  <2>5. ASSUME NEW i \in 0 .. n + 1 PROVE Turn(w, i) = Turn(v, i)
    <3>1. i # 0 => i - 1 \in 0 .. n
      OBVIOUS
    <3> QED
      BY <2>3, <3>1
  <2>6. \A i \in 0 .. n : w[i] = Turn(w, i)
    BY <2>1
  <2>7. ASSUME NEW i \in 0 .. n + 1 PROVE v[i] = Turn(v, i)
    <3>1. i = n + 1 \/ i \in 0 .. n
      OBVIOUS
    <3> HIDE DEF Turn, IsPart, T, walk
    <3> QED
      BY <2>3, <2>4, <2>5, <2>6, <3>1
  <2>8. v = [i \in 0 .. n + 1 |-> v[i]]
    BY <2>2
  <2>9. IsPart(v, n + 1)
    <3> HIDE DEF Turn, T, walk
    <3> QED
      BY <2>7, <2>8
  <2> QED
    BY <2>9
<1>6. Nat \subseteq T
  <2> HIDE DEF T
  <2> QED
    BY <1>4, <1>5, NatSetInduction
<1>7. PICK w : IsPart(w, Len(path))
  BY <1>1, <1>6
<1>8. walk = [i \in 0 .. Len(path) |-> Turn(walk, i)]
  <2>1. w = [i \in 0 .. Len(path) |-> Turn(w, i)]
    BY <1>7
  <2> HIDE DEF Turn
  <2> QED
    BY <2>1, Zenon
<1> HIDE DEF walk
<1>9. walk[0] = {Unchanged}
  BY <1>1, <1>8
<1>10. ASSUME NEW i \in 1 .. Len(path)
       PROVE  walk[i] = {AddStep(st, path, metadata, i) : st \in walk[i - 1]}
  <2>1. i \in 0 .. Len(path) /\ i # 0
    BY <1>1
  <2>2. walk[i] = {step(st, i) : st \in walk[i - 1]}
    BY <1>8, <2>1
  <2> QED
    BY <1>3, <2>2
<1> QED
  BY <1>2, <1>9, <1>10, Zenon DEF IsAddWalk

\* The directories on the way to a path, without the root.
Ancestors(path) == {SubSeq(path, 1, j) : j \in 1 .. Len(path) - 1}

\* The tree u is what add_file_entry makes of t: all directories on the way are
\* there, also in the place of files, the entry is what the metadata says, and of
\* the others only those went that were below an entry of the other kind.
Written(u, t, path, metadata) ==
  /\ IsTree(u)
  /\ DOMAIN u = KeptFor(t, path, metadata.is_dir) \cup Ancestors(path) \cup {path}
  /\ \A q \in DOMAIN u : q \notin Ancestors(path) /\ q # path => Alike(u[q], t[q])
  /\ \A q \in Ancestors(path) : u[q].is_dir
  /\ u[path].is_dir = metadata.is_dir
  /\ ~metadata.is_dir => u[path].size = metadata.size /\ u[path].rev = metadata.rev

\* The state after the directories of the first i names were added.
OnTheWay(st, path, i) ==
  /\ st = [tree |-> st.tree, calls |-> st.calls]
  /\ IsTree(st.tree)
  /\ DOMAIN st.tree = DOMAIN tree \cup {SubSeq(path, 1, j) : j \in 1 .. i}
  /\ \A q \in DOMAIN tree : q \notin {SubSeq(path, 1, j) : j \in 1 .. i}
                            => Alike(st.tree[q], tree[q])
  /\ \A j \in 0 .. i : SubSeq(path, 1, j) \in DOMAIN st.tree
                       /\ st.tree[SubSeq(path, 1, j)].is_dir

\* A path is longer than the first names of it.
LEMMA ShorterPaths ==
  ASSUME NEW path \in Seq(Names), NEW j \in 0 .. Len(path)
  PROVE  SubSeq(path, 1, j) \in Seq(Names) /\ Len(SubSeq(path, 1, j)) = j
<1>1. Len(path) \in Nat /\ \A k \in 1 .. j : path[k] \in Names
  BY LenProperties, ElementOfSeq
<1> QED
  BY <1>1, SubSeqProperties

\* One directory after the other is added.
LEMMA OneFurther ==
  ASSUME NEW path \in Seq(Names), NEW metadata \in Metadata,
         NEW i \in 1 .. Len(path) - 1, NEW st, OnTheWay(st, path, i - 1)
  PROVE  OnTheWay(AddStep(st, path, metadata, i), path, i)
<1>1. Len(path) \in Nat
  BY LenProperties
<1> DEFINE way(n) == {SubSeq(path, 1, j) : j \in 1 .. n}
<1>2. PICK dir : dir = SubSeq(path, 1, i - 1)
  OBVIOUS
<1>3. PICK t : t = st.tree
  OBVIOUS
<1>4. PICK calls : calls = st.calls
  OBVIOUS
<1>5. PICK p : p = SubSeq(path, 1, i)
  OBVIOUS
<1>6. PICK name : name = path[i]
  OBVIOUS
<1>7. name \in Names /\ p = Append(dir, name) /\ p \in Seq(Names)
  <2>1. i \in 1 .. Len(path) /\ i \in 0 .. Len(path)
    BY <1>1
  <2> QED
    BY <1>2, <1>5, <1>6, <2>1, NextOfPath, ShorterPaths
<1>8. /\ st = [tree |-> t, calls |-> calls] /\ IsTree(t)
      /\ DOMAIN t = DOMAIN tree \cup way(i - 1)
      /\ \A q \in DOMAIN tree : q \notin way(i - 1) => Alike(t[q], tree[q])
      /\ \A j \in 0 .. i - 1 : SubSeq(path, 1, j) \in DOMAIN t
                               /\ t[SubSeq(path, 1, j)].is_dir
  BY <1>3, <1>4 DEF OnTheWay
<1>9. dir \in DOMAIN t /\ t[dir].is_dir
  <2>1. i - 1 \in 0 .. i - 1
    BY <1>1
  <2> QED
    BY <1>2, <1>8, <2>1
<1>10. PICK r : r = AddParent(st, dir, name, metadata)
  OBVIOUS
<1>11. PICK u : u = r.tree
  OBVIOUS
<1>12. ParentPut(u, t, p) /\ r = [tree |-> r.tree, calls |-> r.calls]
  BY <1>7, <1>8, <1>9, <1>10, <1>11, ParentAdded
<1>13. AddStep(st, path, metadata, i) = r
  <2>1. i # Len(path)
    BY <1>1
  <2> QED
    BY <1>2, <1>6, <1>10, <2>1 DEF AddStep
<1>14. way(i) = way(i - 1) \cup {p}
  <2>1. 1 .. i = (1 .. i - 1) \cup {i}
    BY <1>1
  <2> QED
    BY <1>5, <2>1
<1> HIDE DEF way
<1>15. /\ IsTree(u)
       /\ DOMAIN u = DOMAIN t \cup {p}
       /\ \A q \in DOMAIN t : q # p => Alike(u[q], t[q])
       /\ u[p].is_dir
  BY <1>12 DEF ParentPut
<1>16. DOMAIN u = DOMAIN tree \cup way(i)
  BY <1>8, <1>14, <1>15
<1>17. \A q \in DOMAIN tree : q \notin way(i) => Alike(u[q], tree[q])
  <2> SUFFICES ASSUME NEW q \in DOMAIN tree, q \notin way(i) PROVE Alike(u[q], tree[q])
    OBVIOUS
  <2>1. Alike(u[q], t[q]) /\ Alike(t[q], tree[q])
    BY <1>8, <1>14, <1>15
  <2> QED
    BY <2>1 DEF Alike
<1>18. ASSUME NEW j \in 0 .. i PROVE SubSeq(path, 1, j) \in DOMAIN u /\ u[SubSeq(path, 1, j)].is_dir
  <2>1. CASE j = i
    BY <1>5, <1>15, <2>1
  <2>2. CASE j # i
    <3>1. PICK q : q = SubSeq(path, 1, j)
      OBVIOUS
    <3>2. q \in DOMAIN t /\ t[q].is_dir
      BY <1>8, <2>2, <3>1
    <3>3. q \in DOMAIN u /\ u[q].is_dir
      BY <1>15, <3>2 DEF Alike
    <3> QED
      BY <3>1, <3>3
  <2> QED
    BY <2>1, <2>2
<1>19. OnTheWay(r, path, i)
  BY <1>11, <1>12, <1>15, <1>16, <1>17, <1>18 DEF OnTheWay, way
<1> QED
  BY <1>13, <1>19

\* The entry itself is added to the last of them.
LEMMA LastStep ==
  ASSUME NEW path \in Seq(Names), path # <<>>, NEW metadata \in Metadata,
         NEW st, OnTheWay(st, path, Len(path) - 1), DOMAIN tree \subseteq Seq(Names)
  PROVE  Written(AddStep(st, path, metadata, Len(path)).tree, tree, path, metadata)
<1>1. PICK n \in Nat \ {0} : n = Len(path)
  BY LenProperties, EmptySeq
<1>2. PICK dir : dir = SubSeq(path, 1, n - 1)
  OBVIOUS
<1>3. PICK t : t = st.tree
  OBVIOUS
<1>4. PICK calls : calls = st.calls
  OBVIOUS
<1>5. PICK name : name = path[n]
  OBVIOUS
<1>6. PICK way : way = Ancestors(path)
  OBVIOUS
<1>7. name \in Names /\ path = Append(dir, name)
  <2>1. n \in 1 .. Len(path)
    BY <1>1
  <2>2. path[n] \in Names /\ SubSeq(path, 1, n) = Append(SubSeq(path, 1, n - 1), path[n])
    BY <2>1, NextOfPath
  <2>3. SubSeq(path, 1, n) = path
    BY <1>1, SubSeqFull
  <2> QED
    BY <1>2, <1>5, <2>2, <2>3
<1>8. /\ st = [tree |-> t, calls |-> calls] /\ IsTree(t)
      /\ DOMAIN t = DOMAIN tree \cup way
      /\ \A q \in DOMAIN tree : q \notin way => Alike(t[q], tree[q])
      /\ \A j \in 0 .. n - 1 : SubSeq(path, 1, j) \in DOMAIN t
                               /\ t[SubSeq(path, 1, j)].is_dir
  BY <1>1, <1>3, <1>4, <1>6 DEF OnTheWay, Ancestors
<1>9. dir \in DOMAIN t /\ t[dir].is_dir
  <2>1. n - 1 \in 0 .. n - 1
    BY <1>1
  <2> QED
    BY <1>2, <1>8, <2>1
<1>10. way \subseteq DOMAIN t /\ \A q \in way : t[q].is_dir
  <2> SUFFICES ASSUME NEW q \in way PROVE q \in DOMAIN t /\ t[q].is_dir
    OBVIOUS
  <2>1. PICK j \in 1 .. n - 1 : q = SubSeq(path, 1, j)
    BY <1>1, <1>6 DEF Ancestors
  <2> QED
    BY <1>8, <2>1
<1>11. \A q \in way : ~IsPrefix(path, q)
  <2> SUFFICES ASSUME NEW q \in way PROVE ~IsPrefix(path, q)
    OBVIOUS
  <2>1. PICK j \in 1 .. n - 1 : q = SubSeq(path, 1, j)
    BY <1>1, <1>6 DEF Ancestors
  <2>2. q \in Seq(Names) /\ Len(q) = j
    BY <1>1, <2>1, ShorterPaths
  <2>3. ~(Len(path) <= Len(q))
    BY <1>1, <2>2
  <2> QED
    BY <2>2, <2>3, PrefixOfItself
<1>12. path \notin way
  BY <1>11, PrefixOfItself
<1>13. PICK u : u = AddLast(st, dir, name, metadata).tree
  OBVIOUS
<1>14. LastPut(u, t, path, metadata)
  BY <1>7, <1>8, <1>9, <1>13, LastAdded
<1>15. AddStep(st, path, metadata, Len(path)).tree = u
  BY <1>1, <1>2, <1>5, <1>13 DEF AddStep
<1>16. KeptFor(t, path, metadata.is_dir) = KeptFor(tree, path, metadata.is_dir) \cup way
  <2>1. path \in DOMAIN t <=> path \in DOMAIN tree
    BY <1>8, <1>12
  <2>2. path \in DOMAIN tree => (t[path].is_dir = tree[path].is_dir)
    BY <1>8, <1>12 DEF Alike
  <2>3. {q \in DOMAIN t : ~IsPrefix(path, q)}
          = {q \in DOMAIN tree : ~IsPrefix(path, q)} \cup way
    BY <1>8, <1>11
  <2>4. CASE path \in DOMAIN tree /\ tree[path].is_dir # metadata.is_dir
    BY <2>1, <2>2, <2>3, <2>4 DEF KeptFor
  <2>5. CASE ~(path \in DOMAIN tree /\ tree[path].is_dir # metadata.is_dir)
    BY <1>8, <2>1, <2>2, <2>5 DEF KeptFor
  <2> QED
    BY <2>4, <2>5
<1>17. DOMAIN u = KeptFor(tree, path, metadata.is_dir) \cup way \cup {path}
  BY <1>14, <1>16 DEF LastPut
<1>18. ASSUME NEW q \in DOMAIN u, q \notin way, q # path PROVE Alike(u[q], tree[q])
  <2>1. q \in DOMAIN tree
    BY <1>17, <1>18 DEF KeptFor
  <2>2. Alike(u[q], t[q]) /\ Alike(t[q], tree[q])
    BY <1>8, <1>14, <1>18, <2>1 DEF LastPut
  <2> QED
    BY <2>2 DEF Alike
<1>19. ASSUME NEW q \in way PROVE u[q].is_dir
  <2>1. q \in DOMAIN u /\ q # path
    BY <1>12, <1>17
  <2>2. Alike(u[q], t[q]) /\ t[q].is_dir
    BY <1>10, <1>14, <2>1 DEF LastPut
  <2> QED
    BY <2>2 DEF Alike
<1>20. /\ IsTree(u)
       /\ u[path].is_dir = metadata.is_dir
       /\ ~metadata.is_dir => u[path].size = metadata.size /\ u[path].rev = metadata.rev
  BY <1>14 DEF LastPut
<1>21. Written(u, tree, path, metadata)
  BY <1>6, <1>17, <1>18, <1>19, <1>20 DEF Written
<1> QED
  BY <1>15, <1>21

\* Before the first turn.
LEMMA OnTheWayStarts ==
  ASSUME IsTree(tree), NEW path \in Seq(Names)
  PROVE  OnTheWay(Unchanged, path, 0)
<1>1. SubSeq(path, 1, 0) = Root
  <2>1. 0 \in 0 .. Len(path)
    BY LenProperties
  <2>2. SubSeq(path, 1, 0) \in Seq(Names) /\ Len(SubSeq(path, 1, 0)) = 0
    BY <2>1, ShorterPaths
  <2> QED
    BY <2>2, EmptySeq DEF Root
<1>2. PICK x : x = Unchanged
  OBVIOUS
<1>3. x.tree = tree /\ x = [tree |-> x.tree, calls |-> x.calls]
  BY <1>2 DEF Unchanged
<1>4. Root \in DOMAIN tree /\ tree[Root].is_dir
  BY DEF IsTree, Rooted
<1>5. {SubSeq(path, 1, j) : j \in 1 .. 0} = {}
  OBVIOUS
<1>6. \A q \in DOMAIN tree : Alike(x.tree[q], tree[q])
  BY <1>3 DEF Alike
<1>7. \A j \in 0 .. 0 : SubSeq(path, 1, j) \in DOMAIN x.tree
                       /\ x.tree[SubSeq(path, 1, j)].is_dir
  <2> SUFFICES ASSUME NEW j \in 0 .. 0
               PROVE  SubSeq(path, 1, j) \in DOMAIN x.tree
                      /\ x.tree[SubSeq(path, 1, j)].is_dir
    OBVIOUS
  <2>1. SubSeq(path, 1, j) = Root
    BY <1>1
  <2> QED
    BY <1>3, <1>4, <2>1
<1>8. OnTheWay(x, path, 0)
  BY <1>3, <1>5, <1>6, <1>7 DEF OnTheWay
<1> QED
  BY <1>2, <1>8

\* add_file_entry as a whole.
LEMMA FileAdded ==
  ASSUME IsTree(tree), NEW path \in Paths, NEW metadata \in Metadata,
         NEW st \in Added(path, metadata)
  PROVE  Written(st.tree, tree, path, metadata)
<1>1. path \in Seq(Names) /\ path # <<>>
  BY TreeAssumption DEF ConstantsOK
<1>2. DOMAIN tree \subseteq Seq(Names)
  BY DEF IsTree, Typed
<1>3. Len(path) \in Nat \ {0}
  BY <1>1, EmptySeq
<1>4. PICK walk : IsAddWalk(walk, path, metadata)
  BY <1>1, AddWalkExists
<1>5. /\ walk[0] = {Unchanged}
      /\ \A i \in 1 .. Len(path) :
           walk[i] = {AddStep(x, path, metadata, i) : x \in walk[i - 1]}
      /\ st \in walk[Len(path)]
  BY <1>4 DEF IsAddWalk
<1> DEFINE T == {i \in 0 .. Len(path) - 1 : \A x \in walk[i] : OnTheWay(x, path, i)}
<1>6. OnTheWay(Unchanged, path, 0)
  BY <1>1, OnTheWayStarts
<1>7. 0 \in T
  BY <1>3, <1>5, <1>6
<1>8. ASSUME NEW i \in 0 .. (Len(path) - 1) - 1, i \in T PROVE i + 1 \in T
  <2>1. i + 1 \in 1 .. Len(path) - 1 /\ i + 1 \in 1 .. Len(path) /\ (i + 1) - 1 = i
        /\ i + 1 \in 0 .. Len(path) - 1
    BY <1>3
  <2>2. ASSUME NEW y \in walk[i + 1] PROVE OnTheWay(y, path, i + 1)
    <3>1. PICK x \in walk[i] : y = AddStep(x, path, metadata, i + 1)
      BY <1>5, <2>1
    <3>2. OnTheWay(x, path, (i + 1) - 1)
      BY <1>8, <2>1
    <3> QED
      BY <1>1, <2>1, <3>1, <3>2, OneFurther
  <2> QED
    BY <2>1, <2>2
<1>9. 0 .. Len(path) - 1 \subseteq T
  <2>1. Len(path) - 1 \in Nat
    BY <1>3
  <2> HIDE DEF T
  <2> QED
    BY <1>7, <1>8, <2>1, IntervalInduction
<1>10. Len(path) \in 1 .. Len(path) /\ Len(path) - 1 \in 0 .. Len(path) - 1
  BY <1>3
<1>11. PICK x \in walk[Len(path) - 1] : st = AddStep(x, path, metadata, Len(path))
  BY <1>5, <1>10
<1>12. OnTheWay(x, path, Len(path) - 1)
  BY <1>9, <1>10
<1> QED
  BY <1>1, <1>2, <1>11, <1>12, LastStep

\* remove_file_entry: an entry of the root directory goes with all that is below
\* it, every other path changes nothing.
LEMMA FileRemoved ==
  ASSUME IsTree(tree), NEW path \in Paths
  PROVE  /\ IsTree(Removed(path).tree)
         /\ DOMAIN Removed(path).tree
              = IF Len(path) = 1 THEN {q \in DOMAIN tree : ~IsPrefix(path, q)}
                ELSE DOMAIN tree
         /\ \A q \in DOMAIN Removed(path).tree : Alike(Removed(path).tree[q], tree[q])
<1>1. path \in Seq(Names) /\ path # <<>> /\ DOMAIN tree \subseteq Seq(Names)
  BY TreeAssumption DEF ConstantsOK, IsTree, Typed
<1>2. PICK u : u = Removed(path).tree
  OBVIOUS
<1>3. CASE Len(path) = 1
  <2>1. path[1] \in Names /\ path = Append(Root, path[1])
    <3>1. Front(path) \in Seq(Names) /\ Len(Front(path)) = 0 /\ Last(path) = path[1]
          /\ Last(path) \in Names /\ path = Append(Front(path), Last(path))
      BY <1>1, <1>3, PathOfFrontLast DEF Last
    <3>2. Front(path) = Root
      BY <3>1, EmptySeq DEF Root
    <3> QED
      BY <3>1, <3>2
  <2>2. CASE path \in DOMAIN tree
    <3>1. u = Unlinked(tree, Root, path[1])
      BY <1>2, <1>3, <2>2 DEF Removed, RemoveChild, Unchanged
    <3>2. Root \in Seq(Names)
      BY EmptySeq DEF Root
    <3>3. PICK name \in Names : name = path[1]
      BY <2>1
    <3>4. Append(Root, name) \in DOMAIN tree
      BY <2>1, <2>2, <3>3
    <3>5. /\ IsTree(Unlinked(tree, Root, name))
          /\ DOMAIN Unlinked(tree, Root, name)
              = {q \in DOMAIN tree : ~IsPrefix(Append(Root, name), q)}
          /\ \A q \in DOMAIN Unlinked(tree, Root, name) :
               Alike(Unlinked(tree, Root, name)[q], tree[q])
      BY <3>2, <3>4, ChildRemoved
    <3>6. DOMAIN u = {q \in DOMAIN tree : ~IsPrefix(path, q)}
      BY <2>1, <3>1, <3>3, <3>5
    <3>7. IsTree(u) /\ \A q \in DOMAIN u : Alike(u[q], tree[q])
      BY <3>1, <3>3, <3>5
    <3> QED
      BY <1>2, <1>3, <3>6, <3>7
  <2>3. CASE path \notin DOMAIN tree
    <3>1. u = tree
      BY <1>2, <2>3 DEF Removed, Unchanged
    <3>2. \A q \in DOMAIN tree : ~IsPrefix(path, q)
      <4>1. ~IsPrefix(path, Root)
        <5>1. Root \in Seq(Names) /\ Len(Root) = 0
          BY EmptySeq DEF Root
        <5>2. ~(Len(path) <= Len(Root))
          BY <1>3, <5>1
        <5> QED
          BY <1>1, <5>1, <5>2, PrefixOfItself
      <4>2. ASSUME NEW q \in DOMAIN tree, IsPrefix(path, q) PROVE FALSE
        <5> DEFINE T == {n \in Nat : \A p \in DOMAIN tree : Len(p) = n => ~IsPrefix(path, p)}
        <5>1. 0 \in T
          <6> SUFFICES ASSUME NEW p \in DOMAIN tree, Len(p) = 0 PROVE ~IsPrefix(path, p)
            OBVIOUS
          <6>1. p = Root
            BY <1>1, EmptySeq DEF Root
          <6> QED
            BY <4>1, <6>1
        <5>2. ASSUME NEW n \in Nat, n \in T PROVE n + 1 \in T
          <6> SUFFICES ASSUME NEW p \in DOMAIN tree, Len(p) = n + 1, IsPrefix(path, p)
                       PROVE  FALSE
            OBVIOUS
          <6>1. p \in Seq(Names) /\ p # <<>>
            BY <1>1
          <6>2. /\ Front(p) \in Seq(Names) /\ Last(p) \in Names
                /\ p = Append(Front(p), Last(p)) /\ Len(Front(p)) = Len(p) - 1
            BY <6>1, PathOfFrontLast
          <6>3. PICK d \in Seq(Names), c \in Names : p = Append(d, c) /\ Len(d) = n
            BY <6>2
          <6>4. d \in DOMAIN tree
            BY <6>3 DEF IsTree, Rooted
          <6>5. path = p \/ IsPrefix(path, d)
            BY <1>1, <6>3, PrefixOfAppend
          <6> QED
            BY <2>3, <5>2, <6>3, <6>4, <6>5
        <5>3. Nat \subseteq T
          BY <5>1, <5>2, NatSetInduction
        <5>4. Len(q) \in Nat
          BY <1>1
        <5> QED
          BY <4>2, <5>3, <5>4
      <4> QED
        BY <4>2
    <3>3. \A q \in DOMAIN tree : Alike(tree[q], tree[q])
      BY DEF Alike
    <3>4. DOMAIN u = {q \in DOMAIN tree : ~IsPrefix(path, q)}
      BY <3>1, <3>2
    <3> QED
      BY <1>2, <1>3, <3>1, <3>3, <3>4
  <2> QED
    BY <2>2, <2>3
<1>4. CASE Len(path) # 1
  <2>1. u = tree
    BY <1>2, <1>4 DEF Removed, Unchanged
  <2>2. \A q \in DOMAIN tree : Alike(tree[q], tree[q])
    BY DEF Alike
  <2> QED
    BY <1>2, <1>4, <2>1, <2>2
<1> QED
  BY <1>3, <1>4

(***************************************************************************)
(* remove_all_file_entries.                                                *)
(***************************************************************************)

\* What the loop over the children of the root has made after each turn.
IsRemovalWalk(walk, children) ==
  /\ walk[0] = {Unchanged}
  /\ \A i \in 1 .. Len(children) :
       walk[i] = {RemoveChild(st, Root, children[i]) : st \in walk[i - 1]}
  /\ Emptied = walk[Len(children)]

\* The recursion of Emptied defines what it seems to define.
LEMMA RemovalWalkExists ==
  ASSUME tree[Root].children \in Seq(Names)
  PROVE  \E walk : IsRemovalWalk(walk, tree[Root].children)
<1> DEFINE children == tree[Root].children
           Turn(w, i) == IF i = 0 THEN {Unchanged}
                         ELSE {RemoveChild(st, Root, children[i]) : st \in w[i - 1]}
           IsPart(w, n) == w = [i \in 0 .. n |-> Turn(w, i)]
           T == {n \in Nat : \E w : IsPart(w, n)}
           walk == CHOOSE w : w = [i \in 0 .. Len(children) |-> Turn(w, i)]
<1>1. children \in Seq(Names) /\ Len(children) \in Nat
  BY LenProperties
<1>2. Emptied = walk[Len(children)]
  BY Zenon DEF Emptied
<1> HIDE DEF children
<1>4. 0 \in T
  <2>1. PICK w : w = [i \in 0 .. 0 |-> {Unchanged}]
    OBVIOUS
  <2>2. IsPart(w, 0)
    BY <2>1
  <2> QED
    BY <2>2
<1>5. ASSUME NEW n \in Nat, n \in T PROVE n + 1 \in T
  <2>1. PICK w : IsPart(w, n)
    BY <1>5
  <2>2. PICK v : v = [i \in 0 .. n + 1 |-> IF i = n + 1 THEN Turn(w, n + 1) ELSE w[i]]
    OBVIOUS
  <2>3. \A i \in 0 .. n : v[i] = w[i]
    BY <2>2
  <2>4. v[n + 1] = Turn(w, n + 1) /\ n + 1 # 0 /\ (n + 1) - 1 = n
    BY <2>2
  <2>5. ASSUME NEW i \in 0 .. n + 1 PROVE Turn(w, i) = Turn(v, i)
    <3>1. i # 0 => i - 1 \in 0 .. n
      OBVIOUS
    <3> QED
      BY <2>3, <3>1
  <2>6. \A i \in 0 .. n : w[i] = Turn(w, i)
    BY <2>1
  <2>7. ASSUME NEW i \in 0 .. n + 1 PROVE v[i] = Turn(v, i)
    <3>1. i = n + 1 \/ i \in 0 .. n
      OBVIOUS
    <3> HIDE DEF Turn, IsPart, T, walk
    <3> QED
      BY <2>3, <2>4, <2>5, <2>6, <3>1
  <2>8. v = [i \in 0 .. n + 1 |-> v[i]]
    BY <2>2
  <2>9. IsPart(v, n + 1)
    <3> HIDE DEF Turn, T, walk
    <3> QED
      BY <2>7, <2>8
  <2> HIDE DEF Turn, IsPart, walk
  <2> QED
    BY <2>9
<1>6. Nat \subseteq T
  <2> HIDE DEF T
  <2> QED
    BY <1>4, <1>5, NatSetInduction
<1>7. PICK w : IsPart(w, Len(children))
  BY <1>1, <1>6
<1>8. walk = [i \in 0 .. Len(children) |-> Turn(walk, i)]
  <2>1. w = [i \in 0 .. Len(children) |-> Turn(w, i)]
    BY <1>7
  <2> HIDE DEF Turn
  <2> QED
    BY <2>1, Zenon
<1> HIDE DEF walk
<1>9. walk[0] = {Unchanged}
  BY <1>1, <1>8
<1>10. ASSUME NEW i \in 1 .. Len(children)
       PROVE  walk[i] = {RemoveChild(st, Root, children[i]) : st \in walk[i - 1]}
  <2>1. i \in 0 .. Len(children) /\ i # 0
    BY <1>1
  <2> QED
    BY <1>8, <2>1
<1> QED
  BY <1>2, <1>9, <1>10, Zenon DEF IsRemovalWalk, children

\* The state after the first i children of the root were removed.
Remaining(st, children, i) ==
  /\ IsTree(st.tree)
  /\ DOMAIN st.tree \subseteq DOMAIN tree
  /\ \A j \in 1 .. Len(children) :
       Append(Root, children[j]) \in DOMAIN st.tree <=> j > i

\* One child after the other is removed.
LEMMA OneFewer ==
  ASSUME NEW children \in Seq(Names), Distinct(children),
         NEW i \in 1 .. Len(children), NEW st, Remaining(st, children, i - 1)
  PROVE  Remaining(RemoveChild(st, Root, children[i]), children, i)
<1>1. Len(children) \in Nat /\ DOMAIN children = 1 .. Len(children)
      /\ \A j \in 1 .. Len(children) : children[j] \in Names
  BY LenProperties, ElementOfSeq
<1>2. PICK t : t = st.tree
  OBVIOUS
<1>3. PICK name \in Names : name = children[i]
  BY <1>1
<1>4. PICK u : u = Unlinked(t, Root, name)
  OBVIOUS
<1>5. /\ IsTree(t) /\ DOMAIN t \subseteq DOMAIN tree
      /\ \A j \in 1 .. Len(children) : Append(Root, children[j]) \in DOMAIN t <=> j > i - 1
  BY <1>2 DEF Remaining
<1>6. RemoveChild(st, Root, children[i]).tree = u
  BY <1>2, <1>3, <1>4 DEF RemoveChild
<1>7. Root \in Seq(Names) /\ Len(Root) = 0
  BY EmptySeq DEF Root
<1>8. Append(Root, name) \in DOMAIN t
  BY <1>1, <1>3, <1>5
<1>9. /\ IsTree(Unlinked(t, Root, name))
      /\ DOMAIN Unlinked(t, Root, name)
          = {q \in DOMAIN t : ~IsPrefix(Append(Root, name), q)}
      /\ \A q \in DOMAIN Unlinked(t, Root, name) :
           Alike(Unlinked(t, Root, name)[q], t[q])
  BY <1>5, <1>7, <1>8, ChildRemoved
<1>10. IsTree(u) /\ DOMAIN u = {q \in DOMAIN t : ~IsPrefix(Append(Root, name), q)}
  BY <1>4, <1>9
<1>11. ASSUME NEW j \in 1 .. Len(children)
       PROVE  Append(Root, children[j]) \in DOMAIN u <=> j > i
  <2>1. PICK c \in Names : c = children[j]
    BY <1>1
  <2>0. PICK p : p = Append(Root, name)
    OBVIOUS
  <2>2. p \in Seq(Names) /\ p = Append(Root, name) /\ Len(p) = 1
    <3>1. Append(Root, name) \in Seq(Names)
          /\ Len(Append(Root, name)) = Len(Root) + 1
      BY <1>7, FrontLastOfAppend
    <3> QED
      BY <1>7, <2>0, <3>1
  <2>3. IsPrefix(p, Append(Root, c)) <=> (p = Append(Root, c) \/ IsPrefix(p, Root))
    BY <1>7, <2>2, PrefixOfAppend
  <2>4. ~IsPrefix(p, Root)
    <3>1. ~(Len(p) <= Len(Root))
      BY <1>7, <2>2
    <3> QED
      BY <1>7, <2>2, <3>1, PrefixOfItself
  <2>5. p = Append(Root, c) <=> name = c
    <3>1. Last(Append(Root, c)) = c /\ Last(Append(Root, name)) = name
      BY <1>7, FrontLastOfAppend
    <3> QED
      BY <2>2, <3>1, Zenon
  <2>6. name = c <=> j = i
    BY <1>1, <1>3, <2>1 DEF Distinct
  <2>7. Append(Root, c) \in DOMAIN u <=> (Append(Root, c) \in DOMAIN t /\ j # i)
    BY <1>10, <2>2, <2>3, <2>4, <2>5, <2>6
  <2>8. Append(Root, c) \in DOMAIN t <=> j > i - 1
    BY <1>5, <2>1
  <2>9. (j > i - 1 /\ j # i) <=> j > i
    BY <1>1
  <2> QED
    BY <2>1, <2>7, <2>8, <2>9
<1>12. DOMAIN u \subseteq DOMAIN tree
  BY <1>5, <1>10
<1> QED
  BY <1>6, <1>10, <1>11, <1>12 DEF Remaining

\* Before the first turn all of them are there.
LEMMA NoneRemoved ==
  ASSUME IsTree(tree)
  PROVE  /\ tree[Root].children \in Seq(Names) /\ Distinct(tree[Root].children)
         /\ Remaining(Unchanged, tree[Root].children, 0)
<1>1. PICK children : children = tree[Root].children
  OBVIOUS
<1>2. /\ children \in Seq(Names) /\ Distinct(children)
      /\ \A c \in Names : c \in ToSet(children) <=> Append(Root, c) \in DOMAIN tree
  BY <1>1 DEF IsTree, Typed, Rooted, Lists, EntryType
<1>3. Len(children) \in Nat /\ DOMAIN children = 1 .. Len(children)
  BY <1>2, LenProperties
<1>4. Unchanged.tree = tree
  BY DEF Unchanged
<1>5. ASSUME NEW j \in 1 .. Len(children)
      PROVE  Append(Root, children[j]) \in DOMAIN tree
  <2>1. children[j] \in Names /\ children[j] \in ToSet(children)
    BY <1>2, <1>3, ElementOfSeq DEF ToSet
  <2> QED
    BY <1>2, <2>1
<1>6. Remaining(Unchanged, children, 0)
  BY <1>3, <1>4, <1>5 DEF Remaining
<1> QED
  BY <1>1, <1>2, <1>6

\* remove_all_file_entries leaves nothing but the root.
LEMMA AllRemoved ==
  ASSUME IsTree(tree), NEW st \in Emptied
  PROVE  IsTree(st.tree) /\ DOMAIN st.tree = {Root}
<1>1. PICK children : children = tree[Root].children
  OBVIOUS
<1>2. /\ children \in Seq(Names) /\ Distinct(children)
      /\ \A c \in Names : c \in ToSet(children) <=> Append(Root, c) \in DOMAIN tree
  BY <1>1 DEF IsTree, Typed, Rooted, Lists, EntryType
<1>3. Len(children) \in Nat /\ DOMAIN children = 1 .. Len(children)
  BY <1>2, LenProperties
<1>4. PICK walk : IsRemovalWalk(walk, children)
  BY <1>1, <1>2, RemovalWalkExists
<1>5. /\ walk[0] = {Unchanged}
      /\ \A i \in 1 .. Len(children) :
           walk[i] = {RemoveChild(x, Root, children[i]) : x \in walk[i - 1]}
      /\ st \in walk[Len(children)]
  BY <1>4 DEF IsRemovalWalk
<1> DEFINE T == {i \in 0 .. Len(children) : \A x \in walk[i] : Remaining(x, children, i)}
<1>6. 0 \in T
  <2>1. Remaining(Unchanged, children, 0)
    BY <1>1, NoneRemoved
  <2> QED
    BY <1>3, <1>5, <2>1
<1>7. ASSUME NEW i \in 0 .. Len(children) - 1, i \in T PROVE i + 1 \in T
  <2>1. i + 1 \in 1 .. Len(children) /\ i + 1 \in 0 .. Len(children) /\ (i + 1) - 1 = i
    BY <1>3
  <2>2. ASSUME NEW y \in walk[i + 1] PROVE Remaining(y, children, i + 1)
    <3>1. PICK x \in walk[i] : y = RemoveChild(x, Root, children[i + 1])
      BY <1>5, <2>1
    <3>2. Remaining(x, children, (i + 1) - 1)
      BY <1>7, <2>1
    <3> QED
      BY <1>2, <2>1, <3>1, <3>2, OneFewer
  <2> QED
    BY <2>1, <2>2
<1>8. 0 .. Len(children) \subseteq T
  <2> HIDE DEF T
  <2> QED
    BY <1>3, <1>6, <1>7, IntervalInduction
<1>9. PICK u : u = st.tree
  OBVIOUS
<1>10. /\ IsTree(u) /\ DOMAIN u \subseteq DOMAIN tree
       /\ \A j \in 1 .. Len(children) : Append(Root, children[j]) \notin DOMAIN u
  <2>1. Len(children) \in 0 .. Len(children)
    BY <1>3
  <2>2. Remaining(st, children, Len(children))
    BY <1>5, <1>8, <2>1
  <2> QED
    BY <1>3, <1>9, <2>2 DEF Remaining
<1>11. \A c \in Names : Append(Root, c) \notin DOMAIN u
  BY <1>2, <1>3, <1>10 DEF ToSet
<1>12. DOMAIN u \subseteq Seq(Names) /\ Root \in DOMAIN u
  BY <1>10 DEF IsTree, Typed, Rooted
<1> DEFINE R == {n \in Nat : \A q \in DOMAIN u : Len(q) = n => q = Root}
<1>13. 0 \in R
  BY <1>12, EmptySeq DEF Root
<1>14. ASSUME NEW n \in Nat, n \in R PROVE n + 1 \in R
  <2> SUFFICES ASSUME NEW q \in DOMAIN u, Len(q) = n + 1 PROVE FALSE
    OBVIOUS
  <2>1. q \in Seq(Names) /\ q # <<>>
    BY <1>12
  <2>2. /\ Front(q) \in Seq(Names) /\ Last(q) \in Names
        /\ q = Append(Front(q), Last(q)) /\ Len(Front(q)) = Len(q) - 1
    BY <2>1, PathOfFrontLast
  <2>3. PICK d \in Seq(Names), c \in Names : q = Append(d, c) /\ Len(d) = n
    BY <2>2
  <2>4. d \in DOMAIN u
    BY <1>10, <2>3 DEF IsTree, Rooted
  <2>5. d = Root
    BY <1>14, <2>3, <2>4
  <2> QED
    BY <1>11, <2>3, <2>5
<1>15. Nat \subseteq R
  <2> HIDE DEF R
  <2> QED
    BY <1>13, <1>14, NatSetInduction
<1>16. \A q \in DOMAIN u : Len(q) \in Nat
  BY <1>12
<1>17. DOMAIN u = {Root}
  BY <1>12, <1>15, <1>16
<1> QED
  BY <1>9, <1>10, <1>17

(***************************************************************************)
(* The theorems.                                                           *)
(***************************************************************************)

\* The tree at the start.
LEMMA TreeStarts ==
  ASSUME TreeInit
  PROVE  IsTree(tree) /\ DOMAIN tree = {Root}
<1>1. Root \in Seq(Names) /\ Root = <<>>
  BY EmptySeq DEF Root
<1>2. PICK e : e = [is_dir |-> TRUE, size |-> 0, rev |-> NoRev, clusters |-> 1,
                    children |-> <<>>]
  OBVIOUS
<1>3. e \in EntryType /\ e.is_dir /\ e.children = <<>>
  <2>1. <<>> \in Seq(Names)
    BY EmptySeq
  <2> QED
    BY <1>2, <2>1 DEF EntryType
<1>4. tree = [p \in {Root} |-> e]
  BY <1>2 DEF TreeInit
<1>5. DOMAIN tree = {Root} /\ tree[Root] = e
  BY <1>4
<1>6. \A p \in Seq(Names), c \in Names : Append(p, c) \notin DOMAIN tree
  BY <1>1, <1>5, FrontLastOfAppend
<1>7. Distinct(<<>>) /\ ToSet(<<>>) = {}
  BY DEF Distinct, ToSet
<1>8. Typed(tree)
  BY <1>1, <1>3, <1>4, <1>5 DEF Typed
<1>9. Rooted(tree)
  BY <1>3, <1>5, <1>6 DEF Rooted
<1>10. Lists(tree)
  BY <1>1, <1>3, <1>5, <1>6, <1>7 DEF Lists
<1> QED
  BY <1>5, <1>8, <1>9, <1>10 DEF IsTree

\* Each of the three operations keeps the invariant.
LEMMA TreeKept ==
  ASSUME IsTree(tree),
         \/ \E path \in Paths, metadata \in Metadata : AddFileEntry(path, metadata)
         \/ \E path \in Paths : RemoveFileEntry(path)
         \/ RemoveAllFileEntries
         \/ UNCHANGED tree
  PROVE  IsTree(tree')
<1>1. ASSUME NEW path \in Paths, NEW metadata \in Metadata, AddFileEntry(path, metadata)
      PROVE  IsTree(tree')
  <2>1. PICK st \in Added(path, metadata) : tree' = st.tree
    BY <1>1 DEF AddFileEntry
  <2>2. Written(st.tree, tree, path, metadata)
    BY FileAdded
  <2>3. IsTree(st.tree)
    BY <2>2 DEF Written
  <2> QED
    BY <2>1, <2>3
<1>2. ASSUME NEW path \in Paths, RemoveFileEntry(path)
      PROVE  IsTree(tree')
  <2>1. IsTree(Removed(path).tree)
    BY FileRemoved
  <2>2. tree' = Removed(path).tree
    BY <1>2 DEF RemoveFileEntry
  <2> QED
    BY <2>1, <2>2
<1>3. ASSUME RemoveAllFileEntries
      PROVE  IsTree(tree')
  <2>1. PICK st \in Emptied : tree' = st.tree
    BY <1>3 DEF RemoveAllFileEntries
  <2>2. IsTree(st.tree)
    BY <2>1, AllRemoved
  <2> QED
    BY <2>1, <2>2
<1>4. ASSUME UNCHANGED tree PROVE IsTree(tree')
  BY <1>4
<1> QED
  BY <1>1, <1>2, <1>3, <1>4

\* The invariant says what the properties of the tree say.
LEMMA TreeSays ==
  ASSUME IsTree(tree)
  PROVE  TreeTypeOK /\ TreeLinked
<1>1. /\ DOMAIN tree \subseteq Seq(Names)
      /\ \A p \in DOMAIN tree : tree[p] \in EntryType
  BY DEF IsTree, Typed
<1>2. ASSUME NEW p \in DOMAIN tree
      PROVE  /\ tree[p].is_dir \in BOOLEAN /\ tree[p].size \in Nat
             /\ tree[p].rev \in Revs \cup {NoRev}
             /\ tree[p].clusters \in Nat \ {0} /\ tree[p].children \in Seq(Names)
  BY <1>1 DEF EntryType
<1>3. TreeTypeOK
  BY <1>1, <1>2 DEF TreeTypeOK
<1>4. Root \in DOMAIN tree /\ tree[Root].is_dir
  BY DEF IsTree, Rooted
<1>5. ASSUME NEW p \in DOMAIN tree
      PROVE  /\ \A i \in DOMAIN tree[p].children :
                  Append(p, tree[p].children[i]) \in DOMAIN tree
             /\ \A i, j \in DOMAIN tree[p].children :
                  tree[p].children[i] = tree[p].children[j] => i = j
             /\ ~tree[p].is_dir => tree[p].children = <<>>
  <2>1. PICK list \in Seq(Names) : list = tree[p].children
    BY <1>2
  <2>2. /\ Distinct(list)
        /\ \A c \in Names : c \in ToSet(list) <=> Append(p, c) \in DOMAIN tree
    BY <2>1 DEF IsTree, Lists
  <2>3. p \in Seq(Names)
    BY <1>1
  <2>4. ASSUME NEW i \in DOMAIN list
        PROVE  list[i] \in Names /\ Append(p, list[i]) \in DOMAIN tree
    <3>1. list[i] \in Names /\ list[i] \in ToSet(list)
      BY LenProperties, ElementOfSeq DEF ToSet
    <3> QED
      BY <2>2, <3>1
  <2>5. ~tree[p].is_dir => list = <<>>
    <3> SUFFICES ASSUME ~tree[p].is_dir, list # <<>> PROVE FALSE
      OBVIOUS
    <3>1. 1 \in DOMAIN list
      BY EmptySeq, LenProperties
    <3>2. tree[p].is_dir
      BY <2>3, <2>4, <3>1 DEF IsTree, Rooted
    <3> QED
      BY <3>2
  <2> QED
    BY <2>1, <2>2, <2>4, <2>5 DEF Distinct
<1>6. ASSUME NEW p \in DOMAIN tree \ {Root}
      PROVE  /\ Front(p) \in DOMAIN tree
             /\ tree[Front(p)].is_dir
             /\ Last(p) \in ToSet(tree[Front(p)].children)
  <2>1. p \in Seq(Names) /\ p # <<>>
    BY <1>1 DEF Root
  <2>2. Front(p) \in Seq(Names) /\ Last(p) \in Names /\ p = Append(Front(p), Last(p))
    BY <2>1, PathOfFrontLast
  <2>3. PICK d \in Seq(Names), c \in Names : d = Front(p) /\ c = Last(p) /\ p = Append(d, c)
    BY <2>2
  <2>4. Append(d, c) \in DOMAIN tree
    BY <2>3
  <2>5. d \in DOMAIN tree /\ tree[d].is_dir
    BY <2>4 DEF IsTree, Rooted
  <2>6. c \in ToSet(tree[d].children)
    BY <2>4, <2>5 DEF IsTree, Lists
  <2> QED
    BY <2>3, <2>5, <2>6
<1>7. TreeLinked
  BY <1>4, <1>5, <1>6 DEF TreeLinked
<1> QED
  BY <1>3, <1>7

\* Every state that add_file_entry, remove_file_entry and remove_all_file_entries
\* can make of the empty tree is a tree.
THEOREM TreeInvariance == TreeSpec => []IsTree(tree)
<1>1. TreeInit => IsTree(tree)
  BY TreeStarts
<1>2. IsTree(tree) /\ [TreeNext]_tree => IsTree(tree)'
  BY TreeKept DEF TreeNext
<1> QED
  BY <1>1, <1>2, PTL DEF TreeSpec

\* The lists of children and the parents agree, and every entry has the fields of
\* its kind, whatever calls of the three operations come in whatever order.
THEOREM TreeStaysLinked == TreeSpec => [](TreeTypeOK /\ TreeLinked)
<1>1. IsTree(tree) => TreeTypeOK /\ TreeLinked
  BY TreeSays
<1> QED
  BY <1>1, TreeInvariance, PTL

================================================================================
