--------------------------- MODULE ClusterChainProofs ---------------------------
(***************************************************************************)
(* Proofs about ClusterChain.                                              *)
(*                                                                         *)
(* In the middle of a call the tables of cluster.c are not in good order:  *)
(* a cluster that was found is linked but not marked yet, or linked to     *)
(* itself, and a chain that shrinks is linked to clusters that are free    *)
(* already.  The invariant is therefore about the tables as they would be  *)
(* if the call marked next_cluster as the end of its chain now.            *)
(***************************************************************************)
EXTENDS ClusterChain, SetInduction, FiniteSetTheorems, FunctionTheorems

(***************************************************************************)
(* The chains of a table: which clusters ChainIn collects, and how an      *)
(* assignment to the table changes them.                                   *)
(*                                                                         *)
(* The recursion of ChainIn is used in the first lemmas only.  The others  *)
(* follow from the three facts that a chain has its first cluster, is      *)
(* closed under the links of the table, and is the least set with both.    *)
(***************************************************************************)

\* The tables there may be.
Tables == [Clusters -> Clusters \cup {FREE, EOFC}]

\* Clusters are numbers, finitely many, and no link is one by accident.
LEMMA ClustersFacts ==
  /\ Clusters \subseteq Nat /\ 2 \in Clusters
  /\ FREE \notin Clusters /\ EOFC \notin Clusters /\ NONE \notin Clusters
  /\ FREE # EOFC
  /\ IsFiniteSet(Clusters) /\ Cardinality(Clusters) = N_CLUSTERS - 2
<1>1. IsFiniteSet(2 .. N_CLUSTERS - 1)
      /\ Cardinality(2 .. N_CLUSTERS - 1) = N_CLUSTERS - 2
  BY FS_Interval, ConstantsAssumption
<1> QED
  BY <1>1, ConstantsAssumption DEF Clusters

\* The set s and what its clusters are linked to.
Successors(fat, s) == s \cup ({fat[d] : d \in s} \cap Clusters)

\* The sets that the recursion of ChainIn goes through.
IsReached(fat, c, r) ==
  /\ r \in [0 .. N_CLUSTERS -> SUBSET Clusters]
  /\ r[0] = {c}
  /\ \A n \in 0 .. N_CLUSTERS - 1 : r[n + 1] = Successors(fat, r[n])
  /\ ChainIn(fat, c) = r[N_CLUSTERS]

\* The recursion of ChainIn defines what it seems to define.
LEMMA ReachedExists ==
  ASSUME NEW fat, NEW c \in Clusters
  PROVE  \E r : IsReached(fat, c, r)
<1> DEFINE V == SUBSET Clusters
           first == {c}
           step == [n \in Nat |-> [s \in V |-> Successors(fat, s)]]
           Body(r) == [n \in 0 .. N_CLUSTERS |->
                         IF n = 0 THEN {c}
                         ELSE r[n - 1] \cup ({fat[d] : d \in r[n - 1]} \cap Clusters)]
           reached == CHOOSE r : r = Body(r)
<1>1. \A s \in V : Successors(fat, s) \in V
  BY DEF Successors
<1>2. step \in [Nat -> [V -> V]] /\ first \in V
  BY <1>1
<1>3. PICK f \in [Nat -> V] :
        f[0] = first /\ \A n \in Nat : f[n + 1] = step[n][f[n]]
  <2> HIDE DEF V, first, step, Body, reached
  <2> QED
    BY <1>2, Recursion
<1>4. \A n \in Nat : f[n + 1] = Successors(fat, f[n])
  BY <1>3
<1> DEFINE g == [n \in 0 .. N_CLUSTERS |-> f[n]]
<1>5. g = Body(g)
  <2>1. ASSUME NEW n \in 0 .. N_CLUSTERS
        PROVE  g[n] = IF n = 0 THEN {c}
                      ELSE g[n - 1] \cup ({fat[d] : d \in g[n - 1]} \cap Clusters)
    <3>1. CASE n = 0
      BY <1>3, <3>1
    <3>2. CASE n # 0
      <4>1. n - 1 \in 0 .. N_CLUSTERS /\ n - 1 \in Nat /\ (n - 1) + 1 = n
        BY <3>2, ConstantsAssumption
      <4>2. f[n] = Successors(fat, f[n - 1])
        BY <1>4, <4>1
      <4> QED
        BY <3>2, <4>1, <4>2 DEF Successors
    <3> QED
      BY <3>1, <3>2
  <2> QED
    BY <2>1, Zenon
<1>6. reached = Body(reached)
  <2> HIDE DEF Body
  <2> QED
    BY <1>5
<1>7. ChainIn(fat, c) = reached[N_CLUSTERS]
  BY Zenon DEF ChainIn
<1> HIDE DEF reached
<1>8. reached[0] = {c}
  BY <1>6, ConstantsAssumption
<1>9. ASSUME NEW n \in 0 .. N_CLUSTERS - 1
      PROVE  reached[n + 1] = Successors(fat, reached[n])
  <2>1. n + 1 \in 0 .. N_CLUSTERS /\ n + 1 # 0 /\ (n + 1) - 1 = n
    BY ConstantsAssumption
  <2> QED
    BY <1>6, <2>1 DEF Successors
<1>10. \A n \in 0 .. N_CLUSTERS : reached[n] \in V
  <2> DEFINE T == {n \in 0 .. N_CLUSTERS : reached[n] \in V}
  <2>1. 0 \in T
    BY <1>2, <1>8, ConstantsAssumption
  <2>2. \A n \in 0 .. N_CLUSTERS - 1 : n \in T => n + 1 \in T
    <3> HIDE DEF V
    <3> QED
      BY <1>1, <1>9, ConstantsAssumption
  <2>3. 0 .. N_CLUSTERS \subseteq T
    <3> HIDE DEF T
    <3> QED
      BY <2>1, <2>2, IntervalInduction, ConstantsAssumption
  <2> QED
    BY <2>3
<1>11. reached \in [0 .. N_CLUSTERS -> V]
  <2>1. reached = [n \in 0 .. N_CLUSTERS |-> reached[n]]
    BY <1>6
  <2> HIDE DEF V
  <2> QED
    BY <1>10, <2>1
<1> QED
  BY <1>7, <1>8, <1>9, <1>11 DEF IsReached

(***************************************************************************)
(* The three facts.                                                        *)
(***************************************************************************)

\* A set of clusters that is closed under the links of the table.
IsClosed(fat, s) == \A d \in s : fat[d] \in Clusters => fat[d] \in s

\* A chain consists of clusters and has its first one.
LEMMA ChainType ==
  ASSUME NEW fat, NEW c \in Clusters
  PROVE  /\ ChainIn(fat, c) \subseteq Clusters
         /\ c \in ChainIn(fat, c)
<1> PICK r : IsReached(fat, c, r)
  BY ReachedExists
<1> DEFINE T == {n \in 0 .. N_CLUSTERS : c \in r[n]}
<1>1. 0 \in T
  BY ConstantsAssumption DEF IsReached
<1>2. \A n \in 0 .. N_CLUSTERS - 1 : n \in T => n + 1 \in T
  BY ConstantsAssumption DEF IsReached, Successors
<1>3. 0 .. N_CLUSTERS \subseteq T
  <2> HIDE DEF T
  <2> QED
    BY <1>1, <1>2, IntervalInduction, ConstantsAssumption
<1>4. N_CLUSTERS \in 0 .. N_CLUSTERS
  BY ConstantsAssumption
<1> QED
  BY <1>3, <1>4 DEF IsReached

\* A chain is in every closed set that has its first cluster.
LEMMA ChainLeast ==
  ASSUME NEW fat, NEW c \in Clusters,
         NEW s \in SUBSET Clusters, c \in s, IsClosed(fat, s)
  PROVE  ChainIn(fat, c) \subseteq s
<1> PICK r : IsReached(fat, c, r)
  BY ReachedExists
<1> DEFINE T == {n \in 0 .. N_CLUSTERS : r[n] \subseteq s}
<1>1. 0 \in T
  BY ConstantsAssumption DEF IsReached
<1>2. \A n \in 0 .. N_CLUSTERS - 1 : n \in T => n + 1 \in T
  BY ConstantsAssumption DEF IsReached, Successors, IsClosed
<1>3. 0 .. N_CLUSTERS \subseteq T
  <2> HIDE DEF T
  <2> QED
    BY <1>1, <1>2, IntervalInduction, ConstantsAssumption
<1>4. N_CLUSTERS \in 0 .. N_CLUSTERS
  BY ConstantsAssumption
<1> QED
  BY <1>3, <1>4 DEF IsReached

\* A chain is closed: there are fewer clusters than steps in which the recursion
\* adds one.
LEMMA ChainClosed ==
  ASSUME NEW fat, NEW c \in Clusters
  PROVE  IsClosed(fat, ChainIn(fat, c))
<1> PICK r : IsReached(fat, c, r)
  BY ReachedExists
<1> DEFINE T == {n \in 0 .. N_CLUSTERS :
                   IsClosed(fat, r[n]) \/ Cardinality(r[n]) >= n + 1}
<1>0. \A n \in 0 .. N_CLUSTERS :
        /\ r[n] \in SUBSET Clusters
        /\ IsFiniteSet(r[n]) /\ Cardinality(r[n]) \in Nat
        /\ Cardinality(r[n]) <= N_CLUSTERS - 2
  BY ClustersFacts, FS_Subset, FS_CardinalityType DEF IsReached
<1>1. 0 \in T
  <2>1. r[0] = {c}
    BY DEF IsReached
  <2>2. Cardinality(r[0]) = 1
    BY <2>1, FS_Singleton
  <2> QED
    BY <2>2, ConstantsAssumption
<1>2. ASSUME NEW n \in 0 .. N_CLUSTERS - 1, n \in T PROVE n + 1 \in T
  <2>1. n + 1 \in 0 .. N_CLUSTERS /\ n \in 0 .. N_CLUSTERS /\ n \in Nat
    BY ConstantsAssumption
  <2>2. r[n + 1] = Successors(fat, r[n])
    BY DEF IsReached
  <2>3. CASE IsClosed(fat, r[n])
    <3>1. r[n + 1] = r[n]
      BY <2>2, <2>3 DEF IsClosed, Successors
    <3> QED
      BY <2>1, <2>3, <3>1
  <2>4. CASE ~IsClosed(fat, r[n])
    <3>1. r[n] \subseteq r[n + 1] /\ r[n + 1] # r[n]
      BY <2>2, <2>4 DEF IsClosed, Successors
    <3>2. Cardinality(r[n]) <= Cardinality(r[n + 1])
          /\ Cardinality(r[n]) # Cardinality(r[n + 1])
      BY <1>0, <2>1, <3>1, FS_Subset
    <3>3. Cardinality(r[n]) >= n + 1
      BY <1>2, <2>4
    <3>4. Cardinality(r[n + 1]) >= (n + 1) + 1
      BY <1>0, <2>1, <3>2, <3>3
    <3> QED
      BY <2>1, <3>4
  <2> QED
    BY <2>3, <2>4
<1>3. 0 .. N_CLUSTERS \subseteq T
  <2> HIDE DEF T
  <2> QED
    BY <1>1, <1>2, IntervalInduction, ConstantsAssumption
<1>4. N_CLUSTERS \in 0 .. N_CLUSTERS
  BY ConstantsAssumption
<1>5. IsClosed(fat, r[N_CLUSTERS])
  BY <1>0, <1>3, <1>4, ConstantsAssumption
<1> QED
  BY <1>5 DEF IsReached

(***************************************************************************)
(* Consequences.                                                           *)
(***************************************************************************)

\* A chain has finitely many clusters.
LEMMA ChainFinite ==
  ASSUME NEW fat, NEW c \in Clusters
  PROVE  /\ IsFiniteSet(ChainIn(fat, c))
         /\ Cardinality(ChainIn(fat, c)) \in Nat
BY ChainType, ClustersFacts, FS_Subset, FS_CardinalityType

\* The chain of a cluster on a chain is part of it.
LEMMA ChainTail ==
  ASSUME NEW fat, NEW c \in Clusters, NEW d \in ChainIn(fat, c)
  PROVE  ChainIn(fat, d) \subseteq ChainIn(fat, c)
BY ChainType, ChainClosed, ChainLeast

\* A cluster and the chain of the cluster it is linked to.
LEMMA ChainStep ==
  ASSUME NEW fat, NEW c \in Clusters, fat[c] \in Clusters
  PROVE  ChainIn(fat, c) = {c} \cup ChainIn(fat, fat[c])
<1>1. fat[c] \in ChainIn(fat, c)
  BY ChainType, ChainClosed DEF IsClosed
<1>2. {c} \cup ChainIn(fat, fat[c]) \subseteq ChainIn(fat, c)
  BY <1>1, ChainType, ChainTail
<1>3. {c} \cup ChainIn(fat, fat[c]) \in SUBSET Clusters
  BY ChainType
<1>4. IsClosed(fat, {c} \cup ChainIn(fat, fat[c]))
  BY ChainType, ChainClosed DEF IsClosed
<1>5. ChainIn(fat, c) \subseteq {c} \cup ChainIn(fat, fat[c])
  BY <1>3, <1>4, ChainLeast
<1> QED
  BY <1>2, <1>5

\* A cluster that is not linked is a chain.
LEMMA ChainEnd ==
  ASSUME NEW fat, NEW c \in Clusters, fat[c] \notin Clusters
  PROVE  ChainIn(fat, c) = {c}
<1>1. IsClosed(fat, {c}) /\ {c} \in SUBSET Clusters
  BY DEF IsClosed
<1> QED
  BY <1>1, ChainType, ChainLeast

\* Every cluster of a chain but the first is linked from one of them.
LEMMA ChainPredecessor ==
  ASSUME NEW fat, NEW c \in Clusters, NEW d \in ChainIn(fat, c), d # c
  PROVE  \E p \in ChainIn(fat, c) : fat[p] = d
<1> DEFINE s == {e \in ChainIn(fat, c) : e = c \/ \E p \in ChainIn(fat, c) : fat[p] = e}
<1>1. s \in SUBSET Clusters /\ c \in s
  BY ChainType
<1>2. IsClosed(fat, s)
  BY ChainClosed DEF IsClosed
<1>3. ChainIn(fat, c) \subseteq s
  <2> HIDE DEF s
  <2> QED
    BY <1>1, <1>2, ChainLeast
<1> QED
  BY <1>3

\* A chain depends on the links of its own clusters only.
LEMMA ChainUnchanged ==
  ASSUME NEW fat, NEW new, NEW c \in Clusters,
         \A d \in ChainIn(fat, c) :
           new[d] = fat[d] \/ (new[d] \notin Clusters /\ fat[d] \notin Clusters)
  PROVE  ChainIn(new, c) = ChainIn(fat, c)
<1>1. ChainIn(new, c) \subseteq ChainIn(fat, c)
  <2>1. IsClosed(new, ChainIn(fat, c))
    BY ChainClosed DEF IsClosed
  <2> QED
    BY <2>1, ChainType, ChainLeast
<1>2. IsClosed(fat, ChainIn(new, c))
  BY <1>1, ChainClosed DEF IsClosed
<1>3. ChainIn(fat, c) \subseteq ChainIn(new, c)
  BY <1>2, ChainType, ChainLeast
<1> QED
  BY <1>1, <1>3

(***************************************************************************)
(* Tables in good order, and the four edits that keep them so.             *)
(***************************************************************************)

\* The table consists of the chains of the clusters heads, each with its own
\* clusters, and free clusters.
WellFormed(fat, heads) ==
  /\ fat \in Tables
  /\ heads \subseteq Clusters
  /\ \A c, d \in Clusters : fat[c] = fat[d] /\ fat[c] \in Clusters => c = d
  /\ \A c \in Clusters : fat[c] \in Clusters => fat[fat[c]] # FREE
  /\ \A h \in heads : fat[h] # FREE /\ \A c \in Clusters : fat[c] # h
  /\ \A c \in Clusters : fat[c] # FREE => \E h \in heads : c \in ChainIn(fat, h)

\* No cluster of a chain is free.
LEMMA ChainUsed ==
  ASSUME NEW fat, NEW heads, WellFormed(fat, heads), NEW h \in heads,
         NEW c \in ChainIn(fat, h)
  PROVE  fat[c] # FREE
<1> DEFINE s == {d \in Clusters : fat[d] # FREE}
<1>1. s \in SUBSET Clusters /\ h \in s /\ h \in Clusters
  BY DEF WellFormed
<1>2. IsClosed(fat, s)
  BY DEF WellFormed, IsClosed
<1> QED
  BY <1>1, <1>2, ChainLeast

\* Two chains have no cluster in common.
LEMMA ChainsDisjoint ==
  ASSUME NEW fat, NEW heads, WellFormed(fat, heads),
         NEW g \in heads, NEW h \in heads, g # h
  PROVE  ChainIn(fat, g) \cap ChainIn(fat, h) = {}
<1> DEFINE s == Clusters \ ChainIn(fat, h)
<1>1. g \in Clusters /\ h \in Clusters
  BY DEF WellFormed
<1>2. \A d \in ChainIn(fat, h) \ {h} : \E p \in ChainIn(fat, h) : fat[p] = d
  BY <1>1, ChainPredecessor
<1>3. g \in s
  BY <1>1, <1>2, ChainType DEF WellFormed
<1>4. ASSUME NEW p \in s, fat[p] \in Clusters PROVE fat[p] \in s
  <2>1. SUFFICES ASSUME fat[p] \in ChainIn(fat, h) PROVE FALSE
    BY <1>4
  <2>2. fat[p] # h
    BY DEF WellFormed
  <2>3. PICK q \in ChainIn(fat, h) : fat[q] = fat[p]
    BY <1>2, <2>1, <2>2
  <2>4. q = p
    BY <1>1, <1>4, <2>3, ChainType DEF WellFormed
  <2> QED
    BY <2>3, <2>4
<1>5. IsClosed(fat, s)
  BY <1>4 DEF IsClosed
<1>6. ChainIn(fat, g) \subseteq s
  BY <1>1, <1>3, <1>5, ChainLeast
<1> QED
  BY <1>6

\* No chain comes back to a cluster.
LEMMA ChainAcyclic ==
  ASSUME NEW fat, NEW heads, WellFormed(fat, heads), NEW h \in heads,
         NEW x \in ChainIn(fat, h), fat[x] \in Clusters
  PROVE  x \notin ChainIn(fat, fat[x])
<1> DEFINE rest == ChainIn(fat, fat[x])
           s == Clusters \ rest
<1>1. SUFFICES ASSUME x \in rest PROVE FALSE
  OBVIOUS
<1>2. h \in Clusters /\ x \in Clusters /\ rest \subseteq Clusters
  BY ChainType DEF WellFormed
<1>3. \A d \in rest : \E p \in rest : fat[p] = d
  BY <1>1, ChainPredecessor
<1>4. h \in s
  BY <1>2, <1>3 DEF WellFormed
<1>5. ASSUME NEW p \in s, fat[p] \in Clusters PROVE fat[p] \in s
  <2>1. SUFFICES ASSUME fat[p] \in rest PROVE FALSE
    BY <1>5
  <2>2. PICK q \in rest : fat[q] = fat[p]
    BY <1>3, <2>1
  <2>3. q = p
    BY <1>2, <1>5, <2>2 DEF WellFormed
  <2> QED
    BY <2>2, <2>3
<1>6. IsClosed(fat, s)
  BY <1>5 DEF IsClosed
<1>7. ChainIn(fat, h) \subseteq s
  <2> HIDE DEF rest
  <2> QED
    BY <1>2, <1>4, <1>6, ChainLeast
<1> QED
  BY <1>1, <1>7

\* A free cluster becomes a chain of its own.
LEMMA HeadAdded ==
  ASSUME NEW fat, NEW heads, WellFormed(fat, heads),
         NEW c \in Clusters, fat[c] = FREE,
         NEW new \in Tables, new[c] = EOFC, \A d \in Clusters \ {c} : new[d] = fat[d]
  PROVE  /\ WellFormed(new, heads \cup {c})
         /\ ChainIn(new, c) = {c}
         /\ \A h \in heads : ChainIn(new, h) = ChainIn(fat, h)
<1>1. new \in Tables /\ new[c] = EOFC
      /\ \A d \in Clusters \ {c} : new[d] = fat[d]
  BY DEF WellFormed, Tables
<1>2. ChainIn(new, c) = {c}
  BY <1>1, ChainEnd, ClustersFacts
<1>3. \A h \in heads : ChainIn(new, h) = ChainIn(fat, h)
  <2> TAKE h \in heads
  <2>1. h \in Clusters /\ ChainIn(fat, h) \subseteq Clusters \ {c}
    BY ChainUsed, ChainType DEF WellFormed
  <2>2. \A d \in ChainIn(fat, h) :
          new[d] = fat[d] \/ (new[d] \notin Clusters /\ fat[d] \notin Clusters)
    BY <1>1, <2>1
  <2> QED
    BY <2>1, <2>2, ChainUnchanged
<1>4. \A d \in Clusters : fat[d] # c
  BY DEF WellFormed
<1>5. WellFormed(new, heads \cup {c})
  <2>1. \A d, e \in Clusters : new[d] = new[e] /\ new[d] \in Clusters => d = e
    BY <1>1, ClustersFacts DEF WellFormed
  <2>2. ASSUME NEW d \in Clusters, new[d] \in Clusters PROVE new[new[d]] # FREE
    <3>1. d # c /\ new[d] = fat[d]
      BY <1>1, <2>2, ClustersFacts
    <3>2. fat[fat[d]] # FREE
      BY <2>2, <3>1 DEF WellFormed
    <3> QED
      BY <1>1, <2>2, <3>1, <3>2, ClustersFacts
  <2>3. \A h \in heads \cup {c} : new[h] # FREE /\ \A d \in Clusters : new[d] # h
    BY <1>1, <1>4, ClustersFacts DEF WellFormed
  <2>4. \A d \in Clusters : new[d] # FREE =>
          \E h \in heads \cup {c} : d \in ChainIn(new, h)
    BY <1>1, <1>2, <1>3 DEF WellFormed
  <2> QED
    BY <1>1, <2>1, <2>2, <2>3, <2>4 DEF WellFormed
<1> QED
  BY <1>2, <1>3, <1>5

\* A free cluster is linked to the end of a chain.
LEMMA ChainExtended ==
  ASSUME NEW fat, NEW heads, WellFormed(fat, heads),
         NEW x \in Clusters, fat[x] = EOFC, NEW c \in Clusters, fat[c] = FREE,
         NEW new \in Tables, new[x] = c, new[c] = EOFC,
         \A d \in Clusters \ {c, x} : new[d] = fat[d]
  PROVE  /\ WellFormed(new, heads)
         /\ \A h \in heads :
              ChainIn(new, h) = IF x \in ChainIn(fat, h) THEN ChainIn(fat, h) \cup {c}
                                ELSE ChainIn(fat, h)
<1>1. new \in Tables /\ new[c] = EOFC /\ new[x] = c /\ x # c
      /\ \A d \in Clusters \ {c, x} : new[d] = fat[d]
  BY ClustersFacts DEF WellFormed, Tables
<1>2. ASSUME NEW h \in heads
      PROVE  ChainIn(new, h) = IF x \in ChainIn(fat, h) THEN ChainIn(fat, h) \cup {c}
                                ELSE ChainIn(fat, h)
  <2>1. h \in Clusters /\ ChainIn(fat, h) \subseteq Clusters \ {c}
    BY ChainUsed, ChainType DEF WellFormed
  <2>2. CASE x \notin ChainIn(fat, h)
    <3>1. \A d \in ChainIn(fat, h) :
            new[d] = fat[d] \/ (new[d] \notin Clusters /\ fat[d] \notin Clusters)
      BY <1>1, <2>1, <2>2
    <3>2. ChainIn(new, h) = ChainIn(fat, h)
      BY <2>1, <3>1, ChainUnchanged
    <3> QED
      BY <2>2, <3>2
  <2>3. CASE x \in ChainIn(fat, h)
    <3>1. IsClosed(new, ChainIn(fat, h) \cup {c})
      BY <1>1, <2>1, <2>3, ChainClosed, ClustersFacts DEF IsClosed
    <3>2. ChainIn(new, h) \subseteq ChainIn(fat, h) \cup {c}
      BY <2>1, <3>1, ChainLeast, ChainType
    <3>3. IsClosed(fat, ChainIn(new, h) \ {c})
      <4> SUFFICES ASSUME NEW d \in ChainIn(new, h) \ {c}, fat[d] \in Clusters
                   PROVE  fat[d] \in ChainIn(new, h) \ {c}
        BY DEF IsClosed
      <4>1. d \in Clusters /\ d # x
        BY <2>1, ChainType, ClustersFacts
      <4>2. fat[d] # c
        BY <4>1 DEF WellFormed
      <4> QED
        BY <1>1, <2>1, <4>1, <4>2, ChainClosed DEF IsClosed
    <3>4. h \in ChainIn(new, h) \ {c}
      BY <2>1, ChainType
    <3>5. ChainIn(fat, h) \subseteq ChainIn(new, h) \ {c}
      BY <2>1, <3>3, <3>4, ChainLeast, ChainType
    <3>6. c \in ChainIn(new, h)
      <4>1. IsClosed(new, ChainIn(new, h))
        BY <2>1, ChainClosed
      <4>2. x \in ChainIn(new, h)
        BY <2>3, <3>5
      <4> QED
        BY <1>1, <4>1, <4>2 DEF IsClosed
    <3> QED
      BY <2>3, <3>2, <3>5, <3>6
  <2> QED
    BY <2>2, <2>3
<1>3. WellFormed(new, heads)
  <2>0. \A d \in Clusters : fat[d] # c
    BY DEF WellFormed
  <2>1. \A d, e \in Clusters : new[d] = new[e] /\ new[d] \in Clusters => d = e
    BY <1>1, <2>0, ClustersFacts DEF WellFormed
  <2>2. ASSUME NEW d \in Clusters, new[d] \in Clusters PROVE new[new[d]] # FREE
    <3>1. new[c] # FREE /\ new[x] # FREE
      BY <1>1, ClustersFacts
    <3>2. CASE new[d] \in {c, x}
      BY <3>1, <3>2
    <3>3. CASE new[d] \notin {c, x}
      <4>1. d # c /\ d # x
        BY <1>1, <2>2, <3>3, ClustersFacts
      <4> QED
        BY <1>1, <2>2, <3>3, <4>1 DEF WellFormed
    <3> QED
      BY <3>2, <3>3
  <2>3. ASSUME NEW h \in heads PROVE new[h] # FREE /\ \A d \in Clusters : new[d] # h
    <3>1. h \in Clusters /\ fat[h] # FREE /\ \A d \in Clusters : fat[d] # h
      BY DEF WellFormed
    <3>2. h # c /\ h # EOFC
      BY <3>1, ClustersFacts
    <3>3. new[h] # FREE
      BY <1>1, <3>1, <3>2, ClustersFacts
    <3> QED
      BY <1>1, <3>1, <3>2, <3>3
  <2>4. ASSUME NEW d \in Clusters, new[d] # FREE
        PROVE  \E h \in heads : d \in ChainIn(new, h)
    <3>1. PICK h \in heads : x \in ChainIn(fat, h)
      BY ClustersFacts DEF WellFormed
    <3>2. CASE d = c
      BY <1>2, <3>1, <3>2
    <3>3. CASE d # c
      <4>1. fat[d] # FREE
        BY <1>1, <2>4, <3>3, ClustersFacts
      <4>2. PICK g \in heads : d \in ChainIn(fat, g)
        BY <4>1 DEF WellFormed
      <4> QED
        BY <1>2, <4>2
    <3> QED
      BY <3>2, <3>3
  <2> QED
    BY <1>1, <2>1, <2>2, <2>3, <2>4 DEF WellFormed
<1> QED
  BY <1>2, <1>3

\* A chain is cut: what follows becomes a chain of its own.
LEMMA ChainCut ==
  ASSUME NEW fat, NEW heads, WellFormed(fat, heads),
         NEW x \in Clusters, fat[x] \in Clusters,
         NEW new \in Tables, new[x] = EOFC, \A d \in Clusters \ {x} : new[d] = fat[d]
  PROVE  /\ fat[x] \notin heads
         /\ WellFormed(new, heads \cup {fat[x]})
         /\ ChainIn(new, fat[x]) = ChainIn(fat, fat[x])
         /\ \A h \in heads :
              ChainIn(new, h) = IF x \in ChainIn(fat, h)
                                THEN ChainIn(fat, h) \ ChainIn(fat, fat[x])
                                ELSE ChainIn(fat, h)
<1> DEFINE rest == fat[x]
           tail == ChainIn(fat, rest)
<1>1. new \in Tables /\ new[x] = EOFC
      /\ \A d \in Clusters \ {x} : new[d] = fat[d]
  BY DEF WellFormed, Tables
<1>2. rest \notin heads
  BY DEF WellFormed
<1>3. PICK g \in heads : x \in ChainIn(fat, g)
  BY ClustersFacts DEF WellFormed
<1>4. x \notin tail /\ tail \subseteq Clusters /\ rest \in tail /\ g \in Clusters
  BY <1>3, ChainAcyclic, ChainType DEF WellFormed
<1>5. tail \subseteq ChainIn(fat, g)
  <2>1. rest \in ChainIn(fat, g)
    BY <1>3, <1>4, ChainClosed DEF IsClosed
  <2> QED
    BY <1>4, <2>1, ChainTail
<1>6. ChainIn(new, rest) = tail
  <2>1. \A d \in tail :
          new[d] = fat[d] \/ (new[d] \notin Clusters /\ fat[d] \notin Clusters)
    BY <1>1, <1>4
  <2> QED
    BY <2>1, ChainUnchanged
<1> HIDE DEF tail, rest
<1>7. ASSUME NEW h \in heads
      PROVE  ChainIn(new, h) = IF x \in ChainIn(fat, h) THEN ChainIn(fat, h) \ tail
                               ELSE ChainIn(fat, h)
  <2>1. h \in Clusters /\ ChainIn(fat, h) \subseteq Clusters /\ h \in ChainIn(fat, h)
    BY ChainType DEF WellFormed
  <2>2. CASE x \notin ChainIn(fat, h)
    <3>1. \A d \in ChainIn(fat, h) :
            new[d] = fat[d] \/ (new[d] \notin Clusters /\ fat[d] \notin Clusters)
      BY <1>1, <2>1, <2>2
    <3>2. ChainIn(new, h) = ChainIn(fat, h)
      BY <2>1, <3>1, ChainUnchanged
    <3> QED
      BY <2>2, <3>2
  <2>3. CASE x \in ChainIn(fat, h)
    <3>1. h \notin tail
      <4>1. SUFFICES ASSUME h \in tail PROVE FALSE
        OBVIOUS
      <4>2. h # rest
        BY <1>2
      <4>3. \E p \in tail : fat[p] = h
        BY <4>1, <4>2, ChainPredecessor DEF tail, rest
      <4> QED
        BY <1>4, <4>3 DEF WellFormed
    <3>2. IsClosed(new, ChainIn(fat, h) \ tail)
      <4> SUFFICES ASSUME NEW d \in ChainIn(fat, h) \ tail, new[d] \in Clusters
                   PROVE  new[d] \in ChainIn(fat, h) \ tail
        BY DEF IsClosed
      <4>1. d # x /\ new[d] = fat[d] /\ d \in Clusters
        BY <1>1, <2>1, ClustersFacts
      <4>2. fat[d] \in ChainIn(fat, h)
        BY <2>1, <4>1, ChainClosed DEF IsClosed
      <4>3. fat[d] \notin tail
        <5>1. SUFFICES ASSUME fat[d] \in tail PROVE FALSE
          OBVIOUS
        <5>2. fat[d] # rest
          BY <4>1 DEF WellFormed, rest
        <5>3. PICK p \in tail : fat[p] = fat[d]
          BY <5>1, <5>2, ChainPredecessor DEF tail, rest
        <5>4. p = d
          BY <1>4, <4>1, <5>3 DEF WellFormed
        <5> QED
          BY <5>3, <5>4
      <4> QED
        BY <4>1, <4>2, <4>3
    <3>3. ChainIn(new, h) \subseteq ChainIn(fat, h) \ tail
      BY <2>1, <3>1, <3>2, ChainLeast
    <3>4. IsClosed(fat, ChainIn(new, h) \cup tail)
      <4> SUFFICES ASSUME NEW d \in ChainIn(new, h) \cup tail, fat[d] \in Clusters
                   PROVE  fat[d] \in ChainIn(new, h) \cup tail
        BY DEF IsClosed
      <4>1. CASE d \in tail
        BY <4>1, ChainClosed DEF IsClosed, tail, rest
      <4>2. CASE d = x
        BY <1>4, <4>2 DEF rest
      <4>3. CASE d \in ChainIn(new, h) /\ d # x
        <5>1. new[d] = fat[d]
          BY <1>1, <2>1, <4>3, ChainType
        <5> QED
          BY <2>1, <4>3, <5>1, ChainClosed DEF IsClosed
      <4> QED
        BY <4>1, <4>2, <4>3
    <3>5. ChainIn(fat, h) \subseteq ChainIn(new, h) \cup tail
      BY <1>4, <2>1, <3>4, ChainType, ChainLeast
    <3> QED
      BY <2>3, <3>3, <3>5
  <2> QED
    BY <2>2, <2>3
<1>8. WellFormed(new, heads \cup {rest})
  <2>1. \A d, e \in Clusters : new[d] = new[e] /\ new[d] \in Clusters => d = e
    BY <1>1, ClustersFacts DEF WellFormed
  <2>2. ASSUME NEW d \in Clusters, new[d] \in Clusters PROVE new[new[d]] # FREE
    <3>1. d # x /\ new[d] = fat[d]
      BY <1>1, <2>2, ClustersFacts
    <3>2. fat[fat[d]] # FREE
      BY <2>2, <3>1 DEF WellFormed
    <3> QED
      BY <1>1, <2>2, <3>1, <3>2, ClustersFacts
  <2>3. \A h \in heads : new[h] # FREE /\ \A d \in Clusters : new[d] # h
    BY <1>1, ClustersFacts DEF WellFormed
  <2>4. new[rest] # FREE /\ \A d \in Clusters : new[d] # rest
    BY <1>1, <1>4, ClustersFacts DEF WellFormed, rest
  <2>5. ASSUME NEW d \in Clusters, new[d] # FREE
        PROVE  \E h \in heads \cup {rest} : d \in ChainIn(new, h)
    <3>1. fat[d] # FREE
      BY <1>1, <2>5, ClustersFacts
    <3>2. PICK h \in heads : d \in ChainIn(fat, h)
      BY <3>1 DEF WellFormed
    <3> QED
      BY <1>6, <1>7, <3>2
  <2>6. heads \cup {rest} \subseteq Clusters
    BY DEF WellFormed, rest
  <2> QED
    BY <1>1, <2>1, <2>2, <2>3, <2>4, <2>5, <2>6 DEF WellFormed
<1> QED
  BY <1>2, <1>6, <1>7, <1>8 DEF rest, tail

\* What is left of the chain that begins at cluster h once h is freed.
Rest(fat, h) == IF fat[h] \in Clusters THEN {fat[h]} ELSE {}

\* The first cluster of a chain is freed: the rest is a chain, if there is one.
LEMMA HeadFreed ==
  ASSUME NEW fat, NEW heads, WellFormed(fat, heads), NEW h \in heads,
         NEW new \in Tables, new[h] = FREE, \A d \in Clusters \ {h} : new[d] = fat[d]
  PROVE  /\ Rest(fat, h) \cap heads = {}
         /\ WellFormed(new, (heads \ {h}) \cup Rest(fat, h))
         /\ \A g \in heads \ {h} : ChainIn(new, g) = ChainIn(fat, g)
<1> DEFINE rest == Rest(fat, h)
<1>1. new \in Tables /\ new[h] = FREE /\ h \in Clusters
      /\ \A d \in Clusters \ {h} : new[d] = fat[d]
  BY DEF WellFormed, Tables
<1>2. rest \cap heads = {}
  BY <1>1 DEF WellFormed, Rest
<1>3. ASSUME NEW g \in heads \ {h} PROVE ChainIn(new, g) = ChainIn(fat, g)
  <2>1. g \in Clusters /\ h \in ChainIn(fat, h) /\ ChainIn(fat, g) \subseteq Clusters
    BY <1>1, ChainType DEF WellFormed
  <2>2. h \notin ChainIn(fat, g)
    BY <2>1, ChainsDisjoint
  <2>3. \A d \in ChainIn(fat, g) :
          new[d] = fat[d] \/ (new[d] \notin Clusters /\ fat[d] \notin Clusters)
    BY <1>1, <2>1, <2>2
  <2> QED
    BY <2>1, <2>3, ChainUnchanged
<1>4. ASSUME NEW r \in rest
      PROVE  r \in Clusters /\ fat[h] = r /\ ChainIn(fat, h) = {h} \cup ChainIn(new, r)
  <2>1. r \in Clusters /\ fat[h] = r
    BY DEF Rest
  <2>2. ChainIn(fat, h) = {h} \cup ChainIn(fat, r)
    BY <1>1, <2>1, ChainStep
  <2>3. h \notin ChainIn(fat, r) /\ ChainIn(fat, r) \subseteq Clusters
    BY <1>1, <2>1, ChainAcyclic, ChainType
  <2>4. \A d \in ChainIn(fat, r) :
          new[d] = fat[d] \/ (new[d] \notin Clusters /\ fat[d] \notin Clusters)
    BY <1>1, <2>3
  <2> QED
    BY <2>1, <2>2, <2>4, ChainUnchanged
<1>5. WellFormed(new, (heads \ {h}) \cup rest)
  <2>0. \A d \in Clusters : fat[d] # h
    BY DEF WellFormed
  <2>1. \A d, e \in Clusters : new[d] = new[e] /\ new[d] \in Clusters => d = e
    BY <1>1, ClustersFacts DEF WellFormed
  <2>2. \A d \in Clusters : new[d] \in Clusters => new[new[d]] # FREE
    BY <1>1, <2>0, ClustersFacts DEF WellFormed
  <2>3. \A g \in heads \ {h} : new[g] # FREE /\ \A d \in Clusters : new[d] # g
    BY <1>1, ClustersFacts DEF WellFormed
  <2>4. \A r \in rest : new[r] # FREE /\ \A d \in Clusters : new[d] # r
    <3> TAKE r \in rest
    <3>1. r # h /\ fat[r] # FREE
      BY <1>1, <1>4, <2>0 DEF WellFormed
    <3>2. \A d \in Clusters : fat[d] = r => d = h
      BY <1>1, <1>4 DEF WellFormed
    <3> QED
      BY <1>1, <1>4, <3>1, <3>2, ClustersFacts
  <2>5. ASSUME NEW d \in Clusters, new[d] # FREE
        PROVE  \E g \in (heads \ {h}) \cup rest : d \in ChainIn(new, g)
    <3>1. d # h /\ fat[d] # FREE
      BY <1>1, <2>5
    <3>2. PICK g \in heads : d \in ChainIn(fat, g)
      BY <3>1 DEF WellFormed
    <3>3. CASE g # h
      BY <1>3, <3>2, <3>3
    <3>4. CASE g = h
      <4>1. fat[h] \in Clusters
        BY <1>1, <3>1, <3>2, <3>4, ChainEnd
      <4> QED
        BY <1>4, <3>1, <3>2, <3>4, <4>1 DEF Rest
    <3> QED
      BY <3>3, <3>4
  <2>6. (heads \ {h}) \cup rest \subseteq Clusters
    BY <1>4 DEF WellFormed
  <2> QED
    BY <1>1, <2>1, <2>2, <2>3, <2>4, <2>5, <2>6 DEF WellFormed
<1> QED
  BY <1>2, <1>3, <1>5

(***************************************************************************)
(* The invariant.                                                          *)
(***************************************************************************)

\* The call will end its chain at next_cluster.
Marks ==
  \/ pc \in {"allocate", "shrink", "terminate"}
  \/ pc = "reallocate" /\ extending

\* The tables with that mark.
Table  == IF Marks THEN Occupied ELSE FAT_ENTRIES
Owners == IF Marks THEN [DIR_ENTRIES EXCEPT ![next_cluster] = entry] ELSE DIR_ENTRIES

\* The entries that are in the tree and stay there.
Kept == {e \in InTree : ~(pc = "free" /\ e = entry)}

\* The first clusters of all chains: those of the entries, the new one, and what
\* is left of one that is being freed.
Heads ==
  {first_cluster[e] : e \in Kept}
    \cup (IF pc = "allocate" THEN {start} ELSE {})
    \cup (IF pc \in {"free", "shrink"} THEN {freed} ELSE {})

\* The locals of the call at each point of it.
CallInv ==
  /\ pc = "idle" => entry = NONE
  /\ extending => pc \in {"reallocate", "aborted"}
  /\ pc \in {"allocate", "reallocate", "shrink", "terminate"} =>
       entry \in Entries /\ start \in Clusters /\ next_cluster \in Clusters
  /\ pc = "allocate" => first_cluster[entry] = NONE
  /\ pc \in {"reallocate", "shrink", "terminate"} => first_cluster[entry] = start
  /\ pc = "free" => entry \in InTree
  /\ pc \in {"free", "shrink"} => freed \in Clusters
  /\ pc \in {"reallocate", "shrink", "terminate"} => DIR_ENTRIES[start] = entry

\* The marked table consists of chains, and each names its entry.
ChainInv ==
  /\ WellFormed(Table, Heads)
  /\ \A e \in Kept : \A c \in ChainIn(Table, first_cluster[e]) : Owners[c] = e
  /\ pc = "allocate" =>
       \A c \in ChainIn(Table, start) : Owners[c] = entry
  /\ pc \in {"free", "shrink"} => \A e \in Kept : freed # first_cluster[e]
  /\ pc \in {"allocate", "reallocate", "shrink", "terminate"} =>
       next_cluster \in ChainIn(Table, start)

Inv == TypeOK /\ CallInv /\ (pc # "aborted" => ChainInv)

\* The clusters of the chain that begins at cluster c.
Count(c) == Cardinality(ChainIn(Table, c))

\* The size leaves no room for one more cluster in a uint32_t: current_size wraps
\* before it is reached.
Unreachable == size[entry] + BYTES_PER_CLUSTER > UINT32

\* The chain of the call, and the clusters of it that it has passed.
Progress(passed) ==
  /\ current_size = passed * BYTES_PER_CLUSTER
  /\ passed <= ClustersFor(size[entry])
  /\ pc = "allocate" => Count(start) = passed
  /\ pc = "reallocate" /\ ~extending => Count(start) + 1 = passed + Count(next_cluster)
  /\ pc = "reallocate" /\ extending => Count(start) <= passed
  /\ pc \in {"shrink", "terminate"} =>
       Count(start) = passed /\ current_size >= size[entry]

\* current_size never gets to the size.
Endless ==
  /\ pc \in {"allocate", "reallocate"}
  /\ \E n \in Nat : current_size = n * BYTES_PER_CLUSTER
  /\ current_size + BYTES_PER_CLUSTER <= UINT32

\* The entries of which no call is running.
OthersFit ==
  \A e \in Kept : e # entry => Count(first_cluster[e]) <= ClustersFor(size[e])

SizeInv ==
  /\ OthersFit
  /\ pc \in {"allocate", "reallocate", "shrink", "terminate"} =>
       IF Unreachable THEN Endless ELSE \E passed \in Nat \ {0} : Progress(passed)

(***************************************************************************)
(* What the invariant says of the state.                                   *)
(***************************************************************************)

\* The first clusters of the entries are first clusters of chains, and different.
LEMMA KeptFacts ==
  ASSUME Inv, pc # "aborted"
  PROVE  /\ \A e \in Kept : /\ e \in Entries /\ first_cluster[e] \in Clusters
                            /\ first_cluster[e] \in Heads
         /\ \A e, g \in Kept : first_cluster[e] = first_cluster[g] => e = g
<1>1. ASSUME NEW e \in Kept
      PROVE  e \in Entries /\ first_cluster[e] \in Clusters /\ first_cluster[e] \in Heads
  BY DEF Kept, InTree, Inv, TypeOK, Heads
<1>2. ASSUME NEW e \in Kept, NEW g \in Kept, first_cluster[e] = first_cluster[g]
      PROVE  e = g
  <2>1. first_cluster[e] \in ChainIn(Table, first_cluster[e])
    BY <1>1, ChainType
  <2> QED
    BY <1>2, <2>1 DEF Inv, ChainInv
<1> QED
  BY <1>1, <1>2

\* The marked tables are tables.
LEMMA TablesType ==
  ASSUME Inv
  PROVE  /\ FAT_ENTRIES \in Tables
         /\ Marks /\ pc # "aborted" =>
              /\ next_cluster \in Clusters /\ entry \in Entries /\ start \in Clusters
              /\ Table = [FAT_ENTRIES EXCEPT ![next_cluster] = EOFC]
              /\ Table \in Tables
              /\ Table[next_cluster] = EOFC
              /\ \A c \in Clusters \ {next_cluster} : Table[c] = FAT_ENTRIES[c]
              /\ Owners = [DIR_ENTRIES EXCEPT ![next_cluster] = entry]
              /\ Owners[next_cluster] = entry
              /\ \A c \in Clusters \ {next_cluster} : Owners[c] = DIR_ENTRIES[c]
         /\ ~Marks => Table = FAT_ENTRIES /\ Owners = DIR_ENTRIES
<1>1. FAT_ENTRIES \in Tables
  BY DEF Inv, TypeOK, Tables
<1>2. ~Marks => Table = FAT_ENTRIES /\ Owners = DIR_ENTRIES
  BY DEF Table, Owners
<1>3. ASSUME Marks, pc # "aborted"
      PROVE  next_cluster \in Clusters /\ entry \in Entries /\ start \in Clusters
  BY <1>3 DEF Marks, Inv, CallInv
<1>4. ASSUME Marks, pc # "aborted"
      PROVE  /\ Table = [FAT_ENTRIES EXCEPT ![next_cluster] = EOFC]
             /\ Owners = [DIR_ENTRIES EXCEPT ![next_cluster] = entry]
  BY <1>4 DEF Table, Owners, Occupied
<1> QED
  BY <1>1, <1>2, <1>3, <1>4 DEF Inv, TypeOK, Tables

\* An action that leaves the marked tables and the chains as they are.
LEMMA TablesKept ==
  ASSUME Inv, pc # "aborted", TypeOK', CallInv',
         Table' = Table, Heads' = Heads, Owners' = Owners,
         \A e \in Kept' : (e \in Kept /\ first_cluster'[e] = first_cluster[e])
                            \/ (pc = "allocate" /\ e = entry /\ first_cluster'[e] = start),
         pc' # "allocate",
         pc' \in {"free", "shrink"} => \A e \in Kept' : freed' # first_cluster'[e],
         pc' \in {"reallocate", "shrink", "terminate"} =>
           next_cluster' \in ChainIn(Table, start')
  PROVE  Inv'
<1>1. WellFormed(Table', Heads')
  BY DEF Inv, ChainInv
<1>2. \A e \in Kept' : \A c \in ChainIn(Table', first_cluster'[e]) : Owners'[c] = e
  BY DEF Inv, ChainInv
<1>3. ChainInv'
  BY <1>1, <1>2 DEF ChainInv
<1> QED
  BY <1>3 DEF Inv

(***************************************************************************)
(* The steps.                                                              *)
(***************************************************************************)

\* The volume is in good order once it is initialised.
LEMMA InitInv == Init => Inv
<1> SUFFICES ASSUME Init PROVE Inv
  OBVIOUS
<1>1. TypeOK
  <2>1. 0 \in 0 .. UINT32 - 1 /\ ROOT_DIR_ENTRY \in Entries
    BY ConstantsAssumption
  <2>2. 2 \in Clusters
    BY ClustersFacts
  <2> QED
    BY <2>1, <2>2 DEF Init, TypeOK
<1>2. CallInv
  BY DEF Init, CallInv
<1>3. Table = FAT_ENTRIES /\ Owners = DIR_ENTRIES
  BY DEF Init, Table, Owners, Marks
<1>4. Kept = {ROOT_DIR_ENTRY} /\ Heads = {2}
  <2>1. Kept = {ROOT_DIR_ENTRY}
    BY ClustersFacts, ConstantsAssumption DEF Init, Kept, InTree
  <2> QED
    BY <2>1, ConstantsAssumption DEF Init, Heads
<1>5. ChainIn(FAT_ENTRIES, 2) = {2}
  BY ClustersFacts, ChainEnd DEF Init
<1>6. WellFormed(FAT_ENTRIES, {2})
  BY <1>5, ClustersFacts DEF WellFormed, Tables, Init
<1>7. ChainInv
  BY <1>3, <1>4, <1>5, <1>6, ClustersFacts, ConstantsAssumption DEF ChainInv, Init
<1> QED
  BY <1>1, <1>2, <1>7 DEF Inv

\* The first cluster of a new chain is found.
LEMMA AllocateInv ==
  ASSUME Inv, NEW e \in Entries, NEW bytes \in 0 .. UINT32 - 1, Allocate(e, bytes)
  PROVE  Inv' /\ \A h \in Heads : ChainIn(Table', h) = ChainIn(Table, h)
<1>1. pc = "idle" /\ first_cluster[e] = NONE /\ pc' = "allocate" /\ ~extending
  BY DEF Allocate, Inv, CallInv
<1>2. PICK c \in Clusters :
        /\ FAT_ENTRIES[c] = FREE
        /\ LAST_FREE_ENTRY' = c /\ start' = c /\ next_cluster' = c
  BY DEF Allocate, IsNextFree
<1>3. TypeOK'
  BY <1>2, ConstantsAssumption DEF Allocate, Inv, TypeOK
<1>4. CallInv'
  BY <1>1, <1>2 DEF Allocate, CallInv
<1>5. Table = FAT_ENTRIES /\ Owners = DIR_ENTRIES
  BY <1>1 DEF Table, Owners, Marks
<1>6. Table' = [Table EXCEPT ![c] = EOFC] /\ Owners' = [Owners EXCEPT ![c] = e]
  BY <1>1, <1>2, <1>5 DEF Allocate, Table, Owners, Marks, Occupied
<1>7. Kept' = Kept /\ Heads' = Heads \cup {c}
  BY <1>1, <1>2 DEF Allocate, Kept, InTree, Heads
<1>8. WellFormed(Table, Heads)
  BY <1>1 DEF Inv, ChainInv
<1>9. /\ WellFormed(Table', Heads')
      /\ ChainIn(Table', c) = {c}
      /\ \A h \in Heads : ChainIn(Table', h) = ChainIn(Table, h)
  <2>1. Table[c] = FREE
    BY <1>2, <1>5
  <2>2. /\ Table' \in Tables /\ Table'[c] = EOFC
        /\ \A d \in Clusters \ {c} : Table'[d] = Table[d]
    BY <1>6, <1>8 DEF WellFormed, Tables
  <2>3. /\ WellFormed(Table', Heads \cup {c})
        /\ ChainIn(Table', c) = {c}
        /\ \A h \in Heads : ChainIn(Table', h) = ChainIn(Table, h)
    BY <1>8, <2>1, <2>2, HeadAdded
  <2> QED
    BY <1>7, <2>3
<1>10. ASSUME NEW g \in Kept', NEW d \in ChainIn(Table', first_cluster'[g])
       PROVE  Owners'[d] = g
  <2>1. g \in Kept /\ first_cluster'[g] = first_cluster[g]
        /\ first_cluster[g] \in Heads /\ first_cluster[g] \in Clusters
    BY <1>1, <1>7, KeptFacts DEF Allocate
  <2>2. d \in ChainIn(Table, first_cluster[g])
    BY <1>9, <2>1
  <2>3. Table[d] # FREE /\ d \in Clusters
    BY <1>8, <2>1, <2>2, ChainUsed, ChainType
  <2>4. d # c
    BY <1>2, <1>5, <2>3
  <2>5. Owners[d] = g
    BY <1>1, <2>1, <2>2 DEF Inv, ChainInv
  <2> QED
    BY <1>5, <1>6, <2>3, <2>4, <2>5 DEF Inv, TypeOK
<1>11. Owners'[c] = e /\ entry' = e
  BY <1>5, <1>6 DEF Allocate, Inv, TypeOK
<1>12. ChainInv'
  BY <1>1, <1>2, <1>9, <1>10, <1>11 DEF ChainInv
<1> QED
  BY <1>3, <1>4, <1>9, <1>12 DEF Inv

\* A call to reallocate_cluster_chain begins at the first cluster of the chain.
LEMMA ReallocateInv ==
  ASSUME Inv, NEW e \in Entries, NEW bytes \in 0 .. UINT32 - 1, Reallocate(e, bytes)
  PROVE  Inv'
<1>1. pc = "idle" /\ pc' = "reallocate" /\ ~extending /\ ~extending'
  BY DEF Reallocate, Inv, CallInv
<1>2. e \in Kept /\ first_cluster[e] \in Clusters
  BY <1>1 DEF Reallocate, Kept, InTree, Inv, TypeOK
<1>3. TypeOK'
  BY <1>2, ConstantsAssumption DEF Reallocate, Inv, TypeOK, tableVars
<1>4. CallInv'
  <2>1. Owners[first_cluster[e]] = e /\ Owners = DIR_ENTRIES
    BY <1>1, <1>2, ChainType DEF Inv, ChainInv, Owners, Marks
  <2> QED
    BY <1>1, <1>2, <2>1 DEF Reallocate, CallInv, tableVars
<1>5. Table' = Table /\ Owners' = Owners
  BY <1>1 DEF Reallocate, Table, Owners, Marks, tableVars
<1>6. Kept' = Kept /\ Heads' = Heads
  BY <1>1 DEF Reallocate, Kept, InTree, Heads
<1>7. next_cluster' \in ChainIn(Table', start')
  BY <1>2, ChainType DEF Reallocate
<1> QED
  BY <1>1, <1>3, <1>4, <1>5, <1>6, <1>7, TablesKept DEF Reallocate

\* The cluster that a call links to its chain: it was free, or it is the one that
\* extending has found before and not marked, and then the marked tables stay.
LEMMA LinkTables ==
  ASSUME Inv, AllocateNext \/ Extend
  PROVE  /\ pc \in {"allocate", "reallocate"} /\ pc' = pc
         /\ Table[next_cluster] = EOFC
         /\ next_cluster' \in Clusters
         /\ Owners' = [Owners EXCEPT ![next_cluster'] = entry]
         /\ \/ /\ pc = "reallocate" /\ extending /\ next_cluster' = next_cluster
               /\ Table' = Table /\ Owners' = Owners
            \/ /\ Table[next_cluster'] = FREE
               /\ Table' \in Tables
               /\ Table'[next_cluster] = next_cluster'
               /\ Table'[next_cluster'] = EOFC
               /\ \A d \in Clusters \ {next_cluster', next_cluster} : Table'[d] = Table[d]
<1> DEFINE x == next_cluster
<1>1. /\ pc \in {"allocate", "reallocate"} /\ pc' = pc /\ pc # "aborted"
      /\ entry' = entry /\ start' = start
      /\ x \in Clusters /\ start \in Clusters /\ entry \in Entries
  BY DEF AllocateNext, Extend, Inv, CallInv
<1>2. Marks' /\ (Marks \/ (pc = "reallocate" /\ ~extending /\ Extend))
  BY <1>1 DEF AllocateNext, Extend, Marks
<1>3. FAT_ENTRIES \in Tables
  BY TablesType
<1>4. Table[x] = EOFC /\ Owners[x] = entry
      /\ \A d \in Clusters \ {x} : Table[d] = FAT_ENTRIES[d]
  <2>1. CASE Marks
    BY <1>1, <2>1, TablesType
  <2>2. CASE ~Marks
    <3>1. FAT_ENTRIES[x] = EOFC /\ first_cluster[entry] = start /\ pc = "reallocate"
      BY <1>2, <2>2 DEF Extend, AtEnd, Inv, CallInv, Marks
    <3>2. entry \in Kept
      BY <1>1, <3>1, ClustersFacts DEF Kept, InTree
    <3>3. x \in ChainIn(Table, first_cluster[entry])
      BY <1>1, <3>1 DEF Inv, ChainInv
    <3>4. Owners[x] = entry
      BY <1>1, <3>2, <3>3 DEF Inv, ChainInv
    <3> QED
      BY <2>2, <3>1, <3>4, TablesType
  <2> QED
    BY <2>1, <2>2
<1>5. DIR_ENTRIES' = [Owners EXCEPT ![x] = entry]
  <2>1. CASE AllocateNext
    BY <2>1 DEF AllocateNext, LinkNext, Owners, Marks, Inv, TypeOK
  <2>2. CASE Extend
    <3>1. DIR_ENTRIES[start] = entry
      BY <2>2 DEF Extend, Inv, CallInv
    <3>2. DIR_ENTRIES' = [DIR_ENTRIES EXCEPT ![x] = entry]
      BY <2>2, <3>1 DEF Extend, LinkNext
    <3> QED
      BY <1>1, <1>4, <3>2 DEF Owners, Inv, TypeOK
  <2> QED
    BY <2>1, <2>2
<1>6. PICK c \in Clusters :
        /\ next_cluster' = c
        /\ \/ /\ AllocateNext
              /\ Occupied[c] = FREE /\ FAT_ENTRIES' = [Occupied EXCEPT ![x] = c]
           \/ /\ Extend
              /\ FAT_ENTRIES[c] = FREE /\ FAT_ENTRIES' = [FAT_ENTRIES EXCEPT ![x] = c]
  BY DEF AllocateNext, Extend, LinkNext, IsNextFree
<1>7. Owners' = [Owners EXCEPT ![c] = entry]
  <2>1. Owners \in [Clusters -> Entries \cup {NONE}]
    BY <1>1 DEF Owners, Inv, TypeOK
  <2>2. Owners' = [DIR_ENTRIES' EXCEPT ![c] = entry]
    BY <1>1, <1>2, <1>6 DEF Owners
  <2>3. DIR_ENTRIES' = Owners
    BY <1>4, <1>5, <2>1
  <2> QED
    BY <2>2, <2>3
<1>8. Table' = [FAT_ENTRIES' EXCEPT ![c] = EOFC]
  BY <1>2, <1>6 DEF Table, Occupied
<1>9. \A d \in Clusters : Occupied[d] = FREE => d # x /\ FAT_ENTRIES[d] = FREE
  BY <1>1, <1>3, ClustersFacts DEF Occupied, Tables
<1>10. /\ FAT_ENTRIES'[x] = c
       /\ \A d \in Clusters \ {x} : FAT_ENTRIES'[d] = FAT_ENTRIES[d]
       /\ FAT_ENTRIES' \in Tables
  BY <1>1, <1>3, <1>6 DEF Occupied, Tables
<1>11. CASE c # x
  <2>1. Table[c] = FREE
    BY <1>4, <1>6, <1>9, <1>11
  <2>2. Table'[x] = c /\ Table'[c] = EOFC /\ Table' \in Tables
        /\ \A d \in Clusters \ {c, x} : Table'[d] = Table[d]
    BY <1>1, <1>4, <1>8, <1>10, <1>11 DEF Tables
  <2> QED
    BY <1>1, <1>4, <1>6, <1>7, <2>1, <2>2
<1>12. CASE c = x
  <2>1. Extend /\ FAT_ENTRIES[x] = FREE
    BY <1>6, <1>9, <1>12
  <2>2. extending /\ pc = "reallocate" /\ Marks
    BY <2>1, <1>2, ClustersFacts DEF Extend, AtEnd, Marks
  <2>3. Table' = Table
    <3>1. Table = [FAT_ENTRIES EXCEPT ![x] = EOFC]
      BY <1>1, <2>2, TablesType
    <3> QED
      BY <1>3, <1>8, <1>6, <1>12, <2>1, <3>1, <1>10 DEF Tables
  <2>4. Owners' = Owners
    BY <1>1, <1>4, <1>7, <1>12 DEF Owners, Inv, TypeOK
  <2> QED
    BY <1>1, <1>4, <1>6, <1>7, <1>12, <2>2, <2>3, <2>4
<1> QED
  BY <1>11, <1>12

\* How linking a cluster changes the chains: only that of the call grows.
LEMMA LinkChains ==
  ASSUME Inv, AllocateNext \/ Extend
  PROVE  /\ Kept' = Kept /\ Heads' = Heads
         /\ start' = start /\ start \in Heads /\ entry' = entry
         /\ WellFormed(Table', Heads')
         /\ next_cluster \in ChainIn(Table, start)
         /\ \A h \in Heads :
              ChainIn(Table', h) =
                IF next_cluster \in ChainIn(Table, h)
                THEN ChainIn(Table, h) \cup {next_cluster'} ELSE ChainIn(Table, h)
<1>1. /\ pc \in {"allocate", "reallocate"} /\ pc' = pc /\ pc # "aborted"
      /\ entry' = entry /\ start' = start /\ first_cluster' = first_cluster
      /\ next_cluster \in Clusters /\ start \in Clusters /\ entry \in Entries
  BY DEF AllocateNext, Extend, Inv, CallInv, entryVars
<1>2. Kept' = Kept /\ Heads' = Heads
  BY <1>1 DEF Kept, InTree, Heads
<1>3. start \in Heads
  <2>1. CASE pc = "allocate"
    BY <2>1 DEF Heads
  <2>2. CASE pc = "reallocate"
    <3>1. first_cluster[entry] = start /\ entry \in Kept
      BY <1>1, <2>2, ClustersFacts DEF Inv, CallInv, Kept, InTree
    <3> QED
      BY <1>1, <3>1, KeptFacts
  <2> QED
    BY <1>1, <2>1, <2>2
<1>4. WellFormed(Table, Heads) /\ next_cluster \in ChainIn(Table, start)
  BY <1>1 DEF Inv, ChainInv
<1>5. CASE Table' = Table /\ next_cluster' = next_cluster
  BY <1>1, <1>2, <1>3, <1>4, <1>5
<1>6. CASE ~(Table' = Table /\ next_cluster' = next_cluster)
  <2>1. /\ Table[next_cluster] = EOFC
        /\ next_cluster' \in Clusters /\ Table[next_cluster'] = FREE
        /\ Table' \in Tables
        /\ Table'[next_cluster] = next_cluster'
        /\ Table'[next_cluster'] = EOFC
        /\ \A d \in Clusters \ {next_cluster', next_cluster} : Table'[d] = Table[d]
    BY <1>6, LinkTables
  <2> QED
    BY <1>1, <1>2, <1>3, <1>4, <2>1, ChainExtended
<1> QED
  BY <1>5, <1>6

\* Linking one more cluster.
LEMMA LinkInv ==
  ASSUME Inv, AllocateNext \/ Extend
  PROVE  Inv'
<1> DEFINE x == next_cluster
           c == next_cluster'
<1>1. /\ pc \in {"allocate", "reallocate"} /\ pc' = pc /\ pc # "aborted"
      /\ first_cluster' = first_cluster /\ size' = size
      /\ entry' = entry /\ start' = start /\ freed' = freed
      /\ start \in Clusters /\ entry \in Entries /\ x \in Clusters
  BY DEF AllocateNext, Extend, Inv, CallInv, entryVars
<1>2. c \in Clusters
  BY LinkTables
<1>3. TypeOK'
  <2>1. extending' \in BOOLEAN
    BY DEF AllocateNext, Extend, Inv, TypeOK
  <2>2. LAST_FREE_ENTRY' \in Clusters
    BY DEF AllocateNext, Extend, LinkNext
  <2>3. current_size' \in Nat
    BY ConstantsAssumption DEF AllocateNext, Extend, LinkNext, Grown, Inv, TypeOK
  <2>4. DIR_ENTRIES' \in [Clusters -> Entries \cup {NONE}]
    BY <1>1 DEF AllocateNext, Extend, LinkNext, Inv, TypeOK
  <2>5. FAT_ENTRIES' \in [Clusters -> Clusters \cup {FREE, EOFC}]
    BY <1>1 DEF AllocateNext, Extend, LinkNext, Occupied, Inv, TypeOK
  <2> QED
    BY <1>1, <1>2, <2>1, <2>2, <2>3, <2>4, <2>5 DEF Inv, TypeOK
<1>4. /\ Kept' = Kept /\ Heads' = Heads /\ start \in Heads
      /\ WellFormed(Table, Heads) /\ WellFormed(Table', Heads')
      /\ x \in ChainIn(Table, start)
      /\ \A h \in Heads :
           ChainIn(Table', h) = IF x \in ChainIn(Table, h)
                                THEN ChainIn(Table, h) \cup {c} ELSE ChainIn(Table, h)
  BY <1>1, LinkChains DEF Inv, ChainInv
<1>5. c = x \/ Table[c] = FREE
  BY LinkTables
<1>7. CallInv'
  <2>1. pc = "reallocate" => DIR_ENTRIES'[start] = entry
    BY <1>1 DEF AllocateNext, Extend, LinkNext, Inv, CallInv, TypeOK
  <2>2. extending' => pc = "reallocate"
    BY DEF AllocateNext, Extend, Inv, CallInv
  <2> QED
    BY <1>1, <1>2, <2>1, <2>2 DEF Inv, CallInv, InTree
<1>8. Owners' = [Owners EXCEPT ![c] = entry] /\ Owners \in [Clusters -> Entries \cup {NONE}]
  BY <1>1, LinkTables DEF Owners, Inv, TypeOK
<1>9. ASSUME NEW g \in Kept, NEW d \in ChainIn(Table', first_cluster[g])
      PROVE  Owners'[d] = g
  <2>1. first_cluster[g] \in Heads /\ first_cluster[g] \in Clusters
    BY <1>1, KeptFacts
  <2>2. x \in ChainIn(Table, first_cluster[g]) => first_cluster[g] = start
    BY <1>4, <2>1, ChainsDisjoint
  <2>3. first_cluster[g] = start => g = entry
    <3>1. pc = "allocate" => Owners[start] = entry
      BY <1>1, ChainType DEF Inv, ChainInv
    <3>2. first_cluster[g] = start => Owners[start] = g
      BY <1>1, <2>1, ChainType DEF Inv, ChainInv
    <3>3. pc = "reallocate" => entry \in Kept /\ first_cluster[entry] = start
      BY <1>1, ClustersFacts DEF Inv, CallInv, Kept, InTree
    <3> QED
      BY <1>1, <3>1, <3>2, <3>3, KeptFacts
  <2>4. CASE d = c /\ x \in ChainIn(Table, first_cluster[g])
    BY <1>2, <1>8, <2>2, <2>3, <2>4
  <2>5. CASE ~(d = c /\ x \in ChainIn(Table, first_cluster[g]))
    <3>1. d \in ChainIn(Table, first_cluster[g])
      BY <1>4, <2>1, <2>5
    <3>2. Owners[d] = g /\ Table[d] # FREE /\ d \in Clusters
      BY <1>1, <1>4, <2>1, <3>1, ChainUsed, ChainType DEF Inv, ChainInv
    <3>3. d # c
      BY <1>5, <2>5, <3>1, <3>2
    <3> QED
      BY <1>8, <3>2, <3>3
  <2> QED
    BY <2>4, <2>5
<1>10. ASSUME pc = "allocate", NEW d \in ChainIn(Table', start)
       PROVE  Owners'[d] = entry
  <2>1. d = c \/ d \in ChainIn(Table, start)
    BY <1>4
  <2>2. d \in ChainIn(Table, start) => Owners[d] = entry /\ d \in Clusters
    BY <1>1, <1>10, ChainType DEF Inv, ChainInv
  <2> QED
    BY <1>2, <1>8, <2>1, <2>2
<1>11. c \in ChainIn(Table', start)
  BY <1>4
<1>12. ChainInv'
  BY <1>1, <1>4, <1>9, <1>10, <1>11 DEF ChainInv
<1> QED
  BY <1>3, <1>7, <1>12 DEF Inv

\* A new chain is complete, and its entry in the tree.
LEMMA AllocateEndInv ==
  ASSUME Inv, AllocateEnd
  PROVE  Inv'
<1>1. /\ pc = "allocate" /\ pc' = "idle" /\ ~extending'
      /\ first_cluster' = [first_cluster EXCEPT ![entry] = start]
      /\ start \in Clusters /\ entry \in Entries /\ next_cluster \in Clusters
      /\ first_cluster[entry] = NONE
  BY DEF AllocateEnd, Returned, Inv, CallInv
<1>2. TypeOK'
  BY <1>1 DEF AllocateEnd, Returned, Occupied, Inv, TypeOK
<1>3. CallInv'
  BY <1>1 DEF AllocateEnd, Returned, CallInv
<1>4. Table' = Table /\ Owners' = Owners
  BY <1>1 DEF AllocateEnd, Table, Owners, Marks
<1>5. Kept' = Kept \cup {entry}
  BY <1>1, ClustersFacts DEF Kept, InTree, Inv, TypeOK
<1>6. \A e \in Kept : first_cluster'[e] = first_cluster[e]
  BY <1>1 DEF Kept, InTree, Inv, TypeOK
<1>7. first_cluster'[entry] = start
  BY <1>1 DEF Inv, TypeOK
<1>8. Heads' = Heads
  <2>1. Heads = {first_cluster[e] : e \in Kept} \cup {start}
    BY <1>1 DEF Heads
  <2>2. Heads' = {first_cluster'[e] : e \in Kept'}
    BY <1>1 DEF Heads
  <2> QED
    BY <1>5, <1>6, <1>7, <2>1, <2>2
<1>9. \A e \in Kept' : (e \in Kept /\ first_cluster'[e] = first_cluster[e])
                         \/ (pc = "allocate" /\ e = entry /\ first_cluster'[e] = start)
  BY <1>1, <1>5, <1>6, <1>7
<1> QED
  BY <1>1, <1>2, <1>3, <1>4, <1>8, <1>9, TablesKept

\* One more cluster of the old chain is passed.
LEMMA WalkInv ==
  ASSUME Inv, Walk
  PROVE  /\ Inv'
         /\ next_cluster' = Table[next_cluster] /\ Table' = Table /\ Kept' = Kept
<1>1. /\ pc = "reallocate" /\ pc' = pc /\ ~extending /\ extending' = extending
      /\ next_cluster' = FAT_ENTRIES[next_cluster] /\ FAT_ENTRIES[next_cluster] # EOFC
      /\ entry' = entry /\ start' = start /\ freed' = freed
      /\ FAT_ENTRIES' = FAT_ENTRIES /\ DIR_ENTRIES' = DIR_ENTRIES
      /\ LAST_FREE_ENTRY' = LAST_FREE_ENTRY
      /\ first_cluster' = first_cluster /\ size' = size
      /\ start \in Clusters /\ entry \in Entries /\ next_cluster \in Clusters
  BY DEF Walk, AtEnd, Follow, tableVars, entryVars, Inv, CallInv
<1>2. Table = FAT_ENTRIES /\ Table' = Table /\ Owners' = Owners
  BY <1>1 DEF Table, Owners, Marks
<1>3. Kept' = Kept /\ Heads' = Heads
  BY <1>1 DEF Kept, InTree, Heads
<1>4. start \in Heads /\ WellFormed(Table, Heads)
      /\ next_cluster \in ChainIn(Table, start)
  <2>1. first_cluster[entry] = start /\ entry \in Kept
    BY <1>1, ClustersFacts DEF Inv, CallInv, Kept, InTree
  <2> QED
    BY <1>1, <2>1, KeptFacts DEF Inv, ChainInv
<1>5. next_cluster' \in ChainIn(Table, start)
  <2>1. FAT_ENTRIES[next_cluster] # FREE
    BY <1>2, <1>4, ChainUsed
  <2>2. FAT_ENTRIES[next_cluster] \in Clusters
    BY <1>1, <2>1 DEF Inv, TypeOK
  <2> QED
    BY <1>1, <1>2, <1>4, <2>2, ChainClosed DEF IsClosed
<1>6. TypeOK'
  <2>1. current_size' \in Nat
    BY ConstantsAssumption DEF Walk, Follow, Grown, Inv, TypeOK
  <2>2. next_cluster' \in Clusters
    BY <1>1, <1>5, ChainType
  <2> QED
    BY <1>1, <2>1, <2>2 DEF Inv, TypeOK
<1>7. CallInv'
  BY <1>1, <1>5, ChainType DEF Inv, CallInv
<1> QED
  BY <1>1, <1>2, <1>3, <1>5, <1>6, <1>7, TablesKept

\* The chain is cut behind next_cluster.
LEMMA ShrinkInv ==
  ASSUME Inv, Shrink
  PROVE  /\ Inv'
         /\ Kept' = Kept /\ start \in Heads /\ start' = start
         /\ freed' = Table[next_cluster] /\ freed' \in Clusters
         /\ next_cluster \in ChainIn(Table, start)
         /\ \A h \in Heads :
              ChainIn(Table', h) = IF next_cluster \in ChainIn(Table, h)
                                   THEN ChainIn(Table, h) \ ChainIn(Table, freed')
                                   ELSE ChainIn(Table, h)
<1> DEFINE x == next_cluster
<1>1. /\ pc = "reallocate" /\ pc' = "shrink" /\ ~extending /\ extending' = extending
      /\ freed' = FAT_ENTRIES[x] /\ FAT_ENTRIES[x] # EOFC
      /\ entry' = entry /\ start' = start /\ x' = x /\ current_size' = current_size
      /\ FAT_ENTRIES' = FAT_ENTRIES /\ DIR_ENTRIES' = DIR_ENTRIES
      /\ LAST_FREE_ENTRY' = LAST_FREE_ENTRY
      /\ first_cluster' = first_cluster /\ size' = size
      /\ start \in Clusters /\ entry \in Entries /\ x \in Clusters
  BY DEF Shrink, AtEnd, tableVars, entryVars, Inv, CallInv
<1>2. Table = FAT_ENTRIES /\ Owners = DIR_ENTRIES
      /\ Table' = [FAT_ENTRIES EXCEPT ![x] = EOFC]
      /\ Owners' = [DIR_ENTRIES EXCEPT ![x] = entry]
  BY <1>1 DEF Table, Owners, Marks, Occupied
<1>3. Kept' = Kept /\ Heads' = Heads \cup {freed'}
  BY <1>1 DEF Kept, InTree, Heads
<1>4. start \in Heads /\ WellFormed(Table, Heads) /\ x \in ChainIn(Table, start)
      /\ entry \in Kept /\ first_cluster[entry] = start
  <2>1. first_cluster[entry] = start /\ entry \in Kept
    BY <1>1, ClustersFacts DEF Inv, CallInv, Kept, InTree
  <2> QED
    BY <1>1, <2>1, KeptFacts DEF Inv, ChainInv
<1>5. Table[x] \in Clusters
  <2>1. Table[x] # FREE
    BY <1>4, ChainUsed
  <2> QED
    BY <1>1, <1>2, <2>1 DEF Inv, TypeOK
<1>6. /\ freed' = Table[x]
      /\ freed' \notin Heads
      /\ WellFormed(Table', Heads')
      /\ \A h \in Heads :
           ChainIn(Table', h) = IF x \in ChainIn(Table, h)
                                THEN ChainIn(Table, h) \ ChainIn(Table, Table[x])
                                ELSE ChainIn(Table, h)
  <2>1. /\ Table' \in Tables /\ Table'[x] = EOFC
        /\ \A d \in Clusters \ {x} : Table'[d] = Table[d]
    BY <1>1, <1>2 DEF Inv, TypeOK, Tables
  <2>2. /\ Table[x] \notin Heads
        /\ WellFormed(Table', Heads \cup {Table[x]})
        /\ \A h \in Heads :
             ChainIn(Table', h) = IF x \in ChainIn(Table, h)
                                  THEN ChainIn(Table, h) \ ChainIn(Table, Table[x])
                                  ELSE ChainIn(Table, h)
    BY <1>1, <1>4, <1>5, <2>1, ChainCut
  <2> QED
    BY <1>1, <1>2, <1>3, <2>2
<1>7. Owners' = Owners
  <2>1. Owners[x] = entry
    BY <1>1, <1>4 DEF Inv, ChainInv
  <2> QED
    BY <1>1, <1>2, <2>1 DEF Inv, TypeOK
<1>8. TypeOK'
  BY <1>1, <1>5, <1>6 DEF Inv, TypeOK
<1>9. CallInv'
  BY <1>1, <1>5, <1>6 DEF Inv, CallInv
<1>10. ASSUME NEW g \in Kept, NEW d \in ChainIn(Table', first_cluster[g])
       PROVE  Owners[d] = g
  <2>1. first_cluster[g] \in Heads
    BY <1>1, KeptFacts
  <2>2. d \in ChainIn(Table, first_cluster[g])
    BY <1>6, <2>1
  <2> QED
    BY <1>1, <2>2 DEF Inv, ChainInv
<1>11. x \in ChainIn(Table', start)
  <2>1. x \notin ChainIn(Table, Table[x])
    BY <1>4, <1>5, ChainAcyclic
  <2> QED
    BY <1>4, <1>6, <2>1
<1>12. \A g \in Kept : freed' # first_cluster[g]
  BY <1>1, <1>6, KeptFacts
<1>13. ChainInv'
  BY <1>1, <1>3, <1>6, <1>7, <1>10, <1>11, <1>12 DEF ChainInv
<1> QED
  BY <1>1, <1>3, <1>4, <1>5, <1>6, <1>8, <1>9, <1>13 DEF Inv

\* The chain that reallocate_cluster_chain leaves is marked, and the call returns.
LEMMA TerminateInv ==
  ASSUME Inv, Terminate
  PROVE  Inv' /\ Table' = Table /\ Kept' = Kept
<1> DEFINE x == next_cluster
<1>1. /\ pc \in {"reallocate", "terminate"} /\ pc' = "idle" /\ ~extending'
      /\ FAT_ENTRIES' = Occupied
      /\ DIR_ENTRIES' = [DIR_ENTRIES EXCEPT ![x] = entry]
      /\ LAST_FREE_ENTRY' = LAST_FREE_ENTRY
      /\ first_cluster' = first_cluster /\ size' = size
      /\ start \in Clusters /\ entry \in Entries /\ x \in Clusters
  BY DEF Terminate, Ends, Returned, entryVars, Inv, CallInv
<1>2. TypeOK'
  BY <1>1 DEF Terminate, Returned, Occupied, Inv, TypeOK
<1>3. CallInv'
  BY <1>1 DEF Terminate, Returned, CallInv
<1>4. Table' = Occupied /\ Owners' = DIR_ENTRIES'
  BY <1>1 DEF Table, Owners, Marks
<1>5. Table' = Table /\ Owners' = Owners
  <2>1. CASE Marks
    BY <1>1, <1>4, <2>1 DEF Table, Owners
  <2>2. CASE ~Marks
    <3>1. pc = "reallocate" /\ FAT_ENTRIES[x] = EOFC
      BY <1>1, <2>2 DEF Terminate, Ends, Marks, AtEnd
    <3>2. Table = FAT_ENTRIES /\ Owners = DIR_ENTRIES
      BY <2>2 DEF Table, Owners
    <3>3. entry \in Kept /\ first_cluster[entry] = start
      BY <1>1, <3>1, ClustersFacts DEF Inv, CallInv, Kept, InTree
    <3>4. Owners[x] = entry
      BY <3>1, <3>3 DEF Inv, ChainInv
    <3> QED
      BY <1>1, <1>4, <3>1, <3>2, <3>4 DEF Occupied, Inv, TypeOK
  <2> QED
    BY <2>1, <2>2
<1>6. Kept' = Kept /\ Heads' = Heads
  BY <1>1 DEF Kept, InTree, Heads
<1> QED
  BY <1>1, <1>2, <1>3, <1>5, <1>6, TablesKept

\* The chain of an entry that is removed has still to be freed.
LEMMA FreeInv ==
  ASSUME Inv, NEW e \in Entries, Free(e)
  PROVE  Inv' /\ Table' = Table /\ Kept' = Kept \ {e}
<1>1. /\ pc = "idle" /\ pc' = "free" /\ ~extending /\ ~extending'
      /\ entry' = e /\ freed' = first_cluster[e]
      /\ first_cluster' = first_cluster
      /\ e \in Kept /\ first_cluster[e] \in Clusters
  BY DEF Free, Inv, CallInv, Kept, InTree, TypeOK, entryVars
<1>2. TypeOK'
  BY <1>1 DEF Free, tableVars, entryVars, Inv, TypeOK
<1>3. CallInv'
  BY <1>1 DEF CallInv, Kept, InTree
<1>4. Table' = Table /\ Owners' = Owners
  BY <1>1 DEF Free, tableVars, Table, Owners, Marks
<1>5. Kept' = Kept \ {e}
  BY <1>1 DEF Kept, InTree
<1>6. Heads' = Heads
  BY <1>1, <1>5 DEF Heads
<1>7. \A g \in Kept' : freed' # first_cluster'[g]
  BY <1>1, <1>5, KeptFacts
<1>8. \A g \in Kept' : g \in Kept /\ first_cluster'[g] = first_cluster[g]
  BY <1>1, <1>5
<1> QED
  BY <1>1, <1>2, <1>3, <1>4, <1>5, <1>6, <1>7, <1>8, TablesKept

\* A cluster is freed: every chain that is not being freed stays as it is.
LEMMA FreedInv ==
  ASSUME Inv, FreeNext \/ FreeLast
  PROVE  /\ Inv' /\ Kept' = Kept
         /\ \A e \in Kept : /\ first_cluster'[e] = first_cluster[e]
                            /\ ChainIn(Table', first_cluster[e]) =
                                 ChainIn(Table, first_cluster[e])
<1> DEFINE old  == {first_cluster[e] : e \in Kept}
           rest == Rest(Table, freed)
<1>1. /\ pc \in {"free", "shrink"} /\ freed \in Clusters
      /\ pc' = pc \/ (pc = "shrink" /\ pc' = "terminate") \/ (pc = "free" /\ pc' = "idle")
      /\ FAT_ENTRIES' = [FAT_ENTRIES EXCEPT ![freed] = FREE]
      /\ DIR_ENTRIES' = DIR_ENTRIES /\ LAST_FREE_ENTRY' = LAST_FREE_ENTRY
      /\ FAT_ENTRIES \in Tables
      /\ entry \in Entries /\ ~extending /\ ~extending'
  BY DEF FreeNext, FreeLast, Returned, Inv, CallInv, TypeOK, InTree, Tables
<1>2. pc = "shrink" => /\ next_cluster \in Clusters /\ start \in Clusters
                       /\ next_cluster' = next_cluster /\ entry' = entry
                       /\ start' = start /\ first_cluster' = first_cluster
                       /\ size' = size /\ current_size' = current_size
                       /\ entry \in Kept /\ first_cluster[entry] = start
                       /\ DIR_ENTRIES[start] = entry
  BY <1>1, ClustersFacts
  DEF FreeNext, FreeLast, Returned, entryVars, Inv, CallInv, Kept, InTree
<1>3. pc' = "free" => /\ first_cluster' = first_cluster /\ entry' = entry
                      /\ entry \in InTree
  BY <1>1 DEF FreeNext, FreeLast, Returned, entryVars, Inv, CallInv
<1>4. pc' = "idle" => /\ first_cluster' = [first_cluster EXCEPT ![entry] = NONE]
                      /\ entry' = NONE
  BY <1>1 DEF FreeNext, FreeLast, Returned
<1>5. pc' \in {"free", "shrink"} => FreeNext /\ freed' = FAT_ENTRIES[freed]
  BY <1>1 DEF FreeNext, FreeLast, Returned
<1>6. pc' \in {"idle", "terminate"} => FreeLast /\ FAT_ENTRIES[freed] = EOFC
  BY <1>1 DEF FreeNext, FreeLast, Returned
<1>7. Kept' = Kept /\ \A e \in Kept : first_cluster'[e] = first_cluster[e]
  BY <1>1, <1>2, <1>3, <1>4 DEF Kept, InTree, Inv, TypeOK
<1>8. /\ Heads = old \cup {freed} /\ freed \notin old
      /\ WellFormed(Table, Heads)
      /\ Heads' = old \cup (IF pc' \in {"free", "shrink"} THEN {freed'} ELSE {})
  <2>1. Heads = old \cup {freed} /\ freed \notin old /\ WellFormed(Table, Heads)
    BY <1>1 DEF Heads, Inv, ChainInv
  <2>2. Heads' = {first_cluster'[e] : e \in Kept'}
                   \cup (IF pc' \in {"free", "shrink"} THEN {freed'} ELSE {})
    BY <1>1 DEF Heads
  <2> QED
    BY <1>7, <2>1, <2>2
<1>9. pc = "shrink" => freed # next_cluster
  <2> SUFFICES ASSUME pc = "shrink" PROVE freed # next_cluster
    OBVIOUS
  <2>1. start \in Heads /\ start # freed /\ next_cluster \in ChainIn(Table, start)
    BY <1>2, <1>8 DEF Inv, ChainInv
  <2>2. freed \in ChainIn(Table, freed)
    BY <1>1, ChainType
  <2> QED
    BY <1>8, <2>1, <2>2, ChainsDisjoint
<1>10. Table[freed] = FAT_ENTRIES[freed] /\ Table \in Tables
  BY <1>1, <1>2, <1>9 DEF Table, Marks, Occupied, Tables
<1>11. Table' = [Table EXCEPT ![freed] = FREE] /\ Owners' = Owners
  BY <1>1, <1>2, <1>9 DEF Table, Owners, Marks, Occupied, Tables
<1>12. Table[freed] # FREE
  BY <1>8 DEF WellFormed
<1>13. Heads' = (Heads \ {freed}) \cup rest
       /\ (pc' \in {"free", "shrink"} => freed' \in Clusters /\ freed' \in rest)
  <2>0. rest = IF Table[freed] \in Clusters THEN {Table[freed]} ELSE {}
    BY DEF Rest
  <2>1. CASE pc' \in {"free", "shrink"}
    <3>1. freed' = Table[freed] /\ Table[freed] # EOFC
      BY <1>5, <1>10, <2>1 DEF FreeNext
    <3>2. Table[freed] \in Clusters
      BY <1>1, <1>10, <1>12, <3>1 DEF Tables
    <3> QED
      BY <1>8, <2>0, <2>1, <3>1, <3>2
  <2>2. CASE pc' \in {"idle", "terminate"}
    BY <1>6, <1>8, <1>10, <2>0, <2>2, ClustersFacts
  <2> QED
    BY <1>1, <2>1, <2>2
<1>14. /\ rest \cap Heads = {}
       /\ WellFormed(Table', (Heads \ {freed}) \cup rest)
       /\ \A g \in Heads \ {freed} : ChainIn(Table', g) = ChainIn(Table, g)
  <2>1. /\ Table' \in Tables /\ Table'[freed] = FREE
        /\ \A d \in Clusters \ {freed} : Table'[d] = Table[d]
    BY <1>1, <1>10, <1>11 DEF Tables
  <2>2. freed \in Heads
    BY <1>8
  <2>3. WellFormed(Table, Heads)
    BY <1>8
  <2> HIDE DEF old
  <2> QED
    BY <2>1, <2>2, <2>3, HeadFreed
<1>15. \A e \in Kept : ChainIn(Table', first_cluster[e]) = ChainIn(Table, first_cluster[e])
  BY <1>8, <1>14
<1>16. TypeOK'
  <2>1. /\ first_cluster' \in [Entries -> Clusters \cup {NONE}]
        /\ size' \in [Entries -> 0 .. UINT32 - 1]
    <3>1. CASE pc' = "idle"
      <4>1. 0 \in 0 .. UINT32 - 1
        BY ConstantsAssumption
      <4>2. size' = [size EXCEPT ![entry] = 0]
        BY <1>1, <3>1 DEF FreeNext, FreeLast
      <4> QED
        BY <1>4, <3>1, <4>1, <4>2 DEF Inv, TypeOK
    <3>2. CASE pc' # "idle"
      <4>1. first_cluster' = first_cluster /\ size' = size
        BY <3>2 DEF FreeNext, FreeLast, Returned, entryVars
      <4> QED
        BY <4>1 DEF Inv, TypeOK
    <3> QED
      BY <3>1, <3>2
  <2>2. freed' \in Clusters \cup {NONE}
    BY <1>1, <1>13 DEF FreeNext, FreeLast, Returned
  <2>3. /\ entry' \in Entries \cup {NONE} /\ start' \in Clusters \cup {NONE}
        /\ next_cluster' \in Clusters \cup {NONE}
        /\ current_size' \in Nat /\ extending' \in BOOLEAN
    <3>1. CASE pc' = "idle"
      <4>1. Returned
        BY <1>1, <3>1 DEF FreeNext, FreeLast
      <4> QED
        BY <4>1 DEF Returned
    <3>2. CASE pc' # "idle"
      <4>1. /\ entry' = entry /\ start' = start /\ next_cluster' = next_cluster
            /\ current_size' = current_size /\ extending' = extending
        BY <3>2 DEF FreeNext, FreeLast, Returned
      <4> QED
        BY <4>1 DEF Inv, TypeOK
    <3> QED
      BY <3>1, <3>2
  <2>4. FAT_ENTRIES' \in [Clusters -> Clusters \cup {FREE, EOFC}]
    BY <1>1 DEF Tables
  <2> QED
    BY <1>1, <2>1, <2>2, <2>3, <2>4 DEF Inv, TypeOK
<1>17. CallInv'
  <2>1. pc' \in {"shrink", "terminate"} => pc = "shrink"
    BY <1>1
  <2> QED
    BY <1>1, <1>2, <1>3, <1>4, <1>13, <2>1 DEF CallInv, InTree
<1>18. ChainInv'
  <2>1. \A e \in Kept' : \A c \in ChainIn(Table', first_cluster'[e]) : Owners'[c] = e
    BY <1>1, <1>7, <1>11, <1>15 DEF Inv, ChainInv
  <2>2. pc' \in {"free", "shrink"} => \A e \in Kept' : freed' # first_cluster'[e]
    BY <1>7, <1>8, <1>13, <1>14
  <2>3. pc' \in {"shrink", "terminate"} => next_cluster' \in ChainIn(Table', start')
    <3> SUFFICES ASSUME pc' \in {"shrink", "terminate"}
                 PROVE  next_cluster' \in ChainIn(Table', start')
      OBVIOUS
    <3>1. pc = "shrink"
      BY <1>1
    <3>2. next_cluster \in ChainIn(Table, start)
      BY <3>1 DEF Inv, ChainInv
    <3> QED
      BY <1>2, <1>15, <3>1, <3>2
  <2> QED
    BY <1>1, <1>13, <1>14, <2>1, <2>2, <2>3 DEF ChainInv
<1> QED
  BY <1>7, <1>15, <1>16, <1>17, <1>18 DEF Inv

\* assert(0) fails; nothing is said of the chains from then on.
LEMMA AbortInv ==
  ASSUME Inv, (\E e \in Entries : AllocateFails(e)) \/ OutOfClusters
  PROVE  Inv'
<1>1. pc' = "aborted"
  BY DEF AllocateFails, OutOfClusters
<1>2. TypeOK'
  BY DEF AllocateFails, OutOfClusters, tableVars, entryVars, callVars, Inv, TypeOK
<1>3. CallInv'
  BY <1>1 DEF CallInv
<1> QED
  BY <1>1, <1>2, <1>3 DEF Inv

\* Nothing happens.
LEMMA StutterInv ==
  ASSUME Inv, UNCHANGED vars
  PROVE  Inv'
<1>1. /\ UNCHANGED <<FAT_ENTRIES, DIR_ENTRIES, LAST_FREE_ENTRY>>
      /\ UNCHANGED <<first_cluster, size, pc, entry, start>>
      /\ UNCHANGED <<next_cluster, current_size, extending, freed>>
  BY DEF vars, tableVars, entryVars, callVars
<1>2. Table' = Table /\ Owners' = Owners /\ Kept' = Kept /\ Heads' = Heads
  BY <1>1 DEF Table, Owners, Marks, Occupied, Kept, InTree, Heads
<1>3. TypeOK'
  BY <1>1 DEF Inv, TypeOK
<1>4. CallInv'
  BY <1>1 DEF Inv, CallInv, InTree
<1>5. (pc # "aborted" => ChainInv)'
  BY <1>1, <1>2 DEF Inv, ChainInv
<1> QED
  BY <1>3, <1>4, <1>5 DEF Inv

\* Every iteration of a loop of cluster.c keeps the invariant.
LEMMA IterationInv ==
  ASSUME Inv, Iteration
  PROVE  Inv'
BY LinkInv, AllocateEndInv, WalkInv, ShrinkInv, TerminateInv, FreedInv, AbortInv
DEF Iteration

\* Every step keeps the invariant.
LEMMA NextInv ==
  ASSUME Inv, [Next]_vars
  PROVE  Inv'
<1>1. ASSUME NEW e \in Entries, NEW bytes \in Sizes, Allocate(e, bytes) \/ Reallocate(e, bytes)
      PROVE  Inv'
  BY <1>1, AllocateInv, ReallocateInv, ConstantsAssumption
<1>2. ASSUME NEW e \in Entries, Free(e) \/ AllocateFails(e)
      PROVE  Inv'
  BY <1>2, FreeInv, AbortInv
<1> QED
  BY <1>1, <1>2, IterationInv, StutterInv DEF Next

(***************************************************************************)
(* The theorems about the chains.                                          *)
(***************************************************************************)

\* The invariant holds in every state of every behaviour of the allocator.
THEOREM Invariance == Spec => []Inv
<1>1. Init => Inv
  BY InitInv
<1>2. Inv /\ [Next]_vars => Inv'
  BY NextInv
<1> QED
  BY <1>1, <1>2, PTL DEF Spec

\* Between two calls nothing is marked: the tables are in good order themselves.
LEMMA IdleTables ==
  ASSUME Inv, pc = "idle"
  PROVE  /\ Table = FAT_ENTRIES /\ Owners = DIR_ENTRIES /\ Kept = InTree
         /\ Heads = {first_cluster[e] : e \in InTree}
         /\ ~extending
         /\ ChainInv
BY DEF Inv, CallInv, Table, Owners, Marks, Kept, Heads

\* The invariant gives the two properties of the chains.
LEMMA InvChains ==
  ASSUME Inv
  PROVE  ChainsEnd /\ ChainsPartition
<1> SUFFICES ASSUME pc = "idle" PROVE ChainsEnd /\ ChainsPartition
  BY DEF ChainsEnd, ChainsPartition
<1>1. /\ WellFormed(FAT_ENTRIES, Heads) /\ Kept = InTree
      /\ Table = FAT_ENTRIES /\ Owners = DIR_ENTRIES
      /\ Heads = {first_cluster[e] : e \in InTree}
  BY IdleTables DEF ChainInv
<1>2. ChainsEnd
  <2>1. \A e \in InTree : first_cluster[e] \in Heads
    BY <1>1
  <2> QED
    BY <1>1, <2>1 DEF WellFormed, ChainsEnd
<1>3. ASSUME NEW e \in InTree, NEW c \in Chain(first_cluster[e])
      PROVE  DIR_ENTRIES[c] = e /\ FAT_ENTRIES[c] # FREE
  <2>1. first_cluster[e] \in Heads /\ c \in ChainIn(FAT_ENTRIES, first_cluster[e])
    BY <1>1, <1>3 DEF Chain
  <2>2. FAT_ENTRIES[c] # FREE
    BY <1>1, <2>1, ChainUsed
  <2> QED
    BY <1>1, <2>1, <2>2, IdleTables DEF ChainInv
<1>4. ASSUME NEW c \in Clusters, FAT_ENTRIES[c] # FREE
      PROVE  \E e \in InTree : c \in Chain(first_cluster[e])
  BY <1>1, <1>4 DEF WellFormed, Chain
<1> QED
  BY <1>2, <1>3, <1>4 DEF ChainsPartition

\* The tables, the entries and the locals of the calls of cluster.c have their
\* types: a table never links to anything but a cluster of the volume.
THEOREM TypesHold == Spec => []TypeOK
<1>1. Inv => TypeOK
  BY DEF Inv
<1> QED
  BY <1>1, Invariance, PTL

\* Every loop of cluster.c and of get_cluster_chain_size along a chain ends: the
\* chains are not joined and have no cycle, however many clusters there are.
THEOREM EndsHold == Spec => []ChainsEnd
<1>1. Inv => ChainsEnd
  BY InvChains
<1> QED
  BY <1>1, Invariance, PTL

\* No cluster is shared by two entries, named after a wrong one or lost, after
\* any sequence of calls of cluster.c.
THEOREM PartitionHolds == Spec => []ChainsPartition
<1>1. Inv => ChainsPartition
  BY InvChains
<1> QED
  BY <1>1, Invariance, PTL

(***************************************************************************)
(* Clusters and bytes.                                                     *)
(***************************************************************************)

\* More clusters have more bytes.
LEMMA BytesMonotonic ==
  ASSUME NEW m \in Nat, NEW n \in Nat, m <= n
  PROVE  m * BYTES_PER_CLUSTER <= n * BYTES_PER_CLUSTER
BY ConstantsAssumption

\* Division with remainder.
LEMMA DivideClusters ==
  ASSUME NEW b \in Nat
  PROVE  \E q \in Nat, r \in 0 .. BYTES_PER_CLUSTER - 1 :
           (b \div BYTES_PER_CLUSTER = q) /\ b = q * BYTES_PER_CLUSTER + r
<1> DEFINE q == b \div BYTES_PER_CLUSTER
           r == b % BYTES_PER_CLUSTER
<1>1. q \in Nat /\ r \in 0 .. BYTES_PER_CLUSTER - 1
  BY ConstantsAssumption
<1>2. b = q * BYTES_PER_CLUSTER + r
  BY ConstantsAssumption
<1> HIDE DEF r
<1> QED
  BY <1>1, <1>2

\* ClustersFor is the least number of clusters with the given number of bytes.
LEMMA ClustersForFacts ==
  ASSUME NEW b \in Nat
  PROVE  /\ ClustersFor(b) \in Nat \ {0}
         /\ \A k \in Nat \ {0} :
              (k * BYTES_PER_CLUSTER >= b) <=> (k >= ClustersFor(b))
<1> DEFINE B == BYTES_PER_CLUSTER
<1>1. B \in Nat \ {0} /\ \A k \in Nat : k * B \in Nat
  BY ConstantsAssumption
<1>2. CASE b = 0
  BY <1>1, <1>2 DEF ClustersFor
<1>3. CASE b # 0
  <2>1. PICK q \in Nat, r \in 0 .. B - 1 :
          ((b + B - 1) \div B = q) /\ b + B - 1 = q * B + r
    BY <1>1, <1>3, DivideClusters
  <2>2. ClustersFor(b) = q
    BY <1>3, <2>1 DEF ClustersFor
  <2>3. q # 0
    BY <1>1, <1>3, <2>1
  <2>4. ASSUME NEW k \in Nat \ {0} PROVE (k * B >= b) <=> (k >= q)
    <3>1. CASE k >= q
      <4>1. q * B <= k * B
        BY <3>1, BytesMonotonic
      <4> HIDE DEF B
      <4> QED
        BY <1>1, <2>1, <3>1, <4>1
    <3>2. CASE k < q
      <4>1. (k + 1) * B <= q * B
        BY <3>2, BytesMonotonic
      <4>2. (k + 1) * B = k * B + B
        BY <1>1
      <4> HIDE DEF B
      <4> QED
        BY <1>1, <2>1, <3>2, <4>1, <4>2
    <3> QED
      BY <3>1, <3>2
  <2> QED
    BY <2>2, <2>3, <2>4
<1> QED
  BY <1>2, <1>3

\* current_size after n clusters and one more.
LEMMA GrownFacts ==
  ASSUME NEW n \in Nat, current_size = n * BYTES_PER_CLUSTER,
         current_size + BYTES_PER_CLUSTER <= UINT32
  PROVE  /\ current_size + BYTES_PER_CLUSTER < UINT32 =>
              /\ Grown = (n + 1) * BYTES_PER_CLUSTER
              /\ Grown + BYTES_PER_CLUSTER <= UINT32
         /\ current_size + BYTES_PER_CLUSTER = UINT32 => Grown = 0
<1> DEFINE B == BYTES_PER_CLUSTER
<1>1. /\ B \in Nat \ {0} /\ \A k \in Nat : k * B \in Nat /\ (k + 1) * B = k * B + B
      /\ UINT32 \in Nat
  BY ConstantsAssumption
<1>0. current_size = n * B /\ current_size + B <= UINT32
  OBVIOUS
<1>2. PICK q \in Nat : UINT32 = q * B
  BY ConstantsAssumption, DivideClusters
<1>3. CASE current_size + B < UINT32
  <2>1. Grown = (n + 1) * B
    BY <1>1, <1>3 DEF Grown
  <2>2. n + 1 < q
    <3>1. CASE q <= n + 1
      <4>1. q * B <= (n + 1) * B
        BY <3>1, BytesMonotonic
      <4> QED
        BY <1>0, <1>1, <1>2, <1>3, <4>1
    <3> QED
      BY <3>1
  <2>3. (n + 2) * B <= q * B
    BY <2>2, BytesMonotonic
  <2>4. (n + 2) * B = (n + 1) * B + B
    BY <1>1
  <2> QED
    BY <1>0, <1>1, <1>2, <1>3, <2>1, <2>3, <2>4
<1>4. CASE current_size + B = UINT32
  BY <1>1, <1>4 DEF Grown
<1> QED
  BY <1>3, <1>4

(***************************************************************************)
(* The sizes of the chains.                                                *)
(***************************************************************************)

\* The chain of the call and those of the other entries.
LEMMA CallChain ==
  ASSUME Inv, pc \in {"allocate", "reallocate", "shrink", "terminate"}
  PROVE  /\ start \in Heads /\ start \in Clusters /\ entry \in Entries
         /\ WellFormed(Table, Heads)
         /\ next_cluster \in Clusters /\ next_cluster \in ChainIn(Table, start)
         /\ \A e \in Kept : e # entry =>
              /\ first_cluster[e] \in Heads /\ first_cluster[e] \in Clusters
              /\ next_cluster \notin ChainIn(Table, first_cluster[e])
<1>1. /\ pc # "aborted" /\ WellFormed(Table, Heads)
      /\ next_cluster \in ChainIn(Table, start)
      /\ start \in Clusters /\ entry \in Entries /\ next_cluster \in Clusters
  BY DEF Inv, CallInv, ChainInv
<1>2. CASE pc = "allocate"
  <2>1. start \in Heads /\ Owners[start] = entry
    BY <1>1, <1>2, ChainType DEF Heads, Inv, ChainInv
  <2>2. ASSUME NEW e \in Kept, e # entry
        PROVE  /\ first_cluster[e] \in Heads /\ first_cluster[e] \in Clusters
               /\ first_cluster[e] # start
    BY <1>1, <2>1, <2>2, KeptFacts, ChainType DEF Inv, ChainInv
  <2> QED
    BY <1>1, <2>1, <2>2, ChainsDisjoint
<1>3. CASE pc # "allocate"
  <2>1. entry \in Kept /\ first_cluster[entry] = start
    BY <1>1, <1>3, ClustersFacts DEF Inv, CallInv, Kept, InTree
  <2>2. ASSUME NEW e \in Kept, e # entry
        PROVE  /\ first_cluster[e] \in Heads /\ first_cluster[e] \in Clusters
               /\ first_cluster[e] # start
    BY <1>1, <2>1, <2>2, KeptFacts
  <2>3. start \in Heads
    BY <1>1, <2>1, KeptFacts
  <2> QED
    BY <1>1, <2>2, <2>3, ChainsDisjoint
<1> QED
  BY <1>2, <1>3

\* current_size while the size is not reached: either it can be, and grows by one
\* cluster, or it wraps.
LEMMA SizeGrows ==
  ASSUME Inv, SizeInv, pc \in {"allocate", "reallocate"}, current_size < size[entry],
         entry' = entry, size' = size, pc' = pc, current_size' = Grown
  PROVE  /\ Unreachable' = Unreachable
         /\ Unreachable => Endless'
         /\ ~Unreachable => \E passed \in Nat \ {0} :
              /\ Progress(passed)
              /\ current_size' = (passed + 1) * BYTES_PER_CLUSTER
              /\ passed + 1 <= ClustersFor(size[entry])
<1> DEFINE B == BYTES_PER_CLUSTER
<1>1. entry \in Entries /\ size[entry] \in 0 .. UINT32 - 1 /\ size[entry] \in Nat
      /\ current_size \in Nat
  BY DEF Inv, CallInv, TypeOK
<1>2. Unreachable' = Unreachable
  BY DEF Unreachable
<1>3. B \in Nat \ {0} /\ UINT32 \in Nat /\ \A k \in Nat : k * B \in Nat
  BY ConstantsAssumption
<1>4. ASSUME Unreachable
      PROVE  Endless'
  <2>1. PICK n \in Nat : current_size = n * B
    BY <1>4 DEF SizeInv, Endless
  <2>2. current_size + B <= UINT32
    BY <1>4 DEF SizeInv, Endless
  <2>3. CASE current_size + B < UINT32
    <3>1. Grown = (n + 1) * B /\ Grown + B <= UINT32 /\ n + 1 \in Nat
      BY <2>1, <2>2, <2>3, GrownFacts
    <3> QED
      BY <3>1 DEF Endless
  <2>4. CASE current_size + B = UINT32
    <3>1. Grown = 0 /\ 0 = 0 * B /\ 0 + B <= UINT32
      BY <2>1, <2>2, <2>4, GrownFacts, ConstantsAssumption
    <3> QED
      BY <3>1 DEF Endless
  <2> QED
    BY <1>1, <1>3, <2>2, <2>3, <2>4
<1>5. ASSUME ~Unreachable
      PROVE  \E passed \in Nat \ {0} :
               /\ Progress(passed)
               /\ current_size' = (passed + 1) * B
               /\ passed + 1 <= ClustersFor(size[entry])
  <2>1. PICK passed \in Nat \ {0} : Progress(passed)
    BY <1>5 DEF SizeInv
  <2>2. current_size = passed * B /\ current_size < size[entry]
    BY <2>1 DEF Progress
  <2>3. ClustersFor(size[entry]) \in Nat \ {0} /\ ~(passed >= ClustersFor(size[entry]))
    <3>1. ~(passed * B >= size[entry])
      BY <1>1, <1>3, <2>2
    <3> QED
      BY <1>1, <3>1, ClustersForFacts
  <2>4. current_size + B < UINT32
    BY <1>1, <1>3, <1>5, <2>2 DEF Unreachable
  <2>5. Grown = (passed + 1) * B
    BY <2>2, <2>4, GrownFacts, <1>3
  <2> QED
    BY <2>1, <2>3, <2>5
<1> QED
  BY <1>2, <1>4, <1>5

\* current_size when the size is reached: it is, and the call has passed all the
\* clusters that the size asks for.
LEMMA SizeReached ==
  ASSUME Inv, SizeInv, pc \in {"allocate", "reallocate", "terminate"},
         current_size >= size[entry]
  PROVE  ~Unreachable /\ Progress(ClustersFor(size[entry]))
<1> DEFINE B == BYTES_PER_CLUSTER
<1>1. entry \in Entries /\ size[entry] \in 0 .. UINT32 - 1 /\ size[entry] \in Nat
      /\ current_size \in Nat /\ B \in Nat \ {0} /\ UINT32 \in Nat
  BY ConstantsAssumption DEF Inv, CallInv, TypeOK
<1>2. ~Unreachable
  <2>1. CASE Unreachable
    <3>1. current_size + B <= UINT32 /\ size[entry] + B > UINT32
      BY <2>1 DEF SizeInv, Endless, Unreachable
    <3> QED
      BY <1>1, <3>1
  <2> QED
    BY <2>1
<1>3. PICK passed \in Nat \ {0} : Progress(passed)
  BY <1>2 DEF SizeInv
<1>4. passed * B >= size[entry] /\ passed <= ClustersFor(size[entry])
  BY <1>3 DEF Progress
<1>5. passed >= ClustersFor(size[entry]) /\ ClustersFor(size[entry]) \in Nat
  BY <1>1, <1>4, ClustersForFacts
<1>6. passed = ClustersFor(size[entry])
  BY <1>4, <1>5
<1> QED
  BY <1>2, <1>3, <1>6

\* A call that begins has passed one cluster.
LEMMA BeginSize ==
  ASSUME Inv, SizeInv, NEW e \in Entries, NEW bytes \in 0 .. UINT32 - 1,
         Allocate(e, bytes) \/ Reallocate(e, bytes)
  PROVE  SizeInv'
<1> DEFINE B == BYTES_PER_CLUSTER
<1>1. /\ pc = "idle" /\ pc # "aborted" /\ pc' \in {"allocate", "reallocate"}
      /\ entry = NONE /\ entry' = e /\ ~extending /\ ~extending'
      /\ first_cluster' = first_cluster /\ size' = [size EXCEPT ![e] = bytes]
      /\ FAT_ENTRIES' = FAT_ENTRIES
      /\ current_size' = B
      /\ next_cluster' = start'
  BY DEF Allocate, Reallocate, tableVars, Inv, CallInv
<1>2. Inv'
  BY AllocateInv, ReallocateInv
<1>3. start' \in Clusters /\ next_cluster' \in Clusters
  BY <1>1, <1>2 DEF Inv, CallInv
<1>4. size'[e] = bytes /\ bytes \in Nat /\ \A g \in Entries : g # e => size'[g] = size[g]
  BY <1>1 DEF Inv, TypeOK
<1>5. Kept' = Kept
  BY <1>1 DEF Kept, InTree
<1>6. ASSUME NEW g \in Kept, g # e
      PROVE  Cardinality(ChainIn(Table', first_cluster[g])) <= ClustersFor(size'[g])
  <2>1. g \in Entries /\ g # entry /\ first_cluster[g] \in Heads
    BY <1>1, KeptFacts, ConstantsAssumption
  <2>2. Count(first_cluster[g]) <= ClustersFor(size[g])
    BY <2>1 DEF SizeInv, OthersFit
  <2>3. ChainIn(Table', first_cluster[g]) = ChainIn(Table, first_cluster[g])
    <3>1. CASE Allocate(e, bytes)
      BY <2>1, <3>1, AllocateInv
    <3>2. CASE Reallocate(e, bytes)
      BY <1>1, <3>2 DEF Reallocate, Table, Marks
    <3> QED
      BY <3>1, <3>2
  <2> QED
    BY <1>4, <1>6, <2>1, <2>2, <2>3 DEF Count
<1>7. OthersFit'
  BY <1>1, <1>5, <1>6 DEF OthersFit, Count
<1>8. CASE bytes + B > UINT32
  <2>1. Unreachable' /\ Endless'
    <3>1. B + B <= UINT32 /\ B = 1 * B
      <4>1. PICK q \in Nat : UINT32 = q * B
        BY ConstantsAssumption, DivideClusters
      <4>2. q >= 2
        BY <4>1, ConstantsAssumption
      <4>3. 2 * B <= q * B
        BY <4>2, BytesMonotonic
      <4> QED
        BY <4>1, <4>3, ConstantsAssumption
    <3>2. Unreachable'
      BY <1>1, <1>4, <1>8 DEF Unreachable
    <3> QED
      BY <1>1, <3>1, <3>2 DEF Endless
  <2> QED
    BY <1>7, <2>1 DEF SizeInv
<1>9. CASE ~(bytes + B > UINT32)
  <2>1. ~Unreachable'
    BY <1>1, <1>4, <1>9 DEF Unreachable
  <2>2. ClustersFor(bytes) \in Nat \ {0} /\ 1 * B = B
    BY <1>4, ClustersForFacts, ConstantsAssumption
  <2>3. pc' = "allocate" => ChainIn(Table', start') = {start'}
    <3>1. pc' = "allocate" => Table'[start'] = EOFC
      <4>1. pc' = "allocate" => Table' = [FAT_ENTRIES' EXCEPT ![start'] = EOFC]
        BY <1>1 DEF Table, Marks, Occupied
      <4> QED
        BY <1>2, <1>3, <4>1 DEF Inv, TypeOK
    <3> QED
      BY <1>3, <3>1, ChainEnd, ClustersFacts
  <2>4. pc' = "allocate" => Cardinality(ChainIn(Table', start')) = 1
    BY <2>3, FS_Singleton
  <2>5. Cardinality(ChainIn(Table', start')) \in Nat
    BY <1>3, ChainFinite
  <2>6. Progress(1)'
    BY <1>1, <1>4, <2>2, <2>4, <2>5 DEF Progress, Count
  <2> QED
    BY <1>7, <2>1, <2>6 DEF SizeInv
<1> QED
  BY <1>8, <1>9

\* A call that links one more cluster has passed it.
LEMMA LinkSize ==
  ASSUME Inv, SizeInv, AllocateNext \/ Extend
  PROVE  SizeInv'
<1> DEFINE new == Cardinality(ChainIn(Table', start))
<1>1. /\ pc \in {"allocate", "reallocate"} /\ pc' = pc /\ entry' = entry
      /\ start' = start /\ size' = size /\ first_cluster' = first_cluster
      /\ current_size < size[entry] /\ current_size' = Grown
      /\ pc = "reallocate" => Extend /\ extending' = TRUE
  BY DEF AllocateNext, Extend, LinkNext, entryVars
<1>2. /\ Kept' = Kept /\ start \in Clusters /\ start \in Heads
      /\ WellFormed(Table, Heads)
      /\ next_cluster \in Clusters /\ next_cluster \in ChainIn(Table, start)
      /\ \A h \in Heads :
           ChainIn(Table', h) =
             IF next_cluster \in ChainIn(Table, h)
             THEN ChainIn(Table, h) \cup {next_cluster'} ELSE ChainIn(Table, h)
  BY <1>1, CallChain, LinkChains
<1>3. OthersFit'
  <2>1. \A e \in Kept : e # entry =>
          ChainIn(Table', first_cluster[e]) = ChainIn(Table, first_cluster[e])
    BY <1>1, <1>2, CallChain
  <2> QED
    BY <1>1, <1>2, <2>1 DEF SizeInv, OthersFit, Count
<1>4. /\ Count(start) \in Nat /\ new \in Nat /\ new <= Count(start) + 1
      /\ pc = "allocate" => new = Count(start) + 1
  <2>1. ChainIn(Table', start) = ChainIn(Table, start) \cup {next_cluster'}
    BY <1>2
  <2>2. IsFiniteSet(ChainIn(Table, start)) /\ Count(start) \in Nat
    BY <1>2, ChainFinite DEF Count
  <2>3. new = IF next_cluster' \in ChainIn(Table, start) THEN Count(start)
              ELSE Count(start) + 1
    BY <2>1, <2>2, FS_AddElement DEF Count
  <2>4. pc = "allocate" => next_cluster' \notin ChainIn(Table, start)
    <3>1. pc = "allocate" => Table[next_cluster'] = FREE
      BY LinkTables
    <3> QED
      BY <1>2, <3>1, ChainUsed
  <2> QED
    BY <2>2, <2>3, <2>4
<1>5. /\ Unreachable' = Unreachable
      /\ Unreachable => Endless'
      /\ ~Unreachable => \E passed \in Nat \ {0} :
           /\ Progress(passed)
           /\ current_size' = (passed + 1) * BYTES_PER_CLUSTER
           /\ passed + 1 <= ClustersFor(size[entry])
  BY <1>1, SizeGrows
<1>6. CASE Unreachable
  BY <1>1, <1>3, <1>5, <1>6 DEF SizeInv
<1>7. CASE ~Unreachable
  <2>1. PICK passed \in Nat \ {0} :
          /\ Progress(passed)
          /\ current_size' = (passed + 1) * BYTES_PER_CLUSTER
          /\ passed + 1 <= ClustersFor(size[entry])
    BY <1>5, <1>7
  <2>2. pc = "allocate" => new = passed + 1
    BY <1>4, <2>1 DEF Progress
  <2>3. pc = "reallocate" => Count(start) <= passed
    <3>1. CASE pc = "reallocate" /\ extending
      BY <2>1, <3>1 DEF Progress
    <3>2. CASE pc = "reallocate" /\ ~extending
      <4>1. Table[next_cluster] = EOFC
        BY LinkTables
      <4>2. ChainIn(Table, next_cluster) = {next_cluster}
        BY <1>2, <4>1, ChainEnd, ClustersFacts
      <4>3. Count(next_cluster) = 1
        BY <4>2, FS_Singleton DEF Count
      <4>4. Count(start) + 1 = passed + Count(next_cluster)
        BY <2>1, <3>2 DEF Progress
      <4> QED
        BY <1>4, <4>3, <4>4
    <3> QED
      BY <3>1, <3>2
  <2>4. pc = "reallocate" => new <= passed + 1
    BY <1>4, <2>3
  <2>5. Progress(passed + 1)'
    BY <1>1, <2>1, <2>2, <2>4 DEF Progress, Count
  <2> QED
    BY <1>1, <1>3, <1>5, <1>7, <2>5 DEF SizeInv
<1> QED
  BY <1>6, <1>7

\* A call that follows the old chain has passed one more cluster of it.
LEMMA WalkSize ==
  ASSUME Inv, SizeInv, Walk
  PROVE  SizeInv'
<1>1. /\ pc = "reallocate" /\ pc' = pc /\ entry' = entry /\ ~extending /\ ~extending'
      /\ start' = start /\ size' = size /\ first_cluster' = first_cluster
      /\ current_size < size[entry] /\ current_size' = Grown
      /\ next_cluster' = Table[next_cluster] /\ Table' = Table /\ Kept' = Kept
      /\ Inv'
  BY WalkInv DEF Walk, Follow, entryVars, Inv, CallInv
<1>2. /\ start \in Clusters /\ start \in Heads /\ WellFormed(Table, Heads)
      /\ next_cluster \in Clusters /\ next_cluster \in ChainIn(Table, start)
      /\ next_cluster' \in Clusters
  BY <1>1, CallChain DEF Inv, CallInv
<1>3. OthersFit'
  BY <1>1 DEF SizeInv, OthersFit, Count
<1>4. /\ Count(next_cluster) = Cardinality(ChainIn(Table, next_cluster')) + 1
      /\ Cardinality(ChainIn(Table, next_cluster')) \in Nat /\ Count(start) \in Nat
  <2>1. ChainIn(Table, next_cluster) = {next_cluster} \cup ChainIn(Table, next_cluster')
    BY <1>1, <1>2, ChainStep
  <2>2. next_cluster \notin ChainIn(Table, next_cluster')
    BY <1>1, <1>2, ChainAcyclic
  <2>3. /\ IsFiniteSet(ChainIn(Table, next_cluster'))
        /\ Cardinality(ChainIn(Table, next_cluster')) \in Nat /\ Count(start) \in Nat
    BY <1>2, ChainFinite DEF Count
  <2> QED
    BY <2>1, <2>2, <2>3, FS_AddElement DEF Count
<1>5. /\ Unreachable' = Unreachable
      /\ Unreachable => Endless'
      /\ ~Unreachable => \E passed \in Nat \ {0} :
           /\ Progress(passed)
           /\ current_size' = (passed + 1) * BYTES_PER_CLUSTER
           /\ passed + 1 <= ClustersFor(size[entry])
  BY <1>1, SizeGrows
<1>6. CASE Unreachable
  BY <1>1, <1>3, <1>5, <1>6 DEF SizeInv
<1>7. CASE ~Unreachable
  <2>1. PICK passed \in Nat \ {0} :
          /\ Progress(passed)
          /\ current_size' = (passed + 1) * BYTES_PER_CLUSTER
          /\ passed + 1 <= ClustersFor(size[entry])
    BY <1>5, <1>7
  <2>2. Count(start) + 1 = passed + 1 + Cardinality(ChainIn(Table, next_cluster'))
    BY <1>1, <1>4, <2>1 DEF Progress
  <2>3. Progress(passed + 1)'
    BY <1>1, <2>1, <2>2 DEF Progress, Count
  <2> QED
    BY <1>1, <1>3, <1>5, <1>7, <2>3 DEF SizeInv
<1> QED
  BY <1>6, <1>7

\* A chain that is cut has the clusters that the call has passed.
LEMMA ShrinkSize ==
  ASSUME Inv, SizeInv, Shrink
  PROVE  SizeInv'
<1>1. /\ pc = "reallocate" /\ pc' = "shrink" /\ entry' = entry /\ ~extending
      /\ start' = start /\ size' = size /\ first_cluster' = first_cluster
      /\ current_size >= size[entry] /\ current_size' = current_size
      /\ next_cluster' = next_cluster
  BY DEF Shrink, entryVars
<1>2. /\ Kept' = Kept /\ start \in Clusters /\ start \in Heads
      /\ WellFormed(Table, Heads)
      /\ next_cluster \in Clusters /\ next_cluster \in ChainIn(Table, start)
      /\ freed' = Table[next_cluster] /\ freed' \in Clusters
      /\ \A h \in Heads :
           ChainIn(Table', h) = IF next_cluster \in ChainIn(Table, h)
                                THEN ChainIn(Table, h) \ ChainIn(Table, freed')
                                ELSE ChainIn(Table, h)
  BY <1>1, CallChain, ShrinkInv
<1>3. OthersFit'
  <2>1. \A e \in Kept : e # entry =>
          ChainIn(Table', first_cluster[e]) = ChainIn(Table, first_cluster[e])
    BY <1>1, <1>2, CallChain
  <2> QED
    BY <1>1, <1>2, <2>1 DEF SizeInv, OthersFit, Count
<1>4. ~Unreachable /\ Progress(ClustersFor(size[entry]))
  BY <1>1, SizeReached
<1>5. size[entry] \in Nat
  BY DEF Shrink, Inv, CallInv, TypeOK
<1> DEFINE passed == ClustersFor(size[entry])
           rest   == Cardinality(ChainIn(Table, freed'))
<1>6. passed \in Nat \ {0}
  BY <1>5, ClustersForFacts
<1>7. Count(next_cluster) = rest + 1 /\ rest \in Nat
  <2>1. ChainIn(Table, next_cluster) = {next_cluster} \cup ChainIn(Table, freed')
    BY <1>2, ChainStep
  <2>2. next_cluster \notin ChainIn(Table, freed')
    BY <1>2, ChainAcyclic
  <2>3. IsFiniteSet(ChainIn(Table, freed')) /\ rest \in Nat
    BY <1>2, ChainFinite
  <2> QED
    BY <2>1, <2>2, <2>3, FS_AddElement DEF Count
<1>8. Cardinality(ChainIn(Table', start)) = Count(start) - rest
  <2>1. ChainIn(Table', start) = ChainIn(Table, start) \ ChainIn(Table, freed')
    BY <1>2
  <2>2. freed' \in ChainIn(Table, start)
    BY <1>2, ChainClosed DEF IsClosed
  <2>3. ChainIn(Table, freed') \subseteq ChainIn(Table, start)
    BY <1>2, <2>2, ChainTail
  <2>4. IsFiniteSet(ChainIn(Table, start)) /\ IsFiniteSet(ChainIn(Table, freed'))
    BY <1>2, ChainFinite
  <2>5. ChainIn(Table, start) \cap ChainIn(Table, freed') = ChainIn(Table, freed')
    BY <2>3
  <2> QED
    BY <2>1, <2>4, <2>5, FS_Difference DEF Count
<1>9. Cardinality(ChainIn(Table', start)) = passed
  <2>1. Count(start) + 1 = passed + Count(next_cluster) /\ Count(start) \in Nat
    BY <1>1, <1>2, <1>4, ChainFinite DEF Progress, Count
  <2> QED
    BY <1>6, <1>7, <1>8, <2>1
<1>10. Progress(passed)'
  BY <1>1, <1>4, <1>6, <1>9 DEF Progress, Count
<1>11. ~Unreachable'
  BY <1>1, <1>4 DEF Unreachable
<1> QED
  BY <1>1, <1>3, <1>6, <1>10, <1>11 DEF SizeInv

\* The chain of a call that ends, unless it was extended, has exactly the clusters
\* its size asks for, and never more.
LEMMA EndSize ==
  ASSUME Inv, SizeInv, AllocateEnd \/ Terminate
  PROVE  /\ entry \in Entries /\ first_cluster'[entry] = start /\ size' = size
         /\ Cardinality(ChainIn(Table', start)) <= ClustersFor(size[entry])
         /\ ~extending =>
              Cardinality(ChainIn(Table', start)) = ClustersFor(size[entry])
         /\ SizeInv'
<1>1. /\ pc \in {"allocate", "reallocate", "terminate"} /\ pc' = "idle"
      /\ entry' = NONE /\ size' = size
      /\ pc = "allocate" => AllocateEnd
      /\ pc # "allocate" => Terminate
  BY DEF AllocateEnd, Terminate, Ends, Returned, entryVars
<1>2. /\ entry \in Entries /\ start \in Clusters /\ next_cluster \in Clusters
      /\ next_cluster \in ChainIn(Table, start)
  BY <1>1, CallChain
<1>3. Table' = Table
  <2>1. CASE AllocateEnd
    BY <2>1 DEF AllocateEnd, Returned, Table, Marks
  <2>2. CASE Terminate
    BY <2>2, TerminateInv
  <2> QED
    BY <2>1, <2>2
<1>4. first_cluster'[entry] = start
      /\ \A e \in Entries : e # entry => first_cluster'[e] = first_cluster[e]
  BY <1>1, <1>2 DEF AllocateEnd, Terminate, entryVars, Inv, TypeOK, CallInv
<1>5. current_size >= size[entry]
  <2>1. pc = "terminate" => ~Unreachable /\ \E n \in Nat \ {0} : Progress(n)
    BY DEF SizeInv, Endless
  <2> QED
    BY <1>1, <2>1 DEF AllocateEnd, Terminate, Ends, Progress
<1>6. Progress(ClustersFor(size[entry]))
  BY <1>1, <1>5, SizeReached
<1>7. size[entry] \in Nat /\ ClustersFor(size[entry]) \in Nat /\ Count(start) \in Nat
  <2>1. size[entry] \in Nat
    BY <1>2 DEF Inv, TypeOK
  <2> QED
    BY <1>2, <2>1, ClustersForFacts, ChainFinite DEF Count
<1>8. /\ Count(start) <= ClustersFor(size[entry])
      /\ ~extending => Count(start) = ClustersFor(size[entry])
  <2>1. CASE pc # "reallocate"
    BY <1>1, <1>6, <1>7, <2>1 DEF Progress
  <2>2. CASE pc = "reallocate" /\ extending
    BY <1>6, <2>2 DEF Progress
  <2>3. CASE pc = "reallocate" /\ ~extending
    <3>1. FAT_ENTRIES[next_cluster] = EOFC /\ Table = FAT_ENTRIES
      BY <1>1, <2>3 DEF Terminate, Ends, AtEnd, Table, Marks
    <3>2. ChainIn(Table, next_cluster) = {next_cluster}
      BY <1>2, <3>1, ChainEnd, ClustersFacts
    <3>3. Count(next_cluster) = 1
      BY <3>2, FS_Singleton DEF Count
    <3>4. Count(start) + 1 = ClustersFor(size[entry]) + Count(next_cluster)
      BY <1>6, <2>3 DEF Progress
    <3> QED
      BY <1>7, <3>3, <3>4
  <2> QED
    BY <2>1, <2>2, <2>3
<1>9. SizeInv'
  <2>1. \A e \in Kept' : e \in Entries /\ (e # entry => e \in Kept)
    BY <1>1, <1>4 DEF Kept, InTree
  <2>2. OthersFit'
    BY <1>1, <1>3, <1>4, <1>8, <2>1 DEF SizeInv, OthersFit, Count
  <2> QED
    BY <1>1, <2>2 DEF SizeInv
<1> QED
  BY <1>1, <1>2, <1>3, <1>4, <1>8, <1>9 DEF Count

\* Freeing leaves the sizes of the other chains, and of the one that is cut.
LEMMA FreeSize ==
  ASSUME Inv, SizeInv, FreeNext \/ FreeLast \/ \E e \in Entries : Free(e)
  PROVE  SizeInv'
<1>1. CASE \E e \in Entries : Free(e)
  <2>1. PICK e \in Entries : Free(e)
    BY <1>1
  <2>2. /\ pc = "idle" /\ entry = NONE /\ pc' = "free"
        /\ first_cluster' = first_cluster /\ size' = size
        /\ Table' = Table /\ Kept' = Kept \ {e}
    BY <2>1, FreeInv DEF Free, entryVars, Inv, CallInv
  <2>3. OthersFit'
    BY <2>2, ConstantsAssumption DEF SizeInv, OthersFit, Count, Kept, InTree
  <2> QED
    BY <2>2, <2>3 DEF SizeInv
<1>2. CASE FreeNext \/ FreeLast
  <2>1. /\ pc \in {"free", "shrink"} /\ Kept' = Kept
        /\ \A e \in Kept : /\ first_cluster'[e] = first_cluster[e]
                           /\ ChainIn(Table', first_cluster[e]) =
                                ChainIn(Table, first_cluster[e])
    BY <1>2, FreedInv DEF FreeNext, FreeLast
  <2>2. /\ pc' = "idle" => pc = "free" /\ size' = [size EXCEPT ![entry] = 0]
        /\ pc' # "idle" => entry' = entry /\ size' = size
        /\ pc' \in {"free", "shrink", "terminate", "idle"}
        /\ pc' \in {"shrink", "terminate"} =>
             pc = "shrink" /\ start' = start /\ current_size' = current_size
    BY <1>2 DEF FreeNext, FreeLast, Returned, entryVars
  <2>3. pc = "free" => entry \notin Kept
    BY DEF Kept
  <2>4. \A e \in Kept : pc' = "idle" => e # entry /\ size'[e] = size[e]
    BY <2>2, <2>3 DEF Inv, TypeOK, Kept, InTree
  <2>5. OthersFit'
    BY <2>1, <2>2, <2>4 DEF SizeInv, OthersFit, Count
  <2>6. CASE pc' \in {"shrink", "terminate"}
    <3>1. ~Unreachable /\ \E n \in Nat \ {0} : Progress(n)
      BY <2>2, <2>6 DEF SizeInv, Endless
    <3>2. PICK n \in Nat \ {0} : Progress(n)
      BY <3>1
    <3>3. entry \in Kept /\ first_cluster[entry] = start
      BY <2>2, <2>6, ClustersFacts DEF Inv, CallInv, Kept, InTree
    <3>4. Progress(n)'
      BY <2>1, <2>2, <2>6, <3>2, <3>3 DEF Progress, Count
    <3>5. ~Unreachable'
      BY <2>2, <2>6, <3>1 DEF Unreachable
    <3> QED
      BY <2>5, <3>4, <3>5 DEF SizeInv
  <2>7. CASE pc' \in {"free", "idle"}
    BY <2>5, <2>7 DEF SizeInv
  <2> QED
    BY <2>2, <2>6, <2>7
<1> QED
  BY <1>1, <1>2

\* Every step keeps the sizes.
LEMMA NextSize ==
  ASSUME Inv, SizeInv, [Next]_vars
  PROVE  pc' # "aborted" => SizeInv'
<1> SUFFICES ASSUME pc' # "aborted" PROVE SizeInv'
  OBVIOUS
<1>1. ASSUME NEW e \in Entries, NEW bytes \in Sizes, Allocate(e, bytes) \/ Reallocate(e, bytes)
      PROVE  SizeInv'
  BY <1>1, BeginSize, ConstantsAssumption
<1>2. ASSUME NEW e \in Entries, Free(e) \/ AllocateFails(e)
      PROVE  SizeInv'
  BY <1>2, FreeSize DEF AllocateFails
<1>3. CASE Iteration
  BY <1>3, LinkSize, EndSize, WalkSize, ShrinkSize, FreeSize DEF Iteration, OutOfClusters
<1>4. CASE UNCHANGED vars
  <2>1. /\ UNCHANGED <<FAT_ENTRIES, first_cluster, size, pc, entry, start>>
        /\ UNCHANGED <<next_cluster, current_size, extending>>
    BY <1>4 DEF vars, tableVars, entryVars, callVars
  <2>2. Table' = Table /\ Kept' = Kept /\ Unreachable' = Unreachable
    BY <2>1 DEF Table, Marks, Occupied, Kept, InTree, Unreachable
  <2>3. OthersFit'
    BY <2>1, <2>2 DEF SizeInv, OthersFit, Count
  <2>4. Unreachable /\ Endless => Endless'
    BY <2>1 DEF Endless
  <2>5. ASSUME NEW n \in Nat \ {0}, Progress(n)
        PROVE  Progress(n)'
    BY <2>1, <2>2, <2>5 DEF Progress, Count
  <2> QED
    BY <2>1, <2>2, <2>3, <2>4, <2>5 DEF SizeInv
<1> QED
  BY <1>1, <1>2, <1>3, <1>4 DEF Next

\* An aborted program stays aborted.
LEMMA AbortedStays ==
  ASSUME pc = "aborted", [Next]_vars
  PROVE  pc' = "aborted"
BY DEF Next, Iteration, Allocate, Reallocate, Free, AllocateFails, AllocateNext,
       AllocateEnd, Walk, Extend, Shrink, Terminate, Ends, FreeNext, FreeLast,
       OutOfClusters, vars

\* The root directory has one cluster, as its size asks for.
LEMMA InitSize == Init => SizeInv
<1> SUFFICES ASSUME Init PROVE SizeInv
  OBVIOUS
<1>1. Inv /\ pc = "idle"
  BY InitInv DEF Init
<1>2. Kept = {ROOT_DIR_ENTRY} /\ first_cluster[ROOT_DIR_ENTRY] = 2
      /\ size[ROOT_DIR_ENTRY] = 0
  BY ConstantsAssumption, ClustersFacts DEF Init, Kept, InTree
<1>3. Table = FAT_ENTRIES /\ FAT_ENTRIES[2] = EOFC
  BY ClustersFacts DEF Init, Table, Marks
<1>4. ChainIn(Table, 2) = {2}
  BY <1>3, ChainEnd, ClustersFacts
<1>5. Count(2) = 1 /\ ClustersFor(0) = 1
  BY <1>4, FS_Singleton DEF Count, ClustersFor
<1> QED
  BY <1>1, <1>2, <1>5 DEF SizeInv, OthersFit

\* The two invariants together.
FullInv == Inv /\ (pc # "aborted" => SizeInv)

\* No entry keeps more clusters than its size asks for, whatever the sizes were that
\* it had before.
THEOREM TightHolds == Spec => []FullInv /\ []ChainsTight
<1>1. Init => FullInv
  BY InitInv, InitSize DEF FullInv
<1>2. FullInv /\ [Next]_vars => FullInv'
  BY NextInv, NextSize, AbortedStays DEF FullInv
<1>3. FullInv => ChainsTight
  <2> SUFFICES ASSUME FullInv, pc = "idle", NEW e \in InTree
               PROVE  Cardinality(Chain(first_cluster[e])) <= ClustersFor(size[e])
    BY DEF ChainsTight
  <2>1. Table = FAT_ENTRIES /\ Kept = InTree /\ entry = NONE /\ e \in Entries
    BY IdleTables DEF FullInv, Inv, CallInv, InTree
  <2> QED
    BY <2>1, ConstantsAssumption DEF FullInv, SizeInv, OthersFit, Count, Chain
<1> QED
  BY <1>1, <1>2, <1>3, PTL DEF Spec

\* A call that extends no chain leaves one of exactly the clusters its size asks
\* for: a call whose size is out of its reach does not return at all.
THEOREM FitHolds == Spec => CallsFitSize
<1>1. FullInv /\ [Next]_vars =>
        [\A e \in Entries :
           /\ e = entry /\ ~extending
           /\ pc \in {"allocate", "reallocate", "terminate"} /\ pc' = "idle"
           => Cardinality(Chain(first_cluster[e]))' = ClustersFor(size[e])]_vars
  <2> SUFFICES ASSUME FullInv, [Next]_vars, NEW e \in Entries, e = entry, ~extending,
                      pc \in {"allocate", "reallocate", "terminate"}, pc' = "idle"
               PROVE  Cardinality(Chain(first_cluster[e]))' = ClustersFor(size[e])
    OBVIOUS
  <2>1. AllocateEnd \/ Terminate
    BY DEF Next, Iteration, Allocate, Reallocate, Free, AllocateFails, AllocateNext,
           Walk, Follow, Extend, Shrink, FreeNext, FreeLast, OutOfClusters, vars
  <2>2. /\ first_cluster'[e] = start
        /\ Cardinality(ChainIn(Table', start)) = ClustersFor(size[e])
    BY <2>1, EndSize DEF FullInv
  <2>3. Table' = FAT_ENTRIES'
    BY DEF Table, Marks
  <2> QED
    BY <2>2, <2>3 DEF Chain
<1>2. Spec => []FullInv
  BY TightHolds, PTL
<1> QED
  BY <1>1, <1>2, PTL DEF Spec, CallsFitSize

(***************************************************************************)
(* The volume is full.                                                     *)
(***************************************************************************)

\* The places in the given parts.
Places(parts, room) == UNION {{p} \X (1 .. room[p]) : p \in parts}

\* The clusters of a set, each of which belongs to one of finitely many parts that
\* has no more of them than it has room for, have room in the parts together.
LEMMA RoomSuffices ==
  ASSUME NEW S, NEW P, IsFiniteSet(P), NEW M \in Nat,
         NEW owner \in [S -> P], NEW room \in [P -> 0 .. M],
         \A p \in P : /\ IsFiniteSet({c \in S : owner[c] = p})
                      /\ Cardinality({c \in S : owner[c] = p}) <= room[p]
  PROVE  /\ IsFiniteSet(Places(P, room))
         /\ Cardinality(S) <= Cardinality(Places(P, room))
         /\ Cardinality(S) \in Nat
<1> DEFINE all == UNION {{p} \X (1 .. room[p]) : p \in P}
           part(p) == {c \in S : owner[c] = p}
           Ways(p) == Injection(part(p), 1 .. room[p])
           h == [c \in S |-> <<owner[c], (CHOOSE g : g \in Ways(owner[c]))[c]>>]
<1>1. IsFiniteSet(all)
  <2>1. IsFiniteSet(P \X (1 .. M))
    <3>1. IsFiniteSet(1 .. M)
      BY FS_Interval
    <3> QED
      BY <3>1, FS_Product
  <2>2. all \in SUBSET (P \X (1 .. M))
    OBVIOUS
  <2> QED
    BY <2>1, <2>2, FS_Subset
<1>2. ASSUME NEW p \in P
      PROVE  \E g : g \in Ways(p)
  <2> DEFINE n == Cardinality(part(p))
  <2>1. n \in Nat /\ n <= room[p] /\ ExistsBijection(1 .. n, part(p))
    BY FS_CardinalityType
  <2>2. ExistsBijection(part(p), 1 .. n)
    BY <2>1, Fun_ExistsBijSymmetric
  <2>3. PICK g : g \in Bijection(part(p), 1 .. n)
    BY <2>2 DEF ExistsBijection
  <2>4. g \in Injection(part(p), 1 .. room[p])
    BY <2>1, <2>3 DEF Bijection, Injection
  <2> QED
    BY <2>4
<1>3. ASSUME NEW p \in P
      PROVE  (CHOOSE g : g \in Ways(p)) \in Ways(p)
  BY <1>2
<1>4. ASSUME NEW c \in S
      PROVE  h[c] \in all
  <2>1. owner[c] \in P /\ c \in part(owner[c])
    OBVIOUS
  <2>2. (CHOOSE g : g \in Ways(owner[c]))[c] \in 1 .. room[owner[c]]
    BY <1>3, <2>1 DEF Injection
  <2>3. <<owner[c], (CHOOSE g : g \in Ways(owner[c]))[c]>>
          \in {owner[c]} \X (1 .. room[owner[c]])
    BY <2>2
  <2>4. {owner[c]} \X (1 .. room[owner[c]]) \subseteq all
    BY <2>1
  <2> HIDE DEF all
  <2> QED
    BY <2>3, <2>4
<1>5. ASSUME NEW c \in S, NEW d \in S, h[c] = h[d]
      PROVE  c = d
  <2>1. owner[c] = owner[d] /\ owner[c] \in P
    BY <1>5
  <2>2. c \in part(owner[c]) /\ d \in part(owner[c])
    BY <2>1
  <2> DEFINE g == CHOOSE f : f \in Ways(owner[c])
  <2>3. g[c] = g[d]
    BY <1>5, <2>1
  <2>4. g \in Ways(owner[c])
    BY <1>3, <2>1
  <2> HIDE DEF g
  <2> QED
    BY <2>2, <2>3, <2>4 DEF Injection, IsInjective
<1>6. h \in Injection(S, all)
  <2>1. h \in [S -> all]
    BY <1>4
  <2> HIDE DEF h
  <2> QED
    BY <1>5, <2>1 DEF Injection, IsInjective
<1> HIDE DEF h, all
<1>7. IsFiniteSet(S) /\ Cardinality(S) <= Cardinality(all)
  BY <1>1, <1>6, FS_Injection
<1>8. Cardinality(S) \in Nat
  BY <1>7, FS_CardinalityType
<1> QED
  BY <1>1, <1>7, <1>8 DEF all, Places

\* The sizes leave room for one more cluster in a uint32_t.
SizesReachable == \A bytes \in Sizes : bytes + BYTES_PER_CLUSTER <= UINT32

\* So does what the entries were last asked for.
ReachableInv == \A e \in Entries : size[e] + BYTES_PER_CLUSTER <= UINT32

\* The sizes are those that the allocator is asked for.
LEMMA ReachableStep ==
  ASSUME SizesReachable, Inv, ReachableInv, [Next]_vars
  PROVE  ReachableInv'
<1>1. CASE \E e \in Entries, bytes \in Sizes : size' = [size EXCEPT ![e] = bytes]
  BY <1>1 DEF SizesReachable, ReachableInv, Inv, TypeOK
<1>2. CASE \E e \in Entries : size' = [size EXCEPT ![e] = 0]
  BY <1>2, ConstantsAssumption DEF ReachableInv, Inv, TypeOK
<1>3. CASE size' = size
  BY <1>3 DEF ReachableInv
<1>4. \/ \E e \in Entries, bytes \in Sizes : size' = [size EXCEPT ![e] = bytes]
      \/ \E e \in Entries : size' = [size EXCEPT ![e] = 0]
      \/ size' = size
  <2>1. CASE FreeLast
    BY <2>1 DEF FreeLast, entryVars, Inv, CallInv, InTree
  <2>2. CASE Next /\ ~FreeLast
    BY <2>2 DEF Next, Iteration, Allocate, Reallocate, Free, AllocateFails,
       AllocateNext, AllocateEnd, Walk, Follow, Extend, Shrink, Terminate, FreeNext,
       OutOfClusters, entryVars
  <2> QED
    BY <2>1, <2>2 DEF vars, entryVars
<1> QED
  BY <1>1, <1>2, <1>3, <1>4

\* assert(0) fails in a state in which every cluster is on a chain, and the chain of
\* the call has fewer than it needs.
LEMMA AbortWhenFull ==
  ASSUME Inv, SizeInv, ReachableInv, pc # "aborted",
         (\E e \in Entries : AllocateFails(e)) \/ OutOfClusters
  PROVE  AbortsOnlyWhenFull'
<1> DEFINE present == InTree \cup ({entry} \ {NONE})
           head == [e \in present |-> IF e = entry THEN start ELSE first_cluster[e]]
           room == [e \in present |-> IF e = entry THEN ClustersFor(size[e]) - 1
                                      ELSE ClustersFor(size[e])]
           owner == [c \in Clusters |-> Owners[c]]
<1>1. /\ UNCHANGED <<FAT_ENTRIES, DIR_ENTRIES, LAST_FREE_ENTRY>>
      /\ UNCHANGED <<first_cluster, size, entry, start>>
      /\ pc' = "aborted"
      /\ pc \in {"idle", "allocate", "reallocate"}
      /\ pc = "idle" => Full(FAT_ENTRIES)
      /\ pc = "allocate" => Full(Occupied)
      /\ pc = "reallocate" => Full(FAT_ENTRIES) /\ (AtEnd \/ extending)
      /\ pc # "idle" => current_size < size[entry]
  BY DEF AllocateFails, OutOfClusters, tableVars, entryVars, callVars
<1>2. /\ WellFormed(Table, Heads) /\ present \subseteq Entries
      /\ pc = "idle" => entry = NONE
      /\ pc # "idle" => entry \in Entries /\ start \in Clusters /\ next_cluster \in Clusters
      /\ Kept = InTree /\ NONE \notin Entries
  BY <1>1, ConstantsAssumption DEF Inv, ChainInv, CallInv, TypeOK, InTree, Kept
<1>3. \A c \in Clusters : Table[c] # FREE
  BY <1>1, <1>2, ClustersFacts DEF Table, Full, Marks, Occupied, Inv, TypeOK
<1>4. ASSUME NEW c \in Clusters
      PROVE  Owners[c] \in present /\ c \in ChainIn(Table, head[Owners[c]])
  <2>1. PICK h \in Heads : c \in ChainIn(Table, h)
    BY <1>2, <1>3 DEF WellFormed
  <2>2. CASE \E e \in Kept : h = first_cluster[e]
    <3>1. PICK e \in Kept : h = first_cluster[e]
      BY <2>2
    <3>2. Owners[c] = e /\ e \in present
      BY <1>2, <2>1, <3>1 DEF Inv, ChainInv
    <3>3. e = entry => start = h
      BY <1>1, <1>2, <3>1 DEF Inv, CallInv, Kept, InTree
    <3>4. head[e] = h
      BY <3>1, <3>2, <3>3
    <3> QED
      BY <2>1, <3>2, <3>4
  <2>3. CASE pc = "allocate" /\ h = start
    <3>1. Owners[c] = entry /\ entry \in present
      BY <1>2, <2>1, <2>3 DEF Inv, ChainInv
    <3>2. head[entry] = start
      BY <3>1
    <3> QED
      BY <2>1, <2>3, <3>1, <3>2
  <2> QED
    BY <1>1, <2>1, <2>2, <2>3 DEF Heads
<1>5. ASSUME NEW e \in present
      PROVE  /\ head[e] \in Clusters /\ ClustersFor(size[e]) \in 1 .. UINT32
             /\ Count(head[e]) <= room[e]
  <2>1. ClustersFor(size[e]) \in 1 .. UINT32
    <3>1. size[e] \in 0 .. UINT32 - 1 /\ size[e] \in Nat /\ UINT32 \in Nat \ {0}
      BY <1>2, ConstantsAssumption DEF Inv, TypeOK
    <3>2. UINT32 * BYTES_PER_CLUSTER >= UINT32
      BY ConstantsAssumption
    <3>3. UINT32 * BYTES_PER_CLUSTER >= size[e]
      BY <3>1, <3>2, ConstantsAssumption
    <3> QED
      BY <3>1, <3>3, ClustersForFacts
  <2>2. CASE e # entry
    <3>1. e \in Kept /\ head[e] = first_cluster[e]
      BY <1>2, <2>2
    <3>2. first_cluster[e] \in Clusters
      BY <3>1, KeptFacts
    <3> QED
      BY <2>1, <2>2, <3>1, <3>2 DEF SizeInv, OthersFit
  <2>3. CASE e = entry
    <3>1. pc \in {"allocate", "reallocate"} /\ head[e] = start
      BY <1>1, <1>2, <2>3
    <3>2. ~Unreachable
      BY <1>2, <2>3, ConstantsAssumption DEF Unreachable, ReachableInv, Inv, TypeOK
    <3>3. PICK passed \in Nat \ {0} : Progress(passed)
      BY <3>1, <3>2 DEF SizeInv
    <3>4. passed < ClustersFor(size[e])
      <4>1. passed * BYTES_PER_CLUSTER < size[e] /\ passed * BYTES_PER_CLUSTER \in Nat
            /\ size[e] \in Nat
        BY <1>1, <1>2, <2>3, <3>1, <3>3, ConstantsAssumption
        DEF Progress, Inv, TypeOK
      <4> QED
        BY <2>1, <4>1, ClustersForFacts
    <3>5. Count(start) <= passed
      <4>1. CASE pc = "reallocate" /\ ~extending
        <5>1. Table[next_cluster] = EOFC
          BY <1>1, <4>1 DEF AtEnd, Table, Marks
        <5>2. ChainIn(Table, next_cluster) = {next_cluster}
          BY <1>1, <1>2, <4>1, <5>1, ChainEnd, ClustersFacts
        <5>3. Count(next_cluster) = 1
          BY <5>2, FS_Singleton DEF Count
        <5>4. Count(start) \in Nat
          BY <1>1, <1>2, <4>1, ChainFinite DEF Count
        <5> QED
          BY <3>3, <4>1, <5>3, <5>4 DEF Progress
      <4>2. CASE pc = "allocate" \/ extending
        BY <3>1, <3>3, <4>2 DEF Progress
      <4> QED
        BY <3>1, <4>1, <4>2
    <3>6. room[e] = ClustersFor(size[e]) - 1 /\ start \in Clusters
      BY <1>2, <2>3, <3>1
    <3>7. Count(start) \in Nat
      BY <3>6, ChainFinite DEF Count
    <3> QED
      BY <2>1, <3>1, <3>4, <3>5, <3>6, <3>7
  <2> QED
    BY <2>2, <2>3
<1>6. IsFiniteSet(present)
  <2> DEFINE f == [e \in InTree |-> first_cluster[e]]
  <2>1. f \in Injection(InTree, Clusters)
    BY <1>2, KeptFacts DEF Injection, IsInjective
  <2>2. IsFiniteSet(InTree)
    BY <2>1, FS_Injection, ClustersFacts
  <2>3. IsFiniteSet({entry} \ {NONE})
    BY FS_Singleton, FS_Subset
  <2> QED
    BY <2>2, <2>3, FS_Union
<1>7. /\ owner \in [Clusters -> present] /\ room \in [present -> 0 .. UINT32]
      /\ \A e \in present : room[e] = IF e = entry THEN ClustersFor(size[e]) - 1
                                       ELSE ClustersFor(size[e])
      /\ \A c \in Clusters : owner[c] = Owners[c]
      /\ \A e \in present : /\ head[e] \in Clusters /\ Count(head[e]) <= room[e]
                             /\ ClustersFor(size[e]) \in 1 .. UINT32
      /\ \A c \in Clusters : Owners[c] \in present /\ c \in ChainIn(Table, head[Owners[c]])
  <2>1. \A e \in present : /\ head[e] \in Clusters /\ Count(head[e]) <= room[e]
                           /\ ClustersFor(size[e]) \in 1 .. UINT32
    BY <1>5
  <2>2. \A c \in Clusters : Owners[c] \in present /\ c \in ChainIn(Table, head[Owners[c]])
    BY <1>4
  <2>3. owner \in [Clusters -> present]
    BY <2>2
  <2>4. room \in [present -> 0 .. UINT32]
    <3>1. \A n \in 1 .. UINT32 : n \in 0 .. UINT32 /\ n - 1 \in 0 .. UINT32
      BY ConstantsAssumption
    <3> QED
      BY <2>1, <3>1
  <2>5. \A e \in present : room[e] = IF e = entry THEN ClustersFor(size[e]) - 1
                                     ELSE ClustersFor(size[e])
    OBVIOUS
  <2> QED
    BY <2>1, <2>2, <2>3, <2>4, <2>5
<1> HIDE DEF head, room, owner
<1>8. ASSUME NEW e \in present
      PROVE  /\ IsFiniteSet({c \in Clusters : owner[c] = e})
             /\ Cardinality({c \in Clusters : owner[c] = e}) <= room[e]
  <2> DEFINE part == {c \in Clusters : owner[c] = e}
  <2>1. part \in SUBSET ChainIn(Table, head[e])
    BY <1>7
  <2>2. IsFiniteSet(ChainIn(Table, head[e])) /\ Count(head[e]) \in Nat
    BY <1>7, ChainFinite DEF Count
  <2>3. IsFiniteSet(part) /\ Cardinality(part) <= Count(head[e]) /\ Cardinality(part) \in Nat
    BY <2>1, <2>2, FS_Subset, FS_CardinalityType DEF Count
  <2>4. room[e] \in Nat /\ Count(head[e]) <= room[e]
    BY <1>7
  <2> QED
    BY <2>2, <2>3, <2>4
<1> DEFINE all == Places(present, room)
<1>9. /\ IsFiniteSet(all) /\ Cardinality(all) \in Nat
      /\ Cardinality(Clusters) <= Cardinality(all) /\ Cardinality(Clusters) \in Nat
  <2> HIDE DEF present
  <2>1. UINT32 \in Nat
    BY ConstantsAssumption
  <2>2. owner \in [Clusters -> present] /\ room \in [present -> 0 .. UINT32]
    BY <1>7
  <2>3. IsFiniteSet(all) /\ Cardinality(Clusters) <= Cardinality(all)
    BY <1>6, <1>8, <2>1, <2>2, RoomSuffices
  <2> QED
    BY <2>3, FS_CardinalityType, ClustersFacts
<1>10. Cardinality(Wanted(present)) + (IF entry = NONE THEN 1 ELSE 0)
         > Cardinality(Clusters)
  <2>1. CASE entry = NONE
    <3>1. \A e \in present : room[e] = ClustersFor(size[e])
      BY <1>2, <1>7, <2>1
    <3>2. Wanted(present) = all
      BY <3>1 DEF Wanted, Places
    <3> HIDE DEF all, present
    <3> QED
      BY <1>9, <2>1, <3>2
  <2>2. CASE entry # NONE
    <3> DEFINE top == <<entry, ClustersFor(size[entry])>>
    <3>1. entry \in present /\ ClustersFor(size[entry]) \in Nat \ {0}
          /\ room[entry] = ClustersFor(size[entry]) - 1
      <4>1. entry \in present
        BY <2>2
      <4> QED
        BY <1>7, <4>1
    <3>2. ASSUME top \in all
          PROVE  FALSE
      <4>1. PICK e \in present : top \in {e} \X (1 .. room[e])
        BY <3>2 DEF Places
      <4>2. e = entry /\ ClustersFor(size[entry]) \in 1 .. room[e]
        BY <4>1
      <4> QED
        BY <3>1, <4>2
    <3>3. Wanted(present) = all \cup {top}
      <4>1. ASSUME NEW e \in present
            PROVE  {e} \X (1 .. ClustersFor(size[e])) =
                     ({e} \X (1 .. room[e])) \cup (IF e = entry THEN {top} ELSE {})
        <5>1. CASE e = entry
          <6>1. 1 .. ClustersFor(size[e]) = (1 .. room[e]) \cup {ClustersFor(size[e])}
            BY <3>1, <5>1
          <6> QED
            BY <5>1, <6>1
        <5>2. CASE e # entry
          BY <1>7, <5>2
        <5> QED
          BY <5>1, <5>2
      <4>2. Wanted(present) \subseteq all \cup {top}
        BY <4>1 DEF Wanted, Places
      <4>3. all \subseteq Wanted(present) /\ top \in Wanted(present)
        <5>1. \A e \in present : {e} \X (1 .. room[e]) \subseteq {e} \X (1 .. ClustersFor(size[e]))
          BY <4>1
        <5>2. top \in {entry} \X (1 .. ClustersFor(size[entry]))
          BY <3>1
        <5>3. {entry} \X (1 .. ClustersFor(size[entry])) \subseteq Wanted(present)
          BY <3>1 DEF Wanted
        <5> HIDE DEF top
        <5>4. top \in Wanted(present)
          BY <5>2, <5>3
        <5>5. all \subseteq Wanted(present)
          BY <5>1 DEF Wanted, Places
        <5> QED
          BY <5>4, <5>5
      <4> QED
        BY <4>2, <4>3
    <3>4. Cardinality(Wanted(present)) = Cardinality(all) + 1
      <4> HIDE DEF all, top
      <4> QED
        BY <1>9, <3>2, <3>3, FS_AddElement
    <3> QED
      BY <1>9, <2>2, <3>4
  <2> QED
    BY <2>1, <2>2
<1>11. InTree' = InTree /\ Wanted(present)' = Wanted(present)
  BY <1>1 DEF InTree, Wanted, ClustersFor
<1> HIDE DEF present
<1> QED
  BY <1>1, <1>10, <1>11 DEF AbortsOnlyWhenFull, present

\* What is true of a program when it aborts stays true.
LEMMA AbortedFrozen ==
  ASSUME pc = "aborted", AbortsOnlyWhenFull, [Next]_vars
  PROVE  AbortsOnlyWhenFull'
<1>1. UNCHANGED vars
  BY DEF Next, Iteration, Allocate, Reallocate, Free, AllocateFails, AllocateNext,
     AllocateEnd, Walk, Extend, Shrink, Terminate, Ends, FreeNext, FreeLast,
     OutOfClusters, vars
<1>2. UNCHANGED <<first_cluster, size, pc, entry>>
  BY <1>1 DEF vars, entryVars, callVars
<1> QED
  BY <1>2 DEF AbortsOnlyWhenFull, InTree, Wanted, ClustersFor

\* assert(0) of find_free_cluster fails only on a volume that is too small, if no size
\* is so large that current_size wraps before it.
THEOREM AbortsHold ==
  ASSUME SizesReachable
  PROVE  Spec => []AbortsOnlyWhenFull
<1> DEFINE I == FullInv /\ ReachableInv /\ AbortsOnlyWhenFull
<1>1. Init => I
  <2>1. Init => ReachableInv /\ AbortsOnlyWhenFull
    BY ConstantsAssumption DEF Init, ReachableInv, AbortsOnlyWhenFull
  <2> QED
    BY <2>1, InitInv, InitSize DEF FullInv
<1>2. I /\ [Next]_vars => I'
  <2> SUFFICES ASSUME I, [Next]_vars PROVE I'
    OBVIOUS
  <2>1. FullInv' /\ ReachableInv'
    BY NextInv, NextSize, AbortedStays, ReachableStep DEF FullInv
  <2>2. AbortsOnlyWhenFull'
    <3>1. CASE pc = "aborted"
      BY <3>1, AbortedFrozen
    <3>2. CASE pc # "aborted" /\ pc' = "aborted"
      <4>1. (\E e \in Entries : AllocateFails(e)) \/ OutOfClusters
        BY <3>2 DEF Next, Iteration, Allocate, Reallocate, Free, AllocateNext,
           AllocateEnd, Walk, Follow, Extend, Shrink, Terminate, FreeNext, FreeLast,
           Returned, vars
      <4> QED
        BY <3>2, <4>1, AbortWhenFull DEF FullInv
    <3>3. CASE pc' # "aborted"
      BY <3>3 DEF AbortsOnlyWhenFull
    <3> QED
      BY <3>1, <3>2, <3>3
  <2> QED
    BY <2>1, <2>2
<1> QED
  BY <1>1, <1>2, PTL DEF Spec

================================================================================
