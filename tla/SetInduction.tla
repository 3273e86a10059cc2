------------------------------ MODULE SetInduction ------------------------------
(***************************************************************************)
(* Induction on the natural numbers and definition by recursion, stated    *)
(* with sets and functions in place of predicates and operators, so that   *)
(* every prover can apply them; and what FlattenSeq makes.                 *)
(***************************************************************************)
EXTENDS Integers, SequencesExt, SequenceTheorems, WellFoundedInduction, TLAPS

\* A set that has 0 and the successor of each of its numbers has all of them.
LEMMA NatSetInduction ==
  ASSUME NEW S, 0 \in S, \A n \in Nat : n \in S => n + 1 \in S
  PROVE  Nat \subseteq S
<1> SUFFICES ASSUME NEW k \in Nat, k \notin S PROVE FALSE
  OBVIOUS
<1> DEFINE T == {m \in Nat : m \notin S}
           R == OpToRel(<, Nat)
<1>1. IsWellFoundedOn(R, Nat)
  BY NatLessThanWellFounded
<1>2. T \subseteq Nat /\ T # {}
  OBVIOUS
<1>3. \A i, j \in Nat : i < j => <<i, j>> \in R
  BY DEF OpToRel
<1> HIDE DEF R, T
<1>4. PICK m \in T : \A y \in T : <<y, m>> \notin R
  BY <1>1, <1>2, WFMin
<1>5. m \in Nat /\ m # 0
  BY <1>4 DEF T
<1>6. m - 1 \in Nat /\ m - 1 < m /\ (m - 1) + 1 = m
  BY <1>5
<1>7. m - 1 \in T
  BY <1>4, <1>6 DEF T
<1>8. <<m - 1, m>> \in R
  BY <1>3, <1>5, <1>6
<1> QED
  BY <1>4, <1>7, <1>8

\* The same up to a bound.
LEMMA IntervalInduction ==
  ASSUME NEW S, NEW b \in Nat, 0 \in S, \A n \in 0 .. b - 1 : n \in S => n + 1 \in S
  PROVE  0 .. b \subseteq S
<1> DEFINE T == {n \in Nat : n <= b => n \in S}
<1>1. 0 \in T /\ \A n \in Nat : n \in T => n + 1 \in T
  OBVIOUS
<1>2. Nat \subseteq T
  BY <1>1, NatSetInduction
<1> QED
  BY <1>2

\* Every set of natural numbers that is not empty has a least element.
LEMMA LeastElement ==
  ASSUME NEW S, S \subseteq Nat, S # {}
  PROVE  \E m \in S : \A n \in S : m <= n
<1> SUFFICES ASSUME \A m \in S : \E n \in S : n < m PROVE FALSE
  OBVIOUS
<1> DEFINE T == {n \in Nat : \A k \in S : k > n}
<1>1. 0 \in T
  OBVIOUS
<1>2. ASSUME NEW n \in Nat, n \in T PROVE n + 1 \in T
  <2>1. \A k \in S : k >= n + 1
    BY <1>2
  <2>2. n + 1 \notin S
    BY <2>1
  <2> QED
    BY <2>1, <2>2
<1>3. Nat \subseteq T
  BY <1>1, <1>2, NatSetInduction
<1>4. PICK k : k \in S
  OBVIOUS
<1>5. k > k
  BY <1>3, <1>4
<1> QED
  BY <1>4, <1>5

\* The values of a recursion up to n.
Unfoldings(n, V, v0, step) ==
  {g \in [0 .. n -> V] : g[0] = v0 /\ \A i \in 0 .. n - 1 : g[i + 1] = step[i][g[i]]}

\* Recursion defines a value at each number.
LEMMA PrefixExists ==
  ASSUME NEW V, NEW v0 \in V, NEW step \in [Nat -> [V -> V]], NEW n \in Nat
  PROVE  Unfoldings(n, V, v0, step) # {}
<1> DEFINE T == {m \in Nat : Unfoldings(m, V, v0, step) # {}}
<1>1. 0 \in T
  <2>1. [i \in 0 .. 0 |-> v0] \in Unfoldings(0, V, v0, step)
    BY DEF Unfoldings
  <2> QED
    BY <2>1
<1>2. ASSUME NEW m \in Nat, m \in T PROVE m + 1 \in T
  <2>1. PICK g : g \in Unfoldings(m, V, v0, step)
    BY <1>2
  <2> DEFINE h == [i \in 0 .. m + 1 |-> IF i = m + 1 THEN step[m][g[m]] ELSE g[i]]
  <2>2. g \in [0 .. m -> V] /\ g[0] = v0
        /\ \A i \in 0 .. m - 1 : g[i + 1] = step[i][g[i]]
    BY <2>1 DEF Unfoldings
  <2>3. step[m][g[m]] \in V
    BY <2>2
  <2>4. h \in [0 .. m + 1 -> V]
    BY <2>2, <2>3
  <2>5. h[0] = v0
    BY <2>2
  <2>6. ASSUME NEW i \in 0 .. (m + 1) - 1 PROVE h[i + 1] = step[i][h[i]]
    BY <2>2
  <2>7. h \in Unfoldings(m + 1, V, v0, step)
    BY <2>4, <2>5, <2>6, Zenon DEF Unfoldings
  <2> QED
    BY <2>7
<1>3. Nat \subseteq T
  BY <1>1, <1>2, NatSetInduction
<1> QED
  BY <1>3

\* Two prefixes agree where both are defined.
LEMMA PrefixUnique ==
  ASSUME NEW V, NEW v0, NEW step,
         NEW m \in Nat, NEW n \in Nat, m <= n,
         NEW g \in Unfoldings(m, V, v0, step), NEW h \in Unfoldings(n, V, v0, step)
  PROVE  \A i \in 0 .. m : g[i] = h[i]
<1> DEFINE T == {i \in 0 .. m : g[i] = h[i]}
<1>1. 0 \in T
  BY DEF Unfoldings
<1>2. ASSUME NEW i \in 0 .. m - 1, i \in T PROVE i + 1 \in T
  BY <1>2 DEF Unfoldings
<1>3. 0 .. m \subseteq T
  BY <1>1, <1>2, IntervalInduction
<1> QED
  BY <1>3

\* Recursion defines a function.
LEMMA Recursion ==
  ASSUME NEW V, NEW v0 \in V, NEW step \in [Nat -> [V -> V]]
  PROVE  \E f \in [Nat -> V] :
           f[0] = v0 /\ \A n \in Nat : f[n + 1] = step[n][f[n]]
<1> DEFINE P(n) == CHOOSE g : g \in Unfoldings(n, V, v0, step)
           f == [n \in Nat |-> P(n)[n]]
<1>1. \A n \in Nat : P(n) \in Unfoldings(n, V, v0, step)
  BY PrefixExists
<1> HIDE DEF P
<1>2. f \in [Nat -> V]
  BY <1>1 DEF Unfoldings
<1>3. f[0] = v0
  BY <1>1 DEF Unfoldings
<1>4. ASSUME NEW n \in Nat PROVE f[n + 1] = step[n][f[n]]
  <2>1. P(n)[n] = P(n + 1)[n]
    BY <1>1, PrefixUnique
  <2>2. P(n + 1)[n + 1] = step[n][P(n + 1)[n]]
    <3>1. P(n + 1) \in Unfoldings(n + 1, V, v0, step)
      BY <1>1
    <3> QED
      BY <3>1 DEF Unfoldings
  <2> QED
    BY <2>1, <2>2
<1> QED
  BY <1>2, <1>3, <1>4

\* Sequences one after the other, up to each of them.
IsJoined(f, parts) ==
  /\ f[0] = <<>>
  /\ \A i \in 1 .. Len(parts) : f[i] = f[i - 1] \o parts[i]
  /\ FlattenSeq(parts) = f[Len(parts)]

\* The recursion of FlattenSeq defines what it seems to define.
LEMMA JoinedExists ==
  ASSUME NEW S, NEW parts \in Seq(Seq(S))
  PROVE  \E f : IsJoined(f, parts)
<1> DEFINE n == Len(parts)
           Turn(w, i) == IF i = 1 THEN parts[i] ELSE w[i - 1] \o parts[i]
           IsPart(w, m) == w = [i \in 1 .. m |-> Turn(w, i)]
           T == {m \in Nat : \E w : IsPart(w, m)}
           flatten == CHOOSE w : w = [i \in 1 .. Len(parts) |-> Turn(w, i)]
<1>1. n \in Nat /\ \A i \in 1 .. n : parts[i] \in Seq(S)
  BY LenProperties, ElementOfSeq
<1>2. FlattenSeq(parts) = IF n = 0 THEN parts ELSE flatten[n]
  BY Zenon DEF FlattenSeq
<1>3. 0 \in T
  <2>1. PICK w : w = [i \in 1 .. 0 |-> <<>>]
    OBVIOUS
  <2>2. IsPart(w, 0)
    BY <2>1
  <2> QED
    BY <2>2
<1>4. ASSUME NEW m \in Nat, m \in T PROVE m + 1 \in T
  <2>1. PICK w : IsPart(w, m)
    BY <1>4
  <2>2. PICK v : v = [i \in 1 .. m + 1 |-> IF i = m + 1 THEN Turn(w, m + 1) ELSE w[i]]
    OBVIOUS
  <2>3. \A i \in 1 .. m : v[i] = w[i]
    BY <2>2
  <2>4. v[m + 1] = Turn(w, m + 1)
    BY <2>2
  <2>5. ASSUME NEW i \in 1 .. m + 1 PROVE Turn(w, i) = Turn(v, i)
    <3>1. i # 1 => i - 1 \in 1 .. m
      OBVIOUS
    <3> QED
      BY <2>3, <3>1
  <2>6. \A i \in 1 .. m : w[i] = Turn(w, i)
    BY <2>1
  <2>7. ASSUME NEW i \in 1 .. m + 1 PROVE v[i] = Turn(v, i)
    <3>1. i = m + 1 \/ i \in 1 .. m
      OBVIOUS
    <3> HIDE DEF Turn, IsPart, T, flatten
    <3> QED
      BY <2>3, <2>4, <2>5, <2>6, <3>1
  <2>8. v = [i \in 1 .. m + 1 |-> v[i]]
    BY <2>2
  <2>9. IsPart(v, m + 1)
    <3> HIDE DEF Turn, T, flatten
    <3> QED
      BY <2>7, <2>8
  <2>10. m + 1 \in Nat
    OBVIOUS
  <2> HIDE DEF IsPart
  <2> QED
    BY <2>9, <2>10
<1>5. Nat \subseteq T
  <2> HIDE DEF T
  <2> QED
    BY <1>3, <1>4, NatSetInduction
<1>6. PICK w : IsPart(w, n)
  BY <1>1, <1>5
<1>7. flatten = [i \in 1 .. n |-> Turn(flatten, i)]
  <2>1. w = [i \in 1 .. Len(parts) |-> Turn(w, i)]
    BY <1>6
  <2> HIDE DEF Turn
  <2> QED
    BY <2>1, Zenon
<1> HIDE DEF flatten
<1>8. PICK f : f = [i \in 0 .. n |-> IF i = 0 THEN <<>> ELSE flatten[i]]
  OBVIOUS
<1>9. f[0] = <<>> /\ \A i \in 1 .. n : f[i] = flatten[i]
  BY <1>1, <1>8
<1>10. ASSUME NEW i \in 1 .. n PROVE f[i] = f[i - 1] \o parts[i]
  <2>1. flatten[i] = Turn(flatten, i)
    BY <1>7
  <2>2. CASE i = 1
    <3>1. <<>> \o parts[1] = parts[1]
      BY <1>1, <2>2, ConcatEmptySeq
    <3>2. f[1] = parts[1] /\ f[0] = <<>> /\ i - 1 = 0
      BY <1>9, <2>1, <2>2
    <3> QED
      BY <2>2, <3>1, <3>2
  <2>3. CASE i # 1
    <3>1. i - 1 \in 1 .. n
      BY <1>1, <2>3
    <3> QED
      BY <1>9, <2>1, <2>3, <3>1
  <2> QED
    BY <2>2, <2>3
<1>11. FlattenSeq(parts) = f[n]
  <2>1. CASE n = 0
    <3>1. parts = <<>>
      BY <2>1, EmptySeq
    <3> QED
      BY <1>2, <1>9, <2>1, <3>1
  <2>2. CASE n # 0
    BY <1>1, <1>2, <1>9, <2>2
  <2> QED
    BY <2>1, <2>2
<1> QED
  BY <1>9, <1>10, <1>11 DEF IsJoined

\* Sequences of a type, one after the other.
LEMMA JoinedTyped ==
  ASSUME NEW S, NEW parts \in Seq(Seq(S)), NEW f, IsJoined(f, parts)
  PROVE  \A i \in 0 .. Len(parts) : f[i] \in Seq(S)
<1> DEFINE T == {i \in 0 .. Len(parts) : f[i] \in Seq(S)}
<1>1. Len(parts) \in Nat /\ \A i \in 1 .. Len(parts) : parts[i] \in Seq(S)
  BY LenProperties, ElementOfSeq
<1>2. 0 \in T
  <2>1. 0 \in 0 .. Len(parts) /\ <<>> \in Seq(S)
    BY <1>1, EmptySeq
  <2> QED
    BY <2>1 DEF IsJoined
<1>3. ASSUME NEW i \in 0 .. Len(parts) - 1, i \in T PROVE i + 1 \in T
  <2>1. i + 1 \in 1 .. Len(parts) /\ (i + 1) - 1 = i /\ i + 1 \in 0 .. Len(parts)
    BY <1>1
  <2>2. f[i + 1] = f[i] \o parts[i + 1]
    BY <2>1 DEF IsJoined
  <2>3. f[i] \in Seq(S) /\ parts[i + 1] \in Seq(S)
    BY <1>1, <1>3, <2>1
  <2>4. f[i + 1] \in Seq(S)
    BY <2>2, <2>3, ConcatProperties
  <2> QED
    BY <2>1, <2>4
<1>4. 0 .. Len(parts) \subseteq T
  <2> HIDE DEF T
  <2> QED
    BY <1>1, <1>2, <1>3, IntervalInduction
<1> QED
  BY <1>4

\* Where each part is.
LEMMA JoinedPlaces ==
  ASSUME NEW S, NEW parts \in Seq(Seq(S)), NEW f, IsJoined(f, parts),
         NEW i \in 1 .. Len(parts), NEW k \in 1 .. Len(parts[i])
  PROVE  /\ Len(f[i - 1]) + k \in 1 .. Len(f[Len(parts)])
         /\ f[Len(parts)][Len(f[i - 1]) + k] = parts[i][k]
<1> DEFINE n == Len(parts)
           x == Len(f[i - 1]) + k
           T == {m \in 0 .. n - i : x \in 1 .. Len(f[i + m]) /\ f[i + m][x] = parts[i][k]}
<1>1. n \in Nat /\ \A j \in 1 .. n : parts[j] \in Seq(S)
  BY LenProperties, ElementOfSeq
<1>2. \A j \in 0 .. n : f[j] \in Seq(S) /\ Len(f[j]) \in Nat
  BY JoinedTyped, LenProperties
<1>3. \A j \in 1 .. n :
        /\ Len(f[j]) = Len(f[j - 1]) + Len(parts[j])
        /\ \A y \in 1 .. Len(f[j]) :
             f[j][y] = IF y <= Len(f[j - 1]) THEN f[j - 1][y]
                       ELSE parts[j][y - Len(f[j - 1])]
  <2> SUFFICES ASSUME NEW j \in 1 .. n
               PROVE  /\ Len(f[j]) = Len(f[j - 1]) + Len(parts[j])
                      /\ \A y \in 1 .. Len(f[j]) :
                           f[j][y] = IF y <= Len(f[j - 1]) THEN f[j - 1][y]
                                     ELSE parts[j][y - Len(f[j - 1])]
    OBVIOUS
  <2>1. j - 1 \in 0 .. n
    BY <1>1
  <2>2. f[j] = f[j - 1] \o parts[j]
    BY DEF IsJoined
  <2>3. PICK s, t, g : s = f[j - 1] /\ t = parts[j] /\ g = f[j]
    OBVIOUS
  <2>4. s \in Seq(S) /\ t \in Seq(S) /\ g = s \o t
    BY <1>1, <1>2, <2>1, <2>2, <2>3
  <2>5. /\ Len(g) = Len(s) + Len(t)
        /\ \A y \in 1 .. Len(g) : g[y] = IF y <= Len(s) THEN s[y] ELSE t[y - Len(s)]
    <3>1. /\ Len(s \o t) = Len(s) + Len(t)
          /\ \A y \in 1 .. Len(s) + Len(t) :
               (s \o t)[y] = IF y <= Len(s) THEN s[y] ELSE t[y - Len(s)]
      BY <2>4, ConcatProperties
    <3> QED
      BY <2>4, <3>1
  <2> QED
    BY <2>3, <2>5
<1> HIDE DEF n
<1>4. i - 1 \in 0 .. n /\ Len(f[i - 1]) \in Nat /\ Len(parts[i]) \in Nat
  BY <1>1, <1>2, LenProperties DEF n
<1>5. 0 \in T
  <2>1. i + 0 = i /\ 0 \in 0 .. n - i /\ i \in 1 .. n
    BY <1>1 DEF n
  <2>2. x \in 1 .. Len(f[i]) /\ ~(x <= Len(f[i - 1])) /\ x - Len(f[i - 1]) = k
    <3>1. PICK a, b, c : a = Len(f[i - 1]) /\ b = Len(parts[i]) /\ c = Len(f[i])
      OBVIOUS
    <3>2. a \in Nat /\ b \in Nat /\ c = a + b /\ k \in 1 .. b /\ x = a + k
      BY <1>3, <1>4, <2>1, <3>1
    <3>3. x \in 1 .. c /\ ~(x <= a) /\ x - a = k
      BY <3>2
    <3> QED
      BY <3>1, <3>3
  <2> QED
    BY <1>3, <2>1, <2>2
<1>6. ASSUME NEW m \in 0 .. (n - i) - 1, m \in T PROVE m + 1 \in T
  <2>1. PICK j \in 1 .. n : j = i + m + 1
    BY <1>1 DEF n
  <2>2. /\ j - 1 = i + m /\ j - 1 \in 0 .. n /\ i + (m + 1) = j /\ m + 1 \in 0 .. n - i
    BY <1>1, <2>1 DEF n
  <2>3. x \in 1 .. Len(f[j - 1]) /\ f[j - 1][x] = parts[i][k] /\ Len(f[j - 1]) \in Nat
    BY <1>2, <1>6, <2>2
  <2>4. Len(parts[j]) \in Nat
    BY <1>1, LenProperties
  <2>5. x \in 1 .. Len(f[j]) /\ f[j][x] = f[j - 1][x]
    <3>1. PICK a, b, c : a = Len(f[j - 1]) /\ b = Len(parts[j]) /\ c = Len(f[j])
      OBVIOUS
    <3>2. a \in Nat /\ b \in Nat /\ c = a + b /\ x \in 1 .. a
      BY <1>3, <2>3, <2>4, <3>1
    <3>3. x \in 1 .. c /\ x <= a
      BY <3>2
    <3> QED
      BY <1>3, <3>1, <3>3
  <2> QED
    BY <2>2, <2>3, <2>5
<1>7. n - i \in Nat /\ i + (n - i) = n
  BY <1>1 DEF n
<1>8. n - i \in T
  <2>1. 0 .. n - i \subseteq T
    <3> HIDE DEF T
    <3> QED
      BY <1>5, <1>6, <1>7, IntervalInduction
  <2>2. n - i \in 0 .. n - i
    BY <1>7
  <2> HIDE DEF T
  <2> QED
    BY <2>1, <2>2
<1> QED
  BY <1>7, <1>8 DEF n

================================================================================
