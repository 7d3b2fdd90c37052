------------------------ MODULE SeqlenBalancingProofs ------------------------
(***************************************************************************)
(* The partitioning algorithm shares out every row exactly once, whatever  *)
(* the lengths of the rows, and so do its two uses: a sort returns the     *)
(* items it is given, whatever it sorts by, and a merge puts the sets of   *)
(* two states together.  What it does sort by makes the sets even: their   *)
(* work differs by no more than what one row, or k consecutive rows of the *)
(* sorted ones, differ by.                                                 *)
(***************************************************************************)
EXTENDS SeqlenBalancing, CommonLemmas

-----------------------------------------------------------------------------
(* The five sorts of the algorithm.                                         *)

\* B holds the pairs of positions whose items compare, the first before the
\* second, and the comparison is by a.
Compares(B, a, n) ==
    /\ \A i \in 1..n : <<i, i>> \notin B
    /\ \A i, j \in 1..n : <<i, j>> \in B => a[i] >= a[j]
    /\ \A i, j \in 1..n : a[i] > a[j] => <<i, j>> \in B

\* How many items come before one.
Before(B, n, i) == Cardinality({j \in 1..n : <<j, i>> \in B})

\* An item that is worth less has more before it.
LEMMA LessComesLater ==
    ASSUME NEW n \in Nat, NEW a \in [1..n -> Int], NEW B, Compares(B, a, n),
           NEW i \in 1..n, NEW j \in 1..n, a[i] > a[j]
    PROVE  Before(B, n, i) < Before(B, n, j)
  <1> DEFINE S == {m \in 1..n : <<m, i>> \in B}
             T == {m \in 1..n : <<m, j>> \in B}
  <1>1. IsFiniteSet(T)
    <2>1. T \subseteq 1..n /\ IsFiniteSet(1..n)
      BY FS_Interval
    <2> HIDE DEF T
    <2> QED  BY <2>1, FS_Subset
  <1>2. \A m \in S : m \in T
    <2> TAKE m \in S
    <2>1. a[m] \in Int /\ a[i] \in Int /\ a[j] \in Int /\ a[m] >= a[i]
      BY DEF Compares
    <2>2. a[m] > a[j]
      BY <2>1
    <2> QED  BY <2>2 DEF Compares
  <1>3. i \in T /\ i \notin S
    BY DEF Compares
  <1>4. S \in SUBSET T
    BY <1>2
  <1> HIDE DEF S, T
  <1>5. S # T
    BY <1>3
  <1>6. IsFiniteSet(S) /\ Cardinality(S) < Cardinality(T)
    <2>1. IsFiniteSet(S) /\ Cardinality(S) <= Cardinality(T) /\ (Cardinality(S) = Cardinality(T) => S = T)
      BY <1>1, <1>4, FS_Subset
    <2>2. Cardinality(S) \in Nat /\ Cardinality(T) \in Nat
      BY <1>1, <2>1, FS_CardinalityType
    <2> QED  BY <1>5, <2>1, <2>2
  <1> QED  BY <1>6 DEF Before, S, T

\* t is s in an order in which e, given for the items of s, does not fall.
Ranked(t, s, e, n) ==
    \E p : /\ Permutes(p, n) /\ t = [m \in 1..n |-> s[p[m]]]
           /\ \A i, j \in 1..n : i <= j => e[p[i]] <= e[p[j]]

\* t is s in an order in which a does not grow.
Falls(t, s, a, n) ==
    \E p : /\ Permutes(p, n) /\ t = [m \in 1..n |-> s[p[m]]]
           /\ \A i, j \in 1..n : i <= j => a[p[i]] >= a[p[j]]

\* A sort by a comparison ends with the items in the order of a.
LEMMA RankedFalls ==
    ASSUME NEW n \in Nat, NEW s, NEW t, NEW a \in [1..n -> Int], NEW B, Compares(B, a, n),
           Ranked(t, s, [i \in 1..n |-> Before(B, n, i)], n)
    PROVE  Falls(t, s, a, n)
  <1> DEFINE e == [i \in 1..n |-> Before(B, n, i)]
  <1>1. PICK p : /\ Permutes(p, n) /\ t = [m \in 1..n |-> s[p[m]]]
                 /\ \A i, j \in 1..n : i <= j => e[p[i]] <= e[p[j]]
    BY DEF Ranked
  <1>2. ASSUME NEW i \in 1..n  PROVE  e[i] = Before(B, n, i) /\ e[i] \in Nat
    <2>1. IsFiniteSet(1..n) /\ {m \in 1..n : <<m, i>> \in B} \in SUBSET (1..n)
      BY FS_Interval
    <2>2. Before(B, n, i) \in Nat
      BY <2>1, FS_Subset, FS_CardinalityType DEF Before
    <2> QED  BY <2>2
  <1> HIDE DEF e
  <1>3. ASSUME NEW i \in 1..n, NEW j \in 1..n, i <= j  PROVE  a[p[i]] >= a[p[j]]
    <2>1. p[i] \in 1..n /\ p[j] \in 1..n
      BY <1>1 DEF Permutes
    <2>2. e[p[i]] <= e[p[j]] /\ e[p[i]] \in Nat /\ e[p[j]] \in Nat
      BY <1>1, <1>2, <1>3, <2>1
    <2>3. ASSUME a[p[j]] > a[p[i]]  PROVE  FALSE
      <3>1. Before(B, n, p[j]) < Before(B, n, p[i])
        BY <2>1, <2>3, LessComesLater
      <3>2. e[p[j]] < e[p[i]]
        BY <3>1, <2>1, <1>2
      <3> QED  BY <2>2, <3>2
    <2>4. a[p[i]] \in Int /\ a[p[j]] \in Int
      BY <2>1
    <2> QED  BY <2>3, <2>4
  <1> QED  BY <1>1, <1>3 DEF Falls

\* The head of a sequence decides how it compares, unless the heads tie.
LEMMA LexHead ==
    ASSUME NEW s \in Seq(Nat), NEW t \in Seq(Nat), Len(s) > 0, Len(t) > 0
    PROVE  /\ ~LexLess(s, s)
           /\ LexLess(s, t) => s[1] <= t[1]
           /\ s[1] < t[1] => LexLess(s, t)
  <1>1. /\ Len(s) \in Nat /\ DOMAIN s = 1..Len(s) /\ Len(t) \in Nat /\ DOMAIN t = 1..Len(t)
        /\ \A i \in 1..Len(s) : s[i] \in Nat
        /\ \A i \in 1..Len(t) : t[i] \in Nat
    BY LenProperties, ElementOfSeq
  <1>2. ~LexLess(s, s)
    BY <1>1 DEF LexLess, IsStrictPrefix
  <1>3. 1 \in 1..Len(s) /\ 1 \in 1..Len(t)
    BY <1>1
  <1>4. s[1] < t[1] => LexLess(s, t)
    <2>1. 1 .. 1 - 1 = {}
      OBVIOUS
    <2> QED  BY <1>1, <1>3, <2>1 DEF LexLess
  <1>5. ASSUME LexLess(s, t)  PROVE  s[1] <= t[1]
    <2>1. CASE IsStrictPrefix(s, t)
      <3>1. Len(s) <= Len(t) /\ SubSeq(s, 1, Len(s)) = SubSeq(t, 1, Len(s))
        BY <2>1 DEF IsStrictPrefix, IsPrefix
      <3>2. SubSeq(s, 1, Len(s))[1] = s[1]
        BY <1>1, <1>3, SubSeqProperties
      <3>3. SubSeq(t, 1, Len(s))[1] = t[1]
        <4>1. \A i \in 1..Len(s) : t[i] \in Nat
          BY <1>1, <3>1
        <4> QED  BY <4>1, <1>1, <1>3, SubSeqProperties
      <3> QED  BY <3>1, <3>2, <3>3, <1>1, <1>3
    <2>2. ASSUME NEW i \in DOMAIN s \intersect DOMAIN t, s[i] < t[i], \A j \in 1 .. i - 1 : s[j] = t[j]
          PROVE  s[1] <= t[1]
      <3>1. i \in 1..Len(s)
        BY <1>1
      <3>2. CASE i = 1
        BY <3>2, <2>2, <1>1, <1>3
      <3>3. CASE i # 1
        <4>1. 1 \in 1 .. i - 1
          BY <3>1, <3>3
        <4> QED  BY <4>1, <2>2, <1>1, <1>3
      <3> QED  BY <3>2, <3>3
    <2> QED  BY <1>5, <2>1, <2>2 DEF LexLess
  <1> QED  BY <1>2, <1>4, <1>5

\* sorted returns the items it is given, by their ranks.
LEMMA ArrangedRanked ==
    ASSUME NEW n \in Nat, NEW s, DOMAIN s = 1..n,
           NEW e \in [1..n -> Nat]
    PROVE  Ranked(Arranged(s, {<<e[i], i>> : i \in 1..n}), s, e, n)
  <1> DEFINE ranked == {<<e[i], i>> : i \in 1..n}
             upTo(p) == {q \in ranked : q[1] < p[1] \/ (q[1] = p[1] /\ q[2] <= p[2])}
             place(p) == Cardinality(upTo(p))
             from == [i \in 1..n |-> <<e[i], i>>]
  <1>1. IsFiniteSet(ranked) /\ Cardinality(ranked) <= n
    <2>1. from \in Surjection(1..n, ranked)
      BY DEF Surjection
    <2>2. IsFiniteSet(1..n) /\ Cardinality(1..n) = n
      BY FS_Interval
    <2> HIDE DEF ranked, from
    <2> QED  BY <2>1, <2>2, FS_Surjection
  <1>2. ASSUME NEW p \in ranked  PROVE  place(p) \in 1..n
    <2>1. upTo(p) \in SUBSET ranked
      OBVIOUS
    <2>2. p \in upTo(p)
      OBVIOUS
    <2> HIDE DEF ranked, upTo
    <2>3. IsFiniteSet(upTo(p)) /\ place(p) <= Cardinality(ranked)
      BY <2>1, <1>1, FS_Subset
    <2>4. place(p) \in Nat /\ Cardinality(ranked) \in Nat
      BY <2>3, <1>1, FS_CardinalityType
    <2>5. place(p) # 0
      BY <2>2, <2>3, FS_EmptySet
    <2> QED  BY <1>1, <2>3, <2>4, <2>5
  <1>3. ASSUME NEW p \in ranked, NEW q \in ranked,
               p[1] < q[1] \/ (p[1] = q[1] /\ p[2] < q[2])
        PROVE  place(p) < place(q)
    <2>1. upTo(p) \in SUBSET upTo(q) /\ upTo(q) \in SUBSET ranked
      BY <1>3
    <2>2. q \in upTo(q) /\ q \notin upTo(p)
      BY <1>3
    <2> HIDE DEF ranked, upTo
    <2>3. IsFiniteSet(upTo(q)) /\ IsFiniteSet(upTo(p))
      BY <2>1, <1>1, FS_Subset
    <2>4. place(p) <= place(q) /\ (place(p) = place(q) => upTo(p) = upTo(q))
      BY <2>1, <2>3, FS_Subset
    <2>5. place(p) \in Nat /\ place(q) \in Nat
      BY <2>3, FS_CardinalityType
    <2>6. upTo(p) # upTo(q)
      BY <2>2
    <2> QED  BY <2>4, <2>5, <2>6
  <1>4. ASSUME NEW p \in ranked, NEW q \in ranked, place(p) = place(q)
        PROVE  p = q
    <2>1. PICK i \in 1..n : p = <<e[i], i>>
      OBVIOUS
    <2>2. PICK j \in 1..n : q = <<e[j], j>>
      OBVIOUS
    <2>3. /\ ~(e[i] < e[j] \/ (e[i] = e[j] /\ i < j))
          /\ ~(e[j] < e[i] \/ (e[i] = e[j] /\ j < i))
      <3> HIDE DEF place, ranked
      <3>1. place(p) \in Nat
        <4>1. place(p) \in 1..n
          BY <1>2
        <4> QED  BY <4>1
      <3> QED  BY <3>1, <1>3, <1>4, <2>1, <2>2
    <2>4. i = j
      BY <2>3
    <2> QED  BY <2>1, <2>2, <2>4
  <1> DEFINE perm == [i \in 1..n |-> place(<<e[i], i>>)]
  <1>5. Permutes(perm, n)
    <2>1. ASSUME NEW i \in 1..n  PROVE  <<e[i], i>> \in ranked /\ perm[i] = place(<<e[i], i>>)
      OBVIOUS
    <2>2. perm \in [1..n -> 1..n]
      BY <1>2
    <2>3. \A i, j \in 1..n : perm[i] = perm[j] => i = j
      <3> HIDE DEF place, ranked, perm
      <3> QED  BY <1>4, <2>1
    <2> HIDE DEF perm
    <2> QED  BY <2>2, <2>3, InjectionPermutes
  <1> DEFINE pick(m) == CHOOSE p \in ranked : place(p) = m
             order == [m \in 1..n |-> pick(m)[2]]
  <1>6. ASSUME NEW m \in 1..n  PROVE  pick(m) \in ranked /\ place(pick(m)) = m
    <2>1. PICK i \in 1..n : perm[i] = m
      BY <1>5 DEF Permutes
    <2>2. <<e[i], i>> \in ranked /\ place(<<e[i], i>>) = m
      BY <2>1
    <2> HIDE DEF place, ranked
    <2> QED  BY <2>2
  <1>7. \A m \in 1..n : pick(m) = <<e[order[m]], order[m]>> /\ order[m] \in 1..n
    <2> TAKE m \in 1..n
    <2>1. pick(m) \in ranked
      BY <1>6
    <2>2. PICK i \in 1..n : pick(m) = <<e[i], i>>
      <3> HIDE DEF pick
      <3> QED  BY <2>1
    <2>3. order[m] = pick(m)[2]
      OBVIOUS
    <2> HIDE DEF pick, order
    <2> QED  BY <2>2, <2>3
  <1>8. Permutes(order, n)
    <2>1. order \in [1..n -> 1..n]
      <3>1. order = [m \in 1..n |-> order[m]]
        OBVIOUS
      <3> HIDE DEF order
      <3> QED  BY <1>7, <3>1
    <2>2. ASSUME NEW i \in 1..n, NEW j \in 1..n, order[i] = order[j]  PROVE  i = j
      <3>1. pick(i) = pick(j)
        <4> HIDE DEF pick, order
        <4> QED  BY <1>7, <2>2
      <3> HIDE DEF pick, order
      <3> QED  BY <3>1, <1>6
    <2> HIDE DEF order
    <2> QED  BY <2>1, <2>2, InjectionPermutes
  <1>9. Arranged(s, ranked) = [m \in 1..n |-> s[order[m]]]
    BY DEF Arranged
  <1>10. ASSUME NEW i \in 1..n, NEW j \in 1..n, i <= j  PROVE  e[order[i]] <= e[order[j]]
    <2>1. /\ pick(i) = <<e[order[i]], order[i]>> /\ order[i] \in 1..n
          /\ pick(j) = <<e[order[j]], order[j]>> /\ order[j] \in 1..n
          /\ pick(i) \in ranked /\ place(pick(i)) = i
          /\ pick(j) \in ranked /\ place(pick(j)) = j
      BY <1>6, <1>7
    <2> HIDE DEF pick, place, order, ranked
    <2>2. ASSUME e[order[j]] < e[order[i]]  PROVE  FALSE
      <3>1. pick(j)[1] < pick(i)[1]
        BY <2>1, <2>2
      <3>2. place(pick(j)) < place(pick(i))
        BY <3>1, <2>1, <1>3
      <3> QED  BY <3>2, <2>1, <1>10
    <2>3. e[order[i]] \in Nat /\ e[order[j]] \in Nat
      BY <2>1
    <2> QED  BY <2>2, <2>3
  <1>11. Ranked(Arranged(s, ranked), s, e, n)
    <2> HIDE DEF ranked, order
    <2> QED  BY <1>8, <1>9, <1>10 DEF Ranked
  <1> QED  BY <1>11

\* So no item is lost, and none doubled.
LEMMA ArrangedReorders ==
    ASSUME NEW n \in Nat, NEW s, DOMAIN s = 1..n,
           NEW e \in [1..n -> Nat]
    PROVE  Reorders(Arranged(s, {<<e[i], i>> : i \in 1..n}), s, n)
  <1> DEFINE t == Arranged(s, {<<e[i], i>> : i \in 1..n})
  <1>1. Ranked(t, s, e, n)
    BY ArrangedRanked
  <1> HIDE DEF t
  <1> QED  BY <1>1 DEF Ranked, Reorders, t

\* Each sort returns what it is given: the sets of a state ...
LEMMA SortedReorders ==
    ASSUME NEW k \in Nat, NEW work, NEW s, DOMAIN s = 1..k
    PROVE  Reorders(Sorted(work, s), s, k)
  <1> DEFINE ahead(i) == {j \in 1..k : Heavier(work, s[j], s[i])}
             e == [i \in 1..k |-> Cardinality(ahead(i))]
  <1>1. ASSUME NEW i \in 1..k  PROVE  Cardinality(ahead(i)) \in Nat
    <2>1. ahead(i) \in SUBSET (1..k) /\ IsFiniteSet(1..k)
      BY FS_Interval
    <2> HIDE DEF ahead
    <2> QED  BY <2>1, FS_Subset, FS_CardinalityType
  <1>2. e \in [1..k -> Nat]
    <2> HIDE DEF ahead
    <2> QED  BY <1>1
  <1>3. Sorted(work, s) = Arranged(s, {<<e[i], i>> : i \in 1..k})
    BY DEF Sorted, InOrder
  <1> HIDE DEF e
  <1> QED  BY <1>2, <1>3, ArrangedReorders

\* ... rows by their work ...
LEMMA AscendingReorders ==
    ASSUME NEW k \in Nat, NEW work, NEW s, DOMAIN s = 1..k
    PROVE  Reorders(Ascending(work, s), s, k)
  <1> DEFINE ahead(i) == {j \in 1..k : LexLess(<<work[s[j]], s[j]>>, <<work[s[i]], s[i]>>)}
             e == [i \in 1..k |-> Cardinality(ahead(i))]
  <1>1. ASSUME NEW i \in 1..k  PROVE  Cardinality(ahead(i)) \in Nat
    <2>1. ahead(i) \in SUBSET (1..k) /\ IsFiniteSet(1..k)
      BY FS_Interval
    <2> HIDE DEF ahead
    <2> QED  BY <2>1, FS_Subset, FS_CardinalityType
  <1>2. e \in [1..k -> Nat]
    <2> HIDE DEF ahead
    <2> QED  BY <1>1
  <1>3. Ascending(work, s) = Arranged(s, {<<e[i], i>> : i \in 1..k})
    BY DEF Ascending, InOrder
  <1> HIDE DEF e
  <1> QED  BY <1>2, <1>3, ArrangedReorders

\* ... and by their number.
LEMMA RowOrderReorders ==
    ASSUME NEW k \in Nat, NEW s, DOMAIN s = 1..k
    PROVE  Reorders(InOrder(s, <), s, k)
  <1> DEFINE ahead(i) == {j \in 1..k : s[j] < s[i]}
             e == [i \in 1..k |-> Cardinality(ahead(i))]
  <1>1. ASSUME NEW i \in 1..k  PROVE  Cardinality(ahead(i)) \in Nat
    <2>1. ahead(i) \in SUBSET (1..k) /\ IsFiniteSet(1..k)
      BY FS_Interval
    <2> HIDE DEF ahead
    <2> QED  BY <2>1, FS_Subset, FS_CardinalityType
  <1>2. e \in [1..k -> Nat]
    <2> HIDE DEF ahead
    <2> QED  BY <1>1
  <1>3. InOrder(s, <) = Arranged(s, {<<e[i], i>> : i \in 1..k})
    BY DEF InOrder
  <1> HIDE DEF e
  <1> QED  BY <1>2, <1>3, ArrangedReorders

-----------------------------------------------------------------------------
(* Sequences of sequences of rows.                                          *)

\* A row in a sequence of sequences of rows.
Holds(parts, x) == \E i \in DOMAIN parts : \E j \in DOMAIN parts[i] : parts[i][j] = x

\* No row stands in two places.
Once(parts) ==
    \A i, h \in DOMAIN parts : \A j \in DOMAIN parts[i], l \in DOMAIN parts[h] :
        parts[i][j] = parts[h][l] => i = h /\ j = l

\* k sequences of rows of R, no row twice.
Dealt(parts, k, R) == parts \in [1..k -> Seq(R)] /\ Once(parts)

\* k sequences that hold every row of R exactly once.
Partitioned(parts, k, R) == Dealt(parts, k, R) /\ \A x \in R : Holds(parts, x)

\* s and t hold the same rows.
SameRows(s, t) == \A x : Holds(s, x) <=> Holds(t, x)

\* The order of the sets does not matter ...
LEMMA ReorderedDealt ==
    ASSUME NEW k \in Nat, NEW R, NEW s, Dealt(s, k, R), NEW t, Reorders(t, s, k)
    PROVE  Dealt(t, k, R) /\ SameRows(t, s)
  <1>1. PICK p : Permutes(p, k) /\ t = [m \in 1..k |-> s[p[m]]]
    BY DEF Reorders
  <1>2. s \in [1..k -> Seq(R)] /\ p \in [1..k -> 1..k] /\ DOMAIN t = 1..k /\ DOMAIN s = 1..k
    BY <1>1 DEF Dealt, Permutes
  <1>3. t \in [1..k -> Seq(R)]
    BY <1>1, <1>2
  <1>4. Once(t)
    <2> SUFFICES ASSUME NEW i \in 1..k, NEW h \in 1..k, NEW j \in DOMAIN t[i], NEW l \in DOMAIN t[h],
                        t[i][j] = t[h][l]
                 PROVE  i = h /\ j = l
      BY <1>2 DEF Once
    <2>1. t[i] = s[p[i]] /\ t[h] = s[p[h]] /\ p[i] \in 1..k /\ p[h] \in 1..k
      BY <1>1, <1>2
    <2>2. p[i] = p[h] /\ j = l
      BY <2>1, <1>2 DEF Dealt, Once
    <2> QED  BY <2>2, <1>1 DEF Permutes
  <1>5. ASSUME NEW x  PROVE  Holds(t, x) <=> Holds(s, x)
    <2>1. ASSUME Holds(t, x)  PROVE  Holds(s, x)
      <3>1. PICK i \in 1..k : \E j \in DOMAIN t[i] : t[i][j] = x
        BY <2>1, <1>2 DEF Holds
      <3>2. t[i] = s[p[i]] /\ p[i] \in 1..k
        BY <1>1, <1>2
      <3> QED  BY <3>1, <3>2, <1>2 DEF Holds
    <2>2. ASSUME Holds(s, x)  PROVE  Holds(t, x)
      <3>1. PICK i \in 1..k : \E j \in DOMAIN s[i] : s[i][j] = x
        BY <2>2, <1>2 DEF Holds
      <3>2. PICK m \in 1..k : p[m] = i
        BY <1>1 DEF Permutes
      <3>3. t[m] = s[i]
        BY <3>2, <1>1
      <3> QED  BY <3>1, <3>3, <1>2 DEF Holds
    <2> QED  BY <2>1, <2>2
  <1> QED  BY <1>3, <1>4, <1>5 DEF Dealt, SameRows

\* ... nor does the order inside of them.
LEMMA InnerReorderedDealt ==
    ASSUME NEW k \in Nat, NEW R, NEW s, Dealt(s, k, R),
           NEW t, t = [i \in 1..k |-> t[i]], \A i \in 1..k : Reorders(t[i], s[i], Len(s[i]))
    PROVE  Dealt(t, k, R) /\ SameRows(t, s)
  <1>1. s \in [1..k -> Seq(R)] /\ DOMAIN s = 1..k /\ DOMAIN t = 1..k
    BY DEF Dealt
  <1>2. ASSUME NEW i \in 1..k
        PROVE  s[i] \in Seq(R) /\ Len(s[i]) \in Nat /\ DOMAIN s[i] = 1..Len(s[i])
    BY <1>1, LenProperties
  <1>3. ASSUME NEW i \in 1..k  PROVE  t[i] \in Seq(R) /\ DOMAIN t[i] = 1..Len(s[i])
    <2>1. PICK p : Permutes(p, Len(s[i])) /\ t[i] = [m \in 1..Len(s[i]) |-> s[i][p[m]]]
      BY DEF Reorders
    <2>2. \A m \in 1..Len(s[i]) : s[i][p[m]] \in R
      BY <2>1, <1>2, ElementOfSeq DEF Permutes
    <2>3. t[i] \in [1..Len(s[i]) -> R]
      BY <2>1, <2>2
    <2>4. Len(s[i]) \in Nat
      BY <1>2
    <2>5. t[i] \in Seq(R)
      BY <2>3, <2>4, SeqDef
    <2> QED  BY <2>3, <2>5
  <1>4. t \in [1..k -> Seq(R)]
    BY <1>1, <1>3
  <1>5. Once(t)
    <2> SUFFICES ASSUME NEW i \in 1..k, NEW h \in 1..k, NEW j \in DOMAIN t[i], NEW l \in DOMAIN t[h],
                        t[i][j] = t[h][l]
                 PROVE  i = h /\ j = l
      BY <1>1 DEF Once
    <2>1. PICK p : Permutes(p, Len(s[i])) /\ t[i] = [m \in 1..Len(s[i]) |-> s[i][p[m]]]
      BY DEF Reorders
    <2>2. PICK q : Permutes(q, Len(s[h])) /\ t[h] = [m \in 1..Len(s[h]) |-> s[h][q[m]]]
      BY DEF Reorders
    <2>3. j \in 1..Len(s[i]) /\ l \in 1..Len(s[h])
      BY <1>3
    <2>4. t[i][j] = s[i][p[j]] /\ t[h][l] = s[h][q[l]]
      BY <2>1, <2>2, <2>3
    <2>5. p[j] \in DOMAIN s[i] /\ q[l] \in DOMAIN s[h]
      <3>1. p[j] \in 1..Len(s[i]) /\ q[l] \in 1..Len(s[h])
        BY <2>1, <2>2, <2>3 DEF Permutes
      <3> QED  BY <3>1, <1>2
    <2>6. i = h /\ p[j] = q[l]
      BY <2>4, <2>5, <1>1 DEF Dealt, Once
    <2>7. t[i][j] = t[i][l] /\ l \in 1..Len(s[i])
      BY <2>3, <2>6
    <2>8. p[l] \in DOMAIN s[i] /\ t[i][l] = s[i][p[l]]
      <3>1. p[l] \in 1..Len(s[i]) /\ t[i][l] = s[i][p[l]]
        BY <2>1, <2>7 DEF Permutes
      <3> QED  BY <3>1, <1>2
    <2>9. p[j] = p[l]
      <3>1. s[i][p[j]] = s[i][p[l]] /\ p[j] \in DOMAIN s[i] /\ p[l] \in DOMAIN s[i]
        BY <2>4, <2>5, <2>7, <2>8
      <3> QED  BY <3>1, <1>1 DEF Dealt, Once
    <2> QED  BY <2>1, <2>3, <2>6, <2>7, <2>9 DEF Permutes
  <1>6. ASSUME NEW x  PROVE  Holds(t, x) <=> Holds(s, x)
    <2>1. ASSUME NEW i \in 1..k
          PROVE  (\E j \in DOMAIN t[i] : t[i][j] = x) <=> (\E j \in DOMAIN s[i] : s[i][j] = x)
      <3>1. PICK p : Permutes(p, Len(s[i])) /\ t[i] = [m \in 1..Len(s[i]) |-> s[i][p[m]]]
        BY DEF Reorders
      <3>2. DOMAIN t[i] = 1..Len(s[i]) /\ DOMAIN s[i] = 1..Len(s[i])
        BY <1>2, <1>3
      <3>3. ASSUME NEW j \in 1..Len(s[i]), t[i][j] = x
            PROVE  \E l \in 1..Len(s[i]) : s[i][l] = x
        <4>1. p[j] \in 1..Len(s[i])
          BY <3>1 DEF Permutes
        <4>2. t[i][j] = s[i][p[j]]
          BY <3>1
        <4> QED  BY <4>1, <4>2, <3>3
      <3>4. ASSUME NEW l \in 1..Len(s[i]), s[i][l] = x
            PROVE  \E j \in 1..Len(s[i]) : t[i][j] = x
        <4>1. PICK j \in 1..Len(s[i]) : p[j] = l
          BY <3>1 DEF Permutes
        <4> QED  BY <4>1, <3>1, <3>4
      <3> QED  BY <3>2, <3>3, <3>4
    <2> QED  BY <2>1, <1>1 DEF Holds
  <1> QED  BY <1>4, <1>5, <1>6 DEF Dealt, SameRows

\* What a sequence of sequences looks like.
LEMMA DealtShape ==
    ASSUME NEW k \in Nat, NEW R, NEW s, Dealt(s, k, R)
    PROVE  /\ DOMAIN s = 1..k /\ Len(s) = k
           /\ \A i \in 1..k : s[i] \in Seq(R) /\ Len(s[i]) \in Nat /\ DOMAIN s[i] = 1..Len(s[i])
  <1>1. s \in [1..k -> Seq(R)]
    BY DEF Dealt
  <1>2. s \in Seq(Seq(R))
    BY <1>1, SeqDef
  <1>3. DOMAIN s = 1..k /\ Len(s) = k
    BY <1>1, <1>2, LenProperties
  <1> QED  BY <1>1, <1>3, LenProperties

-----------------------------------------------------------------------------
(* The work of the rows in a sequence, and what is sorted by it.            *)

\* The work of each row of a sequence, and its load as a sum of them.
LEMMA LoadIs ==
    ASSUME NEW R, NEW work, Values(work, R), NEW s \in Seq(R)
    PROVE  /\ Load(work, s) = Sum([i \in 1..Len(s) |-> work[s[i]]], 1..Len(s))
           /\ [i \in 1..Len(s) |-> work[s[i]]] \in [1..Len(s) -> Nat]
           /\ Load(work, s) \in Nat
  <1> DEFINE n == Len(s)
             f == [i \in 1..n |-> work[s[i]]]
  <1>1. n \in Nat /\ DOMAIN s = 1..n
    BY LenProperties
  <1>2. IsFiniteSet(1..n)
    BY <1>1, FS_Interval
  <1>3. f \in [1..n -> Nat]
    BY <1>1, ElementOfSeq DEF Values
  <1>4. Load(work, s) = SumFunction(f)
    BY <1>1 DEF Load
  <1>5. SumFunction(f) = Sum(f, DOMAIN f)
    BY SumFunctionIs
  <1> HIDE DEF f
  <1>6. DOMAIN f = 1..n
    BY <1>3
  <1>7. Sum(f, 1..n) \in Nat
    BY <1>2, <1>3, SumNat
  <1>8. Load(work, s) = Sum(f, 1..n)
    BY <1>4, <1>5, <1>6
  <1> QED  BY <1>3, <1>7, <1>8 DEF f

\* A load is a number.
LEMMA LoadNat ==
    ASSUME NEW R, NEW work, Values(work, R), NEW s \in Seq(R)
    PROVE  Load(work, s) \in Nat
  BY LoadIs

\* No rows, no load.
LEMMA LoadOfNone ==
    ASSUME NEW R, NEW work, Values(work, R), NEW s \in Seq(R)
    PROVE  Len(s) = 0 => Load(work, s) = 0
  <1> DEFINE f == [i \in 1..Len(s) |-> work[s[i]]]
             D == 1..Len(s)
  <1>1. Load(work, s) = Sum(f, D)
    BY LoadIs
  <1>2. Len(s) = 0 => D = {}
    OBVIOUS
  <1> HIDE DEF f, D
  <1> QED  BY <1>1, <1>2, SumOfNone

\* The load of one row.
LEMMA LoadOfOne ==
    ASSUME NEW R, NEW work, Values(work, R), NEW x \in R
    PROVE  Load(work, <<x>>) = work[x]
  <1> DEFINE s == <<x>>
             f == [i \in 1..1 |-> work[s[i]]]
  <1>1. s \in Seq(R) /\ Len(s) = 1 /\ s[1] = x
    OBVIOUS
  <1> HIDE DEF s
  <1>2. Load(work, s) = Sum([i \in 1..Len(s) |-> work[s[i]]], 1..Len(s))
    BY <1>1, LoadIs
  <1>3. Load(work, s) = Sum(f, 1..1)
    BY <1>1, <1>2
  <1>4. IsFiniteSet(1..1) /\ Values(f, 1..1) /\ 1 \in 1..1 /\ f[1] = work[x] /\ (1..1) \ {1} = {}
    BY <1>1, FS_Interval DEF Values
  <1>5. work[x] \in Nat
    BY DEF Values
  <1> HIDE DEF f
  <1>6. Sum(f, 1..1) = f[1] + Sum(f, (1..1) \ {1})
    BY ONLY <1>4, SumRemoves
  <1>7. Sum(f, 1..1) = f[1] + 0
    BY <1>4, <1>6, SumOfNone
  <1> QED  BY <1>3, <1>4, <1>5, <1>7 DEF s

\* No row weighs more than all.
LEMMA LoadAtLeast ==
    ASSUME NEW R, NEW work, Values(work, R), NEW s \in Seq(R), NEW j \in 1..Len(s)
    PROVE  work[s[j]] <= Load(work, s)
  <1> DEFINE n == Len(s)
             f == [i \in 1..n |-> work[s[i]]]
  <1>1. n \in Nat
    BY LenProperties
  <1>2. Load(work, s) = Sum(f, 1..n) /\ f \in [1..n -> Nat]
    BY LoadIs
  <1>3. IsFiniteSet(1..n) /\ f[j] = work[s[j]] /\ j \in 1..n
    BY <1>1, FS_Interval
  <1> HIDE DEF f, n
  <1>4. f[j] <= Sum(f, 1..n)
    BY <1>2, <1>3, SumAtLeast
  <1> QED  BY <1>2, <1>3, <1>4

\* The order of the rows does not matter.
LEMMA LoadReordered ==
    ASSUME NEW R, NEW work, Values(work, R), NEW s \in Seq(R), NEW t, Reorders(t, s, Len(s))
    PROVE  t \in Seq(R) /\ Len(t) = Len(s) /\ Load(work, t) = Load(work, s)
  <1> DEFINE n == Len(s)
             f == [i \in 1..n |-> work[s[i]]]
  <1>1. n \in Nat /\ IsFiniteSet(1..n)
    BY LenProperties, FS_Interval
  <1>2. PICK p : Permutes(p, n) /\ t = [m \in 1..n |-> s[p[m]]]
    BY DEF Reorders
  <1>3. p \in [1..n -> 1..n]
    BY <1>2 DEF Permutes
  <1>4. t \in [1..n -> R]
    BY <1>2, <1>3, ElementOfSeq
  <1>5. t \in Seq(R)
    BY <1>1, <1>4, SeqDef
  <1>6. Len(t) = n
    BY <1>1, <1>4, <1>5, LenProperties
  <1>7. Load(work, s) = Sum(f, 1..n) /\ f \in [1..n -> Nat]
    BY LoadIs
  <1>8. Load(work, t) = Sum([i \in 1..n |-> work[t[i]]], 1..n)
    BY <1>5, <1>6, LoadIs
  <1>9. [i \in 1..n |-> work[t[i]]] = [i \in 1..n |-> f[p[i]]]
    BY <1>2, <1>3
  <1>10. Values(f, 1..n)
    BY <1>7 DEF Values
  <1> HIDE DEF f, n
  <1>11. Sum([i \in 1..n |-> f[p[i]]], 1..n) = Sum(f, 1..n)
    BY <1>1, <1>2, <1>3, <1>10, SumRenamed DEF Permutes
  <1> QED  BY <1>5, <1>6, <1>7, <1>8, <1>9, <1>11 DEF n

\* The load of rows put together.
LEMMA LoadConcat ==
    ASSUME NEW R, NEW work, Values(work, R), NEW s \in Seq(R), NEW t \in Seq(R)
    PROVE  s \o t \in Seq(R) /\ Load(work, s \o t) = Load(work, s) + Load(work, t)
  <1> DEFINE u == s \o t
             a == Len(s)
             b == Len(t)
             f == [i \in 1..a |-> work[s[i]]]
             g == [i \in 1..b |-> work[t[i]]]
             h == [i \in 1 .. a + b |-> work[u[i]]]
  <1>1. a \in Nat /\ b \in Nat
    BY LenProperties
  <1>2. /\ u \in Seq(R) /\ Len(u) = a + b
        /\ \A i \in 1 .. a + b : u[i] = IF i <= a THEN s[i] ELSE t[i - a]
    BY ConcatProperties
  <1> HIDE DEF u
  <1>3. Load(work, u) = Sum(h, 1 .. a + b)
    BY <1>2, LoadIs
  <1>4. Load(work, s) = Sum(f, 1..a) /\ f \in [1..a -> Nat]
    BY LoadIs
  <1>5. Load(work, t) = Sum(g, 1..b) /\ g \in [1..b -> Nat]
    BY LoadIs
  <1>6. \A i \in 1..a : h[i] = f[i]
    BY <1>1, <1>2
  <1>7. \A i \in 1..b : h[a + i] = g[i]
    <2> TAKE i \in 1..b
    <2>1. a + i \in 1 .. a + b /\ ~(a + i <= a) /\ (a + i) - a = i
      BY <1>1
    <2> QED  BY <2>1, <1>2
  <1> HIDE DEF a, b, f, g, h
  <1>8. Sum(h, 1 .. a + b) = Sum(f, 1..a) + Sum(g, 1..b)
    <2>1. Values(f, 1..a) /\ Values(g, 1..b)
      BY <1>4, <1>5 DEF Values
    <2>2. InTwo(h, f, a, g, b)
      BY <2>1, <1>6, <1>7 DEF InTwo
    <2> QED  BY <2>2, <1>1, SumOfTwo
  <1> QED  BY <1>2, <1>3, <1>4, <1>5, <1>8 DEF u

\* The state's sets end with the heaviest first ...
LEMMA SortedFalls ==
    ASSUME NEW R, R \subseteq Nat, NEW work, Values(work, R), NEW k \in Nat,
           NEW s \in [1..k -> Seq(R)]
    PROVE  Falls(Sorted(work, s), s, [i \in 1..k |-> Load(work, s[i])], k)
  <1> DEFINE a == [i \in 1..k |-> Load(work, s[i])]
             key == [i \in 1..k |-> <<Load(work, s[i]), Len(s[i])>> \o s[i]]
             B == {p \in (1..k) \X (1..k) : Heavier(work, s[p[1]], s[p[2]])}
             e == [i \in 1..k |-> Before(B, k, i)]
  <1>1. ASSUME NEW i \in 1..k
        PROVE  key[i] \in Seq(Nat) /\ Len(key[i]) > 0 /\ key[i][1] = a[i] /\ a[i] \in Nat
    <2>1. s[i] \in Seq(R) /\ s[i] \in Seq(Nat)
      <3>1. s[i] \in Seq(R) /\ Len(s[i]) \in Nat /\ s[i] \in [1..Len(s[i]) -> R]
        BY LenProperties
      <3>2. s[i] \in [1..Len(s[i]) -> Nat]
        BY <3>1
      <3> QED  BY <3>1, <3>2, SeqDef
    <2>2. Load(work, s[i]) \in Nat /\ Len(s[i]) \in Nat
      BY <2>1, LoadIs, LenProperties
    <2> DEFINE l == Load(work, s[i])
               m == Len(s[i])
               r == s[i]
               h == <<l, m>>
    <2>3. a[i] = l /\ key[i] = h \o r
      OBVIOUS
    <2>4. l \in Nat /\ m \in Nat /\ r \in Seq(Nat)
      BY <2>1, <2>2
    <2>5. Len(r) = m
      OBVIOUS
    <2> HIDE DEF a, key, l, m, r
    <2>6. h \in Seq(Nat) /\ Len(h) = 2 /\ h[1] = l
      BY <2>4
    <2> HIDE DEF h
    <2>7. h \o r \in Seq(Nat) /\ Len(h \o r) = 2 + m /\ (h \o r)[1] = l
      <3>1. /\ h \o r \in Seq(Nat) /\ Len(h \o r) = Len(h) + Len(r)
            /\ \A x \in 1 .. Len(h) + Len(r) : (h \o r)[x] = IF x <= Len(h) THEN h[x] ELSE r[x - Len(h)]
        BY <2>4, <2>6, ConcatProperties
      <3> QED  BY <3>1, <2>4, <2>5, <2>6
    <2> QED  BY <2>3, <2>4, <2>7
  <1>2. \A i, j \in 1..k : <<i, j>> \in B <=> LexLess(key[j], key[i])
    BY DEF Heavier
  <1>3. \A i, j \in 1..k : Heavier(work, s[j], s[i]) <=> <<j, i>> \in B
    OBVIOUS
  <1>4. Sorted(work, s) = Arranged(s, {<<e[i], i>> : i \in 1..k})
    <2> DEFINE ahead(i) == {j \in 1..k : Heavier(work, s[j], s[i])}
    <2>1. Sorted(work, s) = Arranged(s, {<<Cardinality(ahead(i)), i>> : i \in 1..k})
      BY DEF Sorted, InOrder
    <2>2. ASSUME NEW i \in 1..k  PROVE  e[i] = Cardinality(ahead(i))
      <3>1. ahead(i) = {j \in 1..k : <<j, i>> \in B}
        BY <1>3
      <3> QED  BY <3>1 DEF Before
    <2> HIDE DEF e, ahead
    <2>3. {<<Cardinality(ahead(i)), i>> : i \in 1..k} = {<<e[i], i>> : i \in 1..k}
      BY <2>2
    <2> QED  BY <2>1, <2>3
  <1> HIDE DEF key, B, a
  <1>5. Compares(B, a, k)
    <2>1. ASSUME NEW i \in 1..k, NEW j \in 1..k
          PROVE  /\ <<i, i>> \notin B
                 /\ <<i, j>> \in B => a[i] >= a[j]
                 /\ a[i] > a[j] => <<i, j>> \in B
      <3>1. /\ ~LexLess(key[i], key[i])
            /\ LexLess(key[j], key[i]) => key[j][1] <= key[i][1]
            /\ key[j][1] < key[i][1] => LexLess(key[j], key[i])
        BY <1>1, LexHead
      <3> QED  BY <3>1, <1>1, <1>2
    <2> QED  BY <2>1 DEF Compares
  <1>6. a \in [1..k -> Int] /\ e \in [1..k -> Nat]
    <2>1. a = [i \in 1..k |-> a[i]]
      BY DEF a
    <2>2. a \in [1..k -> Int]
      BY <1>1, <2>1
    <2>3. \A i \in 1..k : Before(B, k, i) \in Nat
      <3> TAKE i \in 1..k
      <3>1. IsFiniteSet(1..k) /\ {m \in 1..k : <<m, i>> \in B} \in SUBSET (1..k)
        BY FS_Interval
      <3> QED  BY <3>1, FS_Subset, FS_CardinalityType DEF Before
    <2> QED  BY <2>2, <2>3
  <1>7. Ranked(Sorted(work, s), s, e, k)
    <2>1. DOMAIN s = 1..k
      OBVIOUS
    <2> HIDE DEF e
    <2> QED  BY <1>4, <1>6, <2>1, ArrangedRanked
  <1>8. Falls(Sorted(work, s), s, a, k)
    BY <1>5, <1>6, <1>7, RankedFalls
  <1> QED  BY <1>8 DEF a

\* ... and rows with the lightest first.
LEMMA AscendingFalls ==
    ASSUME NEW R, R \subseteq Nat, NEW work, Values(work, R), NEW k \in Nat, NEW s \in [1..k -> R]
    PROVE  Falls(Ascending(work, s), s, [i \in 1..k |-> 0 - work[s[i]]], k)
  <1> DEFINE a == [i \in 1..k |-> 0 - work[s[i]]]
             key == [i \in 1..k |-> <<work[s[i]], s[i]>>]
             B == {p \in (1..k) \X (1..k) : LexLess(<<work[s[p[1]]], s[p[1]]>>, <<work[s[p[2]]], s[p[2]]>>)}
             e == [i \in 1..k |-> Before(B, k, i)]
  <1>1. ASSUME NEW i \in 1..k
        PROVE  /\ key[i] \in Seq(Nat) /\ Len(key[i]) > 0 /\ key[i][1] = work[s[i]]
               /\ a[i] \in Int /\ key[i][1] \in Int /\ a[i] = 0 - key[i][1]
    <2>1. s[i] \in Nat /\ work[s[i]] \in Nat
      BY DEF Values
    <2>2. <<work[s[i]], s[i]>> \in Seq(Nat)
      BY ONLY <2>1
    <2>3. key[i] = <<work[s[i]], s[i]>> /\ a[i] = 0 - work[s[i]]
      OBVIOUS
    <2> DEFINE x == work[s[i]]
               y == s[i]
    <2> HIDE DEF key, a, x, y
    <2> QED  BY ONLY <2>1, <2>2, <2>3 DEF x, y
  <1>2. \A i, j \in 1..k : <<i, j>> \in B <=> LexLess(key[i], key[j])
    OBVIOUS
  <1>4. Ascending(work, s) = Arranged(s, {<<e[i], i>> : i \in 1..k})
    <2> DEFINE ahead(i) == {j \in 1..k : LexLess(<<work[s[j]], s[j]>>, <<work[s[i]], s[i]>>)}
    <2>1. Ascending(work, s) = Arranged(s, {<<Cardinality(ahead(i)), i>> : i \in 1..k})
      BY DEF Ascending, InOrder
    <2>2. ASSUME NEW i \in 1..k  PROVE  e[i] = Cardinality(ahead(i))
      <3>1. ahead(i) = {j \in 1..k : <<j, i>> \in B}
        OBVIOUS
      <3> QED  BY <3>1 DEF Before
    <2> HIDE DEF e, ahead
    <2>3. {<<Cardinality(ahead(i)), i>> : i \in 1..k} = {<<e[i], i>> : i \in 1..k}
      BY <2>2
    <2> QED  BY <2>1, <2>3
  <1>6. a \in [1..k -> Int] /\ e \in [1..k -> Nat]
    <2> HIDE DEF B, key
    <2>1. a = [i \in 1..k |-> a[i]]
      OBVIOUS
    <2>2. \A i \in 1..k : a[i] \in Int
      <3> HIDE DEF a
      <3> QED  BY <1>1
    <2>3. a \in [1..k -> Int]
      <3> HIDE DEF a
      <3> QED  BY <2>1, <2>2
    <2>4. \A i \in 1..k : Before(B, k, i) \in Nat
      <3> TAKE i \in 1..k
      <3>1. IsFiniteSet(1..k) /\ {m \in 1..k : <<m, i>> \in B} \in SUBSET (1..k)
        BY FS_Interval
      <3> QED  BY <3>1, FS_Subset, FS_CardinalityType DEF Before
    <2> QED  BY <2>3, <2>4
  <1> HIDE DEF key, B, a
  <1>5. Compares(B, a, k)
    <2>1. ASSUME NEW i \in 1..k, NEW j \in 1..k
          PROVE  /\ <<i, i>> \notin B
                 /\ <<i, j>> \in B => a[i] >= a[j]
                 /\ a[i] > a[j] => <<i, j>> \in B
      <3>1. /\ ~LexLess(key[i], key[i])
            /\ LexLess(key[i], key[j]) => key[i][1] <= key[j][1]
            /\ key[i][1] < key[j][1] => LexLess(key[i], key[j])
        BY <1>1, LexHead
      <3> DEFINE x == key[i][1]
                 y == key[j][1]
                 u == a[i]
                 v == a[j]
      <3>2. x \in Int /\ y \in Int /\ u = 0 - x /\ v = 0 - y
        BY <1>1
      <3>3. (<<i, i>> \in B <=> LexLess(key[i], key[i])) /\ (<<i, j>> \in B <=> LexLess(key[i], key[j]))
        BY <1>2
      <3>4. /\ ~LexLess(key[i], key[i])
            /\ LexLess(key[i], key[j]) => x <= y
            /\ x < y => LexLess(key[i], key[j])
        BY <3>1
      <3> HIDE DEF x, y, u, v
      <3>5. (x <= y <=> u >= v) /\ (x < y <=> u > v)
        BY ONLY <3>2
      <3>6. /\ <<i, i>> \notin B
            /\ <<i, j>> \in B => u >= v
            /\ u > v => <<i, j>> \in B
        BY ONLY <3>3, <3>4, <3>5
      <3> QED  BY <3>6 DEF u, v
    <2> QED  BY <2>1 DEF Compares
  <1>7. Ranked(Ascending(work, s), s, e, k)
    <2>1. DOMAIN s = 1..k
      OBVIOUS
    <2> HIDE DEF e
    <2> QED  BY <1>4, <1>6, <2>1, ArrangedRanked
  <1>8. Falls(Ascending(work, s), s, a, k)
    BY <1>5, <1>6, <1>7, RankedFalls
  <1> QED  BY <1>8 DEF a

-----------------------------------------------------------------------------
(* karmarkar_karp: the heap always holds every row once, in one of its      *)
(* states.                                                                  *)

\* Merging two states with different rows puts their sets together, one from
\* each side.
LEMMA MergeDealt ==
    ASSUME NEW k \in Nat, NEW R, NEW work, NEW s, NEW t, Dealt(s, k, R), Dealt(t, k, R),
           \A x : ~(Holds(s, x) /\ Holds(t, x))
    PROVE  /\ Dealt(MergeStates(work, s, t), k, R)
           /\ \A x : Holds(MergeStates(work, s, t), x) <=> Holds(s, x) \/ Holds(t, x)
  <1> DEFINE m == [i \in 1..k |-> s[i] \o t[k + 1 - i]]
  <1>1. /\ DOMAIN s = 1..k /\ Len(s) = k
        /\ DOMAIN t = 1..k /\ Len(t) = k
    BY DealtShape
  <1>2. \A i \in 1..k : s[i] \in Seq(R) /\ Len(s[i]) \in Nat /\ DOMAIN s[i] = 1..Len(s[i])
    BY DealtShape
  <1>3. \A i \in 1..k : t[i] \in Seq(R) /\ Len(t[i]) \in Nat /\ DOMAIN t[i] = 1..Len(t[i])
    BY DealtShape
  <1>4. ASSUME NEW i \in 1..k
        PROVE  /\ k + 1 - i \in 1..k
               /\ m[i] \in Seq(R)
               /\ DOMAIN m[i] = 1 .. Len(s[i]) + Len(t[k + 1 - i])
               /\ \A j \in 1 .. Len(s[i]) + Len(t[k + 1 - i]) :
                      m[i][j] = IF j <= Len(s[i]) THEN s[i][j] ELSE t[k + 1 - i][j - Len(s[i])]
    <2>1. k + 1 - i \in 1..k
      OBVIOUS
    <2>2. m[i] = s[i] \o t[k + 1 - i]
      OBVIOUS
    <2> HIDE DEF m
    <2>3. s[i] \in Seq(R) /\ t[k + 1 - i] \in Seq(R)
      BY <1>2, <1>3, <2>1
    <2>4. m[i] \in Seq(R) /\ Len(m[i]) = Len(s[i]) + Len(t[k + 1 - i])
      BY <2>2, <2>3, ConcatProperties
    <2>5. \A j \in 1 .. Len(s[i]) + Len(t[k + 1 - i]) :
              m[i][j] = IF j <= Len(s[i]) THEN s[i][j] ELSE t[k + 1 - i][j - Len(s[i])]
      BY <2>2, <2>3, ConcatProperties
    <2>6. DOMAIN m[i] = 1 .. Len(m[i])
      BY <2>4, LenProperties
    <2> QED  BY <2>1, <2>4, <2>5, <2>6
  <1>5. m \in [1..k -> Seq(R)] /\ DOMAIN m = 1..k
    <2>1. m = [i \in 1..k |-> m[i]]
      OBVIOUS
    <2> HIDE DEF m
    <2> QED  BY <1>4, <2>1
  <1> HIDE DEF m
  <1>6. ASSUME NEW i \in 1..k, NEW j \in DOMAIN m[i]
        PROVE  \/ j \in DOMAIN s[i] /\ m[i][j] = s[i][j]
               \/ /\ j - Len(s[i]) \in DOMAIN t[k + 1 - i] /\ k + 1 - i \in 1..k
                  /\ m[i][j] = t[k + 1 - i][j - Len(s[i])]
    <2>1. /\ k + 1 - i \in 1..k
          /\ j \in 1 .. Len(s[i]) + Len(t[k + 1 - i])
          /\ m[i][j] = IF j <= Len(s[i]) THEN s[i][j] ELSE t[k + 1 - i][j - Len(s[i])]
      BY <1>4, <1>6
    <2>2. Len(s[i]) \in Nat /\ DOMAIN s[i] = 1..Len(s[i])
      BY <1>2
    <2>3. Len(t[k + 1 - i]) \in Nat /\ DOMAIN t[k + 1 - i] = 1..Len(t[k + 1 - i])
      BY <1>3, <2>1
    <2>4. /\ j <= Len(s[i]) => j \in 1..Len(s[i])
          /\ ~(j <= Len(s[i])) => j - Len(s[i]) \in 1..Len(t[k + 1 - i])
      BY ONLY <2>1, <2>2, <2>3, JoinedPositions
    <2> QED  BY ONLY <2>1, <2>2, <2>3, <2>4
  <1>7. Once(m)
    <2> SUFFICES ASSUME NEW i \in 1..k, NEW h \in 1..k, NEW j \in DOMAIN m[i], NEW l \in DOMAIN m[h],
                        m[i][j] = m[h][l]
                 PROVE  i = h /\ j = l
      BY <1>5 DEF Once
    <2>1. Once(s) /\ Once(t)
      BY DEF Dealt
    <2>2. Len(s[i]) \in Nat /\ Len(s[h]) \in Nat
      BY <1>2
    <2>3. j \in Nat /\ l \in Nat
      <3>1. j \in 1 .. Len(s[i]) + Len(t[k + 1 - i]) /\ l \in 1 .. Len(s[h]) + Len(t[k + 1 - h])
        BY <1>4
      <3> QED  BY <3>1
    <2>4. CASE j \in DOMAIN s[i] /\ m[i][j] = s[i][j]
      <3>1. Holds(s, m[i][j])
        BY <2>4, <1>1 DEF Holds
      <3>2. l \in DOMAIN s[h] /\ m[h][l] = s[h][l]
        <4>1. CASE l \in DOMAIN s[h] /\ m[h][l] = s[h][l]
          BY <4>1
        <4>2. CASE /\ l - Len(s[h]) \in DOMAIN t[k + 1 - h] /\ k + 1 - h \in 1..k
                   /\ m[h][l] = t[k + 1 - h][l - Len(s[h])]
          <5>1. Holds(t, m[h][l])
            BY <4>2, <1>1 DEF Holds
          <5> QED  BY <3>1, <5>1
        <4> QED  BY <4>1, <4>2, <1>6
      <3>3. s[i][j] = s[h][l]
        BY <2>4, <3>2
      <3> QED  BY <3>2, <3>3, <2>4, <2>1, <1>1 DEF Once
    <2>5. CASE /\ j - Len(s[i]) \in DOMAIN t[k + 1 - i] /\ k + 1 - i \in 1..k
               /\ m[i][j] = t[k + 1 - i][j - Len(s[i])]
      <3>1. Holds(t, m[i][j])
        BY <2>5, <1>1 DEF Holds
      <3>2. /\ l - Len(s[h]) \in DOMAIN t[k + 1 - h] /\ k + 1 - h \in 1..k
            /\ m[h][l] = t[k + 1 - h][l - Len(s[h])]
        <4>1. CASE l \in DOMAIN s[h] /\ m[h][l] = s[h][l]
          <5>1. Holds(s, m[h][l])
            BY <4>1, <1>1 DEF Holds
          <5> QED  BY <3>1, <5>1
        <4> QED  BY <4>1, <1>6
      <3>3. t[k + 1 - i][j - Len(s[i])] = t[k + 1 - h][l - Len(s[h])]
        BY <2>5, <3>2
      <3>4. k + 1 - i = k + 1 - h /\ j - Len(s[i]) = l - Len(s[h])
        BY <3>2, <3>3, <2>5, <2>1, <1>1 DEF Once
      <3>5. i = h
        BY <3>4
      <3> QED  BY <3>4, <3>5, <2>2, <2>3
    <2> QED  BY <2>4, <2>5, <1>6
  <1>8. ASSUME NEW x  PROVE  Holds(m, x) <=> Holds(s, x) \/ Holds(t, x)
    <2>1. ASSUME Holds(m, x)  PROVE  Holds(s, x) \/ Holds(t, x)
      <3>1. PICK i \in 1..k : \E j \in DOMAIN m[i] : m[i][j] = x
        BY <2>1, <1>5 DEF Holds
      <3>2. PICK j \in DOMAIN m[i] : m[i][j] = x
        BY <3>1
      <3>3. CASE j \in DOMAIN s[i] /\ m[i][j] = s[i][j]
        BY <3>2, <3>3, <1>1 DEF Holds
      <3>4. CASE /\ j - Len(s[i]) \in DOMAIN t[k + 1 - i] /\ k + 1 - i \in 1..k
                 /\ m[i][j] = t[k + 1 - i][j - Len(s[i])]
        BY <3>2, <3>4, <1>1 DEF Holds
      <3> QED  BY <3>3, <3>4, <1>6
    <2>2. ASSUME Holds(s, x)  PROVE  Holds(m, x)
      <3>1. PICK i \in 1..k : \E j \in DOMAIN s[i] : s[i][j] = x
        BY <2>2, <1>1 DEF Holds
      <3>2. PICK j \in DOMAIN s[i] : s[i][j] = x
        BY <3>1
      <3>3. Len(s[i]) \in Nat /\ DOMAIN s[i] = 1..Len(s[i])
        BY <1>2
      <3>4. k + 1 - i \in 1..k /\ Len(t[k + 1 - i]) \in Nat
        BY <1>3
      <3>5. j \in 1 .. Len(s[i]) + Len(t[k + 1 - i]) /\ j <= Len(s[i])
        BY ONLY <3>2, <3>3, <3>4, JoinedPositions
      <3>6. j \in DOMAIN m[i] /\ m[i][j] = x
        BY <3>2, <3>5, <1>4
      <3> QED  BY <3>6, <1>5 DEF Holds
    <2>3. ASSUME Holds(t, x)  PROVE  Holds(m, x)
      <3>1. PICK h \in 1..k : \E j \in DOMAIN t[h] : t[h][j] = x
        BY <2>3, <1>1 DEF Holds
      <3>2. PICK j \in DOMAIN t[h] : t[h][j] = x
        BY <3>1
      <3> DEFINE i == k + 1 - h
      <3>3. i \in 1..k /\ k + 1 - i = h
        OBVIOUS
      <3> HIDE DEF i
      <3>4. Len(s[i]) \in Nat
        BY <3>3, <1>2
      <3>5. Len(t[h]) \in Nat /\ j \in 1..Len(t[h])
        BY <3>2, <1>3
      <3> DEFINE l == Len(s[i]) + j
      <3>6. l \in 1 .. Len(s[i]) + Len(t[h]) /\ ~(l <= Len(s[i])) /\ l - Len(s[i]) = j
        BY <3>4, <3>5, JoinedPositions
      <3> HIDE DEF l
      <3>7. l \in DOMAIN m[i] /\ m[i][l] = t[h][j]
        BY <3>3, <3>6, <1>4
      <3> QED  BY <3>2, <3>3, <3>7, <1>5 DEF Holds
    <2> QED  BY <2>1, <2>2, <2>3
  <1>9. MergeStates(work, s, t) = Sorted(work, m)
    BY <1>1 DEF MergeStates, m
  <1>10. Reorders(Sorted(work, m), m, k)
    BY <1>5, SortedReorders
  <1>11. Dealt(m, k, R)
    BY <1>5, <1>7 DEF Dealt
  <1>12. Dealt(Sorted(work, m), k, R) /\ SameRows(Sorted(work, m), m)
    BY <1>10, <1>11, ReorderedDealt
  <1> QED  BY <1>8, <1>9, <1>12 DEF SameRows

-----------------------------------------------------------------------------
(* How far the sets of a state differ.                                      *)

\* Every row takes some work.
Positive(work, R) == \A x \in R : work[x] \in Nat \ {0}

Loads(work, s, k) == [i \in 1..k |-> Load(work, s[i])]

\* No two loads differ by more than d ...
Within(a, k, d) == \A i, j \in 1..k : a[i] - a[j] <= d

\* ... and the heaviest set comes first.
Falling(a, k) == \A i, j \in 1..k : i <= j => a[i] >= a[j]

\* Every set has a row, or none has two.
Full(s, k) == \A i \in 1..k : Len(s[i]) > 0
Thin(s, k) == \A i \in 1..k : Len(s[i]) <= 1

\* All sets have as many rows.
Equal(s, k) == \A i, j \in 1..k : Len(s[i]) = Len(s[j])

\* What merging keeps, and what sorting adds to it.
Loose(s, work, k, d, equalSize) ==
    /\ Within(Loads(work, s, k), k, d)
    /\ Full(s, k) \/ Thin(s, k)
    /\ equalSize => Equal(s, k)
Tidy(s, work, k, d, equalSize) ==
    Loose(s, work, k, d, equalSize) /\ Falling(Loads(work, s, k), k)

\* Positive works are natural numbers.
LEMMA PositiveValues == ASSUME NEW work, NEW R, Positive(work, R)  PROVE  Values(work, R)
  BY DEF Positive, Values

\* Sorting makes a state tidy.
LEMMA SortedTidy ==
    ASSUME NEW R, R \subseteq Nat, NEW work, Positive(work, R), NEW k \in Nat,
           NEW s \in [1..k -> Seq(R)], NEW d \in Nat, NEW equalSize,
           Loose(s, work, k, d, equalSize)
    PROVE  Tidy(Sorted(work, s), work, k, d, equalSize)
  <1> DEFINE a == Loads(work, s, k)
             t == Sorted(work, s)
             b == Loads(work, t, k)
  <1>1. Falls(t, s, a, k)
    <2>1. Values(work, R)
      BY PositiveValues
    <2> QED  BY <2>1, SortedFalls DEF Loads
  <1>2. PICK p : /\ Permutes(p, k) /\ t = [m \in 1..k |-> s[p[m]]]
                 /\ \A i, j \in 1..k : i <= j => a[p[i]] >= a[p[j]]
    BY <1>1 DEF Falls
  <1>3. ASSUME NEW i \in 1..k  PROVE  p[i] \in 1..k /\ t[i] = s[p[i]] /\ b[i] = a[p[i]]
    <2>1. p[i] \in 1..k
      BY <1>2 DEF Permutes
    <2>2. t[i] = s[p[i]]
      BY <1>2
    <2> HIDE DEF t
    <2> QED  BY <2>1, <2>2 DEF Loads
  <1> HIDE DEF a, b, t
  <1>4. Falling(b, k)
    BY <1>2, <1>3 DEF Falling
  <1>5. Within(b, k, d)
    BY <1>3 DEF Loose, Within, a
  <1>6. Full(t, k) \/ Thin(t, k)
    BY <1>3 DEF Loose, Full, Thin
  <1>7. equalSize => Equal(t, k)
    <2> SUFFICES ASSUME equalSize, NEW i \in 1..k, NEW j \in 1..k  PROVE  Len(t[i]) = Len(t[j])
      BY DEF Equal
    <2>1. Len(s[p[i]]) = Len(s[p[j]])
      BY <1>3 DEF Loose, Equal
    <2> QED  BY <2>1, <1>3
  <1> QED  BY <1>4, <1>5, <1>6, <1>7 DEF Tidy, Loose, b, t

\* The sets of a tidy state that have a row come before the others.
LEMMA RowsFirst ==
    ASSUME NEW R, NEW work, Positive(work, R), NEW k \in Nat, NEW s \in [1..k -> Seq(R)],
           Falling(Loads(work, s, k), k),
           NEW i \in 1..k, NEW j \in 1..k, i <= j, Len(s[j]) > 0
    PROVE  Len(s[i]) > 0
  <1> DEFINE a == Loads(work, s, k)
  <1>1. Values(work, R) /\ s[i] \in Seq(R) /\ s[j] \in Seq(R)
    BY PositiveValues
  <1>2. Len(s[i]) \in Nat /\ Len(s[j]) \in Nat /\ 1 \in 1..Len(s[j])
    BY <1>1, LenProperties
  <1>3. a[i] = Load(work, s[i]) /\ a[j] = Load(work, s[j])
    BY DEF Loads
  <1> HIDE DEF a
  <1>4. a[i] \in Nat /\ a[j] \in Nat /\ a[i] >= a[j]
    <2>1. Load(work, s[i]) \in Nat /\ Load(work, s[j]) \in Nat
      BY ONLY <1>1, LoadNat
    <2>3. a[i] \in Nat /\ a[j] \in Nat
      BY <1>3, <2>1
    <2>2. a[i] >= a[j]
      BY DEF a, Falling
    <2> QED  BY <2>2, <2>3
  <1>5. work[s[j][1]] <= a[j]
    BY <1>1, <1>2, <1>3, LoadAtLeast
  <1>6. work[s[j][1]] \in Nat \ {0}
    BY <1>1, <1>2, ElementOfSeq DEF Positive
  <1>7. Len(s[i]) = 0 => a[i] = 0
    BY <1>1, <1>3, LoadOfNone
  <1>8. ASSUME NEW x \in Nat, NEW y \in Nat, NEW v \in Nat \ {0}, x >= y, v <= y
        PROVE  x # 0
    BY ONLY x \in Nat, y \in Nat, v \in Nat \ {0}, x >= y, v <= y
  <1>9. a[i] # 0
    BY <1>4, <1>5, <1>6, <1>8
  <1>10. Len(s[i]) # 0
    BY <1>7, <1>9
  <1> QED  BY ONLY <1>2, <1>10

\* Merging the heaviest with the lightest sets widens no spread, and fills the
\* sets from both ends.
LEMMA MergeTidy ==
    ASSUME NEW R, R \subseteq Nat, NEW work, Positive(work, R), NEW k \in Nat, NEW d \in Nat,
           NEW equalSize, NEW s, NEW t, Dealt(s, k, R), Dealt(t, k, R),
           Tidy(s, work, k, d, equalSize), Tidy(t, work, k, d, equalSize)
    PROVE  Tidy(MergeStates(work, s, t), work, k, d, equalSize)
  <1> DEFINE m == [i \in 1..k |-> s[i] \o t[k + 1 - i]]
             back(i) == k + 1 - i
             a == Loads(work, s, k)
             b == Loads(work, t, k)
             c == Loads(work, m, k)
  <1>1. s \in [1..k -> Seq(R)] /\ t \in [1..k -> Seq(R)] /\ DOMAIN s = 1..k /\ Len(s) = k
    BY DealtShape DEF Dealt
  <1>2. MergeStates(work, s, t) = Sorted(work, m)
    BY <1>1 DEF MergeStates
  <1>3. ASSUME NEW i \in 1..k
        PROVE  back(i) \in 1..k /\ \A j \in 1..k : (i <= j <=> back(j) <= back(i))
    OBVIOUS
  <1>4. ASSUME NEW i \in 1..k
        PROVE  /\ s[i] \in Seq(R) /\ t[back(i)] \in Seq(R) /\ m[i] = s[i] \o t[back(i)]
               /\ Len(s[i]) \in Nat /\ Len(t[back(i)]) \in Nat
    <2>1. s[i] \in Seq(R) /\ t[back(i)] \in Seq(R) /\ m[i] = s[i] \o t[back(i)]
      BY <1>1, <1>3
    <2> QED  BY <2>1, LenProperties
  <1>5. m = [i \in 1..k |-> m[i]]
    OBVIOUS
  <1> HIDE DEF m, back
  <1>6. Values(work, R)
    BY PositiveValues
  <1>7. ASSUME NEW i \in 1..k
        PROVE  /\ m[i] \in Seq(R) /\ Len(m[i]) = Len(s[i]) + Len(t[back(i)])
               /\ c[i] = a[i] + b[back(i)] /\ a[i] \in Nat /\ b[back(i)] \in Nat
    <2>1. m[i] \in Seq(R) /\ Len(m[i]) = Len(s[i]) + Len(t[back(i)])
      <3> DEFINE x == s[i]
                 y == t[back(i)]
      <3>1. x \in Seq(R) /\ y \in Seq(R) /\ m[i] = x \o y
        BY <1>4
      <3> HIDE DEF x, y
      <3>2. x \o y \in Seq(R) /\ Len(x \o y) = Len(x) + Len(y)
        BY ONLY <3>1, ConcatProperties
      <3>3. m[i] \in Seq(R) /\ Len(m[i]) = Len(x) + Len(y)
        BY ONLY <3>1, <3>2
      <3> QED  BY ONLY <3>3 DEF x, y
    <2>2. Load(work, m[i]) = Load(work, s[i]) + Load(work, t[back(i)])
      <3> DEFINE x == s[i]
                 y == t[back(i)]
      <3>1. x \in Seq(R) /\ y \in Seq(R) /\ m[i] = x \o y
        BY <1>4
      <3> HIDE DEF x, y
      <3>2. Load(work, x \o y) = Load(work, x) + Load(work, y)
        BY ONLY <3>1, <1>6, LoadConcat
      <3> QED  BY <3>1, <3>2 DEF x, y
    <2>3. Load(work, s[i]) \in Nat /\ Load(work, t[back(i)]) \in Nat
      BY <1>4, <1>6, LoadIs
    <2> QED  BY <2>1, <2>2, <2>3, <1>3 DEF Loads
  <1>8. m \in [1..k -> Seq(R)]
    BY <1>5, <1>7
  <1>9. Falling(a, k) /\ Falling(b, k) /\ Within(a, k, d) /\ Within(b, k, d)
    BY DEF Tidy, Loose
  <1> HIDE DEF a, b, c
  <1>10. ASSUME NEW i \in 1..k, NEW j \in 1..k  PROVE  c[i] - c[j] <= d
    <2> DEFINE ai == a[i]
               aj == a[j]
               bi == b[back(i)]
               bj == b[back(j)]
    <2>1. ai \in Nat /\ aj \in Nat /\ bi \in Nat /\ bj \in Nat /\ c[i] = ai + bi /\ c[j] = aj + bj
      BY <1>7
    <2>2. ai - aj <= d /\ bi - bj <= d
      BY <1>3, <1>9 DEF Within
    <2>3. \/ ai >= aj /\ bj >= bi
          \/ aj >= ai /\ bi >= bj
      <3>1. CASE i <= j
        BY <3>1, <1>3, <1>9 DEF Falling
      <3>2. CASE j <= i
        BY <3>2, <1>3, <1>9 DEF Falling
      <3> QED  BY <3>1, <3>2
    <2> HIDE DEF ai, aj, bi, bj
    <2> QED  BY <2>1, <2>2, <2>3
  <1>11. ASSUME NEW i \in 1..k, Len(s[i]) > 0 \/ Len(t[back(i)]) > 0  PROVE  Len(m[i]) > 0
    <2> DEFINE x == Len(s[i])
               y == Len(t[back(i)])
               z == Len(m[i])
    <2>1. z = x + y /\ x \in Nat /\ y \in Nat /\ (x > 0 \/ y > 0)
      BY <1>4, <1>7, <1>11
    <2> HIDE DEF x, y, z
    <2>2. z > 0
      BY ONLY <2>1
    <2> QED  BY <2>2 DEF z
  <1>12. Full(m, k) \/ Thin(m, k)
    <2>1. CASE \E i \in 1..k : Len(s[i]) > 0 /\ Len(t[back(i)]) > 0
      <3>1. PICK i \in 1..k : Len(s[i]) > 0 /\ Len(t[back(i)]) > 0
        BY <2>1
      <3>2. ASSUME NEW j \in 1..k  PROVE  Len(m[j]) > 0
        <4>1. CASE j <= i
          <5>1. Len(s[j]) > 0
            BY <3>1, <4>1, <1>1, RowsFirst DEF Tidy
          <5> QED  BY <5>1, <1>11
        <4>2. CASE i <= j
          <5>1. Len(t[back(j)]) > 0
            <6>1. back(j) <= back(i) /\ back(j) \in 1..k /\ back(i) \in 1..k
              BY <1>3, <4>2
            <6> QED  BY <3>1, <6>1, <1>1, RowsFirst DEF Tidy
          <5> QED  BY <5>1, <1>11
        <4> QED  BY <4>1, <4>2
      <3> QED  BY <3>2 DEF Full
    <2>2. CASE /\ ~\E i \in 1..k : Len(s[i]) > 0 /\ Len(t[back(i)]) > 0
               /\ Thin(s, k) /\ Thin(t, k)
      <3>1. ASSUME NEW i \in 1..k  PROVE  Len(m[i]) <= 1
        <4>1. Len(s[i]) <= 1 /\ Len(t[back(i)]) <= 1
          BY <2>2, <1>3 DEF Thin
        <4>2. Len(s[i]) = 0 \/ Len(t[back(i)]) = 0
          BY <2>2, <1>4
        <4>3. Len(m[i]) = Len(s[i]) + Len(t[back(i)]) /\ Len(s[i]) \in Nat /\ Len(t[back(i)]) \in Nat
          BY <1>4, <1>7
        <4> DEFINE x == Len(s[i])
                   y == Len(t[back(i)])
                   z == Len(m[i])
        <4> HIDE DEF x, y, z
        <4>4. z = x + y /\ x \in Nat /\ y \in Nat /\ x <= 1 /\ y <= 1 /\ (x = 0 \/ y = 0)
          BY <4>1, <4>2, <4>3 DEF x, y, z
        <4>5. z <= 1
          BY ONLY <4>4
        <4> QED  BY <4>5 DEF z
      <3> QED  BY <3>1 DEF Thin
    <2>3. CASE Full(s, k) \/ Full(t, k)
      <3>1. ASSUME NEW i \in 1..k  PROVE  Len(m[i]) > 0
        <4>1. Len(s[i]) > 0 \/ Len(t[back(i)]) > 0
          BY <2>3, <1>3 DEF Full
        <4> QED  BY <4>1, <1>11
      <3> QED  BY <3>1 DEF Full
    <2>4. (Full(s, k) \/ Thin(s, k)) /\ (Full(t, k) \/ Thin(t, k))
      BY DEF Tidy, Loose
    <2> QED  BY <2>1, <2>2, <2>3, <2>4
  <1>13. equalSize => Equal(m, k)
    <2> SUFFICES ASSUME equalSize, NEW i \in 1..k, NEW j \in 1..k  PROVE  Len(m[i]) = Len(m[j])
      BY DEF Equal
    <2>1. Len(s[i]) = Len(s[j]) /\ Len(t[back(i)]) = Len(t[back(j)])
      BY <1>3 DEF Tidy, Loose, Equal
    <2> QED  BY <2>1, <1>7
  <1>14. Loose(m, work, k, d, equalSize)
    BY <1>10, <1>12, <1>13 DEF Loose, Within, c
  <1> QED  BY <1>2, <1>8, <1>14, SortedTidy

TidyHeap(heap, work, k, d, equalSize) == \A s \in heap : Tidy(s, work, k, d, equalSize)

-----------------------------------------------------------------------------
(* The heap and the loop over it.                                           *)

\* The heap: states with some rows each, every row of R in one of them.
HeapOf(heap, k, R) ==
    /\ IsFiniteSet(heap)
    /\ \A s \in heap : Dealt(s, k, R) /\ \E x : Holds(s, x)
    /\ \A s, t \in heap : \A x : Holds(s, x) /\ Holds(t, x) => s = t
    /\ \A x \in R : \E s \in heap : Holds(s, x)

\* heappop returns a state of the heap.
LEMMA PoppedIsIn ==
    ASSUME NEW work, NEW heap, IsFiniteSet(heap), heap # {}
    PROVE  Popped(work, heap) \in heap
  <1> DEFINE ahead(s) == {t \in heap : PoppedFirst(work, t, s)}
             ranked == {<<Cardinality(ahead(s)), s>> : s \in heap}
             counts == {p[1] : p \in ranked}
  <1>1. ASSUME NEW s \in heap  PROVE  Cardinality(ahead(s)) \in Nat
    <2>1. ahead(s) \in SUBSET heap
      OBVIOUS
    <2> HIDE DEF ahead
    <2> QED  BY <2>1, FS_Subset, FS_CardinalityType
  <1>2. counts \subseteq Nat /\ counts # {} /\ \A p \in ranked : p[2] \in heap
    <2>1. ASSUME NEW p \in ranked  PROVE  p[1] \in Nat /\ p[2] \in heap
      <3>1. PICK s \in heap : p = <<Cardinality(ahead(s)), s>>
        OBVIOUS
      <3> HIDE DEF ahead
      <3> QED  BY <3>1, <1>1
    <2>2. ranked # {}
      <3>1. PICK s \in heap : TRUE
        OBVIOUS
      <3>2. <<Cardinality(ahead(s)), s>> \in ranked
        OBVIOUS
      <3> QED  BY <3>2
    <2> HIDE DEF ranked
    <2> QED  BY <2>1, <2>2
  <1>3. PICK m \in counts : \A c \in counts : m <= c
    <2> HIDE DEF counts
    <2> QED  BY <1>2, LeastNat
  <1>4. \E p \in ranked : \A q \in ranked : p[1] <= q[1]
    <2> HIDE DEF ranked
    <2>1. PICK p \in ranked : p[1] = m
      OBVIOUS
    <2>2. \A q \in ranked : q[1] \in counts
      OBVIOUS
    <2>3. \A q \in ranked : m <= q[1]
      <3> HIDE DEF counts
      <3> QED  BY <2>2, <1>3
    <2> QED  BY <2>1, <2>3
  <1> DEFINE first == CHOOSE p \in ranked : \A q \in ranked : p[1] <= q[1]
  <1>5. first \in ranked
    <2> HIDE DEF ranked
    <2> QED  BY <1>4
  <1>6. Popped(work, heap) = first[2]
    BY DEF Popped
  <1> HIDE DEF ranked, first
  <1> QED  BY <1>2, <1>5, <1>6

\* Merging two states leaves a heap with one state less.
LEMMA MergeFirstHeap ==
    ASSUME NEW k \in Nat, NEW R, NEW work, NEW heap, HeapOf(heap, k, R), Cardinality(heap) # 1,
           heap # {}
    PROVE  /\ HeapOf(MergeFirst(work, heap), k, R)
           /\ Cardinality(MergeFirst(work, heap)) = Cardinality(heap) - 1
  <1> DEFINE s == Popped(work, heap)
             rest == heap \ {s}
             t == Popped(work, rest)
             u == MergeStates(work, s, t)
             less == rest \ {t}
  <1>1. IsFiniteSet(heap) /\ Cardinality(heap) \in Nat
    BY FS_CardinalityType DEF HeapOf
  <1>2. s \in heap
    BY <1>1, PoppedIsIn
  <1>3. IsFiniteSet(rest) /\ Cardinality(rest) = Cardinality(heap) - 1
    <2> HIDE DEF s
    <2> QED  BY <1>1, <1>2, FS_RemoveElement
  <1>4. rest # {}
    <2> HIDE DEF rest
    <2> QED  BY <1>1, <1>3, FS_EmptySet
  <1>5. t \in rest
    <2> HIDE DEF rest
    <2> QED  BY <1>3, <1>4, PoppedIsIn
  <1>6. t \in heap /\ t # s
    BY <1>5
  <1>7. IsFiniteSet(less) /\ Cardinality(less) = Cardinality(heap) - 2
    <2>1. IsFiniteSet(less) /\ Cardinality(less) = Cardinality(rest) - 1
      <3> HIDE DEF rest, t
      <3> QED  BY <1>3, <1>5, FS_RemoveElement
    <2> QED  BY <2>1, <1>1, <1>3
  <1>8. MergeFirst(work, heap) = less \union {u}
    BY DEF MergeFirst
  <1>9. \A v \in less : v \in heap /\ v # s /\ v # t
    OBVIOUS
  <1>10. \A v \in heap : v = s \/ v = t \/ v \in less
    OBVIOUS
  <1> HIDE DEF s, rest, t, less
  <1>11. Dealt(u, k, R) /\ \A x : Holds(u, x) <=> Holds(s, x) \/ Holds(t, x)
    <2>1. Dealt(s, k, R) /\ Dealt(t, k, R)
      BY <1>2, <1>6 DEF HeapOf
    <2>2. \A x : ~(Holds(s, x) /\ Holds(t, x))
      BY <1>2, <1>6 DEF HeapOf
    <2> QED  BY <2>1, <2>2, MergeDealt
  <1> HIDE DEF u
  <1>12. PICK y : Holds(s, y)
    BY <1>2 DEF HeapOf
  <1>13. u \notin less
    <2>1. Holds(u, y)
      BY <1>11, <1>12
    <2>2. \A v \in less : ~Holds(v, y)
      BY <1>2, <1>9, <1>12 DEF HeapOf
    <2> QED  BY <2>1, <2>2
  <1>14. IsFiniteSet(less \union {u}) /\ Cardinality(less \union {u}) = Cardinality(heap) - 1
    <2>1. IsFiniteSet(less \union {u}) /\ Cardinality(less \union {u}) = Cardinality(less) + 1
      BY <1>7, <1>13, FS_AddElement
    <2> QED  BY <2>1, <1>1, <1>7
  <1>15. \A v \in less \union {u} : Dealt(v, k, R) /\ \E x : Holds(v, x)
    BY <1>9, <1>11, <1>12 DEF HeapOf
  <1>16. ASSUME NEW v \in less \union {u}, NEW w \in less \union {u}, NEW x, Holds(v, x), Holds(w, x)
         PROVE  v = w
    <2>1. CASE v \in less /\ w \in less
      BY <2>1, <1>9, <1>16 DEF HeapOf
    <2>2. ASSUME NEW z \in less, Holds(z, x), Holds(u, x)  PROVE  FALSE
      <3>1. Holds(s, x) \/ Holds(t, x)
        BY <2>2, <1>11
      <3> QED  BY <3>1, <2>2, <1>2, <1>6, <1>9 DEF HeapOf
    <2>3. CASE v = u /\ w = u
      BY <2>3
    <2> QED  BY <2>1, <2>2, <2>3, <1>16
  <1>17. ASSUME NEW x \in R  PROVE  \E v \in less \union {u} : Holds(v, x)
    <2>1. PICK v \in heap : Holds(v, x)
      BY DEF HeapOf
    <2> QED  BY <2>1, <1>10, <1>11
  <1> QED  BY <1>8, <1>14, <1>15, <1>16, <1>17 DEF HeapOf

\* h[n] is the heap after n rounds.
IsLoop(h, work, heap, m) ==
    h = [n \in 0..m |-> IF n = 0 THEN heap ELSE MergeFirst(work, h[n - 1])]

\* There is such a function.
LEMMA LoopExists ==
    ASSUME NEW work, NEW heap, NEW n \in Nat
    PROVE  \E h : IsLoop(h, work, heap, n)
  <1> DEFINE B == {i \in Nat : ~\E h : IsLoop(h, work, heap, i)}
  <1>1. ASSUME B # {}  PROVE  FALSE
    <2>1. PICK m \in B : \A i \in B : m <= i
      <3>1. B \subseteq Nat
        OBVIOUS
      <3> HIDE DEF B
      <3> QED  BY <1>1, <3>1, LeastNat
    <2>2. CASE m = 0
      <3> DEFINE h == [i \in 0..0 |-> heap]
      <3>1. h = [i \in 0..m |-> IF i = 0 THEN heap ELSE MergeFirst(work, h[i - 1])]
        BY <2>2
      <3> QED  BY <3>1 DEF IsLoop
    <2>3. CASE m # 0
      <3>1. m \in Nat /\ m - 1 \in Nat /\ m - 1 \notin B
        BY <2>1, <2>3
      <3>2. PICK g : IsLoop(g, work, heap, m - 1)
        BY <3>1
      <3> DEFINE h == [i \in 0..m |-> IF i # m THEN g[i] ELSE MergeFirst(work, g[i - 1])]
      <3>3. ASSUME NEW i \in 0..m
            PROVE  h[i] = IF i = 0 THEN heap ELSE MergeFirst(work, h[i - 1])
        <4>1. CASE i # m
          <5>1. i \in 0 .. m - 1 /\ (i # 0 => i - 1 \in 0 .. m /\ i - 1 # m)
            BY <3>1, <4>1
          <5>2. g[i] = IF i = 0 THEN heap ELSE MergeFirst(work, g[i - 1])
            BY <3>2, <5>1 DEF IsLoop
          <5>3. i # 0 => h[i - 1] = g[i - 1]
            BY <5>1, <3>1
          <5>4. h[i] = g[i]
            BY <4>1
          <5> HIDE DEF h
          <5> QED  BY <5>2, <5>3, <5>4
        <4>2. CASE i = m
          <5>1. h[m - 1] = g[m - 1]
            BY <3>1
          <5>2. h[m] = MergeFirst(work, g[m - 1])
            BY <3>1
          <5> HIDE DEF h
          <5> QED  BY <5>1, <5>2, <4>2, <2>3
        <4> QED  BY <4>1, <4>2
      <3>4. h = [i \in 0..m |-> h[i]]
        OBVIOUS
      <3> HIDE DEF h
      <3>5. IsLoop(h, work, heap, m)
        BY <3>3, <3>4 DEF IsLoop
      <3> QED  BY <3>5, <2>1
    <2> QED  BY <2>2, <2>3
  <1> QED  BY <1>1

\* Each round merges two states of the heap.
LEMMA MergeFirstIs ==
    ASSUME NEW work, NEW heap, IsFiniteSet(heap), Cardinality(heap) # 1, heap # {}
    PROVE  \E s, t \in heap : \A v \in MergeFirst(work, heap) : v \in heap \/ v = MergeStates(work, s, t)
  <1> DEFINE s == Popped(work, heap)
             rest == heap \ {s}
             t == Popped(work, rest)
  <1>1. s \in heap /\ IsFiniteSet(rest)
    <2>1. s \in heap
      BY PoppedIsIn
    <2>2. rest \in SUBSET heap
      OBVIOUS
    <2> HIDE DEF rest
    <2> QED  BY <2>1, <2>2, FS_Subset
  <1>2. rest # {}
    <2>1. ASSUME rest = {}  PROVE  FALSE
      <3>1. heap = {s}
        BY <2>1, <1>1
      <3> HIDE DEF s
      <3> QED  BY <3>1, FS_Singleton
    <2> QED  BY <2>1
  <1>3. t \in rest
    <2> HIDE DEF rest
    <2> QED  BY <1>1, <1>2, PoppedIsIn
  <1>4. t \in heap
    BY <1>3
  <1>5. \A v \in MergeFirst(work, heap) : v \in heap \/ v = MergeStates(work, s, t)
    BY DEF MergeFirst
  <1> HIDE DEF s, t
  <1> QED  BY <1>1, <1>4, <1>5

\* After n rounds the heap has n states less.
LEMMA LoopHeaps ==
    ASSUME NEW k \in Nat, NEW R, NEW work, NEW heap, HeapOf(heap, k, R), heap # {},
           NEW h, IsLoop(h, work, heap, Cardinality(heap) - 1)
    PROVE  \A n \in 0 .. Cardinality(heap) - 1 :
               HeapOf(h[n], k, R) /\ Cardinality(h[n]) = Cardinality(heap) - n
  <1> DEFINE last == Cardinality(heap) - 1
  <1>1. Cardinality(heap) \in Nat /\ last \in Nat
    BY FS_CardinalityType, FS_EmptySet DEF HeapOf
  <1>2. IsLoop(h, work, heap, last)
    OBVIOUS
  <1> DEFINE good(n) == HeapOf(h[n], k, R) /\ Cardinality(h[n]) = Cardinality(heap) - n
             B == {n \in 0..last : ~good(n)}
  <1>4. ASSUME B # {}  PROVE  FALSE
    <2>1. PICK m \in B : \A i \in B : m <= i
      <3>1. B \subseteq Nat
        BY <1>1
      <3> HIDE DEF B
      <3> QED  BY <1>4, <3>1, LeastNat
    <2>2. m \in 0..last /\ ~good(m)
      OBVIOUS
    <2>3. CASE m = 0
      <3>1. h[0] = heap
        BY <1>1, <1>2 DEF IsLoop
      <3> QED  BY <3>1, <2>2, <2>3, <1>1
    <2>4. CASE m # 0
      <3>1. m - 1 \in 0..last /\ m - 1 \notin B /\ m \in Nat
        BY <2>1, <2>2, <2>4, <1>1
      <3>2. good(m - 1)
        BY <3>1
      <3>3. h[m] = MergeFirst(work, h[m - 1])
        BY <2>2, <2>4, <1>2 DEF IsLoop
      <3>4. Cardinality(h[m - 1]) = Cardinality(heap) - (m - 1)
        BY <3>2
      <3>5. Cardinality(h[m - 1]) # 1 /\ Cardinality(h[m - 1]) # 0
        BY <3>1, <3>4, <2>2, <1>1
      <3>6. h[m - 1] # {}
        BY <3>5, FS_EmptySet
      <3>7. HeapOf(h[m], k, R) /\ Cardinality(h[m]) = Cardinality(h[m - 1]) - 1
        <4>1. HeapOf(h[m - 1], k, R)
          BY <3>2
        <4> QED  BY <4>1, <3>3, <3>5, <3>6, MergeFirstHeap
      <3> QED  BY <3>1, <3>4, <3>7, <2>2, <1>1
    <2> QED  BY <2>3, <2>4
  <1> QED  BY <1>4

\* The heap after the last round.
LastHeap(h, work, heap, k, R) ==
    /\ IsLoop(h, work, heap, Cardinality(heap) - 1)
    /\ HeapOf({Merged(work, heap)}, k, R)
    /\ h[Cardinality(heap) - 1] = {Merged(work, heap)}

\* The state that is left is the last heap's only one.
LEMMA MergedIsLast ==
    ASSUME NEW k \in Nat, NEW R, NEW work, NEW heap, HeapOf(heap, k, R), heap # {}
    PROVE  Cardinality(heap) - 1 \in Nat /\ \E h : LastHeap(h, work, heap, k, R)
  <1> DEFINE last == Cardinality(heap) - 1
             h == CHOOSE g : IsLoop(g, work, heap, last)
  <1>1. Cardinality(heap) \in Nat /\ last \in Nat
    BY FS_CardinalityType, FS_EmptySet DEF HeapOf
  <1>2. IsLoop(h, work, heap, last)
    BY <1>1, LoopExists
  <1>3. Merged(work, heap) = CHOOSE s \in h[last] : TRUE
    BY DEF Merged, IsLoop
  <1> HIDE DEF h
  <1>4. HeapOf(h[last], k, R) /\ Cardinality(h[last]) = 1
    <2>1. last \in 0..last /\ Cardinality(heap) - last = 1
      BY <1>1
    <2>2. HeapOf(h[last], k, R) /\ Cardinality(h[last]) = Cardinality(heap) - last
      BY <1>2, <2>1, LoopHeaps
    <2> QED  BY <2>1, <2>2
  <1>5. PICK s : h[last] = {s}
    BY <1>4, FS_Singleton DEF HeapOf
  <1>6. Merged(work, heap) = s
    BY <1>3, <1>5
  <1>7. LastHeap(h, work, heap, k, R)
    BY <1>2, <1>4, <1>5, <1>6 DEF LastHeap
  <1> QED  BY <1>1, <1>7

\* The state that is left holds every row once ...
LEMMA MergedPartitioned ==
    ASSUME NEW k \in Nat, NEW R, NEW work, NEW heap, HeapOf(heap, k, R), heap # {}
    PROVE  Partitioned(Merged(work, heap), k, R)
  <1> DEFINE s == Merged(work, heap)
  <1>1. HeapOf({s}, k, R)
    BY MergedIsLast DEF LastHeap
  <1> HIDE DEF s
  <1> QED  BY <1>1 DEF HeapOf, Partitioned, s

\* ... and is as tidy as the first ones.
LEMMA MergedTidy ==
    ASSUME NEW R, R \subseteq Nat, NEW work, Positive(work, R), NEW k \in Nat, NEW d \in Nat,
           NEW equalSize, NEW heap, HeapOf(heap, k, R), heap # {},
           TidyHeap(heap, work, k, d, equalSize)
    PROVE  Tidy(Merged(work, heap), work, k, d, equalSize)
  <1> DEFINE last == Cardinality(heap) - 1
             tidy(g) == TidyHeap(g, work, k, d, equalSize)
             u == Merged(work, heap)
  <1>1. last \in Nat
    BY MergedIsLast
  <1>2. PICK h : IsLoop(h, work, heap, last) /\ h[last] = {u}
    <2>1. \E h : LastHeap(h, work, heap, k, R)
      BY MergedIsLast
    <2> QED  BY <2>1 DEF LastHeap
  <1>3. \A n \in 0..last : HeapOf(h[n], k, R) /\ Cardinality(h[n]) = Cardinality(heap) - n
    BY <1>2, LoopHeaps
  <1>4. Cardinality(heap) \in Nat
    BY FS_CardinalityType DEF HeapOf
  <1> DEFINE B == {n \in 0..last : ~tidy(h[n])}
  <1>5. ASSUME B # {}  PROVE  FALSE
    <2>1. PICK m \in B : \A i \in B : m <= i
      <3>1. B \subseteq Nat
        BY <1>1
      <3> HIDE DEF B
      <3> QED  BY <1>5, <3>1, LeastNat
    <2>2. m \in 0..last /\ ~tidy(h[m])
      OBVIOUS
    <2>3. CASE m = 0
      <3>1. h[0] = heap
        BY <1>1, <1>2 DEF IsLoop
      <3> QED  BY <3>1, <2>2, <2>3
    <2>4. CASE m # 0
      <3>1. m - 1 \in 0..last /\ m - 1 \notin B /\ m \in Nat
        BY <2>1, <2>2, <2>4, <1>1
      <3>2. tidy(h[m - 1])
        BY <3>1
      <3>3. h[m] = MergeFirst(work, h[m - 1])
        BY <2>2, <2>4, <1>2 DEF IsLoop
      <3> DEFINE g == h[m - 1]
      <3>4. HeapOf(g, k, R) /\ Cardinality(g) = Cardinality(heap) - (m - 1)
        BY <3>1, <1>3
      <3>5. Cardinality(g) # 1 /\ g # {}
        <4>1. Cardinality(g) # 1 /\ Cardinality(g) # 0
          BY <3>1, <3>4, <2>2, <1>1, <1>4
        <4> QED  BY <4>1, FS_EmptySet
      <3> HIDE DEF g
      <3>6. PICK s \in g, t \in g : \A v \in MergeFirst(work, g) : v \in g \/ v = MergeStates(work, s, t)
        BY <3>4, <3>5, MergeFirstIs DEF HeapOf
      <3>7. Dealt(s, k, R) /\ Dealt(t, k, R)
        BY <3>4 DEF HeapOf
      <3>8. Tidy(s, work, k, d, equalSize) /\ Tidy(t, work, k, d, equalSize)
        BY <3>2 DEF TidyHeap, g
      <3>9. Tidy(MergeStates(work, s, t), work, k, d, equalSize)
        BY <3>7, <3>8, MergeTidy
      <3>10. \A v \in g : Tidy(v, work, k, d, equalSize)
        BY <3>2 DEF TidyHeap, g
      <3>11. \A v \in MergeFirst(work, g) : Tidy(v, work, k, d, equalSize)
        BY <3>6, <3>9, <3>10
      <3> QED  BY <2>2, <3>3, <3>11 DEF TidyHeap, g
    <2> QED  BY <2>3, <2>4
  <1>6. tidy(h[last])
    <2>1. last \in 0..last /\ last \notin B
      BY <1>1, <1>5
    <2> QED  BY <2>1
  <1> HIDE DEF u
  <1> QED  BY <1>2, <1>6 DEF TidyHeap, u

\* n different rows of R.
Distinct(rows, n, R) == rows \in [1..n -> R] /\ \A i, j \in 1..n : rows[i] = rows[j] => i = j

\* s holds these rows and no other.
HoldsJust(s, rows, n) == \A x : Holds(s, x) <=> \E i \in 1..n : rows[i] = x

\* A first state holds the rows it is made from.
LEMMA StateDealt ==
    ASSUME NEW k \in Nat, NEW R, NEW work, NEW n \in 0..k, NEW rows, Distinct(rows, n, R)
    PROVE  Dealt(StateOf(work, rows, k), k, R) /\ HoldsJust(StateOf(work, rows, k), rows, n)
  <1> DEFINE s == [i \in 1..k |-> IF i \in 1..n THEN <<rows[i]>> ELSE <<>>]
  <1>1. StateOf(work, rows, k) = Sorted(work, s) /\ DOMAIN s = 1..k
    <2>1. DOMAIN rows = 1..n
      BY DEF Distinct
    <2> QED  BY <2>1 DEF StateOf
  <1>2. ASSUME NEW i \in 1..n  PROVE  i \in 1..k /\ s[i] = <<rows[i]>>
    OBVIOUS
  <1>3. ASSUME NEW i \in 1..k, i \notin 1..n  PROVE  s[i] = <<>>
    BY <1>3
  <1>4. s = [i \in 1..k |-> s[i]]
    OBVIOUS
  <1> HIDE DEF s
  <1>5. ASSUME NEW i \in 1..k  PROVE  s[i] \in Seq(R)
    <2>1. CASE i \in 1..n
      <3>1. rows[i] \in R
        BY <2>1 DEF Distinct
      <3>2. <<rows[i]>> \in Seq(R)
        BY ONLY <3>1
      <3>3. s[i] = <<rows[i]>>
        BY <2>1, <1>2
      <3> QED  BY ONLY <3>2, <3>3
    <2>2. CASE i \notin 1..n
      <3>1. s[i] = <<>>
        BY <2>2, <1>3
      <3> QED  BY ONLY <3>1, EmptySeq
    <2> QED  BY <2>1, <2>2
  <1>6. s \in [1..k -> Seq(R)]
    BY <1>4, <1>5
  <1>7. ASSUME NEW i \in 1..k, NEW j \in DOMAIN s[i]  PROVE  i \in 1..n /\ j = 1 /\ s[i][j] = rows[i]
    <2>1. CASE i \in 1..n
      BY <2>1, <1>2, <1>7
    <2>2. CASE i \notin 1..n
      BY <2>2, <1>3, <1>7
    <2> QED  BY <2>1, <2>2
  <1>8. Once(s)
    <2> SUFFICES ASSUME NEW i \in 1..k, NEW h \in 1..k, NEW j \in DOMAIN s[i], NEW l \in DOMAIN s[h],
                        s[i][j] = s[h][l]
                 PROVE  i = h /\ j = l
      BY <1>1 DEF Once
    <2>1. i \in 1..n /\ h \in 1..n /\ j = 1 /\ l = 1 /\ rows[i] = rows[h]
      BY <1>7
    <2> QED  BY <2>1 DEF Distinct
  <1>9. ASSUME NEW x  PROVE  Holds(s, x) <=> \E i \in 1..n : rows[i] = x
    <2>1. ASSUME Holds(s, x)  PROVE  \E i \in 1..n : rows[i] = x
      BY <2>1, <1>1, <1>7 DEF Holds
    <2>2. ASSUME NEW i \in 1..n, rows[i] = x  PROVE  Holds(s, x)
      <3>1. i \in 1..k /\ 1 \in DOMAIN s[i] /\ s[i][1] = x
        BY <1>2, <2>2
      <3> QED  BY <3>1, <1>1 DEF Holds
    <2> QED  BY <2>1, <2>2
  <1>10. Dealt(s, k, R)
    BY <1>6, <1>8 DEF Dealt
  <1>11. Dealt(Sorted(work, s), k, R) /\ SameRows(Sorted(work, s), s)
    BY <1>1, <1>10, SortedReorders, ReorderedDealt
  <1> QED  BY <1>1, <1>9, <1>11 DEF SameRows, HoldsJust

\* A first state is tidy: its rows differ by no more than d, and when some sets
\* get none, no row has more work than that.
LEMMA StateTidy ==
    ASSUME NEW R, R \subseteq Nat, NEW work, Positive(work, R), NEW k \in Nat, NEW d \in Nat,
           NEW equalSize, NEW n \in 0..k, NEW rows \in [1..n -> R],
           \A i, j \in 1..n : work[rows[i]] - work[rows[j]] <= d,
           n < k => \A i \in 1..n : work[rows[i]] <= d,
           equalSize => n = k
    PROVE  Tidy(StateOf(work, rows, k), work, k, d, equalSize)
  <1> DEFINE s == [i \in 1..k |-> IF i \in 1..n THEN <<rows[i]>> ELSE <<>>]
             a == Loads(work, s, k)
             w(i) == IF i \in 1..n THEN work[rows[i]] ELSE 0
  <1>1. StateOf(work, rows, k) = Sorted(work, s)
    <2>1. DOMAIN rows = 1..n
      OBVIOUS
    <2> QED  BY <2>1 DEF StateOf
  <1>2. Values(work, R)
    BY PositiveValues
  <1>3. ASSUME NEW i \in 1..k
        PROVE  /\ s[i] \in Seq(R) /\ a[i] = w(i) /\ w(i) \in Nat
               /\ Len(s[i]) = IF i \in 1..n THEN 1 ELSE 0
    <2>1. a[i] = Load(work, s[i])
      BY DEF Loads
    <2>2. CASE i \in 1..n
      <3>1. s[i] = <<rows[i]>> /\ rows[i] \in R
        BY <2>2
      <3> DEFINE x == rows[i]
      <3>2. s[i] = <<x>> /\ x \in R /\ w(i) = work[x]
        BY <2>2, <3>1
      <3> HIDE DEF x, w, s, a
      <3>3. <<x>> \in Seq(R) /\ Len(<<x>>) = 1
        BY ONLY <3>2
      <3>4. Load(work, <<x>>) = work[x]
        BY ONLY <3>2, <1>2, LoadOfOne
      <3>5. work[x] \in Nat
        BY <3>2, <1>2 DEF Values
      <3> QED  BY <2>1, <2>2, <3>2, <3>3, <3>4, <3>5
    <2>3. CASE i \notin 1..n
      <3>1. s[i] = <<>> /\ w(i) = 0
        BY <2>3
      <3> HIDE DEF w, s, a
      <3>2. <<>> \in Seq(R) /\ Len(<<>>) = 0
        BY ONLY TRUE
      <3>3. s[i] \in Seq(R) /\ Len(s[i]) = 0
        BY <3>1, <3>2
      <3>4. Load(work, s[i]) = 0
        BY ONLY <3>3, <1>2, LoadOfNone
      <3> QED  BY <2>1, <2>3, <3>1, <3>3, <3>4
    <2> QED  BY <2>2, <2>3
  <1>4. s = [i \in 1..k |-> s[i]]
    OBVIOUS
  <1> HIDE DEF s, a
  <1>5. s \in [1..k -> Seq(R)]
    BY <1>3, <1>4
  <1>6. ASSUME NEW i \in 1..k, NEW j \in 1..k  PROVE  a[i] - a[j] <= d
    <2>1. a[i] = w(i) /\ a[j] = w(j) /\ w(i) \in Nat /\ w(j) \in Nat
      BY <1>3
    <2>2. CASE i \in 1..n /\ j \in 1..n
      BY <2>1, <2>2
    <2>3. CASE i \in 1..n /\ j \notin 1..n
      <3>1. n < k
        BY <2>3
      <3>2. w(j) = 0 /\ w(i) <= d
        BY <2>3, <3>1
      <3> HIDE DEF w
      <3> QED  BY <2>1, <3>2
    <2>4. CASE i \notin 1..n
      <3>1. w(i) = 0
        BY <2>4
      <3> HIDE DEF w
      <3> QED  BY <2>1, <3>1
    <2> QED  BY <2>2, <2>3, <2>4
  <1>7. Thin(s, k)
    BY <1>3 DEF Thin
  <1>8. equalSize => Equal(s, k)
    <2> SUFFICES ASSUME equalSize, NEW i \in 1..k, NEW j \in 1..k  PROVE  Len(s[i]) = Len(s[j])
      BY DEF Equal
    <2>1. i \in 1..n /\ j \in 1..n
      OBVIOUS
    <2> QED  BY <2>1, <1>3
  <1>9. Loose(s, work, k, d, equalSize)
    BY <1>6, <1>7, <1>8 DEF Loose, Within, a
  <1>10. Tidy(Sorted(work, s), work, k, d, equalSize)
    BY <1>2, <1>5, <1>9, SortedTidy
  <1> QED  BY ONLY <1>1, <1>10

\* The rows from the lightest to the heaviest are the rows.
LEMMA RowsPermute ==
    ASSUME NEW n \in Nat, NEW work, DOMAIN work = 1..n
    PROVE  Permutes(Ascending(work, [i \in 1..n |-> i]), n)
  <1> DEFINE id == [i \in 1..n |-> i]
  <1>1. Reorders(Ascending(work, id), id, n)
    BY AscendingReorders
  <1>2. PICK p : Permutes(p, n) /\ Ascending(work, id) = [m \in 1..n |-> id[p[m]]]
    BY <1>1 DEF Reorders
  <1>3. p = [m \in 1..n |-> id[p[m]]]
    BY <1>2 DEF Permutes
  <1> QED  BY <1>2, <1>3

\* The rows from the lightest to the heaviest.
LEMMA RowsRise ==
    ASSUME NEW n \in Nat, NEW work, Values(work, 1..n)
    PROVE  \A i, j \in 1..n : i <= j =>
               work[Ascending(work, [m \in 1..n |-> m])[i]] <= work[Ascending(work, [m \in 1..n |-> m])[j]]
  <1> DEFINE id == [m \in 1..n |-> m]
             a == [i \in 1..n |-> 0 - work[id[i]]]
             rows == Ascending(work, id)
  <1>1. id \in [1..n -> 1..n] /\ 1..n \subseteq Nat
    OBVIOUS
  <1>2. \A i \in 1..n : a[i] = 0 - work[i] /\ id[i] = i /\ work[i] \in Nat
    BY DEF Values
  <1> HIDE DEF id
  <1>3. Falls(rows, id, a, n)
    BY <1>1, AscendingFalls
  <1> HIDE DEF rows, a
  <1>4. PICK p : /\ Permutes(p, n) /\ rows = [m \in 1..n |-> id[p[m]]]
                 /\ \A i, j \in 1..n : i <= j => a[p[i]] >= a[p[j]]
    BY <1>3 DEF Falls
  <1>5. ASSUME NEW i \in 1..n, NEW j \in 1..n, i <= j  PROVE  work[rows[i]] <= work[rows[j]]
    <2>1. p[i] \in 1..n /\ p[j] \in 1..n
      BY <1>4 DEF Permutes
    <2>2. rows[i] = p[i] /\ rows[j] = p[j]
      BY <1>2, <1>4, <2>1
    <2>3. a[p[i]] >= a[p[j]]
      BY <1>4, <1>5
    <2> DEFINE x == work[p[i]]
               y == work[p[j]]
    <2>4. a[p[i]] = 0 - x /\ a[p[j]] = 0 - y /\ x \in Nat /\ y \in Nat
      BY <1>2, <2>1
    <2> HIDE DEF x, y
    <2>5. x <= y
      BY ONLY <2>3, <2>4
    <2> QED  BY <2>2, <2>5 DEF x, y
  <1> QED  BY <1>5 DEF rows, id

\* A block of k of n rows.
LEMMA BlockRows ==
    ASSUME NEW n \in Nat, NEW rows \in [1..n -> 1..n], NEW k \in Nat \ {0}, NEW q \in Nat \ {0},
           n = k * q, NEW g \in 0 .. q - 1
    PROVE  /\ SubSeq(rows, k * g + 1, k * g + k) \in [1..k -> 1..n]
           /\ \A i \in 1..k : /\ SubSeq(rows, k * g + 1, k * g + k)[i] = rows[k * g + i]
                              /\ k * g + i \in 1..n
  <1> DEFINE block == SubSeq(rows, k * g + 1, k * g + k)
  <1>1. \A i \in 1..k : k * g + i \in 1..n
    BY BlockIn
  <1>2. k * g \in Int
    OBVIOUS
  <1>3. \A m \in k * g + 1 .. k * g + k : m \in 1..n
    <2> TAKE m \in k * g + 1 .. k * g + k
    <2>1. m - k * g \in 1..k /\ k * g + (m - k * g) = m
      BY <1>2
    <2> QED  BY <1>1, <2>1
  <1> DEFINE a == k * g + 1
             z == k * g + k
  <1>4. a \in Int /\ z \in Int /\ a <= z /\ (z - a) + 1 = k /\ \A i \in 1..k : a + i - 1 = k * g + i
    BY <1>2
  <1>5. \A m \in a..z : rows[m] \in 1..n
    BY <1>3
  <1> HIDE DEF a, z
  <1>6. /\ SubSeq(rows, a, z) \in Seq(1..n)
        /\ Len(SubSeq(rows, a, z)) = k
        /\ \A i \in 1..k : SubSeq(rows, a, z)[i] = rows[a + i - 1]
    <2>1. /\ SubSeq(rows, a, z) \in Seq(1..n)
          /\ Len(SubSeq(rows, a, z)) = IF a <= z THEN z - a + 1 ELSE 0
          /\ \A i \in 1 .. z - a + 1 : SubSeq(rows, a, z)[i] = rows[a + i - 1]
      BY <1>4, <1>5, SubSeqProperties
    <2>2. z - a + 1 = k
      BY <1>4
    <2> QED  BY <2>1, <2>2, <1>4
  <1>7. block = SubSeq(rows, a, z)
    BY DEF a, z
  <1>8. SubSeq(rows, a, z) \in [1..k -> 1..n]
    BY <1>6, LenProperties
  <1> QED  BY <1>1, <1>4, <1>6, <1>7, <1>8

\* f makes a state from every block of b rows.
Blocks(f, rows, b, q, k, n) ==
    /\ f = [g \in 0 .. q - 1 |-> f[g]]
    /\ \A g \in 0 .. q - 1 :
          /\ Dealt(f[g], k, 1..n)
          /\ \A x : Holds(f[g], x) <=> \E i \in 1..b : rows[b * g + i] = x

\* States made from blocks of b rows each are a heap.
LEMMA BlocksAreHeap ==
    ASSUME NEW k \in Nat, NEW n \in Nat, NEW rows, Permutes(rows, n),
           NEW b \in Nat \ {0}, NEW q \in Nat \ {0}, n = b * q,
           NEW f, Blocks(f, rows, b, q, k, n)
    PROVE  HeapOf({f[g] : g \in 0 .. q - 1}, k, 1..n) /\ {f[g] : g \in 0 .. q - 1} # {}
  <1> DEFINE heap == {f[g] : g \in 0 .. q - 1}
  <1>1. IsFiniteSet(heap)
    <2>1. f \in Surjection(0 .. q - 1, heap)
      <3>1. f \in [0 .. q - 1 -> heap]
        <4>2. f = [g \in 0 .. q - 1 |-> f[g]]
          BY DEF Blocks
        <4>1. \A g \in 0 .. q - 1 : f[g] \in heap
          OBVIOUS
        <4> HIDE DEF heap
        <4> QED  BY <4>1, <4>2
      <3> QED  BY <3>1 DEF Surjection
    <2>2. IsFiniteSet(0 .. q - 1)
      BY FS_Interval
    <2> HIDE DEF heap
    <2> QED  BY <2>1, <2>2, FS_Surjection
  <1>2. ASSUME NEW g \in 0 .. q - 1, NEW i \in 1..b  PROVE  b * g + i \in 1..n
    BY <1>2, BlockIn
  <1>3. ASSUME NEW s \in heap  PROVE  Dealt(s, k, 1..n) /\ \E x : Holds(s, x)
    <2>1. PICK g \in 0 .. q - 1 : s = f[g]
      OBVIOUS
    <2>2. 1 \in 1..b
      OBVIOUS
    <2>3. Holds(f[g], rows[b * g + 1]) /\ Dealt(f[g], k, 1..n)
      BY <2>2 DEF Blocks
    <2> QED  BY <2>1, <2>3
  <1>4. ASSUME NEW s \in heap, NEW t \in heap, NEW x, Holds(s, x), Holds(t, x)  PROVE  s = t
    <2>1. PICK g \in 0 .. q - 1 : s = f[g]
      OBVIOUS
    <2>2. PICK h \in 0 .. q - 1 : t = f[h]
      OBVIOUS
    <2>3. PICK i \in 1..b : rows[b * g + i] = x
      BY <2>1, <1>4 DEF Blocks
    <2>4. PICK j \in 1..b : rows[b * h + j] = x
      BY <2>2, <1>4 DEF Blocks
    <2>5. b * g + i = b * h + j
      <3>1. b * g + i \in 1..n /\ b * h + j \in 1..n
        BY <1>2
      <3> QED  BY <3>1, <2>3, <2>4 DEF Permutes
    <2>6. g = h
      <3>1. g \in Int /\ h \in Int /\ b \in Int /\ b > 0
        OBVIOUS
      <3> QED  BY <3>1, <2>5, SameBlock
    <2> QED  BY <2>1, <2>2, <2>6
  <1>5. ASSUME NEW x \in 1..n  PROVE  \E s \in heap : Holds(s, x)
    <2>1. PICK m \in 1..n : rows[m] = x
      BY DEF Permutes
    <2>2. PICK g \in 0 .. q - 1, i \in 1..b : m = b * g + i
      <3>1. m \in 1 .. b * q /\ b \in Int /\ b > 0 /\ q \in Nat
        BY <2>1
      <3> QED  BY ONLY <3>1, InBlock
    <2>3. Holds(f[g], x)
      BY <2>1, <2>2 DEF Blocks
    <2> QED  BY <2>3
  <1>6. f[0] \in heap
    OBVIOUS
  <1> HIDE DEF heap
  <1>7. HeapOf(heap, k, 1..n) /\ heap # {}
    BY <1>1, <1>3, <1>4, <1>5, <1>6 DEF HeapOf
  <1> QED  BY <1>7 DEF heap

\* The algorithm starts with a heap: one row for each state, or k of them.
LEMMA StartIsHeap ==
    ASSUME NEW n \in Nat \ {0}, NEW k \in Nat \ {0}, NEW work, DOMAIN work = 1..n,
           NEW equalSize \in BOOLEAN, equalSize => n % k = 0
    PROVE  HeapOf(StartHeap(work, k, equalSize), k, 1..n) /\ StartHeap(work, k, equalSize) # {}
  <1> DEFINE rows == Ascending(work, [i \in 1..n |-> i])
  <1>1. Permutes(rows, n)
    BY RowsPermute
  <1> HIDE DEF rows
  <1>2. rows \in [1..n -> 1..n] /\ DOMAIN rows = 1..n /\ Len(rows) = n
    <2>1. rows \in [1..n -> 1..n]
      BY <1>1 DEF Permutes
    <2>2. rows \in Seq(1..n)
      BY <2>1, SeqDef
    <2> QED  BY <2>1, <2>2, LenProperties
  <1>3. CASE equalSize
    <2> DEFINE q == n \div k
               block(g) == SubSeq(rows, k * g + 1, k * g + k)
               f == [g \in 0 .. q - 1 |-> StateOf(work, block(g), k)]
    <2>1. n = k * q /\ q \in Nat
      BY <1>3, Exactly
    <2>2. q # 0
      BY <2>1
    <2>3. StartHeap(work, k, equalSize) = {f[g] : g \in 0 .. q - 1}
      BY <1>2, <1>3 DEF StartHeap, rows
    <2> HIDE DEF q
    <2>4. ASSUME NEW g \in 0 .. q - 1
          PROVE  /\ block(g) \in [1..k -> 1..n]
                 /\ \A i \in 1..k : block(g)[i] = rows[k * g + i] /\ k * g + i \in 1..n
      <3>1. \A i \in 1..k : k * g + i \in 1..n
        BY <2>1, <2>2, BlockIn
      <3>2. k * g \in Int
        OBVIOUS
      <3>3. \A m \in k * g + 1 .. k * g + k : m \in 1..n
        <4> TAKE m \in k * g + 1 .. k * g + k
        <4>1. m - k * g \in 1..k /\ k * g + (m - k * g) = m
          BY <3>2
        <4> QED  BY <3>1, <4>1
      <3> DEFINE a == k * g + 1
                 z == k * g + k
      <3>4. a \in Int /\ z \in Int /\ a <= z /\ (z - a) + 1 = k /\ \A i \in 1..k : a + i - 1 = k * g + i
        BY <3>2
      <3>5. \A m \in a..z : rows[m] \in 1..n
        BY <3>3, <1>2
      <3> HIDE DEF a, z
      <3>6. /\ SubSeq(rows, a, z) \in Seq(1..n)
            /\ Len(SubSeq(rows, a, z)) = k
            /\ \A i \in 1..k : SubSeq(rows, a, z)[i] = rows[a + i - 1]
        <4>1. /\ SubSeq(rows, a, z) \in Seq(1..n)
              /\ Len(SubSeq(rows, a, z)) = IF a <= z THEN z - a + 1 ELSE 0
              /\ \A i \in 1 .. z - a + 1 : SubSeq(rows, a, z)[i] = rows[a + i - 1]
          BY <3>4, <3>5, SubSeqProperties
        <4>2. z - a + 1 = k
          BY <3>4
        <4> QED  BY <4>1, <4>2, <3>4
      <3>7. block(g) = SubSeq(rows, a, z)
        BY DEF a, z
      <3>8. SubSeq(rows, a, z) \in [1..k -> 1..n]
        BY <3>6, LenProperties
      <3> QED  BY <3>1, <3>4, <3>6, <3>7, <3>8
    <2>5. ASSUME NEW g \in 0 .. q - 1
          PROVE  /\ Dealt(f[g], k, 1..n)
                 /\ \A x : Holds(f[g], x) <=> \E i \in 1..k : rows[k * g + i] = x
      <3>1. f[g] = StateOf(work, block(g), k)
        OBVIOUS
      <3>2. block(g) \in [1..k -> 1..n] /\ \A i \in 1..k : block(g)[i] = rows[k * g + i] /\ k * g + i \in 1..n
        BY <2>4
      <3> HIDE DEF block, f
      <3>3. ASSUME NEW i \in 1..k, NEW j \in 1..k, block(g)[i] = block(g)[j]  PROVE  i = j
        <4>1. rows[k * g + i] = rows[k * g + j] /\ k * g + i \in 1..n /\ k * g + j \in 1..n
          BY <3>2, <3>3
        <4>2. k * g + i = k * g + j
          BY <4>1, <1>1 DEF Permutes
        <4> QED  BY <4>2, SameBlock
      <3>4. k \in 0..k /\ k \in Nat /\ Distinct(block(g), k, 1..n)
        BY <3>2, <3>3 DEF Distinct
      <3>5. Dealt(StateOf(work, block(g), k), k, 1..n) /\ HoldsJust(StateOf(work, block(g), k), block(g), k)
        BY ONLY <3>4, StateDealt
      <3> QED  BY <3>1, <3>2, <3>5 DEF HoldsJust
    <2>6. f = [g \in 0 .. q - 1 |-> f[g]]
      OBVIOUS
    <2> HIDE DEF f
    <2>7. HeapOf({f[g] : g \in 0 .. q - 1}, k, 1..n) /\ {f[g] : g \in 0 .. q - 1} # {}
      <3>1. k \in Nat /\ k \in Nat \ {0} /\ n \in Nat /\ q \in Nat \ {0} /\ n = k * q
        BY <2>1, <2>2
      <3>2. Blocks(f, rows, k, q, k, n)
        BY <2>5, <2>6 DEF Blocks
      <3> QED  BY ONLY <3>1, <3>2, <1>1, BlocksAreHeap
    <2> QED  BY <2>3, <2>7
  <1>4. CASE ~equalSize
    <2> DEFINE f == [g \in 0 .. n - 1 |-> StateOf(work, <<rows[g + 1]>>, k)]
    <2>1. StartHeap(work, k, equalSize) = {f[g] : g \in 0 .. n - 1}
      <3> DEFINE one(i) == StateOf(work, <<rows[i]>>, k)
      <3>1. StartHeap(work, k, equalSize) = {one(i) : i \in 1..n}
        BY <1>2, <1>4 DEF StartHeap, rows
      <3>2. \A i \in 1..n : i - 1 \in 0 .. n - 1 /\ (i - 1) + 1 = i
        OBVIOUS
      <3>3. \A g \in 0 .. n - 1 : g + 1 \in 1..n
        OBVIOUS
      <3>5. \A g \in 0 .. n - 1 : f[g] = one(g + 1)
        OBVIOUS
      <3> HIDE DEF f, one
      <3>4. \A i \in 1..n : one(i) = f[i - 1]
        BY <3>2, <3>5
      <3>6. {one(i) : i \in 1..n} \subseteq {f[g] : g \in 0 .. n - 1}
        BY ONLY <3>2, <3>4
      <3>7. {f[g] : g \in 0 .. n - 1} \subseteq {one(i) : i \in 1..n}
        BY ONLY <3>3, <3>5
      <3> QED  BY <3>1, <3>6, <3>7, Zenon
    <2>2. ASSUME NEW g \in 0 .. n - 1
          PROVE  /\ Dealt(f[g], k, 1..n)
                 /\ \A x : Holds(f[g], x) <=> \E i \in 1..1 : rows[1 * g + i] = x
      <3>1. f[g] = StateOf(work, <<rows[g + 1]>>, k)
        OBVIOUS
      <3>2. rows[g + 1] \in 1..n
        BY <1>2
      <3>3. <<rows[g + 1]>> \in [1..1 -> 1..n] /\ 1 \in 0..k /\ k \in Nat
        BY <3>2
      <3>4. \A i, j \in 1..1 : <<rows[g + 1]>>[i] = <<rows[g + 1]>>[j] => i = j
        OBVIOUS
      <3>7. Distinct(<<rows[g + 1]>>, 1, 1..n)
        BY <3>3, <3>4 DEF Distinct
      <3>5. /\ Dealt(StateOf(work, <<rows[g + 1]>>, k), k, 1..n)
            /\ HoldsJust(StateOf(work, <<rows[g + 1]>>, k), <<rows[g + 1]>>, 1)
        BY ONLY <3>3, <3>7, StateDealt
      <3>6. \A i \in 1..1 : <<rows[g + 1]>>[i] = rows[1 * g + i]
        OBVIOUS
      <3> HIDE DEF f
      <3> QED  BY <3>1, <3>5, <3>6 DEF HoldsJust
    <2>3. f = [g \in 0 .. n - 1 |-> f[g]]
      OBVIOUS
    <2> HIDE DEF f
    <2>4. HeapOf({f[g] : g \in 0 .. n - 1}, k, 1..n) /\ {f[g] : g \in 0 .. n - 1} # {}
      <3>1. k \in Nat /\ 1 \in Nat \ {0} /\ n \in Nat /\ n \in Nat \ {0} /\ n = 1 * n
        OBVIOUS
      <3>2. Blocks(f, rows, 1, n, k, n)
        BY <2>2, <2>3 DEF Blocks
      <3> QED  BY ONLY <3>1, <3>2, <1>1, BlocksAreHeap
    <2> QED  BY <2>1, <2>4
  <1> QED  BY <1>3, <1>4

\* The first states are tidy.
LEMMA StartTidy ==
    ASSUME NEW n \in Nat \ {0}, NEW k \in Nat \ {0}, NEW work, DOMAIN work = 1..n, Positive(work, 1..n),
           NEW equalSize \in BOOLEAN, equalSize => n % k = 0, NEW d \in Nat,
           equalSize => \A g \in 0 .. (n \div k) - 1 :
                             work[Ascending(work, [m \in 1..n |-> m])[k * g + k]]
                                 - work[Ascending(work, [m \in 1..n |-> m])[k * g + 1]] <= d,
           ~equalSize => \A x \in 1..n : work[x] <= d
    PROVE  TidyHeap(StartHeap(work, k, equalSize), work, k, d, equalSize)
  <1> DEFINE rows == Ascending(work, [i \in 1..n |-> i])
  <1>1. Permutes(rows, n)
    BY RowsPermute
  <1>2. Values(work, 1..n)
    BY PositiveValues
  <1>3. \A i, j \in 1..n : i <= j => work[rows[i]] <= work[rows[j]]
    BY <1>2, RowsRise
  <1>4. equalSize => \A g \in 0 .. (n \div k) - 1 : work[rows[k * g + k]] - work[rows[k * g + 1]] <= d
    OBVIOUS
  <1> HIDE DEF rows
  <1>5. rows \in [1..n -> 1..n] /\ DOMAIN rows = 1..n /\ Len(rows) = n
    <2>1. rows \in [1..n -> 1..n]
      BY <1>1 DEF Permutes
    <2>2. rows \in Seq(1..n)
      BY <2>1, SeqDef
    <2> QED  BY <2>1, <2>2, LenProperties
  <1>6. 1..n \subseteq Nat /\ k \in 0..k /\ k \in Nat
    OBVIOUS
  <1>7. CASE equalSize
    <2> DEFINE q == n \div k
               block(g) == SubSeq(rows, k * g + 1, k * g + k)
    <2>1. n = k * q /\ q \in Nat
      BY <1>7, Exactly
    <2>2. q # 0
      BY <2>1
    <2>3. StartHeap(work, k, equalSize) = {StateOf(work, block(g), k) : g \in 0 .. q - 1}
      BY <1>5, <1>7 DEF StartHeap, rows
    <2>4. \A g \in 0 .. q - 1 : work[rows[k * g + k]] - work[rows[k * g + 1]] <= d
      BY <1>4, <1>7
    <2> HIDE DEF q
    <2>5. ASSUME NEW g \in 0 .. q - 1  PROVE  Tidy(StateOf(work, block(g), k), work, k, d, equalSize)
      <3> DEFINE b == block(g)
      <3>1. b \in [1..k -> 1..n] /\ \A i \in 1..k : b[i] = rows[k * g + i] /\ k * g + i \in 1..n
        BY <1>5, <2>1, <2>2, BlockRows
      <3> HIDE DEF block, b
      <3>2. ASSUME NEW i \in 1..k, NEW j \in 1..k  PROVE  work[b[i]] - work[b[j]] <= d
        <4> DEFINE c == k * g
        <4>1. c \in Int /\ 1 \in 1..k /\ k \in 1..k
          OBVIOUS
        <4>2. b[i] = rows[c + i] /\ b[j] = rows[c + j] /\ {c + i, c + j, c + 1, c + k} \subseteq 1..n
          BY <3>1, <4>1
        <4>3. work[rows[c + k]] - work[rows[c + 1]] <= d
          BY <2>4
        <4> HIDE DEF c
        <4>4. c + i <= c + k /\ c + 1 <= c + j
          BY <4>1
        <4>5. work[rows[c + i]] <= work[rows[c + k]] /\ work[rows[c + 1]] <= work[rows[c + j]]
          BY <4>2, <4>4, <1>3
        <4> DEFINE u == work[rows[c + i]]
                   v == work[rows[c + j]]
                   y == work[rows[c + 1]]
                   z == work[rows[c + k]]
        <4>6. u \in Nat /\ v \in Nat /\ y \in Nat /\ z \in Nat
          <5>1. {rows[c + i], rows[c + j], rows[c + 1], rows[c + k]} \subseteq 1..n
            BY <4>2, <1>5
          <5> QED  BY <5>1, <1>2 DEF Values
        <4>7. z - y <= d /\ u <= z /\ y <= v
          BY <4>3, <4>5
        <4> HIDE DEF u, v, y, z
        <4>8. u - v <= d
          BY ONLY <4>6, <4>7, d \in Nat
        <4> QED  BY <4>2, <4>8 DEF u, v
      <3>3. ~(k < k)
        OBVIOUS
      <3>4. Tidy(StateOf(work, b, k), work, k, d, equalSize)
        BY <1>6, <3>1, <3>2, <3>3, StateTidy
      <3> QED  BY <3>4 DEF b
    <2> HIDE DEF block
    <2> QED  BY <2>3, <2>5 DEF TidyHeap
  <1>8. CASE ~equalSize
    <2>1. StartHeap(work, k, equalSize) = {StateOf(work, <<rows[i]>>, k) : i \in 1..n}
      BY <1>5, <1>8 DEF StartHeap, rows
    <2>2. ASSUME NEW i \in 1..n  PROVE  Tidy(StateOf(work, <<rows[i]>>, k), work, k, d, equalSize)
      <3> DEFINE b == <<rows[i]>>
      <3>1. rows[i] \in 1..n
        BY <1>5
      <3>2. b \in [1..1 -> 1..n] /\ b[1] = rows[i] /\ 1 \in 0..k
        BY <3>1
      <3>3. work[rows[i]] \in Nat /\ work[rows[i]] <= d
        BY <3>1, <1>2, <1>8 DEF Values
      <3> HIDE DEF b
      <3>4. \A j, l \in 1..1 : work[b[j]] - work[b[l]] <= d
        BY <3>2, <3>3
      <3>5. \A j \in 1..1 : work[b[j]] <= d
        BY <3>2, <3>3
      <3>6. Tidy(StateOf(work, b, k), work, k, d, equalSize)
        BY <1>6, <1>8, <3>2, <3>4, <3>5, StateTidy
      <3> QED  BY <3>6 DEF b
    <2> QED  BY <2>1, <2>2 DEF TidyHeap
  <1> QED  BY <1>7, <1>8

\* get_seqlen_balanced_partitions shares out every row, and none twice, for
\* every number of rows and of sets.
THEOREM PartitionsShareOut ==
    ASSUME NEW n \in Nat \ {0}, NEW k \in Nat \ {0}, NEW work, DOMAIN work = 1..n,
           NEW equalSize \in BOOLEAN, equalSize => n % k = 0
    PROVE  Partitioned(Partitions(work, k, equalSize), k, 1..n)
  <1> DEFINE state == Merged(work, StartHeap(work, k, equalSize))
             parts == [i \in 1..k |-> InOrder(state[i], <)]
  <1>1. Partitioned(state, k, 1..n)
    BY StartIsHeap, MergedPartitioned
  <1>2. Partitions(work, k, equalSize) = parts
    BY DEF Partitions
  <1> HIDE DEF state
  <1>3. Dealt(state, k, 1..n)
    BY <1>1 DEF Partitioned
  <1>4. ASSUME NEW i \in 1..k  PROVE  Reorders(parts[i], state[i], Len(state[i]))
    <2>1. Len(state[i]) \in Nat /\ DOMAIN state[i] = 1..Len(state[i])
      BY <1>3, DealtShape
    <2>2. parts[i] = InOrder(state[i], <)
      OBVIOUS
    <2> HIDE DEF parts
    <2> QED  BY <2>1, <2>2, RowOrderReorders
  <1>5. parts = [i \in 1..k |-> parts[i]]
    OBVIOUS
  <1> HIDE DEF parts
  <1>6. Dealt(parts, k, 1..n) /\ SameRows(parts, state)
    BY <1>3, <1>4, <1>5, InnerReorderedDealt
  <1> QED  BY <1>1, <1>2, <1>6 DEF Partitioned, SameRows

\* No two rows that start in one state differ by more than d, and no row has
\* more work than d if some sets start empty.
Narrow(work, n, k, d, equalSize) ==
    /\ equalSize => \A g \in 0 .. (n \div k) - 1 :
                        work[Ascending(work, [m \in 1..n |-> m])[k * g + k]]
                            - work[Ascending(work, [m \in 1..n |-> m])[k * g + 1]] <= d
    /\ ~equalSize => \A x \in 1..n : work[x] <= d

\* The loads of the partitions differ by no more than d (karmarkar_karp),
\* none is empty and another has two rows, and with equal_size all have as
\* many rows.
THEOREM PartitionsAreEven ==
    ASSUME NEW n \in Nat \ {0}, NEW k \in Nat \ {0}, NEW work, DOMAIN work = 1..n, Positive(work, 1..n),
           NEW equalSize \in BOOLEAN, equalSize => n % k = 0, NEW d \in Nat,
           Narrow(work, n, k, d, equalSize)
    PROVE  /\ Partitioned(Partitions(work, k, equalSize), k, 1..n)
           /\ Loose(Partitions(work, k, equalSize), work, k, d, equalSize)
  <1> DEFINE heap == StartHeap(work, k, equalSize)
             state == Merged(work, heap)
             parts == [i \in 1..k |-> InOrder(state[i], <)]
             R == 1..n
  <1>1. HeapOf(heap, k, R) /\ heap # {} /\ k \in Nat /\ R \subseteq Nat
    BY StartIsHeap
  <1>2. TidyHeap(heap, work, k, d, equalSize)
    BY StartTidy DEF Narrow
  <1> HIDE DEF heap, R
  <1>3. Tidy(state, work, k, d, equalSize)
    BY <1>1, <1>2, MergedTidy DEF R
  <1>4. Partitioned(state, k, R)
    BY <1>1, MergedPartitioned
  <1>5. Partitions(work, k, equalSize) = parts
    BY DEF Partitions, heap
  <1> HIDE DEF state
  <1>6. /\ state \in [1..k -> Seq(R)]
        /\ \A i \in 1..k : state[i] \in Seq(R) /\ Len(state[i]) \in Nat /\ DOMAIN state[i] = 1..Len(state[i])
    <2>1. Dealt(state, k, R)
      BY <1>4 DEF Partitioned
    <2> QED  BY <1>1, <2>1, DealtShape DEF Dealt
  <1>7. Values(work, R)
    BY PositiveValues DEF R
  <1>8. ASSUME NEW i \in 1..k
        PROVE  Len(parts[i]) = Len(state[i]) /\ Load(work, parts[i]) = Load(work, state[i])
    <2>1. parts[i] = InOrder(state[i], <)
      OBVIOUS
    <2> HIDE DEF parts
    <2>2. Reorders(parts[i], state[i], Len(state[i]))
      BY <2>1, <1>6, RowOrderReorders
    <2> DEFINE t == parts[i]
               s == state[i]
    <2>3. s \in Seq(R) /\ Reorders(t, s, Len(s))
      BY <2>2, <1>6
    <2> HIDE DEF s, t
    <2>4. Len(t) = Len(s) /\ Load(work, t) = Load(work, s)
      BY <2>3, <1>7, LoadReordered
    <2> QED  BY <2>4 DEF s, t
  <1> HIDE DEF parts
  <1>9. Loads(work, parts, k) = Loads(work, state, k)
    BY <1>8 DEF Loads
  <1>10. Full(parts, k) \/ Thin(parts, k)
    BY <1>3, <1>8 DEF Tidy, Loose, Full, Thin
  <1>11. equalSize => Equal(parts, k)
    <2> SUFFICES ASSUME equalSize, NEW i \in 1..k, NEW j \in 1..k  PROVE  Len(parts[i]) = Len(parts[j])
      BY DEF Equal
    <2>1. Len(state[i]) = Len(state[j])
      BY <1>3 DEF Tidy, Loose, Equal
    <2> QED  BY <2>1, <1>8
  <1>12. Loose(parts, work, k, d, equalSize)
    BY <1>3, <1>9, <1>10, <1>11 DEF Tidy, Loose
  <1>13. Partitioned(parts, k, 1..n)
    BY <1>5, PartitionsShareOut
  <1> QED  BY <1>5, <1>12, <1>13

-----------------------------------------------------------------------------
(* The arrangements: every second item from both ends.                      *)

\* How many of k items stand at odd places ...
OddItems(k) == (k + 1) \div 2

\* ... and how many at even ones.
EvenItems(k) == k \div 2

\* a odd and b even items of s are put in sequences of their own.
Split(s, S, k, a, b) ==
    /\ a \in Nat /\ b \in Nat /\ a + b = k /\ (a = b \/ a = b + 1)
    /\ Odd(s) \in Seq(S) /\ Len(Odd(s)) = a
    /\ \A i \in 1..a : Odd(s)[i] = s[2 * i - 1] /\ 2 * i - 1 \in 1..k
    /\ Even(s) \in Seq(S) /\ Len(Even(s)) = b
    /\ \A i \in 1..b : Even(s)[i] = s[2 * i] /\ 2 * i \in 1..k

\* Every second item, from the first and from the second.
LEMMA OddAndEven ==
    ASSUME NEW S, NEW k \in Nat, NEW s \in Seq(S), Len(s) = k
    PROVE  Split(s, S, k, OddItems(k), EvenItems(k))
  <1> DEFINE a == OddItems(k)
             b == EvenItems(k)
  <1>0. a = (k + 1) \div 2 /\ b = k \div 2
    BY DEF OddItems, EvenItems
  <1> HIDE DEF a, b
  <1>1. a \in Nat /\ b \in Nat /\ a + b = k /\ (a = b \/ a = b + 1)
    BY <1>0
  <1>2. \A i \in 1..a : 2 * i - 1 \in 1..k
    BY <1>1
  <1>3. \A i \in 1..b : 2 * i \in 1..k
    BY <1>1
  <1>4. \A i \in 1..k : s[i] \in S
    BY ElementOfSeq
  <1>5. Odd(s) = [i \in 1..a |-> s[2 * i - 1]]
    BY <1>0 DEF Odd
  <1>6. Even(s) = [i \in 1..b |-> s[2 * i]]
    BY <1>0 DEF Even
  <1>7. Odd(s) \in [1..a -> S]
    BY <1>2, <1>4, <1>5
  <1>8. Even(s) \in [1..b -> S]
    BY <1>3, <1>4, <1>6
  <1>9. Odd(s) \in Seq(S) /\ Even(s) \in Seq(S)
    BY ONLY <1>1, <1>7, <1>8, SeqDef
  <1>10. Len(Odd(s)) = a /\ Len(Even(s)) = b
    BY <1>1, <1>7, <1>8, <1>9, LenProperties
  <1>11. \A i \in 1..a : Odd(s)[i] = s[2 * i - 1]
    BY <1>5
  <1>12. \A i \in 1..b : Even(s)[i] = s[2 * i]
    BY <1>6
  <1>13. Split(s, S, k, a, b)
    BY ONLY <1>1, <1>2, <1>3, <1>9, <1>10, <1>11, <1>12 DEF Split
  <1> QED  BY <1>13 DEF a, b

\* r is s from the end.
Backwards(r, s, S, n) ==
    /\ r \in Seq(S) /\ Len(r) = n
    /\ \A i \in 1..n : r[i] = s[(n - i) + 1] /\ (n - i) + 1 \in 1..n

\* Reverse does that.
LEMMA Reversed ==
    ASSUME NEW S, NEW s \in Seq(S), NEW n, n = Len(s)
    PROVE  Backwards(Reverse(s), s, S, n)
  <1>1. n \in Nat
    BY LenProperties
  <1>2. \A i \in 1..n : (n - i) + 1 \in 1..n /\ s[(n - i) + 1] \in S
    BY <1>1, ElementOfSeq
  <1>3. Reverse(s) = [i \in 1..n |-> s[(n - i) + 1]]
    BY DEF Reverse
  <1>4. Reverse(s) \in [1..n -> S]
    BY <1>2, <1>3
  <1>5. Reverse(s) \in Seq(S)
    BY ONLY <1>1, <1>4, SeqDef
  <1>6. Len(Reverse(s)) = n
    BY <1>1, <1>4, <1>5, LenProperties
  <1> QED  BY <1>2, <1>3, <1>5, <1>6 DEF Backwards

\* The arrangement with the light items at both ends keeps the items ...
LEMMA LightOutsideReorders ==
    ASSUME NEW S, NEW k \in Nat, NEW s \in Seq(S), Len(s) = k
    PROVE  Reorders(LightOutside(s), s, k)
  <1> DEFINE a == OddItems(k)
             b == EvenItems(k)
             r == Reverse(Odd(s))
             e == Even(s)
             p == [m \in 1..k |-> IF m <= a THEN 2 * ((a - m) + 1) - 1 ELSE 2 * (m - a)]
  <1>1. /\ a \in Nat /\ b \in Nat /\ a + b = k /\ (a = b \/ a = b + 1)
        /\ Odd(s) \in Seq(S) /\ Len(Odd(s)) = a
        /\ \A i \in 1..a : Odd(s)[i] = s[2 * i - 1] /\ 2 * i - 1 \in 1..k
        /\ e \in Seq(S) /\ Len(e) = b
        /\ \A i \in 1..b : e[i] = s[2 * i] /\ 2 * i \in 1..k
    <2>1. Split(s, S, k, a, b)
      BY OddAndEven
    <2> HIDE DEF a, b
    <2> QED  BY <2>1 DEF Split
  <1> HIDE DEF a, b, e
  <1>2. /\ r \in Seq(S) /\ Len(r) = a
        /\ \A i \in 1..a : r[i] = Odd(s)[(a - i) + 1] /\ (a - i) + 1 \in 1..a
    <2>1. Backwards(Reverse(Odd(s)), Odd(s), S, a)
      BY <1>1, Reversed
    <2> QED  BY <2>1 DEF Backwards
  <1> HIDE DEF r
  <1>3. \A i \in 1..a : r[i] = s[2 * ((a - i) + 1) - 1]
    BY <1>1, <1>2
  <1>4. /\ r \o e \in Seq(S) /\ Len(r \o e) = k
        /\ \A m \in 1..k : (r \o e)[m] = IF m <= a THEN r[m] ELSE e[m - a]
    <2>1. /\ r \o e \in Seq(S) /\ Len(r \o e) = Len(r) + Len(e)
          /\ \A m \in 1 .. Len(r) + Len(e) : (r \o e)[m] = IF m <= Len(r) THEN r[m] ELSE e[m - Len(r)]
      <3>1. r \in Seq(S) /\ e \in Seq(S)
        BY <1>1, <1>2
      <3> QED  BY ONLY <3>1, ConcatProperties
    <2>2. Len(r) = a /\ Len(r) + Len(e) = k
      BY <1>1, <1>2
    <2> QED  BY <2>1, <2>2
  <1>5. ASSUME NEW m \in 1..k  PROVE  p[m] \in 1..k /\ (r \o e)[m] = s[p[m]]
    <2>1. CASE m <= a
      <3>1. m \in 1..a /\ p[m] = 2 * ((a - m) + 1) - 1
        BY <2>1, <1>1
      <3>2. p[m] \in 1..k
        BY <3>1, <1>1
      <3> QED  BY <2>1, <3>1, <3>2, <1>3, <1>4
    <2>2. CASE ~(m <= a)
      <3>1. m - a \in 1..b /\ p[m] = 2 * (m - a)
        BY <2>2, <1>1
      <3> QED  BY <2>2, <3>1, <1>1, <1>4
    <2> QED  BY <2>1, <2>2
  <1>6. p \in [1..k -> 1..k]
    <2>1. p = [m \in 1..k |-> p[m]]
      OBVIOUS
    <2> HIDE DEF p
    <2> QED  BY <2>1, <1>5
  <1>7. \A i, j \in 1..k : p[i] = p[j] => i = j
    BY <1>1
  <1>8. r \o e = [m \in 1..k |-> s[p[m]]]
    <2>1. r \o e = [m \in 1..k |-> (r \o e)[m]]
      BY <1>4, LenProperties
    <2> HIDE DEF p
    <2> QED  BY <2>1, <1>5
  <1>9. LightOutside(s) = r \o e
    BY DEF LightOutside, r, e
  <1> HIDE DEF p
  <1>10. Permutes(p, k)
    BY <1>6, <1>7, InjectionPermutes
  <1> QED  BY <1>8, <1>9, <1>10 DEF Reorders

\* ... and so does the one with the heavy items in the middle.
LEMMA HeavyInsideReorders ==
    ASSUME NEW S, NEW k \in Nat, NEW s \in Seq(S), Len(s) = k
    PROVE  Reorders(HeavyInside(s), s, k)
  <1> DEFINE a == OddItems(k)
             b == EvenItems(k)
             r == Reverse(Even(s))
             e == Odd(s)
             p == [m \in 1..k |-> IF m <= a THEN 2 * m - 1 ELSE 2 * ((b - (m - a)) + 1)]
  <1>1. /\ a \in Nat /\ b \in Nat /\ a + b = k /\ (a = b \/ a = b + 1)
        /\ Even(s) \in Seq(S) /\ Len(Even(s)) = b
        /\ \A i \in 1..b : Even(s)[i] = s[2 * i] /\ 2 * i \in 1..k
        /\ e \in Seq(S) /\ Len(e) = a
        /\ \A i \in 1..a : e[i] = s[2 * i - 1] /\ 2 * i - 1 \in 1..k
    <2>1. Split(s, S, k, a, b)
      BY OddAndEven
    <2> HIDE DEF a, b
    <2> QED  BY <2>1 DEF Split
  <1> HIDE DEF a, b, e
  <1>2. /\ r \in Seq(S) /\ Len(r) = b
        /\ \A i \in 1..b : r[i] = Even(s)[(b - i) + 1] /\ (b - i) + 1 \in 1..b
    <2>1. Backwards(Reverse(Even(s)), Even(s), S, b)
      BY <1>1, Reversed
    <2> QED  BY <2>1 DEF Backwards
  <1> HIDE DEF r
  <1>3. \A i \in 1..b : r[i] = s[2 * ((b - i) + 1)]
    BY <1>1, <1>2
  <1>4. /\ e \o r \in Seq(S) /\ Len(e \o r) = k
        /\ \A m \in 1..k : (e \o r)[m] = IF m <= a THEN e[m] ELSE r[m - a]
    <2>1. /\ e \o r \in Seq(S) /\ Len(e \o r) = Len(e) + Len(r)
          /\ \A m \in 1 .. Len(e) + Len(r) : (e \o r)[m] = IF m <= Len(e) THEN e[m] ELSE r[m - Len(e)]
      <3>1. r \in Seq(S) /\ e \in Seq(S)
        BY <1>1, <1>2
      <3> QED  BY ONLY <3>1, ConcatProperties
    <2>2. Len(e) = a /\ Len(e) + Len(r) = k
      BY <1>1, <1>2
    <2> QED  BY <2>1, <2>2
  <1>5. ASSUME NEW m \in 1..k  PROVE  p[m] \in 1..k /\ (e \o r)[m] = s[p[m]]
    <2>1. CASE m <= a
      <3>1. m \in 1..a /\ p[m] = 2 * m - 1
        BY <2>1, <1>1
      <3> QED  BY <2>1, <3>1, <1>1, <1>4
    <2>2. CASE ~(m <= a)
      <3>1. m - a \in 1..b /\ p[m] = 2 * ((b - (m - a)) + 1)
        BY <2>2, <1>1
      <3>2. p[m] \in 1..k
        BY <3>1, <1>1
      <3> QED  BY <2>2, <3>1, <3>2, <1>3, <1>4
    <2> QED  BY <2>1, <2>2
  <1>6. p \in [1..k -> 1..k]
    <2>1. p = [m \in 1..k |-> p[m]]
      OBVIOUS
    <2> HIDE DEF p
    <2> QED  BY <2>1, <1>5
  <1>7. \A i, j \in 1..k : p[i] = p[j] => i = j
    BY <1>1
  <1>8. e \o r = [m \in 1..k |-> s[p[m]]]
    <2>1. e \o r = [m \in 1..k |-> (e \o r)[m]]
      BY <1>4, LenProperties
    <2> HIDE DEF p
    <2> QED  BY <2>1, <1>5
  <1>9. HeavyInside(s) = e \o r
    BY DEF HeavyInside, r, e
  <1> HIDE DEF p
  <1>10. Permutes(p, k)
    BY <1>6, <1>7, InjectionPermutes
  <1> QED  BY <1>8, <1>9, <1>10 DEF Reorders

-----------------------------------------------------------------------------
(* The sets of a partition, one after the other.                            *)

\* The first i sets of a partition joined.
LEMMA JoinDealt ==
    ASSUME NEW k \in Nat \ {0}, NEW R, NEW parts, Dealt(parts, k, R), NEW i \in 1..k
    PROVE  /\ JoinOf(parts)[i] \in Seq(R) /\ IsInjective(JoinOf(parts)[i])
           /\ \A x : Hit(JoinOf(parts)[i], x) <=> \E h \in 1..i : Hit(parts[h], x)
  <1> DEFINE f == JoinOf(parts)
             good(m) == /\ f[m] \in Seq(R) /\ IsInjective(f[m])
                        /\ \A x : Hit(f[m], x) <=> \E h \in 1..m : Hit(parts[h], x)
             B == {m \in 1..k : ~good(m)}
  <1>1. Len(parts) = k /\ DOMAIN parts = 1..k /\ \A h \in 1..k : parts[h] \in Seq(R)
    <2>1. k \in Nat
      OBVIOUS
    <2> QED  BY <2>1, DealtShape
  <1>2. f[1] = parts[1] /\ \A m \in 2..k : f[m] = f[m - 1] \o parts[m]
    BY <1>1, JoinSteps
  <1> HIDE DEF f
  <1>3. \A h \in 1..k : IsInjective(parts[h])
    BY <1>1 DEF Dealt, Once, IsInjective
  <1>4. \A h, l \in 1..k : \A x : Hit(parts[h], x) /\ Hit(parts[l], x) => h = l
    BY <1>1 DEF Dealt, Once, Hit
  <1>5. ASSUME B # {}  PROVE  FALSE
    <2>1. PICK m \in B : \A j \in B : m <= j
      <3>1. B \subseteq Nat
        OBVIOUS
      <3> HIDE DEF B
      <3> QED  BY <1>5, <3>1, LeastNat
    <2>2. m \in 1..k /\ ~good(m)
      OBVIOUS
    <2>3. CASE m = 1
      <3>1. f[m] = parts[m]
        BY <2>3, <1>2
      <3>2. \A h \in 1..m : h = m
        BY <2>3
      <3>3. f[m] \in Seq(R) /\ IsInjective(f[m])
        BY <3>1, <2>2, <1>1, <1>3
      <3>4. ASSUME NEW x  PROVE  Hit(f[m], x) <=> \E h \in 1..m : Hit(parts[h], x)
        <4>1. m \in 1..m
          BY <2>3
        <4> QED  BY ONLY <4>1, <3>1, <3>2
      <3> QED  BY <3>3, <3>4, <2>2
    <2>4. CASE m # 1
      <3>1. m - 1 \in 1..k /\ m - 1 \notin B /\ m \in 2..k
        <4>1. m \in 1..k
          BY <2>2
        <4>2. m - 1 \in 1..k /\ m \in 2..k /\ ~(m <= m - 1)
          BY ONLY <4>1, <2>4, k \in Nat \ {0}
        <4> HIDE DEF B
        <4> QED  BY <4>2, <2>1
      <3>2. good(m - 1)
        BY <3>1
      <3>3. f[m] = f[m - 1] \o parts[m]
        BY <3>1, <1>2
      <3>4. \A x : ~(Hit(f[m - 1], x) /\ Hit(parts[m], x))
        <4> SUFFICES ASSUME NEW x, Hit(f[m - 1], x), Hit(parts[m], x)  PROVE  FALSE
          OBVIOUS
        <4>1. PICK h \in 1 .. m - 1 : Hit(parts[h], x)
          BY <3>2
        <4>2. h \in 1..k /\ h # m
          BY <2>2
        <4> QED  BY <4>1, <4>2, <2>2, <1>4
      <3>5. f[m - 1] \in Seq(R) /\ IsInjective(f[m - 1]) /\ parts[m] \in Seq(R) /\ IsInjective(parts[m])
        BY <3>2, <2>2, <1>1, <1>3
      <3>6. /\ f[m] \in Seq(R) /\ IsInjective(f[m])
            /\ \A x : Hit(f[m], x) <=> Hit(f[m - 1], x) \/ Hit(parts[m], x)
        BY ONLY <3>3, <3>4, <3>5, ConcatDistinct
      <3>7. ASSUME NEW x
            PROVE  (\E h \in 1..m : Hit(parts[h], x)) <=>
                      ((\E h \in 1 .. m - 1 : Hit(parts[h], x)) \/ Hit(parts[m], x))
        <4>1. \A h : h \in 1..m <=> h \in 1 .. m - 1 \/ h = m
          BY <2>2
        <4> QED  BY <4>1
      <3>8. \A x : Hit(f[m - 1], x) <=> \E h \in 1 .. m - 1 : Hit(parts[h], x)
        BY <3>2
      <3>9. good(m)
        BY <3>6, <3>7, <3>8
      <3> QED  BY <3>9, <2>2
    <2> QED  BY <2>3, <2>4
  <1>6. good(i)
    BY <1>5
  <1> QED  BY <1>6 DEF f

\* All sets of a partition of n rows, joined, are the rows in some order.
LEMMA FlattenPermutes ==
    ASSUME NEW k \in Nat \ {0}, NEW n \in Nat, NEW parts, Partitioned(parts, k, 1..n)
    PROVE  Permutes(FlattenSeq(parts), n)
  <1> DEFINE f == FlattenSeq(parts)
             len == Len(f)
  <1>1. Dealt(parts, k, 1..n) /\ k \in 1..k
    BY DEF Partitioned
  <1>2. Len(parts) = k /\ DOMAIN parts = 1..k
    <2>1. k \in Nat
      OBVIOUS
    <2> QED  BY <1>1, <2>1, DealtShape
  <1>3. f = JoinOf(parts)[k]
    BY <1>2, JoinSteps
  <1>4. /\ f \in Seq(1..n) /\ IsInjective(f)
        /\ \A x : Hit(f, x) <=> \E h \in 1..k : Hit(parts[h], x)
    BY <1>1, <1>3, JoinDealt
  <1> HIDE DEF f
  <1>5. len \in Nat /\ DOMAIN f = 1..len /\ f \in [1..len -> 1..n]
    BY <1>4, LenProperties
  <1>6. ASSUME NEW x \in 1..n  PROVE  \E m \in 1..len : f[m] = x
    <2>1. Holds(parts, x)
      BY DEF Partitioned
    <2>2. \E h \in 1..k : Hit(parts[h], x)
      BY <2>1, <1>2 DEF Holds, Hit
    <2>3. Hit(f, x)
      BY <2>2, <1>4
    <2> QED  BY <2>3, <1>5 DEF Hit
  <1> HIDE DEF len
  <1>7. f \in Bijection(1..len, 1..n)
    BY <1>4, <1>5, <1>6 DEF Bijection, Injection, Surjection
  <1>8. Cardinality(1..n) = Cardinality(1..len)
    BY <1>5, <1>7, FS_Interval, FS_Bijection DEF ExistsBijection
  <1>9. len = n
    BY <1>5, <1>8, FS_Interval
  <1>10. Permutes(f, n)
    BY <1>4, <1>5, <1>6, <1>9 DEF Permutes, IsInjective
  <1> QED  BY <1>10 DEF f

\* With equal_size every set has n \div k rows.
LEMMA EqualShares ==
    ASSUME NEW n \in Nat \ {0}, NEW k \in Nat \ {0}, NEW q \in Nat, n = k * q, NEW s,
           Partitioned(s, k, 1..n), Equal(s, k)
    PROVE  \A i \in 1..k : Len(s[i]) = q
  <1> DEFINE l == Len(s[1])
  <1>1. /\ DOMAIN s = 1..k /\ s \in [1..k -> Seq(1..n)]
        /\ \A i \in 1..k : s[i] \in Seq(1..n) /\ Len(s[i]) \in Nat /\ DOMAIN s[i] = 1..Len(s[i])
    <2>1. k \in Nat /\ Dealt(s, k, 1..n)
      BY DEF Partitioned
    <2> QED  BY <2>1, DealtShape DEF Dealt
  <1>2. 1 \in 1..k
    OBVIOUS
  <1>3. \A i \in 1..k : Len(s[i]) = l
    BY <1>2 DEF Equal
  <1>4. l \in Nat
    BY <1>1, <1>2
  <1>5. l # 0
    <2> SUFFICES ASSUME l = 0  PROVE  FALSE
      OBVIOUS
    <2>1. 1 \in 1..n
      OBVIOUS
    <2>2. PICK i \in 1..k : \E j \in DOMAIN s[i] : s[i][j] = 1
      BY <1>1, <2>1 DEF Partitioned, Holds
    <2> HIDE DEF l
    <2>3. DOMAIN s[i] = 1..l
      BY <1>1, <1>3
    <2> QED  BY <2>2, <2>3
  <1> HIDE DEF l
  <1>6. FlattenSeq(s) \in Seq(1..n) /\ InBlocks(FlattenSeq(s), s, l, k)
    BY <1>1, <1>3, <1>4, <1>5, JoinInBlocks
  <1>7. DOMAIN FlattenSeq(s) = 1..n
    BY FlattenPermutes DEF Permutes
  <1> DEFINE f == FlattenSeq(s)
  <1>8. f \in Seq(1..n) /\ DOMAIN f = 1..n /\ Len(f) = l * k
    BY <1>6, <1>7 DEF InBlocks
  <1> HIDE DEF f
  <1>9. Len(f) = n
    BY <1>8, LenProperties
  <1>10. l = q
    <2>1. k * l = k * q
      BY <1>4, <1>8, <1>9
    <2>2. CASE l < q
      <3>1. k * l + k <= k * q
        BY ONLY <1>4, <2>2, NextBlock, k \in Nat \ {0}, q \in Nat
      <3> QED  BY <3>1, <2>1, <1>4
    <2>3. CASE q < l
      <3>1. k * q + k <= k * l
        BY ONLY <1>4, <2>3, NextBlock, k \in Nat \ {0}, q \in Nat
      <3> QED  BY <3>1, <2>1, <1>4
    <2> QED  BY <2>2, <2>3, <1>4
  <1> QED  BY <1>3, <1>10

\* If there are at least as many rows as sets, no set is empty.
LEMMA NoneEmpty ==
    ASSUME NEW n \in Nat \ {0}, NEW k \in Nat \ {0}, k <= n, NEW s, Partitioned(s, k, 1..n),
           Full(s, k) \/ Thin(s, k)
    PROVE  Full(s, k)
  <1> SUFFICES ASSUME Thin(s, k)  PROVE  Full(s, k)
    OBVIOUS
  <1> DEFINE I == {i \in 1..k : Len(s[i]) > 0}
             f == [i \in I |-> s[i][1]]
  <1>1. /\ DOMAIN s = 1..k
        /\ \A i \in 1..k : s[i] \in Seq(1..n) /\ Len(s[i]) \in Nat /\ DOMAIN s[i] = 1..Len(s[i])
    <2>1. k \in Nat /\ Dealt(s, k, 1..n)
      BY DEF Partitioned
    <2> QED  BY <2>1, DealtShape
  <1>2. ASSUME NEW i \in I  PROVE  s[i][1] \in 1..n
    <2>1. i \in 1..k /\ Len(s[i]) > 0
      OBVIOUS
    <2>2. s[i] \in Seq(1..n) /\ 1 \in 1..Len(s[i])
      BY <2>1, <1>1
    <2> QED  BY <2>2, ElementOfSeq
  <1>3. ASSUME NEW x \in 1..n  PROVE  \E i \in I : f[i] = x
    <2>0. PICK i \in 1..k : \E j \in DOMAIN s[i] : s[i][j] = x
      BY <1>1 DEF Partitioned, Holds
    <2>1. PICK j \in DOMAIN s[i] : s[i][j] = x
      BY <2>0
    <2>2. Len(s[i]) <= 1 /\ j \in 1..Len(s[i]) /\ Len(s[i]) \in Nat
      BY <2>1, <1>1 DEF Thin
    <2>3. j = 1 /\ i \in I
      BY <2>2
    <2> QED  BY <2>1, <2>3
  <1>4. f \in [I -> 1..n]
    BY <1>2
  <1>5. I \in SUBSET (1..k)
    OBVIOUS
  <1> HIDE DEF f, I
  <1>6. f \in Surjection(I, 1..n)
    BY <1>3, <1>4 DEF Surjection
  <1>7. IsFiniteSet(1..k) /\ Cardinality(1..k) = k /\ Cardinality(1..n) = n
    BY FS_Interval
  <1>8. IsFiniteSet(I) /\ Cardinality(I) <= k /\ (Cardinality(I) = k => I = 1..k)
    BY <1>5, <1>7, FS_Subset
  <1>9. Cardinality(1..n) <= Cardinality(I)
    BY <1>6, <1>8, FS_Surjection
  <1>10. Cardinality(I) \in Nat
    BY <1>8, FS_CardinalityType
  <1>11. I = 1..k
    BY <1>7, <1>8, <1>9, <1>10
  <1> QED  BY <1>11 DEF I, Full

\* Loads within d of each other have no larger spread.
LEMMA SpreadWithin ==
    ASSUME NEW R, NEW work, Values(work, R), NEW k \in Nat \ {0}, NEW s \in [1..k -> Seq(R)],
           NEW d, Within(Loads(work, s, k), k, d)
    PROVE  Spread(work, s) <= d
  <1> DEFINE a == Loads(work, s, k)
             S == {a[i] : i \in 1..k}
  <1>1. \A i \in 1..k : a[i] = Load(work, s[i]) /\ a[i] \in Nat
    <2> TAKE i \in 1..k
    <2>1. a[i] = Load(work, s[i]) /\ s[i] \in Seq(R)
      BY DEF Loads
    <2> QED  BY <2>1, LoadNat
  <1>2. Spread(work, s) = Max(S) - Min(S)
    <2>1. {Load(work, s[i]) : i \in DOMAIN s} = S
      BY <1>1
    <2> QED  BY <2>1 DEF Spread
  <1> HIDE DEF a
  <1>3. Max(S) \in S
    <2>1. Values(a, 1..k)
      BY <1>1 DEF Values
    <2> QED  BY <2>1, LargestValue
  <1>4. Min(S) \in S
    <2>1. S \subseteq Nat /\ S # {}
      <3>1. 1 \in 1..k
        OBVIOUS
      <3> QED  BY <3>1, <1>1
    <2> HIDE DEF S
    <2> QED  BY <2>1, LeastIsIn
  <1>5. PICK i \in 1..k : Max(S) = a[i]
    BY <1>3
  <1>6. PICK j \in 1..k : Min(S) = a[j]
    BY <1>4
  <1>7. a[i] - a[j] <= d
    BY DEF Within, a
  <1> QED  BY <1>2, <1>5, <1>6, <1>7

\* Another order of the sets keeps their loads and fills them as much.
LEMMA OuterReorderedEven ==
    ASSUME NEW k \in Nat, NEW work, NEW d, NEW s, NEW t, Reorders(t, s, k),
           Within(Loads(work, s, k), k, d), Full(s, k)
    PROVE  Within(Loads(work, t, k), k, d) /\ Full(t, k)
  <1>1. PICK p : Permutes(p, k) /\ t = [m \in 1..k |-> s[p[m]]]
    BY DEF Reorders
  <1>2. ASSUME NEW i \in 1..k  PROVE  p[i] \in 1..k /\ t[i] = s[p[i]]
    BY <1>1 DEF Permutes
  <1>3. ASSUME NEW i \in 1..k  PROVE  Loads(work, t, k)[i] = Loads(work, s, k)[p[i]]
    BY <1>2 DEF Loads
  <1>4. Within(Loads(work, t, k), k, d)
    BY <1>2, <1>3 DEF Within
  <1>5. Full(t, k)
    BY <1>2 DEF Full
  <1> QED  BY <1>4, <1>5

\* The rows of a partition without empty sets.
LEMMA IsPartition ==
    ASSUME NEW n \in Nat \ {0}, NEW k \in Nat \ {0}, NEW parts, Partitioned(parts, k, 1..n), Full(parts, k)
    PROVE  IsPartitionOf(parts, 1..n)
  <1>1. DOMAIN parts = 1..k
    <2>1. k \in Nat /\ Dealt(parts, k, 1..n)
      BY DEF Partitioned
    <2> QED  BY <2>1, DealtShape
  <1> DEFINE all == FlattenSeq(parts)
  <1>2. Permutes(all, n)
    BY FlattenPermutes
  <1> HIDE DEF all
  <1>3. all \in [1..n -> 1..n] /\ DOMAIN all = 1..n
    BY <1>2 DEF Permutes
  <1>4. IsInjective(all)
    BY <1>2, <1>3 DEF Permutes, IsInjective
  <1>5. ToSet(all) = 1..n
    <2>1. ASSUME NEW x \in ToSet(all)  PROVE  x \in 1..n
      BY <1>3 DEF ToSet
    <2>2. ASSUME NEW x \in 1..n  PROVE  x \in ToSet(all)
      BY <1>2, <1>3 DEF Permutes, ToSet
    <2> QED  BY <2>1, <2>2
  <1> QED  BY <1>1, <1>4, <1>5 DEF IsPartitionOf, Full, all

-----------------------------------------------------------------------------
(* The two uses.                                                            *)

\* The micro-batches are the partitions in another order.
LEMMA MicroBatchesReorder ==
    ASSUME NEW n \in Nat \ {0}, NEW num \in Nat \ {0}, NEW lengths, DOMAIN lengths = 1..n
    PROVE  Reorders(MicroBatches(lengths, num),
                    Partitions([i \in 1..n |-> Workload(lengths[i])], num, FALSE), num)
  <1> DEFINE work == [i \in 1..n |-> Workload(lengths[i])]
             parts == Partitions(work, num, FALSE)
             heavyFirst(s, t) == LexLess(<<Load(work, t), t[1]>>, <<Load(work, s), s[1]>>)
             u == InOrder(parts, heavyFirst)
             ahead(i) == {j \in 1..num : heavyFirst(parts[j], parts[i])}
             e == [i \in 1..num |-> Cardinality(ahead(i))]
  <1>1. Partitioned(parts, num, 1..n)
    <2>1. DOMAIN work = 1..n
      OBVIOUS
    <2> HIDE DEF work
    <2> QED  BY <2>1, PartitionsShareOut
  <1>2. MicroBatches(lengths, num) = LightOutside(u)
    BY DEF MicroBatches
  <1> HIDE DEF parts
  <1>3. Dealt(parts, num, 1..n) /\ num \in Nat
    BY <1>1 DEF Partitioned
  <1>4. DOMAIN parts = 1..num
    BY <1>3, DealtShape
  <1>5. Reorders(u, parts, num)
    <2>1. ASSUME NEW i \in 1..num  PROVE  Cardinality(ahead(i)) \in Nat
      <3>1. ahead(i) \in SUBSET (1..num) /\ IsFiniteSet(1..num)
        BY FS_Interval
      <3> HIDE DEF ahead
      <3> QED  BY <3>1, FS_Subset, FS_CardinalityType
    <2>2. e \in [1..num -> Nat]
      <3> HIDE DEF ahead
      <3> QED  BY <2>1
    <2>3. u = Arranged(parts, {<<e[i], i>> : i \in 1..num})
      BY <1>4 DEF InOrder
    <2> HIDE DEF e, u
    <2> QED  BY <1>3, <1>4, <2>2, <2>3, ArrangedReorders
  <1> HIDE DEF u
  <1>6. Dealt(u, num, 1..n)
    BY <1>3, <1>5, ReorderedDealt
  <1>7. u \in Seq(Seq(1..n)) /\ Len(u) = num
    BY <1>3, <1>6, DealtShape, SeqDef DEF Dealt
  <1>8. Reorders(LightOutside(u), u, num)
    BY <1>3, <1>7, LightOutsideReorders
  <1> QED  BY <1>2, <1>3, <1>5, <1>8, ReorderedTwice DEF parts

\* The micro-batches of a rank hold every row of it, and none twice, whatever
\* their lengths and number (rearrange_micro_batches).
THEOREM MicroBatchesShareOut ==
    ASSUME NEW n \in Nat \ {0}, NEW num \in Nat \ {0}, NEW lengths, DOMAIN lengths = 1..n
    PROVE  Partitioned(MicroBatches(lengths, num), num, 1..n)
  <1> DEFINE work == [i \in 1..n |-> Workload(lengths[i])]
             parts == Partitions(work, num, FALSE)
             m == MicroBatches(lengths, num)
  <1>1. DOMAIN work = 1..n
    OBVIOUS
  <1>2. Reorders(m, parts, num)
    BY MicroBatchesReorder
  <1> HIDE DEF work, m
  <1>3. Partitioned(parts, num, 1..n)
    BY <1>1, PartitionsShareOut
  <1> HIDE DEF parts
  <1>4. Dealt(m, num, 1..n) /\ SameRows(m, parts)
    <2>1. num \in Nat /\ Dealt(parts, num, 1..n)
      BY <1>3 DEF Partitioned
    <2> QED  BY <1>2, <2>1, ReorderedDealt
  <1> QED  BY <1>3, <1>4 DEF Partitioned, SameRows, m

\* The workload of a row that has a token.
LEMMA WorkloadPositive == ASSUME NEW b \in Nat \ {0}  PROVE  Workload(b) \in Nat \ {0}
  <1>1. b * b \in Nat
    OBVIOUS
  <1> DEFINE c == b * b
  <1> HIDE DEF c
  <1>2. 6 * b + c \in Nat \ {0}
    BY <1>1 DEF c
  <1> QED  BY <1>2 DEF Workload, c

\* The micro-batches of a rank hold each of its rows once, none is empty, and
\* they differ by no more work than its longest row takes, as long as there are
\* no more of them than rows (rearrange_micro_batches).
THEOREM MicroBatchesAreEven ==
    ASSUME NEW n \in Nat \ {0}, NEW num \in Nat \ {0}, num <= n, NEW lengths, DOMAIN lengths = 1..n,
           Positive(lengths, 1..n), NEW work, work = [i \in 1..n |-> Workload(lengths[i])],
           NEW d \in Nat, \A i \in 1..n : work[i] <= d
    PROVE  IsPartitionOf(MicroBatches(lengths, num), 1..n) /\ Spread(work, MicroBatches(lengths, num)) <= d
  <1> DEFINE parts == Partitions(work, num, FALSE)
             m == MicroBatches(lengths, num)
  <1>1. Positive(work, 1..n) /\ DOMAIN work = 1..n
    <2>1. ASSUME NEW i \in 1..n  PROVE  work[i] \in Nat \ {0}
      <3>1. lengths[i] \in Nat \ {0}
        BY DEF Positive
      <3> QED  BY <3>1, WorkloadPositive
    <2> QED  BY <2>1 DEF Positive
  <1>2. Narrow(work, n, num, d, FALSE)
    BY DEF Narrow
  <1>3. Partitioned(parts, num, 1..n) /\ Loose(parts, work, num, d, FALSE)
    <2>1. FALSE \in BOOLEAN /\ (FALSE => n % num = 0)
      OBVIOUS
    <2> QED  BY <1>1, <1>2, <2>1, PartitionsAreEven
  <1>4. Reorders(m, parts, num)
    BY MicroBatchesReorder
  <1>5. Partitioned(m, num, 1..n)
    BY MicroBatchesShareOut
  <1> HIDE DEF parts, m
  <1>6. Full(parts, num)
    BY <1>3, NoneEmpty DEF Loose
  <1>7. Within(Loads(work, m, num), num, d) /\ Full(m, num)
    <2>1. num \in Nat
      OBVIOUS
    <2> QED  BY <1>3, <1>4, <1>6, <2>1, OuterReorderedEven DEF Loose
  <1>8. IsPartitionOf(m, 1..n)
    BY <1>5, <1>7, IsPartition
  <1>9. Spread(work, m) <= d
    <2>1. m \in [1..num -> Seq(1..n)]
      BY <1>5 DEF Partitioned, Dealt
    <2>2. Values(work, 1..n)
      BY <1>1, PositiveValues
    <2> QED  BY <1>7, <2>1, <2>2, SpreadWithin
  <1> QED  BY <1>8, <1>9 DEF m

\* The rows of every set with the heavy ones in the middle.
InsideOut(work, parts) == [i \in DOMAIN parts |-> HeavyInside(Ascending(work, parts[i]))]

\* That is another order of its rows.
LEMMA InsideOutReorders ==
    ASSUME NEW n \in Nat, NEW k \in Nat, NEW work, NEW parts, Dealt(parts, k, 1..n), NEW i \in 1..k
    PROVE  Reorders(InsideOut(work, parts)[i], parts[i], Len(parts[i]))
  <1> DEFINE s == parts[i]
             t == Ascending(work, s)
             l == Len(s)
  <1>1. s \in Seq(1..n) /\ l \in Nat /\ DOMAIN s = 1..l /\ i \in DOMAIN parts
    BY DealtShape
  <1>2. InsideOut(work, parts)[i] = HeavyInside(t)
    BY <1>1 DEF InsideOut
  <1> HIDE DEF l, s
  <1>3. Reorders(t, s, l)
    BY <1>1, AscendingReorders
  <1>4. t \in Seq(1..n) /\ Len(t) = l
    <2>1. PICK p : Permutes(p, l) /\ t = [m \in 1..l |-> s[p[m]]]
      BY <1>3 DEF Reorders
    <2> HIDE DEF t
    <2>2. \A m \in 1..l : p[m] \in 1..l /\ s[p[m]] \in 1..n
      BY <2>1, <1>1, ElementOfSeq DEF Permutes, l
    <2>3. t \in [1..l -> 1..n]
      BY <2>1, <2>2
    <2>4. t \in Seq(1..n)
      BY ONLY <2>3, <1>1, SeqDef
    <2> QED  BY <2>3, <2>4, <1>1, LenProperties
  <1> HIDE DEF t
  <1>5. Reorders(HeavyInside(t), t, l)
    BY <1>1, <1>4, HeavyInsideReorders
  <1>6. Reorders(HeavyInside(t), s, l)
    BY <1>1, <1>3, <1>5, ReorderedTwice
  <1> QED  BY <1>2, <1>6 DEF s, l

\* _balance_batch reorders the batch: no row is lost, and none doubled.
THEOREM BalancedOrderPermutes ==
    ASSUME NEW n \in Nat \ {0}, NEW k \in Nat \ {0}, n % k = 0, NEW work, DOMAIN work = 1..n
    PROVE  Permutes(BalancedOrder(work, k), n)
  <1> DEFINE parts == Partitions(work, k, TRUE)
             arranged == InsideOut(work, parts)
  <1>1. Partitioned(parts, k, 1..n)
    BY PartitionsShareOut
  <1>2. BalancedOrder(work, k) = FlattenSeq(arranged)
    BY DEF BalancedOrder, InsideOut
  <1> HIDE DEF parts
  <1>3. Dealt(parts, k, 1..n) /\ k \in Nat
    BY <1>1 DEF Partitioned
  <1>4. \A i \in 1..k : Reorders(arranged[i], parts[i], Len(parts[i]))
    BY <1>3, InsideOutReorders
  <1>5. arranged = [i \in 1..k |-> arranged[i]]
    BY <1>3, DealtShape DEF InsideOut
  <1> HIDE DEF arranged
  <1>6. Dealt(arranged, k, 1..n) /\ SameRows(arranged, parts)
    BY <1>3, <1>4, <1>5, InnerReorderedDealt
  <1>7. Partitioned(arranged, k, 1..n)
    BY <1>1, <1>6 DEF Partitioned, SameRows
  <1> QED  BY <1>2, <1>7, FlattenPermutes

\* The rows of the k ranks, one rank after the other.
Chunks(k, q) == [p \in 1..k |-> [i \in 1..q |-> (p - 1) * q + i]]

\* After _balance_batch the chunks of the ranks differ by no more work than two
\* rows that k consecutive rows of the sorted batch span.
THEOREM BalancedOrderIsEven ==
    ASSUME NEW n \in Nat \ {0}, NEW k \in Nat \ {0}, NEW q \in Nat \ {0}, n = k * q, NEW work,
           DOMAIN work = 1..n, Positive(work, 1..n), NEW d \in Nat, Narrow(work, n, k, d, TRUE),
           NEW after, after = [i \in 1..n |-> work[BalancedOrder(work, k)[i]]]
    PROVE  Spread(after, Chunks(k, q)) <= d
  <1> DEFINE parts == Partitions(work, k, TRUE)
             arranged == InsideOut(work, parts)
             order == BalancedOrder(work, k)
             R == 1..n
             chunks == Chunks(k, q)
  <1>1. n % k = 0
    <2>1. k \in Int /\ k > 0 /\ q \in Int /\ 0 \in 0 .. k - 1
      OBVIOUS
    <2>2. (k * q + 0) % k = 0
      BY ONLY <2>1, QuotientIs
    <2> QED  BY <2>2
  <1>2. Partitioned(parts, k, R) /\ Loose(parts, work, k, d, TRUE)
    <2>1. TRUE \in BOOLEAN /\ (TRUE => n % k = 0)
      BY <1>1
    <2> QED  BY <2>1, PartitionsAreEven
  <1>3. order = FlattenSeq(arranged)
    BY DEF BalancedOrder, InsideOut
  <1>4. Permutes(order, n)
    BY <1>1, BalancedOrderPermutes
  <1> HIDE DEF parts, order, R
  <1>5. Dealt(parts, k, R) /\ k \in Nat
    BY <1>2 DEF Partitioned
  <1>6. /\ DOMAIN parts = 1..k
        /\ \A i \in 1..k : parts[i] \in Seq(R) /\ Len(parts[i]) \in Nat /\ DOMAIN parts[i] = 1..Len(parts[i])
    BY <1>5, DealtShape
  <1>7. \A i \in 1..k : Len(parts[i]) = q
    <2>1. Equal(parts, k)
      BY <1>2 DEF Loose
    <2> QED  BY <1>2, <2>1, EqualShares DEF R
  <1>8. Values(work, R)
    BY PositiveValues DEF R
  <1>9. arranged = [i \in 1..k |-> arranged[i]]
    BY <1>6 DEF InsideOut
  <1> HIDE DEF arranged
  <1>10. ASSUME NEW i \in 1..k
         PROVE  /\ arranged[i] \in Seq(R) /\ Len(arranged[i]) = q
                /\ Load(work, arranged[i]) = Load(work, parts[i])
    <2> DEFINE s == parts[i]
               t == arranged[i]
    <2>1. s \in Seq(R) /\ Len(s) = q
      BY <1>6, <1>7
    <2>2. Reorders(t, s, Len(s))
      BY <1>5, InsideOutReorders DEF arranged, R
    <2> HIDE DEF s, t
    <2>3. t \in Seq(R) /\ Len(t) = Len(s) /\ Load(work, t) = Load(work, s)
      BY <2>1, <2>2, <1>8, LoadReordered
    <2> QED  BY <2>1, <2>3 DEF s, t
  <1>11. arranged \in [1..k -> Seq(R)]
    BY <1>9, <1>10
  <1>12. InBlocks(order, arranged, q, k)
    BY <1>3, <1>10, <1>11, JoinInBlocks
  <1>13. ASSUME NEW p \in 1..k  PROVE  Load(after, chunks[p]) = Load(work, parts[p])
    <2> DEFINE c == chunks[p]
               t == arranged[p]
    <2>1. c = [i \in 1..q |-> (p - 1) * q + i]
      BY DEF Chunks
    <2>2. t \in Seq(R) /\ Len(t) = q /\ DOMAIN t = 1..q
      BY <1>10, LenProperties
    <2>3. ASSUME NEW i \in 1..q  PROVE  after[c[i]] = work[t[i]]
      <3>1. c[i] = q * (p - 1) + i
        BY <2>1
      <3>2. q * (p - 1) + i \in 1 .. q * k
        <4>1. q \in Int /\ q > 0 /\ p - 1 \in 0 .. k - 1 /\ k \in Nat
          OBVIOUS
        <4> QED  BY ONLY <4>1, i \in 1..q, BlockIn
      <3>3. q * (p - 1) + i \in 1..n
        <4>1. q * k = k * q
          OBVIOUS
        <4> QED  BY <3>2, <4>1
      <3>4. order[q * (p - 1) + i] = t[i]
        BY <1>12 DEF InBlocks
      <3> HIDE DEF c, t
      <3>5. after[c[i]] = work[order[c[i]]]
        BY <3>1, <3>3 DEF order
      <3> QED  BY <3>1, <3>4, <3>5
    <2>4. DOMAIN c = 1..q
      BY <2>1
    <2> HIDE DEF c, t
    <2>5. [i \in DOMAIN c |-> after[c[i]]] = [i \in DOMAIN t |-> work[t[i]]]
      BY <2>2, <2>3, <2>4
    <2>6. Load(after, c) = Load(work, t)
      BY <2>5 DEF Load
    <2>7. Load(work, t) = Load(work, parts[p])
      BY <1>10 DEF t
    <2> QED  BY <2>6, <2>7 DEF c
  <1>14. Loads(after, chunks, k) = Loads(work, parts, k)
    <2> HIDE DEF chunks
    <2> QED  BY <1>13 DEF Loads
  <1>15. Within(Loads(after, chunks, k), k, d)
    BY <1>2, <1>14 DEF Loose
  <1>16. Values(after, R)
    <2>1. order \in [R -> R]
      BY <1>4 DEF Permutes, R
    <2>2. after = [i \in R |-> work[order[i]]]
      BY DEF order, R
    <2> QED  BY <2>1, <2>2, <1>8 DEF Values
  <1>17. chunks \in [1..k -> Seq(R)]
    <2>1. ASSUME NEW p \in 1..k  PROVE  chunks[p] \in Seq(R)
      <3>1. chunks[p] = [i \in 1..q |-> (p - 1) * q + i]
        BY DEF Chunks
      <3>2. ASSUME NEW i \in 1..q  PROVE  (p - 1) * q + i \in R
        <4>1. q \in Int /\ q > 0 /\ p - 1 \in 0 .. k - 1 /\ k \in Nat
          OBVIOUS
        <4>2. q * (p - 1) + i \in 1 .. q * k
          BY ONLY <4>1, i \in 1..q, BlockIn
        <4>3. q * (p - 1) + i = (p - 1) * q + i /\ q * k = k * q
          OBVIOUS
        <4> QED  BY <4>2, <4>3 DEF R
      <3>3. [i \in 1..q |-> (p - 1) * q + i] \in [1..q -> R]
        BY <3>2
      <3>4. q \in Nat
        OBVIOUS
      <3> HIDE DEF chunks
      <3>5. chunks[p] \in [1..q -> R]
        BY <3>1, <3>3
      <3> QED  BY ONLY <3>4, <3>5, SeqDef
    <2>2. chunks = [p \in 1..k |-> chunks[p]]
      BY DEF Chunks
    <2> HIDE DEF chunks
    <2> QED  BY <2>1, <2>2
  <1> HIDE DEF chunks
  <1>18. Spread(after, chunks) <= d
    BY <1>15, <1>16, <1>17, SpreadWithin
  <1> QED  BY <1>18 DEF chunks
==============================================================================
