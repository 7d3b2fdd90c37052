---------------------------- MODULE CommonLemmas -----------------------------
(***************************************************************************)
(* Lemmas about the data the modules are built from. Sums over finite sets *)
(* and joined sequences are the folds of the community modules. The        *)
(* induction is over the subsets of a finite set or over the natural       *)
(* numbers: one for which a claim fails would have no smaller one that     *)
(* fails.                                                                  *)
(***************************************************************************)
EXTENDS Integers, FiniteSetsExt, Functions, SequencesExt, FiniteSetTheorems,
        SequenceTheorems, WellFoundedInduction, TLAPS

-----------------------------------------------------------------------------
(* Least elements, and sums over finite sets.                               *)

\* Among the subsets in a collection one contains no other.
LEMMA SmallestSubset ==
    ASSUME NEW S, IsFiniteSet(S), NEW B, B \subseteq SUBSET S, B # {}
    PROVE  \E m \in B : \A t \in B : t \subseteq m => t = m
  <1>1. IsWellFoundedOn(StrictSubsetOrdering(S), SUBSET S)
    BY FS_StrictSubsetOrderingWellFounded, FS_FiniteSubsetsOfFinite
  <1>2. PICK m \in B : \A t \in B : ~(<<t, m>> \in StrictSubsetOrdering(S))
    BY <1>1, WFMin
  <1>3. ASSUME NEW t \in B, t \subseteq m, t # m  PROVE  FALSE
    <2>1. <<t, m>> \in (SUBSET S) \X (SUBSET S)
      OBVIOUS
    <2>2. <<t, m>> \in StrictSubsetOrdering(S)
      BY <2>1, <1>3 DEF StrictSubsetOrdering
    <2> QED  BY <2>2, <1>2
  <1> QED  BY <1>3

\* A non-empty set of natural numbers has a least one.
LEMMA LeastNat ==
    ASSUME NEW B, B \subseteq Nat, B # {}
    PROVE  \E m \in B : \A k \in B : m <= k
  <1>1. PICK m \in B : \A k \in B : ~(<<k, m>> \in OpToRel(<, Nat))
    BY NatLessThanWellFounded, WFMin
  <1>2. \A k \in B : ~(k < m)
    BY <1>1 DEF OpToRel
  <1> QED  BY <1>2

\* An element of a set.
Pick(s) == CHOOSE x \in s : TRUE

\* It is one if there is any.
LEMMA PickIsIn == ASSUME NEW s, s # {}  PROVE  Pick(s) \in s
  BY DEF Pick

\* g gives every subset of S the sum of f over it.
IsSum(g, f, S) ==
    g = [s \in SUBSET S |-> IF s = {} THEN 0 ELSE f[Pick(s)] + g[s \ {Pick(s)}]]

\* Two such functions agree where both are defined.
LEMMA SumUnique ==
    ASSUME NEW S, IsFiniteSet(S), NEW f, NEW T \in SUBSET S, NEW U \in SUBSET S,
           NEW g, NEW h, IsSum(g, f, T), IsSum(h, f, U),
           NEW s \in SUBSET (T \intersect U)
    PROVE  g[s] = h[s]
  <1> DEFINE B == {t \in SUBSET (T \intersect U) : g[t] # h[t]}
  <1> SUFFICES B = {}
    OBVIOUS
  <1>1. CASE B # {}
    <2>1. PICK m \in B : \A t \in B : t \subseteq m => t = m
      <3>1. B \subseteq SUBSET S
        OBVIOUS
      <3> HIDE DEF B
      <3> QED  BY <1>1, <3>1, SmallestSubset
    <2>2. CASE m = {}
      BY <2>2, m \in B DEF IsSum
    <2>3. CASE m # {}
      <3> DEFINE x == Pick(m)
      <3>1. x \in m
        BY <2>3, PickIsIn
      <3>2. m \ {x} \notin B /\ m \ {x} \in SUBSET (T \intersect U)
        BY <2>1, <3>1
      <3>3. g[m \ {x}] = h[m \ {x}]
        BY <3>2
      <3>4. g[m] = f[x] + g[m \ {x}]
        BY <2>3, m \in SUBSET T DEF IsSum
      <3>5. h[m] = f[x] + h[m \ {x}]
        BY <2>3, m \in SUBSET U DEF IsSum
      <3> QED  BY <3>3, <3>4, <3>5, m \in B
    <2> QED  BY <2>2, <2>3
  <1> QED  BY <1>1

\* There is such a function for every finite set.
LEMMA SumExists ==
    ASSUME NEW S, IsFiniteSet(S), NEW f
    PROVE  \E g : IsSum(g, f, S)
  <1> DEFINE B == {t \in SUBSET S : ~\E g : IsSum(g, f, t)}
  <1> SUFFICES B = {}
    OBVIOUS
  <1>1. CASE B # {}
    <2>1. PICK m \in B : \A t \in B : t \subseteq m => t = m
      <3>1. B \subseteq SUBSET S
        OBVIOUS
      <3> HIDE DEF B
      <3> QED  BY <1>1, <3>1, SmallestSubset
    <2> DEFINE sum(t) == CHOOSE g : IsSum(g, f, t)
               less(t) == t \ {Pick(t)}
               h == [t \in SUBSET m |-> IF t = {} THEN 0 ELSE f[Pick(t)] + sum(less(t))[less(t)]]
    <2>2. ASSUME NEW t \in SUBSET m, t # m  PROVE  IsSum(sum(t), f, t)
      <3>1. \E g : IsSum(g, f, t)
        BY <2>1, <2>2
      <3> QED  BY <3>1
    <2>3. ASSUME NEW t \in SUBSET m, t # m  PROVE  h[t] = sum(t)[t]
      <3>1. CASE t = {}
        <4>1. IsSum(sum(t), f, t)
          BY <2>2, <2>3
        <4>2. \A k : IsSum(k, f, t) => k[t] = 0
          BY <3>1 DEF IsSum
        <4>3. sum(t)[t] = 0
          <5> HIDE DEF sum
          <5> QED  BY <4>1, <4>2
        <4> QED  BY <4>3, <3>1
      <3>2. CASE t # {}
        <4> DEFINE u == less(t)
        <4>1. Pick(t) \in t
          BY <3>2, PickIsIn
        <4>2. u \in SUBSET m /\ u # m /\ u \in SUBSET t
          BY <4>1
        <4>3. IsSum(sum(t), f, t) /\ IsSum(sum(u), f, u)
          BY <2>2, <2>3, <4>2
        <4>4. sum(t)[u] = sum(u)[u]
          <5>1. {t, u} \subseteq SUBSET S /\ u \in SUBSET (t \intersect u)
            BY <4>2
          <5> HIDE DEF sum, u
          <5> QED  BY <5>1, <4>3, SumUnique
        <4>5. sum(t)[t] = f[Pick(t)] + sum(t)[u]
          BY <4>3, <3>2 DEF IsSum
        <4> QED  BY <4>4, <4>5, <3>2
      <3> QED  BY <3>1, <3>2
    <2>4. ASSUME NEW t \in SUBSET m
          PROVE  h[t] = IF t = {} THEN 0 ELSE f[Pick(t)] + h[less(t)]
      <3>1. CASE t = {}
        BY <3>1
      <3>2. CASE t # {}
        <4>1. Pick(t) \in t
          BY <3>2, PickIsIn
        <4>2. less(t) \in SUBSET m /\ less(t) # m
          BY <4>1
        <4>3. h[less(t)] = sum(less(t))[less(t)]
          BY <4>2, <2>3
        <4> QED  BY <4>3, <3>2
      <3> QED  BY <3>1, <3>2
    <2>5. IsSum(h, f, m)
      <3>1. h = [t \in SUBSET m |-> h[t]]
        OBVIOUS
      <3> HIDE DEF h
      <3> QED  BY <3>1, <2>4 DEF IsSum
    <2> QED  BY <2>5, <2>1
  <1> QED  BY <1>1

\* The sum of f over S.
Sum(f, S) == MapThenSumSet(LAMBDA v : f[v], S)

\* The community modules' sum is the one of SumUnique and SumExists.
LEMMA SumIsFold ==
    ASSUME NEW S, IsFiniteSet(S), NEW f
    PROVE  \E g : IsSum(g, f, S) /\ Sum(f, S) = g[S]
  <1> DEFINE g == CHOOSE h : IsSum(h, f, S)
  <1>1. IsSum(g, f, S)
    BY SumExists
  <1>2. Sum(f, S) = g[S]
    BY DEF Sum, MapThenSumSet, MapThenFoldSet, IsSum, Pick
  <1> QED  BY <1>1, <1>2

\* A sum of natural numbers is one.
LEMMA SumNat ==
    ASSUME NEW S, IsFiniteSet(S), NEW f \in [S -> Nat]
    PROVE  Sum(f, S) \in Nat
  <1>1. PICK g : IsSum(g, f, S) /\ Sum(f, S) = g[S]
    BY SumIsFold
  <1> DEFINE B == {t \in SUBSET S : g[t] \notin Nat}
  <1>2. CASE B # {}
    <2>1. PICK m \in B : \A t \in B : t \subseteq m => t = m
      <3>1. B \subseteq SUBSET S
        OBVIOUS
      <3> HIDE DEF B
      <3> QED  BY <1>2, <3>1, SmallestSubset
    <2>2. m # {}
      BY <1>1, m \in B DEF IsSum
    <2> DEFINE x == Pick(m)
    <2>3. x \in m
      BY <2>2, PickIsIn
    <2>4. g[m] = f[x] + g[m \ {x}]
      BY <1>1, <2>2, m \in SUBSET S DEF IsSum
    <2>5. g[m \ {x}] \in Nat
      BY <2>1, <2>3
    <2>6. f[x] \in Nat
      BY <2>3
    <2> QED  BY <2>4, <2>5, <2>6, m \in B
  <1> QED  BY <1>1, <1>2

\* A change of one summand changes the sum as much.
LEMMA SumChanges ==
    ASSUME NEW S, IsFiniteSet(S), NEW f \in [S -> Nat], NEW e \in [S -> Nat],
           NEW v \in S, \A w \in S \ {v} : e[w] = f[w]
    PROVE  Sum(e, S) = (Sum(f, S) - f[v]) + e[v]
  <1> DEFINE due(t) == IF v \in t THEN e[v] - f[v] ELSE 0
  <1>1. PICK g : IsSum(g, f, S) /\ Sum(f, S) = g[S]
    BY SumIsFold
  <1>2. PICK h : IsSum(h, e, S) /\ Sum(e, S) = h[S]
    BY SumIsFold
  <1> DEFINE B == {t \in SUBSET S : ~(g[t] \in Int /\ h[t] = g[t] + due(t))}
  <1>3. ASSUME B # {}  PROVE  FALSE
    <2>1. PICK m \in B : \A t \in B : t \subseteq m => t = m
      <3>1. B \subseteq SUBSET S
        OBVIOUS
      <3> HIDE DEF B
      <3> QED  BY <1>3, <3>1, SmallestSubset
    <2>2. m # {}
      BY <1>1, <1>2, m \in B DEF IsSum
    <2> DEFINE x == Pick(m)
               less == m \ {x}
    <2>3. x \in m
      BY <2>2, PickIsIn
    <2>4. g[m] = f[x] + g[less] /\ h[m] = e[x] + h[less]
      BY <1>1, <1>2, <2>2, m \in SUBSET S DEF IsSum
    <2>5. g[less] \in Int /\ h[less] = g[less] + due(less)
      BY <2>1, <2>3
    <2>6. f[x] \in Nat /\ f[v] \in Nat /\ e[v] \in Nat
      BY <2>3
    <2>7. CASE x = v
      <3>1. e[x] = e[v] /\ due(less) = 0 /\ due(m) = e[v] - f[v]
        BY <2>3, <2>7
      <3>2. g[m] \in Int /\ h[m] = g[m] + due(m)
        BY <3>1, <2>4, <2>5, <2>6, <2>7
      <3> QED  BY <3>2, m \in B
    <2>8. CASE x # v
      <3>1. e[x] = f[x] /\ due(less) = due(m) /\ due(m) \in Int
        BY <2>3, <2>6, <2>8
      <3> HIDE DEF due, x, less
      <3>2. g[m] \in Int /\ h[m] = g[m] + due(m)
        BY <3>1, <2>4, <2>5, <2>6
      <3> QED  BY <3>2, m \in B
    <2> QED  BY <2>7, <2>8
  <1>4. g[S] \in Int /\ h[S] = g[S] + (e[v] - f[v])
    <2>1. S \in SUBSET S /\ S \notin B
      BY <1>3
    <2> QED  BY <2>1
  <1>5. f[v] \in Nat /\ e[v] \in Nat
    OBVIOUS
  <1> QED  BY <1>1, <1>2, <1>4, <1>5

\* A sum of zeros is zero.
LEMMA SumOfZeros ==
    ASSUME NEW S, IsFiniteSet(S)
    PROVE  Sum([s \in S |-> 0], S) = 0
  <1> DEFINE f == [s \in S |-> 0]
  <1>1. PICK g : IsSum(g, f, S) /\ Sum(f, S) = g[S]
    BY SumIsFold
  <1> DEFINE B == {t \in SUBSET S : g[t] # 0}
  <1>2. CASE B # {}
    <2>1. PICK m \in B : \A t \in B : t \subseteq m => t = m
      <3>1. B \subseteq SUBSET S
        OBVIOUS
      <3> HIDE DEF B
      <3> QED  BY <1>2, <3>1, SmallestSubset
    <2>2. m # {}
      BY <1>1, m \in B DEF IsSum
    <2> DEFINE x == Pick(m)
    <2>3. x \in m
      BY <2>2, PickIsIn
    <2>4. g[m] = f[x] + g[m \ {x}]
      BY <1>1, <2>2, m \in SUBSET S DEF IsSum
    <2>5. g[m \ {x}] = 0 /\ f[x] = 0
      BY <2>1, <2>3
    <2> QED  BY <2>4, <2>5, m \in B
  <1> QED  BY <1>1, <1>2

\* No summand is larger than the sum.
LEMMA SumAtLeast ==
    ASSUME NEW S, IsFiniteSet(S), NEW f \in [S -> Nat], NEW v \in S
    PROVE  f[v] <= Sum(f, S)
  <1> DEFINE e == [w \in S |-> IF w = v THEN 0 ELSE f[w]]
  <1>1. e \in [S -> Nat] /\ e[v] = 0 /\ \A w \in S \ {v} : e[w] = f[w]
    OBVIOUS
  <1> HIDE DEF e
  <1>2. Sum(e, S) = (Sum(f, S) - f[v]) + e[v]
    BY <1>1, SumChanges
  <1>3. Sum(e, S) \in Nat /\ Sum(f, S) \in Nat /\ f[v] \in Nat
    BY <1>1, SumNat
  <1> QED  BY <1>1, <1>2, <1>3

\* Every value that f has on S is a natural number.
Values(f, S) == \A x \in S : f[x] \in Nat

\* A sum depends on the summands only.
LEMMA SumSame ==
    ASSUME NEW S, IsFiniteSet(S), NEW f, NEW e, \A x \in S : e[x] = f[x]
    PROVE  Sum(e, S) = Sum(f, S)
  <1>1. PICK g : IsSum(g, f, S) /\ Sum(f, S) = g[S]
    BY SumIsFold
  <1>2. PICK h : IsSum(h, e, S) /\ Sum(e, S) = h[S]
    BY SumIsFold
  <1> DEFINE B == {t \in SUBSET S : g[t] # h[t]}
  <1>3. ASSUME B # {}  PROVE  FALSE
    <2>1. PICK m \in B : \A t \in B : t \subseteq m => t = m
      <3>1. B \subseteq SUBSET S
        OBVIOUS
      <3> HIDE DEF B
      <3> QED  BY <1>3, <3>1, SmallestSubset
    <2>2. m # {}
      BY <1>1, <1>2, m \in B DEF IsSum
    <2> DEFINE x == Pick(m)
               less == m \ {x}
    <2>3. x \in m
      BY <2>2, PickIsIn
    <2>4. g[m] = f[x] + g[less] /\ h[m] = e[x] + h[less]
      BY <1>1, <1>2, <2>2, m \in SUBSET S DEF IsSum
    <2>5. g[less] = h[less] /\ e[x] = f[x]
      BY <2>1, <2>3
    <2> QED  BY <2>4, <2>5, m \in B
  <1>4. S \in SUBSET S /\ S \notin B
    BY <1>3
  <1> QED  BY <1>1, <1>2, <1>4

\* A sum over a part of f's domain is a natural number.
LEMMA SumOfValues ==
    ASSUME NEW S, IsFiniteSet(S), NEW f, Values(f, S)
    PROVE  Sum(f, S) \in Nat
  <1> DEFINE e == [x \in S |-> f[x]]
  <1>1. e \in [S -> Nat] /\ \A x \in S : e[x] = f[x]
    BY DEF Values
  <1> HIDE DEF e
  <1>2. Sum(e, S) \in Nat
    BY <1>1, SumNat
  <1>3. Sum(e, S) = Sum(f, S)
    BY <1>1, SumSame
  <1> QED  BY <1>2, <1>3

\* Any summand can be taken out.
LEMMA SumRemoves ==
    ASSUME NEW S, IsFiniteSet(S), NEW f, Values(f, S), NEW v \in S
    PROVE  Sum(f, S) = f[v] + Sum(f, S \ {v})
  <1>1. PICK g : IsSum(g, f, S) /\ Sum(f, S) = g[S]
    BY SumIsFold
  <1> DEFINE B == {t \in SUBSET S : ~(g[t] \in Int /\ \A w \in t : g[t] = f[w] + g[t \ {w}])}
  <1>2. ASSUME B # {}  PROVE  FALSE
    <2>1. PICK m \in B : \A t \in B : t \subseteq m => t = m
      <3>1. B \subseteq SUBSET S
        OBVIOUS
      <3> HIDE DEF B
      <3> QED  BY <1>2, <3>1, SmallestSubset
    <2>2. m # {}
      BY <1>1, m \in B DEF IsSum
    <2> DEFINE x == Pick(m)
               less == m \ {x}
    <2>3. x \in m /\ m \in SUBSET S
      BY <2>2, PickIsIn
    <2>4. g[m] = f[x] + g[less]
      BY <1>1, <2>2, <2>3 DEF IsSum
    <2>5. g[less] \in Int /\ \A w \in less : g[less] = f[w] + g[less \ {w}]
      <3>1. less \notin B /\ less \in SUBSET S
        BY <2>1, <2>3
      <3> QED  BY <3>1
    <2>6. f[x] \in Nat
      BY <2>3 DEF Values
    <2>7. ASSUME NEW w \in m, w # x  PROVE  g[m] = f[w] + g[m \ {w}]
      <3> DEFINE other == m \ {w}
                 both == m \ {x, w}
      <3>1. other \notin B /\ other \in SUBSET S /\ x \in other
        BY <2>1, <2>3, <2>7
      <3>2. g[other] = f[x] + g[other \ {x}]
        BY <3>1
      <3>3. other \ {x} = both /\ less \ {w} = both /\ w \in less
        BY <2>7
      <3>4. g[less] = f[w] + g[both]
        BY <2>5, <3>3
      <3>5. both \notin B /\ both \in SUBSET S
        BY <2>1, <2>3
      <3>6. g[both] \in Int /\ f[w] \in Nat
        BY <3>5, <2>3 DEF Values
      <3> HIDE DEF x, less, other, both
      <3>7. g[other] = f[x] + g[both]
        BY <3>2, <3>3
      <3>8. g[m] = f[w] + g[other]
        BY ONLY <2>4, <2>6, <3>4, <3>6, <3>7
      <3> QED  BY <3>8 DEF other
    <2>8. g[m] \in Int
      BY <2>4, <2>5, <2>6
    <2> QED  BY <2>4, <2>7, <2>8, m \in B
  <1>3. g[S] = f[v] + g[S \ {v}]
    <2>1. S \in SUBSET S /\ S \notin B
      BY <1>2
    <2> QED  BY <2>1
  <1>4. Sum(f, S \ {v}) = g[S \ {v}]
    <2> DEFINE T == S \ {v}
    <2>1. T \in SUBSET S /\ S \in SUBSET S /\ T \in SUBSET (T \intersect S) /\ IsFiniteSet(T)
      BY FS_Subset
    <2>2. PICK h : IsSum(h, f, T) /\ Sum(f, T) = h[T]
      BY <2>1, SumIsFold
    <2> HIDE DEF T
    <2>3. h[T] = g[T]
      BY <2>1, <2>2, <1>1, SumUnique
    <2> QED  BY <2>2, <2>3 DEF T
  <1> QED  BY <1>1, <1>3, <1>4

\* The sum over nothing.
LEMMA SumOfNone == ASSUME NEW f  PROVE  Sum(f, {}) = 0
  <1>1. PICK g : IsSum(g, f, {}) /\ Sum(f, {}) = g[{}]
    BY FS_EmptySet, SumIsFold
  <1> QED  BY <1>1 DEF IsSum

\* The order of the summands does not matter.
LEMMA SumRenamed ==
    ASSUME NEW T, IsFiniteSet(T), NEW S, IsFiniteSet(S), NEW f, Values(f, S),
           NEW p \in [T -> S], \A x, y \in T : p[x] = p[y] => x = y, \A y \in S : \E x \in T : p[x] = y
    PROVE  Sum([x \in T |-> f[p[x]]], T) = Sum(f, S)
  <1> DEFINE e == [x \in T |-> f[p[x]]]
             image(t) == {p[x] : x \in t}
             B == {t \in SUBSET T : Sum(e, t) # Sum(f, image(t))}
  <1>1. \A x \in T : e[x] = f[p[x]] /\ e[x] \in Nat
    BY DEF Values
  <1> HIDE DEF e
  <1>2. ASSUME B # {}  PROVE  FALSE
    <2>1. PICK m \in B : \A t \in B : t \subseteq m => t = m
      <3>1. B \subseteq SUBSET T
        OBVIOUS
      <3> HIDE DEF B
      <3> QED  BY <1>2, <3>1, SmallestSubset
    <2>2. m # {}
      <3>1. image({}) = {}
        OBVIOUS
      <3> QED  BY <3>1, SumOfNone, m \in B
    <2>3. PICK x : x \in m
      BY <2>2
    <2> DEFINE less == m \ {x}
    <2>4. Sum(e, less) = Sum(f, image(less))
      <3>1. less \notin B /\ less \in SUBSET T
        BY <2>1, <2>3
      <3> QED  BY <3>1
    <2>5. IsFiniteSet(m) /\ Values(e, m) /\ m \in SUBSET T
      BY <2>1, <1>1, FS_Subset DEF Values
    <2>6. Sum(e, m) = e[x] + Sum(e, less)
      BY <2>3, <2>5, SumRemoves
    <2>7. image(m) \in SUBSET S /\ p[x] \in image(m)
      BY <2>3, <2>5
    <2>8. image(m) \ {p[x]} = image(less)
      <3>1. ASSUME NEW y \in image(m) \ {p[x]}  PROVE  y \in image(less)
        <4>1. PICK z \in m : y = p[z]
          OBVIOUS
        <4> QED  BY <4>1
      <3>2. ASSUME NEW y \in image(less)  PROVE  y \in image(m) \ {p[x]}
        <4>1. PICK z \in less : y = p[z]
          OBVIOUS
        <4>2. z \in T /\ x \in T /\ z # x
          BY <2>3, <2>5
        <4> QED  BY <4>1, <4>2
      <3> QED  BY <3>1, <3>2
    <2> HIDE DEF image, less
    <2>9. IsFiniteSet(image(m)) /\ Values(f, image(m))
      BY <2>7, FS_Subset DEF Values
    <2>10. Sum(f, image(m)) = f[p[x]] + Sum(f, image(less))
      <3>1. Sum(f, image(m)) = f[p[x]] + Sum(f, image(m) \ {p[x]})
        BY <2>7, <2>9, SumRemoves
      <3> QED  BY <3>1, <2>8
    <2>11. e[x] = f[p[x]]
      BY <1>1, <2>3, <2>5
    <2> QED  BY <2>4, <2>6, <2>10, <2>11, m \in B
  <1>3. image(T) = S
    OBVIOUS
  <1>4. Sum(e, T) = Sum(f, S)
    <2>1. T \in SUBSET T /\ T \notin B
      BY <1>2
    <2> QED  BY <2>1, <1>3
  <1> QED  BY <1>4 DEF e

\* SumFunction is the sum over the domain.
LEMMA SumFunctionIs == ASSUME NEW f  PROVE  SumFunction(f) = Sum(f, DOMAIN f)
  BY DEF SumFunction, SumFunctionOnSet, FoldFunctionOnSet, Sum, MapThenSumSet

\* The sum over a longer interval.
LEMMA SumNext ==
    ASSUME NEW n \in Nat, NEW f, Values(f, 1 .. n + 1)
    PROVE  /\ Sum(f, 1 .. n + 1) = f[n + 1] + Sum(f, 1..n)
           /\ Sum(f, 1..n) \in Nat /\ f[n + 1] \in Nat
  <1>1. IsFiniteSet(1 .. n + 1) /\ IsFiniteSet(1..n) /\ n + 1 \in 1 .. n + 1
    BY FS_Interval
  <1>2. (1 .. n + 1) \ {n + 1} = 1..n
    OBVIOUS
  <1>3. Values(f, 1..n) /\ f[n + 1] \in Nat
    BY <1>1 DEF Values
  <1>4. Sum(f, 1 .. n + 1) = f[n + 1] + Sum(f, (1 .. n + 1) \ {n + 1})
    BY <1>1, SumRemoves
  <1>5. Sum(f, 1..n) \in Nat
    BY <1>1, <1>3, SumOfValues
  <1> QED  BY <1>2, <1>3, <1>4, <1>5

\* h has the values of f, then those of g.
InTwo(h, f, a, g, b) ==
    /\ Values(f, 1..a) /\ Values(g, 1..b)
    /\ \A i \in 1..a : h[i] = f[i]
    /\ \A i \in 1..b : h[a + i] = g[i]

\* A sum over an interval in two parts.
LEMMA SumOfTwo ==
    ASSUME NEW a \in Nat, NEW b \in Nat, NEW f, NEW g, NEW h, InTwo(h, f, a, g, b)
    PROVE  Sum(h, 1 .. a + b) = Sum(f, 1..a) + Sum(g, 1..b)
  <1> USE DEF InTwo
  <1> DEFINE B == {n \in 0..b : Sum(h, 1 .. a + n) # Sum(f, 1..a) + Sum(g, 1..n)}
  <1>1. \A n \in 0..b : \A i \in 1 .. a + n : h[i] \in Nat
    <2> SUFFICES ASSUME NEW n \in 0..b, NEW i \in 1 .. a + n  PROVE  h[i] \in Nat
      OBVIOUS
    <2>1. CASE i \in 1..a
      BY <2>1 DEF Values
    <2>2. CASE i \notin 1..a
      <3>1. i - a \in 1..b /\ a + (i - a) = i
        BY <2>2
      <3>2. h[a + (i - a)] = g[i - a]
        BY <3>1
      <3> QED  BY <3>1, <3>2 DEF Values
    <2> QED  BY <2>1, <2>2
  <1>2. IsFiniteSet(1..a) /\ Sum(f, 1..a) \in Nat
    <2>1. IsFiniteSet(1..a)
      BY FS_Interval
    <2> QED  BY <2>1, SumOfValues
  <1>3. ASSUME B # {}  PROVE  FALSE
    <2>1. PICK m \in B : \A n \in B : m <= n
      <3>1. B \subseteq Nat
        OBVIOUS
      <3> HIDE DEF B
      <3> QED  BY <1>3, <3>1, LeastNat
    <2>2. m \in 0..b /\ Sum(h, 1 .. a + m) # Sum(f, 1..a) + Sum(g, 1..m)
      OBVIOUS
    <2>3. CASE m = 0
      <3>1. a + m = a /\ 1..m = {}
        BY <2>3
      <3>2. Sum(h, 1..a) = Sum(f, 1..a)
        BY <1>2, SumSame
      <3>3. Sum(g, 1..m) = 0
        BY <3>1, SumOfNone
      <3> QED  BY <1>2, <2>2, <3>1, <3>2, <3>3
    <2>4. CASE m # 0
      <3> DEFINE l == m - 1
      <3>1. l \in 0..b /\ l \in Nat /\ l + 1 = m /\ ~(m <= l)
        BY <2>2, <2>4
      <3>2. a + l \in Nat /\ (a + l) + 1 = a + m
        BY <3>1
      <3>3. Sum(h, 1 .. a + l) = Sum(f, 1..a) + Sum(g, 1..l)
        <4>1. l \notin B
          BY <2>1, <3>1
        <4> QED  BY <4>1, <3>1
      <3> HIDE DEF l
      <3>4. Values(h, 1 .. (a + l) + 1) /\ Values(g, 1 .. l + 1)
        <4>1. l + 1 \in 0..b
          BY <2>2, <3>1
        <4>2. Values(h, 1 .. a + (l + 1))
          BY <1>1, <4>1 DEF Values
        <4>3. Values(g, 1 .. l + 1)
          BY <4>1 DEF Values
        <4> QED  BY <4>2, <4>3, <3>1, <3>2
      <3>5. Sum(h, 1 .. (a + l) + 1) = h[(a + l) + 1] + Sum(h, 1 .. a + l)
        BY <3>2, <3>4, SumNext
      <3>6. /\ Sum(g, 1 .. l + 1) = g[l + 1] + Sum(g, 1..l)
            /\ Sum(g, 1..l) \in Nat /\ g[l + 1] \in Nat
        BY <3>1, <3>4, SumNext
      <3>7. h[(a + l) + 1] = g[l + 1]
        <4>1. m \in 1..b
          BY <2>2, <2>4
        <4>2. h[a + m] = g[m]
          BY <4>1
        <4> QED  BY <4>2, <3>1, <3>2
      <3> DEFINE A == Sum(f, 1..a)
                 G == Sum(g, 1..l)
                 H == Sum(h, 1 .. a + l)
                 v == g[l + 1]
      <3>8. Sum(h, 1 .. a + m) = v + H /\ Sum(g, 1..m) = v + G
        BY <3>1, <3>2, <3>5, <3>6, <3>7
      <3>9. H = A + G /\ A \in Nat /\ G \in Nat /\ v \in Nat
        BY <1>2, <3>3, <3>6
      <3> HIDE DEF A, G, H, v
      <3>10. v + H = A + (v + G)
        BY ONLY <3>9
      <3> QED  BY <2>2, <3>8, <3>10 DEF A
    <2> QED  BY <2>2, <2>3, <2>4
  <1>4. b \in 0..b /\ b \notin B
    BY <1>3
  <1> QED  BY <1>4

\* No number of S is larger than b.
UpTo(S, b) == \A x \in S : x <= b

\* Integers up to some number have a largest.
LEMMA Largest ==
    ASSUME NEW S \in SUBSET Int, S # {}, NEW b \in Int, UpTo(S, b)
    PROVE  Max(S) \in S /\ UpTo(S, Max(S))
  <1> DEFINE B == {b - x : x \in S}
  <1> USE DEF UpTo
  <1>1. B \subseteq Nat /\ B # {}
    <2>1. ASSUME NEW x \in S  PROVE  b - x \in Nat
      <3>1. x \in Int /\ x <= b
        OBVIOUS
      <3> QED  BY <3>1
    <2> QED  BY <2>1
  <1>2. PICK m \in B : \A y \in B : m <= y
    <2> HIDE DEF B
    <2> QED  BY <1>1, LeastNat
  <1>3. PICK x \in S : m = b - x
    OBVIOUS
  <1>4. ASSUME NEW y \in S  PROVE  x >= y
    <2>1. b - y \in B
      OBVIOUS
    <2>2. b - x <= b - y
      BY <1>2, <1>3, <2>1
    <2>3. x \in Int /\ y \in Int
      OBVIOUS
    <2> QED  BY <2>2, <2>3
  <1>5. Max(S) \in S /\ \A y \in S : Max(S) >= y
    BY <1>4 DEF Max
  <1>6. \A y \in S : Max(S) \in Int /\ y \in Int
    BY <1>5
  <1> QED  BY <1>5, <1>6

\* So have the values of a function on 1..k.
LEMMA LargestValue ==
    ASSUME NEW k \in Nat \ {0}, NEW f, Values(f, 1..k)
    PROVE  LET S == {f[i] : i \in 1..k}
           IN  Max(S) \in S /\ Max(S) \in Nat /\ \A i \in 1..k : f[i] <= Max(S)
  <1> DEFINE S == {f[i] : i \in 1..k}
             g == [i \in 1..k |-> f[i]]
             b == Sum(g, 1..k)
  <1>1. g \in [1..k -> Nat] /\ IsFiniteSet(1..k)
    BY FS_Interval DEF Values
  <1>2. b \in Nat
    <2> HIDE DEF g
    <2> QED  BY <1>1, SumNat
  <1>3. ASSUME NEW i \in 1..k  PROVE  f[i] <= b /\ f[i] \in Nat
    <2>1. g[i] = f[i]
      OBVIOUS
    <2> HIDE DEF g
    <2>2. g[i] <= b
      BY <1>1, SumAtLeast
    <2> QED  BY <2>1, <2>2, <1>1
  <1> HIDE DEF b
  <1>4. S \subseteq Int /\ S # {} /\ UpTo(S, b)
    <2>1. 1 \in 1..k
      OBVIOUS
    <2>2. f[1] \in S
      BY <2>1
    <2> QED  BY <1>3, <2>2 DEF UpTo
  <1>5. \A i \in 1..k : f[i] \in S
    OBVIOUS
  <1>6. \A x \in S : x \in Nat
    BY <1>3
  <1> HIDE DEF S
  <1>7. Max(S) \in S /\ UpTo(S, Max(S))
    <2>1. S \in SUBSET Int /\ S # {} /\ b \in Int /\ UpTo(S, b)
      BY <1>2, <1>4
    <2> QED  BY ONLY <2>1, Largest
  <1> QED  BY <1>5, <1>6, <1>7 DEF S, UpTo

\* Natural numbers have a least.
LEMMA LeastIsIn ==
    ASSUME NEW S, S \subseteq Nat, S # {}
    PROVE  Min(S) \in S /\ \A x \in S : Min(S) <= x
  <1>1. PICK m \in S : \A x \in S : m <= x
    BY LeastNat
  <1> QED  BY <1>1 DEF Min

\* Among numbers up to n there is a largest.
LEMMA MaxIsIn ==
    ASSUME NEW n \in Nat, NEW S, S \subseteq 1..n, S # {}
    PROVE  Max(S) \in S
  <1>1. S \in SUBSET Int /\ n \in Int /\ UpTo(S, n)
    BY DEF UpTo
  <1> QED  BY ONLY <1>1, S # {}, Largest

\* The smaller of two numbers.
LEMMA MinOfTwo ==
    ASSUME NEW a \in Int, NEW b \in Int
    PROVE  Min({a, b}) = IF a <= b THEN a ELSE b
  <1> DEFINE P(x) == x \in {a, b} /\ \A y \in {a, b} : x <= y
             least == IF a <= b THEN a ELSE b
  <1>1. P(least) /\ \A x : P(x) => x = least
    OBVIOUS
  <1>2. Min({a, b}) = CHOOSE x : P(x)
    BY DEF Min
  <1> QED  BY <1>1, <1>2

-----------------------------------------------------------------------------
(* Blocks of k numbers.                                                     *)

\* Quotient and remainder.
LEMMA Division ==
    ASSUME NEW a \in Int, NEW k \in Int, k > 0
    PROVE  a = k * (a \div k) + (a % k) /\ a % k \in 0 .. k - 1 /\ a \div k \in Int
  OBVIOUS

\* A block ends before the next one begins.
LEMMA NextBlock ==
    ASSUME NEW g \in Int, NEW h \in Int, NEW k \in Int, k > 0, g < h
    PROVE  k * g + k <= k * h
  <1>1. g + 1 <= h
    OBVIOUS
  <1>2. k * (g + 1) <= k * h
    BY <1>1
  <1>3. k * (g + 1) = k * g + k
    OBVIOUS
  <1> QED  BY <1>2, <1>3

\* A number is in one block, and at one place of it.
LEMMA SameBlock ==
    ASSUME NEW g \in Int, NEW h \in Int, NEW k \in Int, k > 0, NEW i \in 1..k, NEW j \in 1..k,
           k * g + i = k * h + j
    PROVE  g = h /\ i = j
  <1>1. CASE g < h
    BY <1>1, NextBlock
  <1>2. CASE h < g
    BY <1>2, NextBlock
  <1>3. CASE g = h
    BY <1>3
  <1> QED  BY <1>1, <1>2, <1>3

\* Every number up to k * q is in one of q blocks.
LEMMA InBlock ==
    ASSUME NEW k \in Int, k > 0, NEW q \in Nat, NEW m \in 1 .. k * q
    PROVE  \E g \in 0 .. q - 1, i \in 1..k : m = k * g + i
  <1> DEFINE g == (m - 1) \div k
             i == ((m - 1) % k) + 1
  <1>1. m - 1 = k * g + (i - 1) /\ i - 1 \in 0 .. k - 1 /\ g \in Int
    BY Division
  <1>5. i \in Int
    BY <1>1
  <1> HIDE DEF g, i
  <1>2. m = k * g + i /\ i \in 1..k
    <2>1. k * g \in Int /\ i \in Int
      BY <1>1, <1>5
    <2> QED  BY <1>1, <2>1
  <1>3. g < q
    <2>1. CASE q < g
      <3>1. k * q + k <= k * g
        BY <2>1, <1>1, NextBlock
      <3> QED  BY <3>1, <1>1, <1>2
    <2>2. CASE q = g
      BY <2>2, <1>1, <1>2
    <2> QED  BY <2>1, <2>2, <1>1
  <1>4. g >= 0
    <2>1. CASE g < 0
      <3>1. k * g + k <= k * 0
        BY <2>1, <1>1, NextBlock
      <3> QED  BY <3>1, <1>1, <1>2
    <2> QED  BY <2>1, <1>1
  <1> QED  BY <1>1, <1>2, <1>3, <1>4

\* The places of the blocks are the numbers up to k * q.
LEMMA BlockIn ==
    ASSUME NEW k \in Int, k > 0, NEW q \in Nat, NEW g \in 0 .. q - 1, NEW i \in 1..k
    PROVE  k * g + i \in 1 .. k * q
  <1>1. k * g + k <= k * q
    BY NextBlock
  <1>2. k * g >= 0
    OBVIOUS
  <1> QED  BY <1>1, <1>2

\* A number without remainder is a whole number of blocks.
LEMMA Exactly ==
    ASSUME NEW k \in Int, k > 0, NEW n \in Nat, n % k = 0
    PROVE  n = k * (n \div k) /\ n \div k \in Nat
  <1>1. n = k * (n \div k) + (n % k) /\ n \div k \in Int
    BY Division
  <1>2. CASE n \div k < 0
    <2>1. k * (n \div k) + k <= k * 0
      BY <1>1, <1>2, NextBlock
    <2> QED  BY <2>1, <1>1
  <1> QED  BY <1>1, <1>2

\* Quotient and remainder are the only ones.
LEMMA QuotientIs ==
    ASSUME NEW g \in Int, g > 0, NEW q \in Int, NEW rest \in 0 .. g - 1
    PROVE  (g * q + rest) \div g = q /\ (g * q + rest) % g = rest
  <1> DEFINE a == g * q + rest
             h == a \div g
             l == a % g
  <1>1. a \in Int
    OBVIOUS
  <1>2. a = g * h + l /\ l \in 0 .. g - 1 /\ h \in Int
    <2> HIDE DEF a
    <2> QED  BY <1>1, Division
  <1>3. a = g * q + rest
    OBVIOUS
  <1> HIDE DEF a, h, l
  <1>4. l + 1 \in 1..g /\ rest + 1 \in 1..g /\ g * h + (l + 1) = g * q + (rest + 1)
    <2>1. g * h \in Int /\ g * q \in Int
      BY <1>2
    <2> QED  BY <1>2, <1>3, <2>1
  <1>5. h = q /\ l + 1 = rest + 1
    BY ONLY <1>2, <1>4, SameBlock, g \in Int, g > 0, q \in Int
  <1> QED  BY <1>2, <1>5 DEF a, h, l

-----------------------------------------------------------------------------
(* Sequences: another order of the items, and one sequence after the other. *)

\* A function on 1..n is a sequence of length n.
LEMMA IsSequence ==
    ASSUME NEW n \in Nat, NEW rows, rows = [i \in 1..n |-> rows[i]]
    PROVE  rows \in Seq(ToSet(rows)) /\ Len(rows) = n
  <1>1. DOMAIN rows = 1..n
    OBVIOUS
  <1> DEFINE S == ToSet(rows)
  <1>2. \A i \in 1..n : rows[i] \in S
    BY <1>1 DEF ToSet
  <1> HIDE DEF S
  <1>3. rows \in [1..n -> S]
    BY <1>2
  <1>4. rows \in Seq(S)
    BY ONLY <1>3, n \in Nat, SeqDef
  <1>5. Len(rows) = n
    BY <1>1, <1>4, LenProperties
  <1> QED  BY <1>4, <1>5 DEF S

\* p puts 1..n in another order.
Permutes(p, n) ==
    /\ p \in [1..n -> 1..n]
    /\ \A i, j \in 1..n : p[i] = p[j] => i = j
    /\ \A j \in 1..n : \E i \in 1..n : p[i] = j

\* A one-to-one mapping of 1..n into itself is onto.
LEMMA InjectionPermutes ==
    ASSUME NEW n \in Nat, NEW p \in [1..n -> 1..n],
           \A i, j \in 1..n : p[i] = p[j] => i = j
    PROVE  Permutes(p, n)
  <1>1. IsFiniteSet(1..n)
    BY FS_Interval
  <1>2. p \in Injection(1..n, 1..n)
    BY DEF Injection, IsInjective
  <1>3. p \in Surjection(1..n, 1..n)
    BY <1>1, <1>2, FS_Injection
  <1> QED  BY <1>3 DEF Surjection, Permutes

\* t holds the first n items of s in another order.
Reorders(t, s, n) == \E p : Permutes(p, n) /\ t = [m \in 1..n |-> s[p[m]]]

\* Another order of another order is another order.
LEMMA ReorderedTwice ==
    ASSUME NEW n \in Nat, NEW s, NEW t, NEW u, Reorders(t, s, n), Reorders(u, t, n)
    PROVE  Reorders(u, s, n)
  <1>1. PICK p : Permutes(p, n) /\ t = [m \in 1..n |-> s[p[m]]]
    BY DEF Reorders
  <1>2. PICK q : Permutes(q, n) /\ u = [m \in 1..n |-> t[q[m]]]
    BY DEF Reorders
  <1> DEFINE r == [m \in 1..n |-> p[q[m]]]
  <1>3. p \in [1..n -> 1..n] /\ q \in [1..n -> 1..n]
    BY <1>1, <1>2 DEF Permutes
  <1>4. r \in [1..n -> 1..n]
    BY <1>3
  <1>5. \A i, j \in 1..n : r[i] = r[j] => i = j
    <2> SUFFICES ASSUME NEW i \in 1..n, NEW j \in 1..n, r[i] = r[j]  PROVE  i = j
      OBVIOUS
    <2>1. q[i] \in 1..n /\ q[j] \in 1..n /\ p[q[i]] = p[q[j]]
      BY <1>3
    <2>2. q[i] = q[j]
      BY <2>1, <1>1 DEF Permutes
    <2> QED  BY <2>2, <1>2 DEF Permutes
  <1>6. u = [m \in 1..n |-> s[r[m]]]
    <2>1. \A m \in 1..n : t[q[m]] = s[r[m]]
      BY <1>1, <1>3
    <2> HIDE DEF r
    <2> QED  BY <2>1, <1>2
  <1> HIDE DEF r
  <1>7. Permutes(r, n)
    BY <1>4, <1>5, InjectionPermutes
  <1> QED  BY <1>6, <1>7 DEF Reorders

\* Positions in two sequences that are joined.
LEMMA JoinedPositions ==
    ASSUME NEW a \in Nat, NEW b \in Nat
    PROVE  /\ \A j \in 1 .. a + b : (j <= a => j \in 1..a) /\ (~(j <= a) => j - a \in 1..b)
           /\ \A j \in 1..a : j \in 1 .. a + b /\ j <= a
           /\ \A j \in 1..b : a + j \in 1 .. a + b /\ ~(a + j <= a) /\ (a + j) - a = j
  OBVIOUS

\* x is an item of s.
Hit(s, x) == \E m \in DOMAIN s : s[m] = x

\* Two sequences without a common item are joined to one that has the items
\* of both, none of them twice.
LEMMA ConcatDistinct ==
    ASSUME NEW R, NEW s \in Seq(R), NEW t \in Seq(R), IsInjective(s), IsInjective(t),
           \A x : ~(Hit(s, x) /\ Hit(t, x))
    PROVE  /\ s \o t \in Seq(R) /\ IsInjective(s \o t)
           /\ \A x : Hit(s \o t, x) <=> Hit(s, x) \/ Hit(t, x)
  <1> DEFINE u == s \o t
             a == Len(s)
             b == Len(t)
  <1>1. a \in Nat /\ b \in Nat /\ DOMAIN s = 1..a /\ DOMAIN t = 1..b
    BY LenProperties
  <1>2. /\ u \in Seq(R) /\ Len(u) = a + b
        /\ \A i \in 1 .. a + b : u[i] = IF i <= a THEN s[i] ELSE t[i - a]
    BY ConcatProperties
  <1>3. DOMAIN u = 1 .. a + b
    BY <1>2, LenProperties
  <1> HIDE DEF u, a, b
  <1>4. ASSUME NEW i \in 1 .. a + b
        PROVE  \/ i \in 1..a /\ u[i] = s[i] /\ Hit(s, u[i])
               \/ i - a \in 1..b /\ u[i] = t[i - a] /\ Hit(t, u[i])
    <2>1. (i <= a => i \in 1..a) /\ (~(i <= a) => i - a \in 1..b)
      BY ONLY <1>1, JoinedPositions
    <2>2. CASE i <= a
      BY <2>1, <2>2, <1>1, <1>2 DEF Hit
    <2>3. CASE ~(i <= a)
      BY <2>1, <2>3, <1>1, <1>2 DEF Hit
    <2> QED  BY <2>2, <2>3
  <1>5. ASSUME NEW i \in 1 .. a + b, NEW j \in 1 .. a + b, u[i] = u[j]  PROVE  i = j
    <2>1. CASE i \in 1..a /\ u[i] = s[i] /\ Hit(s, u[i])
      <3>1. j \in 1..a /\ u[j] = s[j]
        BY <2>1, <1>4, <1>5
      <3> QED  BY <2>1, <3>1, <1>1, <1>5 DEF IsInjective
    <2>2. CASE i - a \in 1..b /\ u[i] = t[i - a] /\ Hit(t, u[i])
      <3>1. j - a \in 1..b /\ u[j] = t[j - a]
        BY <2>2, <1>4, <1>5
      <3>2. i - a = j - a
        BY <2>2, <3>1, <1>1, <1>5 DEF IsInjective
      <3> QED  BY <3>2, <1>1
    <2> QED  BY <2>1, <2>2, <1>4
  <1>6. ASSUME NEW x  PROVE  Hit(u, x) <=> Hit(s, x) \/ Hit(t, x)
    <2>1. ASSUME Hit(u, x)  PROVE  Hit(s, x) \/ Hit(t, x)
      <3>1. PICK i \in 1 .. a + b : u[i] = x
        BY <2>1, <1>3 DEF Hit
      <3> QED  BY <3>1, <1>4
    <2>2. ASSUME Hit(s, x)  PROVE  Hit(u, x)
      <3>1. PICK i \in 1..a : s[i] = x
        BY <2>2, <1>1 DEF Hit
      <3>2. i \in 1 .. a + b /\ i <= a
        BY ONLY <1>1, JoinedPositions
      <3> QED  BY <3>1, <3>2, <1>2, <1>3 DEF Hit
    <2>3. ASSUME Hit(t, x)  PROVE  Hit(u, x)
      <3>1. PICK i \in 1..b : t[i] = x
        BY <2>3, <1>1 DEF Hit
      <3>2. a + i \in 1 .. a + b /\ ~(a + i <= a) /\ (a + i) - a = i
        BY ONLY <1>1, JoinedPositions
      <3> QED  BY <3>1, <3>2, <1>2, <1>3 DEF Hit
    <2> QED  BY <2>1, <2>2, <2>3
  <1>7. IsInjective(u)
    BY <1>3, <1>5 DEF IsInjective
  <1> QED  BY <1>2, <1>6, <1>7 DEF u

\* f gives every n the first n sequences joined.
IsJoin(f, seqs, n) ==
    f = [i \in 1..n |-> IF i = 1 THEN seqs[i] ELSE f[i - 1] \o seqs[i]]

\* There is such a function.
LEMMA JoinExists ==
    ASSUME NEW seqs, NEW n \in Nat
    PROVE  \E f : IsJoin(f, seqs, n)
  <1> DEFINE B == {i \in Nat : ~\E f : IsJoin(f, seqs, i)}
  <1>1. ASSUME B # {}  PROVE  FALSE
    <2>1. PICK m \in B : \A i \in B : m <= i
      <3>1. B \subseteq Nat
        OBVIOUS
      <3> HIDE DEF B
      <3> QED  BY <1>1, <3>1, LeastNat
    <2>2. CASE m = 0
      <3> DEFINE f == [i \in 1..0 |-> 0]
      <3>1. f = [i \in 1..m |-> IF i = 1 THEN seqs[i] ELSE f[i - 1] \o seqs[i]]
        BY <2>2
      <3> QED  BY <3>1 DEF IsJoin
    <2>3. CASE m # 0
      <3>1. m \in Nat /\ m - 1 \in Nat /\ m - 1 \notin B
        BY <2>1, <2>3
      <3>2. PICK g : IsJoin(g, seqs, m - 1)
        BY <3>1
      <3> DEFINE f == [i \in 1..m |-> IF i # m THEN g[i] ELSE
                                      IF i = 1 THEN seqs[i] ELSE g[i - 1] \o seqs[i]]
      <3>3. ASSUME NEW i \in 1..m
            PROVE  f[i] = IF i = 1 THEN seqs[i] ELSE f[i - 1] \o seqs[i]
        <4>1. CASE i # m
          <5>1. i \in 1 .. m - 1 /\ (i # 1 => i - 1 \in 1 .. m - 1 /\ i - 1 # m)
            BY <3>1, <4>1
          <5>2. g[i] = IF i = 1 THEN seqs[i] ELSE g[i - 1] \o seqs[i]
            BY <3>2, <5>1 DEF IsJoin
          <5>3. i # 1 => f[i - 1] = g[i - 1]
            BY <5>1, <3>1
          <5> QED  BY <5>1, <5>2, <5>3, <4>1
        <4>2. CASE i = m
          <5>1. m # 1 => f[m - 1] = g[m - 1]
            BY <3>1
          <5> QED  BY <5>1, <4>2
        <4> QED  BY <4>1, <4>2
      <3>4. f = [i \in 1..m |-> f[i]]
        OBVIOUS
      <3> HIDE DEF f
      <3>5. IsJoin(f, seqs, m)
        BY <3>3, <3>4 DEF IsJoin
      <3> QED  BY <3>5, <2>1
    <2> QED  BY <2>2, <2>3
  <1> QED  BY <1>1

\* What JoinExists promises for these sequences.
JoinOf(parts) == CHOOSE f : IsJoin(f, parts, Len(parts))

\* FlattenSeq joins one sequence after the other.
LEMMA JoinSteps ==
    ASSUME NEW parts, NEW k \in Nat \ {0}, Len(parts) = k
    PROVE  /\ JoinOf(parts)[1] = parts[1]
           /\ \A i \in 2..k : JoinOf(parts)[i] = JoinOf(parts)[i - 1] \o parts[i]
           /\ FlattenSeq(parts) = JoinOf(parts)[k]
  <1>1. IsJoin(JoinOf(parts), parts, k)
    BY JoinExists DEF JoinOf
  <1>2. FlattenSeq(parts) = JoinOf(parts)[k]
    BY DEF FlattenSeq, JoinOf, IsJoin
  <1>3. JoinOf(parts)[1] = parts[1] /\ \A i \in 2..k : JoinOf(parts)[i] = JoinOf(parts)[i - 1] \o parts[i]
    <2> DEFINE f == JoinOf(parts)
    <2>1. f = [i \in 1..k |-> IF i = 1 THEN parts[i] ELSE f[i - 1] \o parts[i]]
      BY <1>1 DEF IsJoin
    <2> HIDE DEF f
    <2>3. \A i \in 1..k : f[i] = IF i = 1 THEN parts[i] ELSE f[i - 1] \o parts[i]
      BY <2>1, Zenon
    <2>4. 1 \in 1..k /\ \A i \in 2..k : i \in 1..k /\ i # 1
      OBVIOUS
    <2>2. f[1] = parts[1] /\ \A i \in 2..k : f[i] = f[i - 1] \o parts[i]
      BY ONLY <2>3, <2>4
    <2> QED  BY <2>2 DEF f
  <1> QED  BY <1>2, <1>3

\* f[m] has the first m of the k sequences of s items each in blocks of s.
InBlocks(u, parts, s, m) ==
    /\ Len(u) = s * m
    /\ \A p \in 1..m : \A i \in 1..s : u[s * (p - 1) + i] = parts[p][i]

\* One sequence more.
LEMMA NextInBlocks ==
    ASSUME NEW R, NEW s \in Nat \ {0}, NEW m \in Nat, NEW u \in Seq(R), NEW parts,
           InBlocks(u, parts, s, m), parts[m + 1] \in Seq(R), Len(parts[m + 1]) = s
    PROVE  u \o parts[m + 1] \in Seq(R) /\ InBlocks(u \o parts[m + 1], parts, s, m + 1)
  <1> DEFINE t == parts[m + 1]
             w == u \o t
             a == s * m
  <1>1. t \in Seq(R) /\ Len(t) = s /\ a \in Nat /\ Len(u) = a
    BY DEF InBlocks
  <1>2. /\ w \in Seq(R) /\ Len(w) = Len(u) + Len(t)
        /\ \A i \in 1 .. Len(u) + Len(t) : w[i] = IF i <= Len(u) THEN u[i] ELSE t[i - Len(u)]
    BY <1>1, ConcatProperties
  <1> HIDE DEF w, t
  <1>3. Len(w) = a + s /\ \A i \in 1 .. a + s : w[i] = IF i <= a THEN u[i] ELSE t[i - a]
    BY <1>1, <1>2
  <1>4. s * (m + 1) = a + s
    OBVIOUS
  <1>5. ASSUME NEW p \in 1 .. m + 1, NEW i \in 1..s
        PROVE  w[s * (p - 1) + i] = parts[p][i]
    <2> DEFINE b == s * (p - 1)
    <2>1. CASE p \in 1..m
      <3>1. s > 0 /\ s \in Int /\ p - 1 \in 0 .. m - 1
        BY <2>1
      <3>2. s * (p - 1) + i \in 1 .. s * m
        BY ONLY <3>1, m \in Nat, i \in 1..s, BlockIn
      <3>3. b + i \in 1..a
        BY <3>2
      <3>4. u[b + i] = parts[p][i]
        BY <2>1 DEF InBlocks
      <3> HIDE DEF a, b
      <3>5. b + i \in 1 .. a + s /\ b + i <= a
        BY ONLY <3>3, <1>1, s \in Nat \ {0}
      <3>6. w[b + i] = u[b + i]
        BY <3>5, <1>3
      <3> QED  BY <3>4, <3>6 DEF b
    <2>2. CASE p = m + 1
      <3>1. b = a
        BY <2>2
      <3> HIDE DEF a, b
      <3>2. a + i \in 1 .. a + s /\ ~(a + i <= a) /\ (a + i) - a = i
        BY ONLY <1>1, s \in Nat \ {0}, i \in 1..s
      <3>3. w[a + i] = t[i]
        BY <3>2, <1>3
      <3> QED  BY <3>1, <3>3, <2>2 DEF b, t
    <2>3. p \in 1..m \/ p = m + 1
      OBVIOUS
    <2> QED  BY <2>1, <2>2, <2>3
  <1>6. InBlocks(w, parts, s, m + 1)
    BY <1>3, <1>4, <1>5 DEF InBlocks
  <1> QED  BY <1>2, <1>6 DEF w, t

\* Sequences of s items each, joined, follow each other in blocks of s.
LEMMA JoinInBlocks ==
    ASSUME NEW R, NEW s \in Nat \ {0}, NEW k \in Nat \ {0}, NEW parts \in [1..k -> Seq(R)],
           \A p \in 1..k : Len(parts[p]) = s
    PROVE  FlattenSeq(parts) \in Seq(R) /\ InBlocks(FlattenSeq(parts), parts, s, k)
  <1> DEFINE f == JoinOf(parts)
             good(m) == f[m] \in Seq(R) /\ InBlocks(f[m], parts, s, m)
             B == {m \in 1..k : ~good(m)}
  <1>1. Len(parts) = k
    <2> DEFINE S == Seq(R)
    <2>1. parts \in [1..k -> S] /\ k \in Nat /\ DOMAIN parts = 1..k
      OBVIOUS
    <2> HIDE DEF S
    <2>2. parts \in Seq(S)
      BY ONLY <2>1, SeqDef
    <2>3. Len(parts) \in Nat /\ DOMAIN parts = 1..Len(parts)
      BY <2>2, LenProperties
    <2> QED  BY ONLY <2>1, <2>3
  <1>2. /\ f[1] = parts[1] /\ \A i \in 2..k : f[i] = f[i - 1] \o parts[i]
        /\ FlattenSeq(parts) = f[k]
    BY <1>1, JoinSteps
  <1>3. \A p \in 1..k : parts[p] \in Seq(R) /\ Len(parts[p]) = s
    OBVIOUS
  <1> HIDE DEF f
  <1>4. ASSUME B # {}  PROVE  FALSE
    <2>1. PICK m \in B : \A i \in B : m <= i
      <3>1. B \subseteq Nat
        OBVIOUS
      <3> HIDE DEF B
      <3> QED  BY <1>4, <3>1, LeastNat
    <2>2. m \in 1..k /\ ~good(m)
      OBVIOUS
    <2>3. CASE m = 1
      <3>1. f[m] = parts[1] /\ parts[1] \in Seq(R) /\ Len(parts[1]) = s
        BY <1>2, <1>3, <2>2, <2>3
      <3>2. s * m = s
        BY <2>3
      <3>3. \A p \in 1..m : p = 1 /\ \A i \in 1..s : s * (p - 1) + i = i
        BY <2>3
      <3>4. InBlocks(f[m], parts, s, m)
        BY ONLY <3>1, <3>2, <3>3 DEF InBlocks
      <3> QED  BY <3>1, <3>4, <2>2
    <2>4. CASE m # 1
      <3>1. m - 1 \in 1..k /\ m \in 2..k /\ ~(m <= m - 1) /\ m - 1 \in Nat /\ (m - 1) + 1 = m
        BY ONLY <2>2, <2>4, k \in Nat \ {0}
      <3>2. good(m - 1)
        BY <3>1, <2>1
      <3> DEFINE l == m - 1
                 u == f[l]
      <3>3. f[m] = u \o parts[l + 1] /\ parts[l + 1] \in Seq(R) /\ Len(parts[l + 1]) = s
        BY <3>1, <1>2, <1>3
      <3>4. u \in Seq(R) /\ InBlocks(u, parts, s, l) /\ l \in Nat /\ l + 1 = m
        BY <3>1, <3>2
      <3> HIDE DEF u, l
      <3>5. u \o parts[l + 1] \in Seq(R) /\ InBlocks(u \o parts[l + 1], parts, s, l + 1)
        BY <3>3, <3>4, NextInBlocks
      <3> QED  BY <3>3, <3>4, <3>5, <2>2
    <2> QED  BY <2>3, <2>4
  <1>5. good(k)
    <2>1. k \in 1..k
      OBVIOUS
    <2> QED  BY <1>4, <2>1
  <1> QED  BY <1>2, <1>5

\* The larger of two numbers.
LEMMA MaxOfTwo ==
    ASSUME NEW a \in Nat, NEW b \in Nat
    PROVE  Max({a, b}) \in Nat /\ a <= Max({a, b}) /\ b <= Max({a, b})
  <1> DEFINE S == {a, b}
             most == IF a <= b THEN b ELSE a
  <1>1. most \in S /\ \A y \in S : most >= y
    OBVIOUS
  <1>2. Max(S) \in S /\ \A y \in S : Max(S) >= y
    BY <1>1 DEF Max
  <1> HIDE DEF most
  <1> QED  BY <1>2

-----------------------------------------------------------------------------
(* Items mapped, and items counted.                                        *)

\* f of every item of s.
Mapped(f, s) == [i \in DOMAIN s |-> f[s[i]]]

\* u is that for items s of R.
IsMapped(u, f, s, R) ==
    /\ u \in Seq({f[x] : x \in R}) /\ Len(u) = Len(s)
    /\ \A i \in 1..Len(s) : u[i] = f[s[i]]

\* It is a sequence as long as s.
LEMMA MappedIs ==
    ASSUME NEW R, NEW f, NEW s \in Seq(R)
    PROVE  IsMapped(Mapped(f, s), f, s, R)
  <1> DEFINE n == Len(s)
             T == {f[x] : x \in R}
             t == Mapped(f, s)
  <1>1. n \in Nat /\ DOMAIN s = 1..n /\ s \in [1..n -> R]
    BY LenProperties
  <1> HIDE DEF n
  <1>2. t = [i \in 1..n |-> f[s[i]]]
    BY <1>1 DEF Mapped
  <1>3. \A i \in 1..n : f[s[i]] \in T
    BY <1>1
  <1> HIDE DEF t, T
  <1>4. t \in [1..n -> T]
    BY <1>2, <1>3
  <1>5. t \in Seq(T)
    BY ONLY <1>1, <1>4, SeqDef
  <1>6. Len(t) = n /\ DOMAIN t = 1..n
    BY <1>1, <1>4, <1>5, LenProperties
  <1> QED  BY <1>2, <1>5, <1>6 DEF t, T, n, IsMapped

\* What is mapped item by item is mapped part by part.
LEMMA MappedConcat ==
    ASSUME NEW R, NEW f, NEW s \in Seq(R), NEW t \in Seq(R)
    PROVE  Mapped(f, s \o t) = Mapped(f, s) \o Mapped(f, t)
  <1> DEFINE T == {f[x] : x \in R}
             a == Len(s)
             b == Len(t)
             u == s \o t
             ms == Mapped(f, s)
             mt == Mapped(f, t)
             mu == Mapped(f, u)
             v == ms \o mt
  <1>1. a \in Nat /\ b \in Nat
    BY LenProperties
  <1>2. /\ u \in Seq(R) /\ Len(u) = a + b
        /\ \A i \in 1 .. a + b : u[i] = IF i <= a THEN s[i] ELSE t[i - a]
    BY ConcatProperties
  <1> HIDE DEF u, T
  <1>3. ms \in Seq(T) /\ Len(ms) = a /\ \A i \in 1..a : ms[i] = f[s[i]]
    <2>1. IsMapped(ms, f, s, R)
      BY MappedIs
    <2> HIDE DEF ms
    <2> QED  BY <2>1 DEF IsMapped, T
  <1>4. mt \in Seq(T) /\ Len(mt) = b /\ \A i \in 1..b : mt[i] = f[t[i]]
    <2>1. IsMapped(mt, f, t, R)
      BY MappedIs
    <2> HIDE DEF mt
    <2> QED  BY <2>1 DEF IsMapped, T
  <1>5. mu \in Seq(T) /\ Len(mu) = a + b /\ \A i \in 1 .. a + b : mu[i] = f[u[i]]
    <2>1. IsMapped(mu, f, u, R)
      BY <1>2, MappedIs
    <2> HIDE DEF mu
    <2> QED  BY <2>1, <1>2 DEF IsMapped, T
  <1> HIDE DEF ms, mt, mu, a, b
  <1>6. /\ v \in Seq(T) /\ Len(v) = a + b
        /\ \A i \in 1 .. a + b : v[i] = IF i <= a THEN ms[i] ELSE mt[i - a]
    <2>1. /\ v \in Seq(T) /\ Len(v) = Len(ms) + Len(mt)
          /\ \A i \in 1 .. Len(ms) + Len(mt) : v[i] = IF i <= Len(ms) THEN ms[i] ELSE mt[i - Len(ms)]
      BY <1>3, <1>4, ConcatProperties
    <2> HIDE DEF v
    <2> QED  BY ONLY <2>1, <1>3, <1>4
  <1> HIDE DEF v
  <1>7. ASSUME NEW i \in 1 .. a + b  PROVE  v[i] = mu[i]
    <2>1. (i <= a => i \in 1..a) /\ (~(i <= a) => i - a \in 1..b)
      BY ONLY <1>1, JoinedPositions
    <2>2. mu[i] = f[IF i <= a THEN s[i] ELSE t[i - a]]
      BY <1>2, <1>5
    <2>3. CASE i <= a
      <3>1. mu[i] = f[s[i]] /\ v[i] = ms[i] /\ ms[i] = f[s[i]]
        BY <2>1, <2>2, <2>3, <1>3, <1>6
      <3> QED  BY <3>1
    <2>4. CASE ~(i <= a)
      <3>1. mu[i] = f[t[i - a]] /\ v[i] = mt[i - a] /\ mt[i - a] = f[t[i - a]]
        BY <2>1, <2>2, <2>4, <1>4, <1>6
      <3> QED  BY <3>1
    <2> QED  BY <2>3, <2>4
  <1>8. v = mu
    BY ONLY <1>5, <1>6, <1>7, SeqEqual
  <1> QED  BY <1>8 DEF v, mu, u, ms, mt

\* How often x is in s.
Times(s, x) == Cardinality({i \in DOMAIN s : s[i] = x})

\* It is a number.
LEMMA TimesNat ==
    ASSUME NEW R, NEW s \in Seq(R), NEW x
    PROVE  Times(s, x) \in Nat /\ IsFiniteSet({i \in DOMAIN s : s[i] = x})
  <1> DEFINE D == {i \in DOMAIN s : s[i] = x}
             n == Len(s)
  <1>1. n \in Nat /\ D \subseteq 1..n
    BY LenProperties
  <1> HIDE DEF D, n
  <1>2. IsFiniteSet(1..n)
    BY <1>1, FS_Interval
  <1>3. IsFiniteSet(D) /\ Cardinality(D) \in Nat
    BY <1>1, <1>2, FS_Subset, FS_CardinalityType
  <1> QED  BY <1>3 DEF D, Times

\* Joining adds.
LEMMA TimesConcat ==
    ASSUME NEW R, NEW s \in Seq(R), NEW t \in Seq(R), NEW x
    PROVE  Times(s \o t, x) = Times(s, x) + Times(t, x)
  <1> DEFINE u == s \o t
             a == Len(s)
             b == Len(t)
             A == {i \in DOMAIN s : s[i] = x}
             B == {i \in DOMAIN t : t[i] = x}
             C == {a + i : i \in B}
             D == {i \in DOMAIN u : u[i] = x}
             f == [i \in B |-> a + i]
  <1>1. a \in Nat /\ b \in Nat /\ DOMAIN s = 1..a /\ DOMAIN t = 1..b
    BY LenProperties
  <1>2. /\ u \in Seq(R) /\ Len(u) = a + b
        /\ \A i \in 1 .. a + b : u[i] = IF i <= a THEN s[i] ELSE t[i - a]
    BY ConcatProperties
  <1>3. DOMAIN u = 1 .. a + b
    BY <1>2, LenProperties
  <1>4. IsFiniteSet(A) /\ IsFiniteSet(B)
    BY TimesNat
  <1> HIDE DEF u, a, b
  <1>5. A \subseteq 1..a /\ B \subseteq 1..b
    BY <1>1
  <1>6. D = A \union C
    <2>1. ASSUME NEW i \in D  PROVE  i \in A \union C
      <3>1. i \in 1 .. a + b /\ u[i] = x
        BY <1>3
      <3>2. (i <= a => i \in 1..a) /\ (~(i <= a) => i - a \in 1..b)
        BY ONLY <1>1, <3>1, JoinedPositions
      <3>3. CASE i <= a
        BY <3>1, <3>2, <3>3, <1>1, <1>2
      <3>4. CASE ~(i <= a)
        <4>1. i - a \in 1..b /\ t[i - a] = x /\ i = a + (i - a)
          BY <3>1, <3>2, <3>4, <1>1, <1>2
        <4>2. i - a \in B
          BY <4>1, <1>1
        <4> QED  BY <4>1, <4>2
      <3> QED  BY <3>3, <3>4
    <2>2. ASSUME NEW i \in A  PROVE  i \in D
      <3>1. i \in 1 .. a + b /\ i <= a
        BY ONLY <1>1, <1>5, i \in A, JoinedPositions
      <3> QED  BY <3>1, <1>2, <1>3
    <2>3. ASSUME NEW j \in B  PROVE  a + j \in D
      <3>1. a + j \in 1 .. a + b /\ ~(a + j <= a) /\ (a + j) - a = j
        BY ONLY <1>1, <1>5, j \in B, JoinedPositions
      <3> QED  BY <3>1, <1>2, <1>3
    <2>4. ASSUME NEW i \in C  PROVE  i \in D
      BY <2>3
    <2> HIDE DEF A, C, D
    <2> QED  BY <2>1, <2>2, <2>4
  <1>7. A \intersect C = {}
    <2>1. ASSUME NEW j \in B  PROVE  a + j \notin A
      <3>1. ~(a + j \in 1..a)
        BY <1>1, <1>5
      <3> QED  BY <3>1, <1>5
    <2> HIDE DEF A, B
    <2> QED  BY <2>1
  <1>8. IsFiniteSet(C) /\ Cardinality(C) = Cardinality(B)
    <2>1. \A i, j \in B : a + i = a + j => i = j
      BY <1>1, <1>5
    <2>2. f \in Bijection(B, C)
      <3>1. f \in [B -> C] /\ \A y \in C : \E i \in B : f[i] = y
        OBVIOUS
      <3>2. \A i, j \in B : f[i] = f[j] => i = j
        BY <2>1
      <3> HIDE DEF f, B, C
      <3> QED  BY <3>1, <3>2 DEF Bijection, Injection, Surjection, IsInjective
    <2> HIDE DEF f, B, C
    <2>3. ExistsBijection(B, C)
      BY <2>2 DEF ExistsBijection
    <2> QED  BY <2>3, <1>4, FS_Bijection
  <1>9. Cardinality({}) = 0
    BY FS_EmptySet
  <1> HIDE DEF A, B, C, D
  <1>10. Cardinality(D) = Cardinality(A) + Cardinality(B)
    <2>1. Cardinality(A \union C) = Cardinality(A) + Cardinality(C) - Cardinality(A \intersect C)
      BY <1>4, <1>8, FS_Union
    <2>2. Cardinality(A) \in Nat /\ Cardinality(B) \in Nat
      BY <1>4, FS_CardinalityType
    <2>3. Cardinality(D) = Cardinality(A \union C)
      BY <1>6
    <2>4. Cardinality(A \intersect C) = 0
      BY <1>7, <1>9
    <2>5. Cardinality(C) = Cardinality(B)
      BY <1>8
    <2> QED  BY ONLY <2>1, <2>2, <2>3, <2>4, <2>5
  <1> QED  BY <1>10 DEF Times, A, B, D, u

\* What is in a sequence without repetition is there once.
LEMMA TimesOnce ==
    ASSUME NEW s, IsInjective(s), NEW x
    PROVE  Times(s, x) = IF Hit(s, x) THEN 1 ELSE 0
  <1> DEFINE D == {i \in DOMAIN s : s[i] = x}
  <1>1. CASE Hit(s, x)
    <2>1. PICK m \in DOMAIN s : s[m] = x
      BY <1>1 DEF Hit
    <2>2. D = {m}
      BY <2>1 DEF IsInjective
    <2> HIDE DEF D
    <2>3. Cardinality(D) = 1
      BY <2>2, FS_Singleton
    <2> QED  BY <2>3, <1>1 DEF D, Times
  <1>2. CASE ~Hit(s, x)
    <2>1. D = {}
      BY <1>2 DEF Hit
    <2> HIDE DEF D
    <2>2. Cardinality(D) = 0
      BY <2>1, FS_EmptySet
    <2> QED  BY <2>2, <1>2 DEF D, Times
  <1> QED  BY <1>1, <1>2

\* What is not in it at all is there no time.
LEMMA TimesNone ==
    ASSUME NEW s, NEW x, ~Hit(s, x)
    PROVE  Times(s, x) = 0
  <1>1. {i \in DOMAIN s : s[i] = x} = {}
    BY DEF Hit
  <1> QED  BY <1>1, FS_EmptySet DEF Times

\* The items of a sequence over R are in R.
LEMMA HitIsIn ==
    ASSUME NEW R, NEW s \in Seq(R), NEW x, Hit(s, x)
    PROVE  x \in R
  <1>1. PICK i \in DOMAIN s : s[i] = x
    BY DEF Hit
  <1>2. i \in 1..Len(s)
    BY LenProperties
  <1> QED  BY <1>1, <1>2, ElementOfSeq

\* Only the sequence n holds x, e times.
OnlyIn(parts, k, R, x, n, e) ==
    /\ parts \in [1..k -> Seq(R)] /\ n \in 1..k /\ e \in Nat
    /\ \A i \in 1..k : Times(parts[i], x) = IF i = n THEN e ELSE 0

\* Then the sequences joined hold it e times.
LEMMA JoinTimes ==
    ASSUME NEW k \in Nat \ {0}, NEW R, NEW parts, NEW x, NEW n, NEW e, OnlyIn(parts, k, R, x, n, e)
    PROVE  FlattenSeq(parts) \in Seq(R) /\ Times(FlattenSeq(parts), x) = e
  <1> DEFINE f == JoinOf(parts)
             good(i) == f[i] \in Seq(R) /\ Times(f[i], x) = IF n <= i THEN e ELSE 0
             B == {i \in 1..k : ~good(i)}
  <1>1. /\ \A i \in 1..k : parts[i] \in Seq(R) /\ Times(parts[i], x) = IF i = n THEN e ELSE 0
        /\ n \in 1..k /\ e \in Nat
    BY DEF OnlyIn
  <1>2. Len(parts) = k
    <2>1. parts \in [1..k -> Seq(R)] /\ k \in Nat
      BY DEF OnlyIn
    <2> DEFINE S == Seq(R)
    <2>2. parts \in [1..k -> S] /\ DOMAIN parts = 1..k
      BY <2>1
    <2> HIDE DEF S
    <2>3. parts \in Seq(S)
      BY ONLY <2>1, <2>2, SeqDef
    <2>4. Len(parts) \in Nat /\ DOMAIN parts = 1..Len(parts)
      BY <2>3, LenProperties
    <2> QED  BY ONLY <2>1, <2>2, <2>4
  <1>3. /\ f[1] = parts[1] /\ \A i \in 2..k : f[i] = f[i - 1] \o parts[i]
        /\ FlattenSeq(parts) = f[k]
    BY <1>2, JoinSteps
  <1> HIDE DEF f
  <1>4. ASSUME B # {}  PROVE  FALSE
    <2>1. PICK m \in B : \A i \in B : m <= i
      <3>1. B \subseteq Nat
        OBVIOUS
      <3> HIDE DEF B
      <3> QED  BY <1>4, <3>1, LeastNat
    <2>2. m \in 1..k /\ ~good(m)
      OBVIOUS
    <2>3. CASE m = 1
      <3>1. f[m] \in Seq(R) /\ Times(f[m], x) = IF m = n THEN e ELSE 0
        BY <1>1, <1>3, <2>2, <2>3
      <3>2. m = n <=> n <= m
        BY <1>1, <2>3
      <3> QED  BY <3>1, <3>2, <2>2
    <2>4. CASE m # 1
      <3>1. m - 1 \in 1..k /\ m \in 2..k /\ ~(m <= m - 1)
        BY ONLY <2>2, <2>4, k \in Nat \ {0}
      <3>2. good(m - 1)
        BY <3>1, <2>1
      <3> DEFINE s == f[m - 1]
                 t == parts[m]
      <3>3. s \in Seq(R) /\ t \in Seq(R) /\ f[m] = s \o t
        BY <3>1, <3>2, <1>1, <1>3
      <3>4. Times(s, x) = (IF n <= m - 1 THEN e ELSE 0) /\ Times(t, x) = (IF m = n THEN e ELSE 0)
        BY <3>1, <3>2, <1>1
      <3> HIDE DEF s, t
      <3>5. s \o t \in Seq(R) /\ Times(s \o t, x) = Times(s, x) + Times(t, x)
        BY ONLY <3>3, ConcatProperties, TimesConcat
      <3>6. Times(f[m], x) = IF n <= m THEN e ELSE 0
        BY <3>3, <3>4, <3>5, <3>1, <1>1
      <3> QED  BY <3>3, <3>5, <3>6, <2>2
    <2> QED  BY <2>3, <2>4
  <1>5. good(k)
    <2>1. k \in 1..k
      OBVIOUS
    <2> QED  BY <1>4, <2>1
  <1> QED  BY <1>1, <1>3, <1>5
==============================================================================
