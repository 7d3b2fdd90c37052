------------------------- MODULE TrainingStepProofs --------------------------
(***************************************************************************)
(* Theorems about the distillation step, for every set of runs, every      *)
(* batch, every number of ranks and every grouping of them.                *)
(***************************************************************************)
EXTENDS TrainingStep, SeqlenBalancingProofs

-----------------------------------------------------------------------------
(* The EOS policy. The launcher rejects a mode it does not know, so that a  *)
(* run that gets past it has one of the five.                               *)

\* A run that gets past the launcher has one of the five modes.
PolicyInv ==
    /\ phase \notin {"launch", "rejected"} => config.mode \in Modes
    /\ SamePolicyEvaluated

\* Whatever the saved generation config names, the evaluation of a run in a
\* known mode ends a response at the tokens that training ended it at: in the
\* modes with several stop tokens both take the semantic ones, in the others
\* the primary one and the student's own.
LEMMA OnePolicy ==
    ASSUME NEW c, c.mode \in Modes,
           NEW saved \in {ToSet(Student(c)), ToSet(Student(c)) \union Additional(c)}
    PROVE  EvalStops(c, saved) = TrainStops(c) /\ EvalBadWords(c) = BadWords(c)
  <1> DEFINE student == ToSet(Student(c))
             semantic == ToSet(Semantic(c))
             primary == {Semantic(c)[1]}
  <1>1. EvalBadWords(c) = BadWords(c)
    BY DEF EvalBadWords, BlockedIds, BadWords
  <1>2. CASE ManyStops(c)
    <2>1. ~Pairwise(c) /\ c.mode # "baseline"
      BY <1>2 DEF ManyStops, Pairwise
    <2>2. /\ Additional(c) = semantic \ student
          /\ RolloutStop(c) = semantic
          /\ StopParameter(c) = semantic
      BY <1>2, <2>1 DEF Additional, RolloutStop, StopParameter
    <2>3. EvalStops(c, saved) = TrainStops(c)
      BY <2>2 DEF EvalStops, TrainStops
    <2> QED  BY <1>1, <2>3
  <1>3. CASE Pairwise(c)
    <2>1. ~ManyStops(c) /\ c.mode # "baseline"
      BY <1>3 DEF ManyStops, Pairwise
    <2>2. /\ Additional(c) = {}
          /\ RolloutStop(c) = primary
          /\ StopParameter(c) = primary
      BY <1>3, <2>1 DEF Additional, RolloutStop, StopParameter
    <2>3. EvalStops(c, saved) = TrainStops(c)
      BY <2>2 DEF EvalStops, TrainStops
    <2> QED  BY <1>1, <2>3
  <1>4. CASE ~ManyStops(c) /\ ~Pairwise(c)
    <2>1. c.mode = "baseline"
      BY <1>4 DEF Modes, ManyStops, Pairwise
    <2>2. /\ Additional(c) = {}
          /\ RolloutStop(c) = student
          /\ StopParameter(c) = {}
      BY <1>4, <2>1 DEF Additional, RolloutStop, StopParameter
    <2>3. EvalStops(c, saved) = TrainStops(c)
      BY <2>2 DEF EvalStops, TrainStops
    <2> QED  BY <1>1, <2>3
  <1> QED  BY <1>2, <1>3, <1>4

\* No step changes the run, and only the evaluation of the checkpoint, which
\* comes after an accepted launch, looks at its policy again.
LEMMA PolicyStep == PolicyInv /\ [Next]_vars => PolicyInv'
  <1> SUFFICES ASSUME PolicyInv, [Next]_vars  PROVE  PolicyInv'
    OBVIOUS
  <1> USE DEF PolicyInv, SamePolicyEvaluated
  <1>1. CASE Launch
    BY <1>1 DEF Launch, Accepted
  <1>2. CASE Evaluate
    <2>1. /\ config' = config /\ phase = "evaluate"
          /\ \E saved \in {ToSet(Student(config)), ToSet(Student(config)) \union Additional(config)} :
                evaluation' = [stops |-> EvalStops(config, saved), blocked |-> EvalBadWords(config)]
      BY <1>2 DEF Evaluate
    <2>2. config.mode \in Modes
      BY <2>1
    <2>3. PICK saved \in {ToSet(Student(config)), ToSet(Student(config)) \union Additional(config)} :
              evaluation' = [stops |-> EvalStops(config, saved), blocked |-> EvalBadWords(config)]
      BY <2>1
    <2>4. evaluation'.stops = TrainStops(config) /\ evaluation'.blocked = BadWords(config)
      BY <2>2, <2>3, OnePolicy
    <2>5. SamePolicyEvaluated'
      <3>1. TrainStops(config)' = TrainStops(config) /\ BadWords(config)' = BadWords(config)
        BY <2>1
      <3> QED  BY <2>4, <3>1
    <2> QED  BY <2>1, <2>2, <2>5
  <1>3. CASE UNCHANGED <<config, evaluation>> /\ (phase \notin {"launch", "rejected"} \/ phase' = phase)
    BY <1>3
  <1>4. CASE UNCHANGED vars
    BY <1>3, <1>4 DEF vars
  <1>5. CASE Rollout
    BY <1>3, <1>5 DEF Rollout, Generate
  <1>6. CASE Balance
    BY <1>3, <1>6 DEF Balance
  <1>7. ASSUME NEW r \in Ranks, Enter(r) \/ Fail(r)  PROVE  PolicyInv'
    BY <1>3, <1>7 DEF Enter, Fail, Raises, Running, Calls
  <1>8. CASE Reduce \/ RunForward
    BY <1>3, <1>8 DEF Reduce, RunForward
  <1>9. CASE StudentReturns \/ TeacherReturns \/ UpdateReturns
    BY <1>3, <1>9 DEF StudentReturns, TeacherReturns, UpdateReturns
  <1>10. CASE Ended
    BY <1>4, <1>10 DEF Ended
  <1> QED
    BY <1>1, <1>2, <1>4, <1>5, <1>6, <1>7, <1>8, <1>9, <1>10 DEF Next

\* For every run that may be launched, on every number of ranks: a run whose
\* launch was accepted is evaluated with the stop tokens and the blocked tokens
\* it was trained with (run_semantics.py, eos_semantics.py, opd_eval_curve.py).
THEOREM OnePolicyPerRun == Spec => []SamePolicyEvaluated
  <1>1. Init => PolicyInv
    BY DEF Init, PolicyInv, SamePolicyEvaluated
  <1>2. PolicyInv => SamePolicyEvaluated
    BY DEF PolicyInv
  <1> QED  BY <1>1, <1>2, PolicyStep, PTL DEF Spec

-----------------------------------------------------------------------------
(* What a response may hold.                                                *)

\* f gives every i what is left of the first i tokens.
IsSeen(f, tokens, n) ==
    f = [i \in 0..n |->
            IF i = 0 THEN <<>>
            ELSE IF Contains(f[i - 1], tokens[i]) THEN f[i - 1] ELSE Append(f[i - 1], tokens[i])]

\* There is such a function.
LEMMA SeenExists ==
    ASSUME NEW tokens, NEW n \in Nat
    PROVE  \E f : IsSeen(f, tokens, n)
  <1> DEFINE B == {i \in Nat : ~\E f : IsSeen(f, tokens, i)}
  <1>1. ASSUME B # {}  PROVE  FALSE
    <2>1. PICK m \in B : \A i \in B : m <= i
      <3>1. B \subseteq Nat
        OBVIOUS
      <3> HIDE DEF B
      <3> QED  BY <1>1, <3>1, LeastNat
    <2>2. CASE m = 0
      <3> DEFINE f == [i \in 0..0 |-> <<>>]
      <3>1. f = [i \in 0..m |->
                    IF i = 0 THEN <<>>
                    ELSE IF Contains(f[i - 1], tokens[i]) THEN f[i - 1] ELSE Append(f[i - 1], tokens[i])]
        BY <2>2
      <3> QED  BY <3>1, <2>1 DEF IsSeen
    <2>3. CASE m # 0
      <3>1. m \in Nat /\ m - 1 \in Nat /\ m - 1 \notin B
        BY <2>1, <2>3
      <3>2. PICK g : IsSeen(g, tokens, m - 1)
        BY <3>1
      <3> DEFINE next(t, i) == IF Contains(t, tokens[i]) THEN t ELSE Append(t, tokens[i])
                 f == [i \in 0..m |-> IF i # m THEN g[i] ELSE next(g[i - 1], i)]
      <3>3. ASSUME NEW i \in 0..m
            PROVE  f[i] = IF i = 0 THEN <<>> ELSE next(f[i - 1], i)
        <4>1. CASE i # m
          <5>1. i \in 0 .. m - 1 /\ (i # 0 => i - 1 \in 0 .. m - 1 /\ i - 1 # m)
            BY <3>1, <4>1
          <5>2. g[i] = IF i = 0 THEN <<>> ELSE next(g[i - 1], i)
            BY <3>2, <5>1 DEF IsSeen
          <5>3. i # 0 => f[i - 1] = g[i - 1]
            BY <5>1, <3>1
          <5>4. f[i] = g[i]
            BY <4>1
          <5> QED  BY ONLY <5>2, <5>3, <5>4
        <4>2. CASE i = m
          <5>1. f[m - 1] = g[m - 1] /\ m # 0 /\ f[m] = next(g[m - 1], m)
            BY <3>1, <2>3
          <5> QED  BY <5>1, <4>2
        <4> QED  BY <4>1, <4>2
      <3>4. f = [i \in 0..m |-> f[i]]
        OBVIOUS
      <3> HIDE DEF f
      <3>5. IsSeen(f, tokens, m)
        BY <3>3, <3>4 DEF IsSeen
      <3> QED  BY <3>5, <2>1
    <2> QED  BY <2>2, <2>3
  <1> QED  BY <1>1

\* normalize_token_ids returns a list in which no token is twice.
LEMMA NormalizedDistinct ==
    ASSUME NEW T, NEW tokens \in Seq(T)
    PROVE  Normalized(tokens) \in Seq(T) /\ IsInjective(Normalized(tokens))
  <1> DEFINE n == Len(tokens)
             f == CHOOSE g : IsSeen(g, tokens, n)
             good(i) == f[i] \in Seq(T) /\ IsInjective(f[i])
             B == {i \in 0..n : ~good(i)}
  <1>1. n \in Nat /\ \A i \in 1..n : tokens[i] \in T
    BY LenProperties, ElementOfSeq
  <1>2. IsSeen(f, tokens, n)
    BY <1>1, SeenExists
  <1>3. Normalized(tokens) = f[n]
    BY DEF Normalized, IsSeen
  <1> HIDE DEF f, n
  <1>4. \A i \in 0..n : f[i] = IF i = 0 THEN <<>>
                               ELSE IF Contains(f[i - 1], tokens[i]) THEN f[i - 1] ELSE Append(f[i - 1], tokens[i])
    BY <1>2 DEF IsSeen
  <1>5. ASSUME B # {}  PROVE  FALSE
    <2>1. PICK m \in B : \A i \in B : m <= i
      <3>1. B \subseteq Nat
        BY <1>1
      <3> HIDE DEF B
      <3> QED  BY <1>5, <3>1, LeastNat
    <2>2. m \in 0..n /\ ~good(m)
      OBVIOUS
    <2>3. CASE m = 0
      <3>1. f[m] = <<>>
        BY <2>2, <2>3, <1>4
      <3> QED  BY <3>1, <2>2 DEF IsInjective
    <2>4. CASE m # 0
      <3>1. m - 1 \in 0..n /\ m \in 1..n /\ ~(m <= m - 1)
        BY ONLY <2>2, <2>4, <1>1
      <3>2. good(m - 1)
        BY <3>1, <2>1
      <3> DEFINE s == f[m - 1]
                 l == Len(s)
                 x == tokens[m]
      <3>3. s \in Seq(T) /\ IsInjective(s) /\ x \in T /\ l \in Nat /\ DOMAIN s = 1..l
        BY <3>1, <3>2, <1>1, LenProperties
      <3>4. f[m] = IF Contains(s, x) THEN s ELSE Append(s, x)
        BY <2>2, <2>4, <1>4
      <3> HIDE DEF s, x
      <3>5. CASE Contains(s, x)
        BY <3>3, <3>4, <3>5, <2>2
      <3>6. CASE ~Contains(s, x)
        <4> DEFINE t == Append(s, x)
        <4>1. /\ t \in Seq(T) /\ Len(t) = l + 1 /\ t[l + 1] = x
              /\ \A i \in 1..l : t[i] = s[i]
          BY <3>3, AppendProperties
        <4>2. DOMAIN t = 1 .. l + 1
          BY <4>1, LenProperties
        <4>3. \A i \in 1..l : s[i] # x
          BY <3>6 DEF Contains
        <4> HIDE DEF t, l
        <4>4. \A i \in 1 .. l + 1 : i \in 1..l \/ i = l + 1
          BY <3>3
        <4>5. IsInjective(t)
          BY <3>3, <4>1, <4>2, <4>3, <4>4 DEF IsInjective
        <4> QED  BY <3>4, <3>6, <4>1, <4>5, <2>2 DEF t
      <3> QED  BY <3>5, <3>6
    <2> QED  BY <2>3, <2>4
  <1>6. good(n)
    BY <1>1, <1>5
  <1> QED  BY <1>3, <1>6

\* A run that the launcher accepts in one of the pairwise modes has two
\* semantic tokens, the first of which is the student's only one.
LEMMA PairwiseTokens ==
    ASSUME NEW c \in Runs, Accepted(c), Pairwise(c)
    PROVE  /\ Semantic(c)[1] # Semantic(c)[2]
           /\ ToSet(Student(c)) = {Semantic(c)[1]}
           /\ Semantic(c)[1] \in ToSet(Semantic(c)) /\ Semantic(c)[2] \in ToSet(Semantic(c))
  <1> DEFINE s == Student(c)
             t == Semantic(c)
             T == ToSet(c.student) \union ToSet(c.teacher) \union ToSet(c.asked)
  <1>1. Len(s) = 1 /\ Len(t) = 2 /\ s[1] = t[1]
    BY DEF Accepted
  <1>2. c.student \in Seq(T) /\ c.teacher \in Seq(T) /\ c.asked \in Seq(T)
    <2>1. /\ c.student \in Seq(ToSet(c.student)) /\ c.teacher \in Seq(ToSet(c.teacher))
          /\ c.asked \in Seq(ToSet(c.asked))
      BY TrainingAssumption
    <2> QED  BY <2>1, SeqMonotonic
  <1> HIDE DEF T
  <1>3. s \in Seq(T)
    BY <1>2, NormalizedDistinct DEF Student
  <1>4. s \o c.teacher \in Seq(T)
    BY <1>2, <1>3, ConcatProperties
  <1>5. t \in Seq(T) /\ IsInjective(t)
    BY <1>2, <1>4, NormalizedDistinct DEF Semantic
  <1>6. DOMAIN s = 1..1 /\ DOMAIN t = 1..2
    BY <1>1, <1>3, <1>5, LenProperties
  <1> QED  BY <1>1, <1>5, <1>6 DEF IsInjective, ToSet

\* The blocked token ends no response, and the token that stands for ordinary
\* text does neither.
LEMMA BlockedEndsNothing ==
    ASSUME NEW c \in Runs, Accepted(c)
    PROVE  /\ Text \notin TrainStops(c) \union BadWords(c)
           /\ \A t \in TrainStops(c) : t \notin BadWords(c)
  <1>1. Text \notin ToSet(Student(c)) \union ToSet(Semantic(c))
    BY TrainingAssumption
  <1>2. CASE Pairwise(c)
    <2>1. TrainStops(c) = {Semantic(c)[1]}
      <3>1. ~ManyStops(c)
        BY <1>2 DEF ManyStops, Pairwise
      <3>2. ToSet(Student(c)) = {Semantic(c)[1]}
        BY <1>2, PairwiseTokens
      <3> QED  BY <1>2, <3>1, <3>2 DEF TrainStops, StopParameter
    <2>2. BadWords(c) \subseteq {Semantic(c)[2]}
      BY DEF BadWords
    <2> QED  BY <1>1, <1>2, <2>1, <2>2, PairwiseTokens
  <1>3. CASE ManyStops(c)
    <2>1. TrainStops(c) \subseteq ToSet(Student(c)) \union ToSet(Semantic(c))
      <3>1. StopParameter(c) = ToSet(Semantic(c))
        <4>1. ~Pairwise(c)
          BY <1>3 DEF ManyStops, Pairwise
        <4> QED  BY <1>3, <4>1 DEF StopParameter
      <3> QED  BY <3>1 DEF TrainStops
    <2>2. BadWords(c) = {}
      BY <1>3 DEF BadWords, ManyStops
    <2> QED  BY <1>1, <2>1, <2>2
  <1>4. CASE ~Pairwise(c) /\ ~ManyStops(c)
    <2>1. TrainStops(c) = ToSet(Student(c))
      BY <1>4 DEF TrainStops, StopParameter, Additional
    <2>2. BadWords(c) = {}
      BY <1>4 DEF BadWords, Pairwise
    <2> QED  BY <1>1, <2>1, <2>2
  <1> QED  BY <1>2, <1>3, <1>4

\* A response of length tokens, unless the length limit cut it.
Answer(tokens, inner, last, length) ==
    /\ length \in 1..ResponseLength /\ DOMAIN tokens = 1..ResponseLength
    /\ \A k \in 1..ResponseLength : k < length => tokens[k] = inner
    /\ length < ResponseLength => tokens[length] = last

\* The mask of a response, if the semantic tokens name the student's.
LEMMA MaskIsGenerated ==
    ASSUME NEW c, NEW inner, inner \notin TrainStops(c), NEW last \in TrainStops(c),
           NEW length, NEW tokens, Answer(tokens, inner, last, length),
           c.mode \in Modes, Pairwise(c) => ToSet(Student(c)) = {Semantic(c)[1]},
           ToSet(Student(c)) \subseteq ToSet(Semantic(c))
    PROVE  ResponseMask(tokens, MaskTokens(c)) = [k \in 1..ResponseLength |-> k <= length]
  <1>1. MaskTokens(c) = TrainStops(c)
    <2>1. CASE ManyStops(c)
      BY <2>1 DEF MaskTokens, TrainStops, StopParameter
    <2>2. CASE Pairwise(c)
      <3>1. ~ManyStops(c)
        BY <2>2 DEF Pairwise, ManyStops
      <3> QED  BY <2>2, <3>1 DEF MaskTokens, TrainStops, StopParameter
    <2>3. CASE ~ManyStops(c) /\ ~Pairwise(c)
      BY <2>3 DEF MaskTokens, TrainStops, StopParameter, Additional
    <2> QED  BY <2>1, <2>2, <2>3
  <1>2. /\ ResponseLength \in Nat /\ length \in 1..ResponseLength
        /\ DOMAIN tokens = 1..ResponseLength
        /\ \A k \in 1..ResponseLength : k < length => tokens[k] = inner
        /\ length < ResponseLength => tokens[length] = last
    BY TrainingAssumption DEF Answer
  <1>3. ASSUME NEW k \in 1..ResponseLength
        PROVE  (\A j \in 1 .. k - 1 : tokens[j] \notin MaskTokens(c)) <=> k <= length
    <2>1. CASE k <= length
      <3>1. \A j \in 1 .. k - 1 : j < length /\ j \in 1..ResponseLength
        BY <1>2, <2>1
      <3> QED  BY <3>1, <2>1, <1>1, <1>2
    <2>2. CASE ~(k <= length)
      <3>1. length \in 1 .. k - 1 /\ length < ResponseLength
        BY <1>2, <2>2
      <3> QED  BY <3>1, <2>2, <1>1, <1>2
    <2> QED  BY <2>1, <2>2
  <1> DEFINE before(k) == \A j \in 1 .. k - 1 : tokens[j] \notin MaskTokens(c)
  <1>4. ResponseMask(tokens, MaskTokens(c)) = [k \in 1..ResponseLength |-> before(k)]
    BY <1>2, Zenon DEF ResponseMask
  <1>5. \A k \in 1..ResponseLength : before(k) = (k <= length)
    <2> SUFFICES ASSUME NEW k \in 1..ResponseLength  PROVE  before(k) = (k <= length)
      OBVIOUS
    <2>1. before(k) <=> k <= length
      BY <1>3
    <2>2. before(k) = TRUE \/ before(k) = FALSE
      BY Zenon
    <2> HIDE DEF before
    <2>3. (k <= length) = TRUE \/ (k <= length) = FALSE
      BY ONLY <1>2
    <2> DEFINE b == before(k)
               l == k <= length
    <2>4. (b <=> l) /\ (b = TRUE \/ b = FALSE) /\ (l = TRUE \/ l = FALSE)
      BY <2>1, <2>2, <2>3
    <2> HIDE DEF b, l
    <2>5. b = l
      <3>1. CASE b = TRUE
        BY ONLY <2>4, <3>1, Zenon
      <3>2. CASE b = FALSE
        BY ONLY <2>4, <3>2, Zenon
      <3> QED  BY ONLY <2>4, <3>1, <3>2, Zenon
    <2> QED  BY <2>5, Zenon DEF b, l
  <1> HIDE DEF before
  <1> QED  BY ONLY <1>4, <1>5, Zenon

-----------------------------------------------------------------------------
(* Sizes: meshes, chunks, mini-batches.                                     *)

\* x is the number of blocks of b items that a items fill.
LEMMA CeilDivBounds ==
    ASSUME NEW a \in Nat \ {0}, NEW b \in Nat \ {0}
    PROVE  /\ CeilDiv(a, b) \in Nat \ {0}
           /\ b * CeilDiv(a, b) - b < a /\ a <= b * CeilDiv(a, b)
  <1> DEFINE x == (a + b - 1) \div b
             rest == (a + b - 1) % b
  <1>1. a + b - 1 = b * x + rest /\ rest \in 0 .. b - 1 /\ x \in Int
    <2>1. (a + b - 1) \in Int /\ b \in Int /\ b > 0
      OBVIOUS
    <2> QED  BY <2>1, Division
  <1> HIDE DEF x, rest
  <1>2. b * x \in Int
    BY <1>1
  <1>3. b * x - b < a /\ a <= b * x
    BY <1>1, <1>2
  <1>4. CASE x < 1
    <2>1. b * x + b <= b * 1
      BY <1>1, <1>4, NextBlock
    <2> QED  BY <2>1, <1>2, <1>3
  <1> QED  BY <1>1, <1>3, <1>4 DEF CeilDiv, x

\* What is known of the number of rows and of ranks.
LEMMA BatchSizeNat == BatchSize \in Nat \ {0} /\ BatchSize % World = 0 /\ World \in Nat \ {0}
  BY TrainingAssumption DEF BatchSize

\* What is known of the sizes of a mesh with g ranks per group, d groups and s
\* rows per group.
Shape(g, d, s) ==
    /\ g \in Nat \ {0} /\ d \in Nat \ {0} /\ s \in Nat \ {0}
    /\ World = g * d /\ BatchSize = s * d

\* The sizes of every mesh are such, since they divide each other.
LEMMA MeshShape ==
    ASSUME NEW mesh \in Meshes
    PROVE  Shape(GroupSize[mesh], DpSize(mesh), RowsPerDp(mesh))
  <1> DEFINE g == GroupSize[mesh]
             d == DpSize(mesh)
             s == RowsPerDp(mesh)
  <1>1. World \in Nat \ {0} /\ g \in Nat \ {0} /\ World % g = 0 /\ BatchSize % d = 0
    BY TrainingAssumption
  <1>2. BatchSize \in Nat \ {0}
    BY TrainingAssumption DEF BatchSize
  <1>3. World = g * d /\ d \in Nat
    BY <1>1, Exactly DEF DpSize
  <1> HIDE DEF g
  <1>4. d \in Nat \ {0}
    BY <1>1, <1>3
  <1> HIDE DEF d
  <1>5. BatchSize = d * s /\ s \in Nat
    BY <1>1, <1>2, <1>4, Exactly DEF RowsPerDp, d
  <1> HIDE DEF s
  <1>6. s \in Nat \ {0} /\ BatchSize = s * d
    BY <1>2, <1>4, <1>5
  <1> QED  BY <1>1, <1>3, <1>4, <1>6 DEF Shape, g, d, s

\* The data-parallel rank of a rank, and where its chunk ends.
LEMMA ChunkFits ==
    ASSUME NEW mesh \in Meshes, NEW r \in Ranks
    PROVE  /\ DpRank(mesh, r) \in 0 .. DpSize(mesh) - 1
           /\ DpRank(mesh, r) * RowsPerDp(mesh) \in Nat
           /\ DpRank(mesh, r) * RowsPerDp(mesh) + RowsPerDp(mesh) <= BatchSize
  <1> DEFINE g == GroupSize[mesh]
             d == DpSize(mesh)
             s == RowsPerDp(mesh)
             q == r \div g
             rest == r % g
  <1>1. Shape(g, d, s)
    BY MeshShape
  <1> HIDE DEF g, d, s
  <1>2. g \in Nat \ {0} /\ d \in Nat \ {0} /\ s \in Nat \ {0} /\ World = g * d /\ BatchSize = s * d
    BY <1>1 DEF Shape
  <1>3. r \in Nat /\ r < g * d
    BY <1>2, TrainingAssumption DEF Ranks
  <1>4. r = g * q + rest /\ rest \in 0 .. g - 1 /\ q \in Int
    <2>1. r \in Int /\ g \in Int /\ g > 0
      BY <1>2, <1>3
    <2> QED  BY <2>1, Division
  <1> HIDE DEF q, rest
  <1>5. g * q \in Int /\ g * d \in Int
    BY <1>2, <1>4
  <1>6. q < d
    <2>1. CASE d < q
      <3>1. g * d + g <= g * q
        BY <2>1, <1>2, <1>4, NextBlock
      <3> QED  BY <3>1, <1>2, <1>3, <1>4, <1>5
    <2>2. CASE d = q
      BY <2>2, <1>2, <1>3, <1>4, <1>5
    <2> QED  BY <2>1, <2>2, <1>2, <1>4
  <1>7. q >= 0
    <2>1. CASE q < 0
      <3>1. g * q + g <= g * 0
        BY <2>1, <1>2, <1>4, NextBlock
      <3> QED  BY <3>1, <1>2, <1>3, <1>4, <1>5
    <2> QED  BY <2>1, <1>4
  <1>8. s * q + s <= s * d
    BY <1>2, <1>4, <1>6, NextBlock
  <1>9. s * q \in Nat /\ q * s = s * q
    BY <1>2, <1>4, <1>7
  <1>10. DpRank(mesh, r) = q
    BY DEF DpRank, q, g
  <1> QED  BY <1>2, <1>4, <1>6, <1>7, <1>8, <1>9, <1>10 DEF s, d

\* Where the mini-batch m of a call starts in the chunk, and how many rows it has.
MiniFirst(call, m) == IF call = "update" THEN ((m - 1) % PerEpoch) * MiniBatchSize ELSE 0

\* The last mini-batch of an epoch may be smaller.
MiniSize(call, m) ==
    IF call = "update" THEN Min({MiniFirst(call, m) + MiniBatchSize, RowsPerDp(call)}) - MiniFirst(call, m)
                       ELSE RowsPerDp(call)

\* A mini-batch has a row and lies inside the chunk.
LEMMA MiniBatchFits ==
    ASSUME NEW call \in Calls, NEW m \in Nat \ {0}
    PROVE  /\ MiniFirst(call, m) \in Nat /\ MiniSize(call, m) \in Nat \ {0}
           /\ MiniFirst(call, m) + MiniSize(call, m) <= RowsPerDp(call)
  <1> DEFINE s == RowsPerDp(call)
             b == MiniBatchSize
             e == PerEpoch
             j == (m - 1) % e
  <1>1. s \in Nat \ {0} /\ b \in Nat \ {0}
    <2>1. call \in Meshes
      BY DEF Meshes
    <2> QED  BY <2>1, MeshShape, TrainingAssumption DEF Shape
  <1>2. CASE call # "update"
    BY <1>1, <1>2 DEF MiniFirst, MiniSize
  <1>3. CASE call = "update"
    <2>1. e \in Nat \ {0} /\ b * e - b < s
      BY <1>1, <1>3, CeilDivBounds DEF PerEpoch
    <2> HIDE DEF e
    <2>2. j \in 0 .. e - 1
      <3>1. m - 1 \in Int /\ e \in Int /\ e > 0
        BY <2>1
      <3> QED  BY <3>1, Division
    <2> HIDE DEF j
    <2>3. b * j + b <= b * e
      BY <1>1, <2>1, <2>2, NextBlock
    <2>4. b * j \in Nat /\ b * e \in Nat /\ j * b = b * j
      BY <1>1, <2>1, <2>2
    <2>5. MiniFirst(call, m) = b * j
      BY <1>3, <2>4 DEF MiniFirst, j, e
    <2>6. MiniSize(call, m) = (IF b * j + b <= s THEN b * j + b ELSE s) - b * j
      BY <1>1, <1>3, <2>4, <2>5, MinOfTwo DEF MiniSize
    <2> HIDE DEF s, b
    <2> QED  BY <1>1, <2>1, <2>3, <2>4, <2>5, <2>6 DEF s
  <1> QED  BY <1>2, <1>3

\* How many micro-batches a rank with n rows asks for.
LEMMA WantedFits ==
    ASSUME NEW n \in Nat \ {0}, NEW lengths \in [1..n -> Nat \ {0}], NEW limit \in Nat \ {0}
    PROVE  MicroBatchesWanted(lengths, limit) \in 1..n
  <1> DEFINE total == Sum(lengths, 1..n)
  <1>1. Len(lengths) = n
    <2>1. lengths \in Seq(Nat \ {0})
      BY SeqDef
    <2> QED  BY <2>1, LenProperties
  <1>2. lengths \in [1..n -> Nat] /\ IsFiniteSet(1..n) /\ 1 \in 1..n
    <2>1. IsFiniteSet(1..n)
      BY FS_Interval
    <2>2. lengths \in [1..n -> Nat] /\ 1 \in 1..n
      OBVIOUS
    <2> QED  BY <2>1, <2>2
  <1>3. total \in Nat /\ lengths[1] <= total /\ lengths[1] \in Nat \ {0}
    BY <1>2, SumNat, SumAtLeast
  <1>4. SumFunction(lengths) = total
    BY DEF SumFunction, SumFunctionOnSet, FoldFunctionOnSet, Sum, MapThenSumSet
  <1> HIDE DEF total
  <1>5. CeilDiv(total, limit) \in Nat \ {0}
    <2>1. total \in Nat \ {0}
      BY <1>3
    <2> QED  BY ONLY <2>1, CeilDivBounds, limit \in Nat \ {0}
  <1> QED  BY <1>1, <1>4, <1>5, MinOfTwo DEF MicroBatchesWanted

\* The position in the batch of row p of the mini-batch m of rank r.
RowAt(call, r, m, p) == DpRank(call, r) * RowsPerDp(call) + MiniFirst(call, m) + p

\* It is a position of the batch.
LEMMA RowAtFits ==
    ASSUME NEW call \in Calls, NEW r \in Ranks, NEW m \in Nat \ {0}, NEW p \in 1..MiniSize(call, m)
    PROVE  RowAt(call, r, m, p) \in 1..BatchSize
  <1>1. call \in Meshes
    BY DEF Meshes
  <1>2. BatchSize \in Nat
    BY TrainingAssumption DEF BatchSize
  <1> DEFINE a == DpRank(call, r) * RowsPerDp(call)
             b == MiniFirst(call, m)
             c == MiniSize(call, m)
             s == RowsPerDp(call)
  <1>3. /\ a \in Nat /\ a + s <= BatchSize /\ s \in Nat
        /\ b \in Nat /\ c \in Nat /\ b + c <= s
    BY <1>1, ChunkFits, MiniBatchFits, MeshShape DEF Shape
  <1>4. RowAt(call, r, m, p) = a + b + p
    BY DEF RowAt
  <1>5. p \in 1..c
    OBVIOUS
  <1> HIDE DEF a, b, c, s
  <1> QED  BY ONLY <1>2, <1>3, <1>4, <1>5

\* The rows a rank has in a mini-batch, all of the batch.
LEMMA MiniBatchIs ==
    ASSUME NEW call \in Calls, NEW r \in Ranks, NEW m \in Nat \ {0}, DOMAIN batch = 1..BatchSize
    PROVE  /\ MiniBatch(call, r, m) \in Seq(ToSet(batch))
           /\ Len(MiniBatch(call, r, m)) = MiniSize(call, m)
           /\ DOMAIN MiniBatch(call, r, m) = 1..MiniSize(call, m)
           /\ \A p \in 1..MiniSize(call, m) : MiniBatch(call, r, m)[p] = batch[RowAt(call, r, m, p)]
  <1> DEFINE S == ToSet(batch)
             a == DpRank(call, r) * RowsPerDp(call)
             s == RowsPerDp(call)
             b == MiniFirst(call, m)
             c == MiniSize(call, m)
             rows == Chunk(call, r)
  <1>1. call \in Meshes
    BY DEF Meshes
  <1>2. BatchSize \in Nat /\ \A i \in 1..BatchSize : batch[i] \in S
    <2>1. BatchSize \in Nat
      BY TrainingAssumption DEF BatchSize
    <2>2. \A i \in DOMAIN batch : batch[i] \in S
      BY DEF ToSet
    <2> QED  BY <2>1, <2>2
  <1>3. /\ a \in Nat /\ a + s <= BatchSize /\ s \in Nat \ {0}
        /\ b \in Nat /\ c \in Nat \ {0} /\ b + c <= s
    BY <1>1, ChunkFits, MiniBatchFits, MeshShape DEF Shape
  <1>4. rows = SubSeq(batch, a + 1, a + s)
    BY DEF Chunk
  <1>5. \A p \in 1..c : RowAt(call, r, m, p) = a + b + p
    BY DEF RowAt
  <1>6. call # "update" => b = 0 /\ c = s
    BY DEF MiniFirst, MiniSize
  <1>7. call = "update" =>
            /\ c = Min({b + MiniBatchSize, s}) - b
            /\ MiniBatch(call, r, m) = SubSeq(rows, b + 1, Min({b + MiniBatchSize, Len(rows)}))
    BY DEF MiniFirst, MiniSize, MiniBatch
  <1>8. call # "update" => MiniBatch(call, r, m) = rows
    BY DEF MiniBatch
  <1> HIDE DEF a, b, c, s, S, rows
  <1>9. /\ rows \in Seq(S) /\ Len(rows) = s
        /\ \A i \in 1..s : rows[i] = batch[a + i]
    <2>1. \A i \in a + 1 .. a + s : batch[i] \in S
      BY <1>2, <1>3
    <2>2. /\ SubSeq(batch, a + 1, a + s) \in Seq(S)
          /\ Len(SubSeq(batch, a + 1, a + s)) = IF a + 1 <= a + s THEN (a + s) - (a + 1) + 1 ELSE 0
          /\ \A i \in 1 .. (a + s) - (a + 1) + 1 : SubSeq(batch, a + 1, a + s)[i] = batch[(a + 1) + i - 1]
      <3>1. a + 1 \in Int /\ a + s \in Int
        BY <1>3
      <3> QED  BY ONLY <2>1, <3>1, SubSeqProperties
    <2>3. (a + s) - (a + 1) + 1 = s /\ a + 1 <= a + s /\ \A i \in 1..s : (a + 1) + i - 1 = a + i
      BY <1>3
    <2> QED  BY <1>4, <2>2, <2>3
  <1>10. CASE call # "update"
    <2>1. \A p \in 1..c : a + b + p = a + p
      BY <1>3, <1>6, <1>10
    <2>2. DOMAIN rows = 1..s
      BY <1>9, LenProperties
    <2> QED  BY <1>5, <1>6, <1>8, <1>9, <1>10, <2>1, <2>2 DEF S, c
  <1>11. CASE call = "update"
    <2>1. b + c \in Int /\ b + c = Min({b + MiniBatchSize, s})
      <3>1. MiniBatchSize \in Int
        BY TrainingAssumption
      <3>2. Min({b + MiniBatchSize, s}) \in Int
        BY <1>3, <3>1, MinOfTwo
      <3> QED  BY <1>3, <1>7, <1>11, <3>2
    <2> DEFINE t == SubSeq(rows, b + 1, b + c)
    <2>2. MiniBatch(call, r, m) = t
      BY <1>7, <1>9, <1>11, <2>1
    <2>3. \A i \in b + 1 .. b + c : rows[i] \in S
      BY <1>3, <1>9, ElementOfSeq
    <2>4. /\ t \in Seq(S) /\ Len(t) = IF b + 1 <= b + c THEN (b + c) - (b + 1) + 1 ELSE 0
          /\ \A i \in 1 .. (b + c) - (b + 1) + 1 : t[i] = rows[(b + 1) + i - 1]
      <3>1. b + 1 \in Int /\ b + c \in Int
        BY <1>3
      <3> QED  BY ONLY <2>3, <3>1, SubSeqProperties
    <2>5. /\ (b + c) - (b + 1) + 1 = c /\ b + 1 <= b + c
          /\ \A i \in 1..c : (b + 1) + i - 1 = b + i /\ b + i \in 1..s /\ a + (b + i) = a + b + i
      BY <1>3
    <2> HIDE DEF t
    <2>6. t \in Seq(S) /\ Len(t) = c /\ \A i \in 1..c : t[i] = rows[b + i]
      BY <2>4, <2>5
    <2>7. \A i \in 1..c : rows[b + i] = batch[a + b + i]
      BY <2>5, <1>9
    <2>8. DOMAIN t = 1..c
      BY <2>6, LenProperties
    <2> QED  BY <1>5, <2>2, <2>6, <2>7, <2>8 DEF S, c
  <1> QED  BY <1>10, <1>11

-----------------------------------------------------------------------------
(* dispatch_nd_compute and collect_nd_compute.                              *)

\* results[r] is the part of s that belongs to the chunk of r.
ByChunk(mesh, results, s) ==
    \A r \in Ranks :
        Collects(mesh, r) =>
            results[r] = SubSeq(s, DpRank(mesh, r) * RowsPerDp(mesh) + 1,
                                   DpRank(mesh, r) * RowsPerDp(mesh) + RowsPerDp(mesh))

\* The results of the groups, one after the other, are those of the batch in
\* its order.
LEMMA CollectedIsAll ==
    ASSUME NEW mesh \in Meshes, NEW S, NEW s \in Seq(S), Len(s) = BatchSize,
           NEW results, ByChunk(mesh, results, s)
    PROVE  Collected(mesh, results) = s
  <1> DEFINE g == GroupSize[mesh]
             d == DpSize(mesh)
             c == RowsPerDp(mesh)
             parts == [i \in 1..World |-> IF Collects(mesh, i - 1) THEN results[i - 1] ELSE <<>>]
             f == JoinOf(parts)
             good(i) == f[i] = SubSeq(s, 1, c * ((i - 1) \div g) + c)
             B == {i \in 1..World : ~good(i)}
  <1>1. /\ g \in Nat \ {0} /\ d \in Nat \ {0} /\ c \in Nat \ {0} /\ g > 0
        /\ World = g * d /\ BatchSize = c * d /\ World \in Nat \ {0}
    BY MeshShape, TrainingAssumption DEF Shape
  <1>2. Len(parts) = World
    <2>1. parts \in [1..World -> {parts[i] : i \in 1..World}]
      OBVIOUS
    <2>2. DOMAIN parts = 1..World
      OBVIOUS
    <2> HIDE DEF parts
    <2>3. World \in Nat
      BY <1>1
    <2> DEFINE P == {parts[i] : i \in 1..World}
    <2>4. parts \in [1..World -> P]
      BY <2>1
    <2> HIDE DEF P
    <2>5. parts \in Seq(P)
      BY ONLY <2>3, <2>4, SeqDef
    <2>6. Len(parts) \in Nat /\ DOMAIN parts = 1..Len(parts)
      BY <2>5, LenProperties
    <2> QED  BY ONLY <2>2, <2>3, <2>6
  <1>3. Collected(mesh, results) = FlattenSeq(parts)
    BY DEF Collected
  <1>4. \A i \in 1..World :
            parts[i] = IF (i - 1) % g = 0
                       THEN SubSeq(s, ((i - 1) \div g) * c + 1, ((i - 1) \div g) * c + c) ELSE <<>>
    <2> SUFFICES ASSUME NEW i \in 1..World
                 PROVE  parts[i] = IF (i - 1) % g = 0
                            THEN SubSeq(s, ((i - 1) \div g) * c + 1, ((i - 1) \div g) * c + c) ELSE <<>>
      OBVIOUS
    <2>1. i - 1 \in Ranks
      BY <1>1 DEF Ranks
    <2>2. Collects(mesh, i - 1) <=> (i - 1) % g = 0
      BY DEF Collects
    <2>3. DpRank(mesh, i - 1) = (i - 1) \div g
      BY DEF DpRank
    <2> QED  BY <2>1, <2>2, <2>3 DEF ByChunk
  <1> HIDE DEF parts
  <1>5. /\ f[1] = parts[1] /\ \A i \in 2..World : f[i] = f[i - 1] \o parts[i]
        /\ FlattenSeq(parts) = f[World]
    BY <1>1, <1>2, JoinSteps
  <1> HIDE DEF f, g, d, c
  <1>6. \A i \in 1..World : \E q \in 0 .. d - 1, rest \in 0 .. g - 1 :
            i - 1 = g * q + rest /\ (i - 1) \div g = q /\ (i - 1) % g = rest
    <2> SUFFICES ASSUME NEW i \in 1..World
                 PROVE  \E q \in 0 .. d - 1, rest \in 0 .. g - 1 :
                            i - 1 = g * q + rest /\ (i - 1) \div g = q /\ (i - 1) % g = rest
      OBVIOUS
    <2>1. PICK q \in 0 .. d - 1, j \in 1..g : i = g * q + j
      <3>1. i \in 1 .. g * d /\ g \in Int /\ d \in Nat
        BY <1>1
      <3> QED  BY <3>1, <1>1, InBlock
    <2>2. i - 1 = g * q + (j - 1) /\ j - 1 \in 0 .. g - 1 /\ q \in Int
      <3>1. g * q \in Int
        BY <1>1
      <3> QED  BY <2>1, <1>1, <3>1
    <2>3. (i - 1) \div g = q /\ (i - 1) % g = j - 1
      BY <2>2, <1>1, QuotientIs
    <2> QED  BY <2>1, <2>2, <2>3
  <1>7. ASSUME B # {}  PROVE  FALSE
    <2>1. PICK m \in B : \A i \in B : m <= i
      <3>1. B \subseteq Nat
        BY <1>1
      <3> HIDE DEF B
      <3> QED  BY <1>7, <3>1, LeastNat
    <2>2. m \in 1..World /\ ~good(m)
      OBVIOUS
    <2>3. PICK q \in 0 .. d - 1, rest \in 0 .. g - 1 :
              m - 1 = g * q + rest /\ (m - 1) \div g = q /\ (m - 1) % g = rest
      BY <2>2, <1>6
    <2>4. CASE m = 1
      <3>1. g * 0 + 0 = 0 /\ 0 \in 0 .. g - 1 /\ m - 1 = 0
        BY <1>1, <2>4
      <3>2. q = 0 /\ rest = 0
        <4>1. (g * 0 + 0) \div g = 0 /\ (g * 0 + 0) % g = 0
          BY <1>1, <3>1, QuotientIs
        <4> QED  BY <4>1, <3>1, <2>3
      <3>3. f[m] = SubSeq(s, 0 * c + 1, 0 * c + c)
        BY <1>4, <1>5, <2>2, <2>3, <2>4, <3>2
      <3>4. 0 * c + 1 = 1 /\ 0 * c + c = c * 0 + c
        BY <1>1
      <3> QED  BY <3>2, <3>3, <3>4, <2>2, <2>3
    <2>5. CASE m # 1
      <3>1. m - 1 \in 1..World /\ m \in 2..World /\ m - 1 \notin B
        <4>1. m - 1 \in 1..World /\ m \in 2..World /\ ~(m <= m - 1)
          BY ONLY <2>2, <2>5, <1>1
        <4> HIDE DEF B
        <4> QED  BY <4>1, <2>1
      <3>2. f[m - 1] = SubSeq(s, 1, c * ((m - 2) \div g) + c)
        <4>1. (m - 1) - 1 = m - 2
          BY <2>2
        <4>2. good(m - 1)
          BY <3>1
        <4> QED  BY <4>1, <4>2
      <3>3. f[m] = f[m - 1] \o parts[m]
        BY <3>1, <1>5
      <3>4. CASE rest # 0
        <4>1. parts[m] = <<>>
          BY <3>4, <1>4, <2>2, <2>3
        <4>2. (m - 2) \div g = q
          <5>1. m - 2 = g * q + (rest - 1) /\ rest - 1 \in 0 .. g - 1 /\ q \in Int
            <6>1. g * q \in Int
              BY <1>1
            <6> QED  BY <6>1, <2>2, <2>3, <3>4, <1>1
          <5> QED  BY <5>1, <1>1, QuotientIs
        <4>3. SubSeq(s, 1, c * q + c) \in Seq(S)
          <5>1. c * q \in Nat /\ c * q + c <= c * d
            <6>1. q \in Int /\ d \in Int /\ q < d /\ q >= 0
              BY <1>1
            <6> QED  BY <6>1, <1>1, NextBlock
          <5>2. \A i \in 1 .. c * q + c : s[i] \in S
            BY <5>1, <1>1, ElementOfSeq
          <5>3. 1 \in Int /\ c * q + c \in Int
            BY <5>1, <1>1
          <5> QED  BY ONLY <5>2, <5>3, SubSeqProperties
        <4>4. SubSeq(s, 1, c * q + c) \o <<>> = SubSeq(s, 1, c * q + c)
          BY ONLY <4>3, ConcatEmptySeq
        <4> QED  BY <4>1, <4>2, <4>4, <3>2, <3>3, <2>2, <2>3
      <3>5. CASE rest = 0
        <4>1. parts[m] = SubSeq(s, q * c + 1, q * c + c)
          BY <3>5, <1>4, <2>2, <2>3
        <4>2. (m - 2) \div g = q - 1
          <5>1. m - 2 = g * (q - 1) + (g - 1) /\ g - 1 \in 0 .. g - 1 /\ q - 1 \in Int
            <6>1. g * q \in Int /\ g * (q - 1) = g * q - g
              BY <1>1
            <6> QED  BY <6>1, <2>2, <2>3, <3>5, <1>1
          <5> QED  BY <5>1, <1>1, QuotientIs
        <4>3. c * (q - 1) + c = q * c /\ q * c = c * q
          BY <1>1
        <4>4. q # 0
          <5>1. q = 0 => g * q = 0
            BY <1>1
          <5> QED  BY <5>1, <2>2, <2>3, <2>5, <3>5
        <4>5. q * c \in 0..Len(s) /\ q * c + c \in q * c .. Len(s) /\ 1 \in 1 .. Len(s) + 1
          <5>1. q \in Int /\ d \in Int /\ q < d /\ q >= 0
            BY <1>1
          <5>2. c * q + c <= c * d /\ c * q \in Nat
            BY <5>1, <1>1, NextBlock
          <5>3. c * d \in Nat
            BY <1>1
          <5> HIDE DEF B
          <5>4. q * c \in Nat /\ q * c + c <= Len(s) /\ Len(s) \in Nat
            BY <5>2, <5>3, <4>3, <1>1
          <5> DEFINE l == Len(s)
                     a == q * c
          <5>5. a \in Nat /\ a + c <= l /\ l \in Nat /\ c \in Nat
            BY <5>4, <1>1
          <5> HIDE DEF a, l
          <5>6. a \in 0..l /\ a + c \in a..l /\ 1 \in 1 .. l + 1
            BY ONLY <5>5
          <5> QED  BY <5>6 DEF a, l
        <4>6. SubSeq(s, 1, q * c) \o SubSeq(s, q * c + 1, q * c + c) = SubSeq(s, 1, q * c + c)
          <5>1. q * c \in 1 - 1 .. Len(s)
            BY <4>5
          <5> QED  BY ONLY <4>5, <5>1, s \in Seq(S), ConcatAdjacentSubSeq
        <4>7. f[m - 1] = SubSeq(s, 1, q * c)
          BY <3>2, <4>2, <4>3
        <4> QED  BY <4>1, <4>3, <4>6, <4>7, <3>3, <2>2, <2>3
      <3> QED  BY <3>4, <3>5
    <2> QED  BY <2>4, <2>5
  <1>8. good(World)
    <2>1. World \in 1..World
      BY <1>1
    <2>2. World \notin B
      BY <1>7
    <2> QED  BY <2>1, <2>2
  <1>9. (World - 1) \div g = d - 1
    <2>1. World - 1 = g * (d - 1) + (g - 1) /\ g - 1 \in 0 .. g - 1 /\ d - 1 \in Int
      <3>1. g * d \in Int /\ g * (d - 1) = g * d - g
        BY <1>1
      <3> QED  BY <3>1, <1>1
    <2> QED  BY <2>1, <1>1, QuotientIs
  <1>10. c * (d - 1) + c = BatchSize
    BY <1>1
  <1>11. SubSeq(s, 1, Len(s)) = s
    BY SubSeqFull
  <1> QED  BY <1>3, <1>5, <1>8, <1>9, <1>10, <1>11

-----------------------------------------------------------------------------
(* The rows of the batch.                                                   *)

\* The fields of a row.
Fields == {"id", "prompt", "answers", "tokens", "generated", "mask", "student", "teacher"}

\* What holds of a row of run c from the rollout on.
RowInv(c, row) ==
    /\ DOMAIN row = Fields
    /\ row.id \in 1..BatchSize
    /\ row.prompt \in 1..Prompts /\ row.answers = row.prompt
    /\ row.generated \in 1..ResponseLength
    /\ Len(row.tokens) = ResponseLength
    /\ \A k \in 1..ResponseLength : row.tokens[k] \in BadWords(c) => row.tokens[k] = c.pad
    /\ DOMAIN row.mask = 1..ResponseLength
    /\ ToSet(Student(c)) \subseteq ToSet(Semantic(c)) =>
          row.mask = [k \in 1..ResponseLength |-> k <= row.generated]

\* The whole batch, every id once.
FullBatch(c, rows) ==
    /\ rows \in Seq(ToSet(rows)) /\ DOMAIN rows = 1..BatchSize /\ Len(rows) = BatchSize
    /\ \A i \in 1..BatchSize : RowInv(c, rows[i])
    /\ Permutes([i \in 1..BatchSize |-> rows[i].id], BatchSize)

\* Reordering the batch keeps it whole.
LEMMA ReorderFills ==
    ASSUME NEW c, NEW rows, FullBatch(c, rows), NEW order, Permutes(order, BatchSize)
    PROVE  FullBatch(c, Reordered(rows, order))
  <1> DEFINE n == BatchSize
             t == Reordered(rows, order)
             ids(b) == [i \in 1..n |-> b[i].id]
  <1>1. n \in Nat
    BY BatchSizeNat
  <1>2. order \in [1..n -> 1..n] /\ DOMAIN order = 1..n
    BY DEF Permutes
  <1>3. t = [i \in 1..n |-> rows[order[i]]]
    BY <1>2 DEF Reordered
  <1>4. t = [i \in 1..n |-> t[i]] /\ DOMAIN t = 1..n
    BY <1>3
  <1>5. \A i \in 1..n : t[i] = rows[order[i]] /\ order[i] \in 1..n
    BY <1>2, <1>3
  <1> HIDE DEF t
  <1>6. t \in Seq(ToSet(t)) /\ Len(t) = n
    BY <1>1, <1>4, IsSequence
  <1>7. \A i \in 1..n : RowInv(c, t[i])
    BY <1>5 DEF FullBatch
  <1>8. Permutes(ids(t), n)
    <2>1. Permutes(ids(rows), n)
      BY DEF FullBatch
    <2>2. ids(t) = [i \in 1..n |-> ids(rows)[order[i]]]
      BY <1>5
    <2> DEFINE p == ids(rows)
               q == ids(t)
    <2>3. Permutes(p, n) /\ q = [i \in 1..n |-> p[order[i]]]
      BY <2>1, <2>2
    <2> HIDE DEF p, q, n
    <2>4. q \in [1..n -> 1..n]
      BY <2>3, <1>2 DEF Permutes
    <2>5. \A i, j \in 1..n : q[i] = q[j] => i = j
      BY <2>3, <1>2 DEF Permutes, n
    <2>6. Permutes(q, n)
      BY <2>4, <2>5, <1>1, InjectionPermutes
    <2> QED  BY <2>6 DEF q
  <1> QED  BY <1>4, <1>6, <1>7, <1>8 DEF FullBatch, t

\* The rows with a column of results.
WithColumn(rows, f, column) == [i \in DOMAIN rows |-> [rows[i] EXCEPT ![f] = column[i]]]

\* A column that joins the rows sets one field of them and leaves the batch whole.
LEMMA ColumnFills ==
    ASSUME NEW c, NEW rows, FullBatch(c, rows), NEW f \in {"student", "teacher"}, NEW column
    PROVE  /\ FullBatch(c, WithColumn(rows, f, column))
           /\ \A i \in 1..BatchSize :
                 /\ WithColumn(rows, f, column)[i][f] = column[i]
                 /\ \A e \in Fields \ {f} : WithColumn(rows, f, column)[i][e] = rows[i][e]
  <1> DEFINE n == BatchSize
             t == WithColumn(rows, f, column)
  <1>0. t = [i \in DOMAIN rows |-> [rows[i] EXCEPT ![f] = column[i]]]
    BY DEF WithColumn
  <1> HIDE DEF t
  <1>1. n \in Nat /\ DOMAIN rows = 1..n
    BY BatchSizeNat DEF FullBatch
  <1>2. t = [i \in 1..n |-> t[i]] /\ DOMAIN t = 1..n
    BY <1>0, <1>1
  <1>3. \A i \in 1..n : DOMAIN rows[i] = Fields /\ f \in Fields
    BY DEF FullBatch, RowInv, Fields
  <1>4. \A i \in 1..n : t[i] = [rows[i] EXCEPT ![f] = column[i]]
    BY <1>0, <1>1
  <1>5. \A i \in 1..n : /\ DOMAIN t[i] = Fields /\ t[i][f] = column[i]
                        /\ \A e \in Fields \ {f} : t[i][e] = rows[i][e]
    <2> SUFFICES ASSUME NEW i \in 1..n
                 PROVE  /\ DOMAIN t[i] = Fields /\ t[i][f] = column[i]
                        /\ \A e \in Fields \ {f} : t[i][e] = rows[i][e]
      OBVIOUS
    <2> DEFINE row == rows[i]
               x == column[i]
               u == t[i]
    <2>1. DOMAIN row = Fields /\ f \in Fields /\ u = [row EXCEPT ![f] = x]
      BY <1>3, <1>4
    <2> HIDE DEF row, x, u
    <2> QED  BY ONLY <2>1 DEF u, row, x
  <1>6. t \in Seq(ToSet(t)) /\ Len(t) = n
    BY <1>1, <1>2, IsSequence
  <1>7. \A i \in 1..n : /\ t[i].id = rows[i].id /\ t[i].prompt = rows[i].prompt
                        /\ t[i].answers = rows[i].answers /\ t[i].tokens = rows[i].tokens
                        /\ t[i].generated = rows[i].generated /\ t[i].mask = rows[i].mask
    BY <1>5 DEF Fields
  <1>8. \A i \in 1..n : RowInv(c, t[i])
    <2> SUFFICES ASSUME NEW i \in 1..n  PROVE  RowInv(c, t[i])
      OBVIOUS
    <2> DEFINE row == rows[i]
               u == t[i]
    <2>1. RowInv(c, row)
      BY DEF FullBatch
    <2>2. /\ DOMAIN u = Fields
          /\ u.id = row.id /\ u.prompt = row.prompt /\ u.answers = row.answers
          /\ u.tokens = row.tokens /\ u.generated = row.generated /\ u.mask = row.mask
      BY <1>5, <1>7
    <2> HIDE DEF u, row
    <2>3. RowInv(c, u)
      BY ONLY <2>1, <2>2 DEF RowInv
    <2> QED  BY <2>3 DEF u
  <1>9. [i \in 1..n |-> t[i].id] = [i \in 1..n |-> rows[i].id]
    BY <1>7
  <1> QED  BY <1>2, <1>5, <1>6, <1>8, <1>9 DEF FullBatch, t

\* The prompts of the rows come back from the ranks as the driver repeated them.
LEMMA PromptsAnswered ==
    /\ Repeated \in Seq(1..Prompts) /\ Len(Repeated) = BatchSize
    /\ \A results :
          (\A r \in Ranks : results[r] = SubSeq(Repeated, DpRank("rollout", r) * RowsPerDp("rollout") + 1,
                                                 (DpRank("rollout", r) + 1) * RowsPerDp("rollout"))) =>
              Collected("rollout", results) = Repeated
  <1>1. BatchSize \in Nat /\ N \in Nat \ {0} /\ Prompts \in Nat /\ BatchSize = N * Prompts
    BY TrainingAssumption DEF BatchSize
  <1>2. ASSUME NEW i \in 1..BatchSize  PROVE  (i - 1) \div N + 1 \in 1..Prompts
    <2>1. PICK q \in 0 .. Prompts - 1, j \in 1..N : i = N * q + j
      <3>1. i \in 1 .. N * Prompts /\ N \in Int /\ N > 0
        BY <1>1
      <3> QED  BY <3>1, <1>1, InBlock
    <2>2. i - 1 = N * q + (j - 1) /\ j - 1 \in 0 .. N - 1 /\ q \in Int /\ N \in Int /\ N > 0
      <3>1. N * q \in Int
        BY <1>1
      <3> QED  BY <2>1, <1>1, <3>1
    <2>3. (i - 1) \div N = q
      BY <2>2, QuotientIs
    <2> QED  BY <2>1, <2>3, <1>1
  <1>3. Repeated \in [1..BatchSize -> 1..Prompts]
    BY <1>2 DEF Repeated
  <1>4. Repeated \in Seq(1..Prompts)
    BY ONLY <1>1, <1>3, SeqDef
  <1>5. Len(Repeated) = BatchSize
    BY <1>1, <1>3, <1>4, LenProperties
  <1>6. ASSUME NEW results,
               \A r \in Ranks : results[r] = SubSeq(Repeated, DpRank("rollout", r) * RowsPerDp("rollout") + 1,
                                                    (DpRank("rollout", r) + 1) * RowsPerDp("rollout"))
        PROVE  Collected("rollout", results) = Repeated
    <2>1. "rollout" \in Meshes
      BY DEF Meshes
    <2>2. ASSUME NEW r \in Ranks
          PROVE  (DpRank("rollout", r) + 1) * RowsPerDp("rollout")
                    = DpRank("rollout", r) * RowsPerDp("rollout") + RowsPerDp("rollout")
      <3> DEFINE a == DpRank("rollout", r)
                 s == RowsPerDp("rollout")
                 d == DpSize("rollout")
                 g == GroupSize["rollout"]
      <3>1. Shape(g, d, s) /\ a \in 0 .. d - 1
        BY <2>1, MeshShape, ChunkFits
      <3> HIDE DEF a, s, d, g
      <3>2. a \in Int /\ s \in Int
        BY <3>1 DEF Shape
      <3>3. (a + 1) * s = a * s + s
        BY <3>2
      <3> QED  BY <3>3 DEF a, s
    <2>3. ByChunk("rollout", results, Repeated)
      BY <1>6, <2>2 DEF ByChunk
    <2> QED  BY <2>1, <2>3, <1>4, <1>5, CollectedIsAll
  <1> QED  BY <1>4, <1>5, <1>6

\* The rollout fills the batch.
LEMMA GenerateFills ==
    ASSUME config \in Runs, Accepted(config),
           NEW lengths \in [1..BatchSize -> Lengths], NEW inner \in Inner,
           NEW last \in TrainStops(config), NEW cut \in BOOLEAN,
           Generate(lengths, inner, last, cut)
    PROVE  FullBatch(config, batch')
  <1> DEFINE n == BatchSize
             t == batch'
             tokens(i) == Response(lengths[i], inner, last, cut)
             size == RowsPerDp("rollout")
             given(r) == SubSeq(Repeated, DpRank("rollout", r) * size + 1, (DpRank("rollout", r) + 1) * size)
             answered == Collected("rollout", [r \in Ranks |-> given(r)])
  <1>1. t = [i \in 1..n |-> [id |-> i, prompt |-> Repeated[i], answers |-> answered[i],
                         tokens |-> tokens(i), generated |-> lengths[i],
                         mask |-> ResponseMask(tokens(i), MaskTokens(config)),
                         student |-> 0, teacher |-> 0]]
    BY DEF Generate
  <1>2. answered = Repeated
    <2> DEFINE results == [r \in Ranks |-> given(r)]
    <2>1. \A r \in Ranks : results[r] = SubSeq(Repeated, DpRank("rollout", r) * RowsPerDp("rollout") + 1,
                                                    (DpRank("rollout", r) + 1) * RowsPerDp("rollout"))
      OBVIOUS
    <2> HIDE DEF results
    <2>2. Collected("rollout", results) = Repeated
      BY ONLY <2>1, PromptsAnswered
    <2> QED  BY <2>2 DEF results
  <1> HIDE DEF answered
  <1>3. n \in Nat /\ ResponseLength \in Nat \ {0}
    BY BatchSizeNat, TrainingAssumption
  <1>4. t = [i \in 1..n |-> t[i]] /\ DOMAIN t = 1..n
    BY <1>1
  <1>5. t \in Seq(ToSet(t)) /\ Len(t) = n
    <2> HIDE DEF t
    <2> QED  BY <1>3, <1>4, IsSequence
  <1>6. inner \notin TrainStops(config) /\ inner \notin BadWords(config) /\ last \notin BadWords(config)
    <2>1. \A x \in TrainStops(config) : x \notin BadWords(config)
      BY BlockedEndsNothing
    <2>2. Text \notin TrainStops(config) \union BadWords(config)
      BY BlockedEndsNothing
    <2> QED  BY <2>1, <2>2 DEF Inner
  <1>7. ASSUME NEW i \in 1..n  PROVE  RowInv(config, t[i])
    <2> DEFINE row == t[i]
               w == tokens(i)
               l == lengths[i]
    <2>1. row = [id |-> i, prompt |-> Repeated[i], answers |-> Repeated[i],
                 tokens |-> w, generated |-> l, mask |-> ResponseMask(w, MaskTokens(config)),
                 student |-> 0, teacher |-> 0]
      BY <1>1, <1>2
    <2>2. l \in 1..ResponseLength
      BY TrainingAssumption
    <2>3. w = [k \in 1..ResponseLength |->
                CASE k < l -> inner
                  [] k = l -> IF cut /\ l = ResponseLength THEN inner ELSE last
                  [] OTHER -> config.pad]
      BY DEF Response
    <2>4. Repeated[i] \in 1..Prompts
      BY PromptsAnswered, ElementOfSeq
    <2> HIDE DEF row, w, l
    <2>5. \A k \in 1..ResponseLength : w[k] \in {inner, last, config.pad}
      BY <2>2, <2>3, <1>3
    <2>6. DOMAIN w = 1..ResponseLength /\ w = [k \in 1..ResponseLength |-> w[k]]
      BY <2>3
    <2>7. Len(w) = ResponseLength
      BY <2>6, <1>3, IsSequence
    <2>8. \A k \in 1..ResponseLength : w[k] \in BadWords(config) => w[k] = config.pad
      BY <2>5, <1>6
    <2>9. DOMAIN ResponseMask(w, MaskTokens(config)) = 1..ResponseLength
      BY <2>6 DEF ResponseMask
    <2>10. ASSUME ToSet(Student(config)) \subseteq ToSet(Semantic(config))
           PROVE  ResponseMask(w, MaskTokens(config)) = [k \in 1..ResponseLength |-> k <= l]
      <3>1. \A k \in 1..ResponseLength : k < l => w[k] = inner
        BY <2>2, <2>3, <1>3
      <3>2. l < ResponseLength => w[l] = last
        BY <2>2, <2>3, <1>3
      <3>3. config.mode \in Modes /\ (Pairwise(config) => ToSet(Student(config)) = {Semantic(config)[1]})
        BY PairwiseTokens DEF Accepted
      <3>4. inner \notin TrainStops(config) /\ last \in TrainStops(config) /\ DOMAIN w = 1..ResponseLength
        BY <2>6, <1>6
      <3>5. Answer(w, inner, last, l)
        BY <3>1, <3>2, <3>4, <2>2 DEF Answer
      <3> QED  BY ONLY <3>3, <3>4, <3>5, <2>10, MaskIsGenerated
    <2>11. /\ DOMAIN row = Fields /\ row.id = i /\ row.prompt = Repeated[i] /\ row.answers = Repeated[i]
           /\ row.tokens = w /\ row.generated = l /\ row.mask = ResponseMask(w, MaskTokens(config))
      BY <2>1 DEF Fields
    <2>12. RowInv(config, row)
      BY <2>2, <2>4, <2>7, <2>8, <2>9, <2>10, <2>11 DEF RowInv
    <2> QED  BY <2>12 DEF row
  <1>8. \A i \in 1..n : t[i].id = i
    BY <1>1
  <1>9. Permutes([i \in 1..n |-> t[i].id], n)
    <2> DEFINE p == [i \in 1..n |-> t[i].id]
    <2>1. p \in [1..n -> 1..n] /\ \A i \in 1..n : p[i] = i
      BY <1>8
    <2> HIDE DEF p
    <2> QED  BY <2>1 DEF Permutes, p
  <1> QED  BY <1>4, <1>5, <1>7, <1>9 DEF FullBatch

-----------------------------------------------------------------------------
(* The collectives: the ranks stay in step, and every micro-batch holds     *)
(* rows of its mini-batch.                                                  *)

\* Where a rank stands: done, or at an operation of a mini-batch, whose
\* micro-batches it has from the first forward pass on.
Place(call, p, mic) ==
    \/ p = Finished
    \/ /\ p \in (1..MiniBatches(call)) \X Nat
       /\ p[2] > 0 =>
             /\ Len(mic) \in Nat \ {0} /\ p[2] <= Len(mic)
             /\ Partitioned(mic, Len(mic), 1..MiniSize(call, p[1]))

\* No run starts that the launcher has not accepted.
RunInv == config \in Runs /\ (phase \notin {"launch", "rejected"} => Accepted(config))

\* From the rollout on the batch is whole.
BatchInv ==
    IF phase \in {"launch", "rejected", "rollout"} THEN batch = <<>> ELSE FullBatch(config, batch)

\* Every rank is at the same place and has as many micro-batches as the others,
\* which hold the rows of its mini-batch.
WorkInv ==
    /\ phase \in Calls => \A r \in Ranks : Place(phase, at[r], micro[r])
    /\ \A r, q \in Ranks : at[r] = at[q] /\ Len(micro[r]) = Len(micro[q])

\* Only a run whose blocked token is the padding fails.
FailInv == phase = "failed" => BadWords(config) = {config.pad}

\* The inductive invariant.
StepInv == RunInv /\ BatchInv /\ WorkInv /\ FailInv

\* Every call has a mini-batch.
LEMMA MiniBatchesPositive ==
    ASSUME NEW call \in Calls
    PROVE  MiniBatches(call) \in Nat \ {0}
  <1>1. CASE call = "update"
    <2>1. RowsPerDp("update") \in Nat \ {0}
      <3>1. "update" \in Meshes
        BY DEF Meshes, Calls
      <3> QED  BY <3>1, MeshShape DEF Shape
    <2>2. PerEpoch \in Nat \ {0} /\ Epochs \in Nat \ {0}
      BY <2>1, CeilDivBounds, TrainingAssumption DEF PerEpoch
    <2>3. Epochs * PerEpoch \in Nat \ {0}
      BY <2>2
    <2> QED  BY <1>1, <2>3 DEF MiniBatches
  <1>2. CASE call # "update"
    BY <1>2 DEF MiniBatches
  <1> QED  BY <1>1, <1>2

\* A call that was just sent.
LEMMA SentInPlace == ASSUME NEW call \in Calls, Send(call)  PROVE  WorkInv'
  <1>1. phase' = call /\ \A r \in Ranks : at'[r] = <<1, 0>> /\ micro'[r] = <<>>
    BY DEF Send
  <1>2. <<1, 0>> \in (1..MiniBatches(call)) \X Nat /\ <<1, 0>>[2] = 0
    BY MiniBatchesPositive
  <1>3. \A mic : Place(call, <<1, 0>>, mic)
    BY <1>2 DEF Place
  <1> QED  BY <1>1, <1>3 DEF WorkInv

\* The rows of a forward pass.
LEMMA ForwardIs ==
    ASSUME NEW c, FullBatch(c, batch), phase \in Calls, NEW r \in Ranks,
           Place(phase, at[r], micro[r]), at[r][2] > 0
    PROVE  /\ micro[r][at[r][2]] \in Seq(1..MiniSize(phase, at[r][1]))
           /\ Forward(r) = [i \in DOMAIN micro[r][at[r][2]] |->
                               batch[RowAt(phase, r, at[r][1], micro[r][at[r][2]][i])]]
           /\ \A i \in DOMAIN micro[r][at[r][2]] :
                 RowAt(phase, r, at[r][1], micro[r][at[r][2]][i]) \in 1..BatchSize
  <1> DEFINE m == at[r][1]
             op == at[r][2]
             mic == micro[r]
             index == mic[op]
             n == MiniSize(phase, m)
             rows == MiniBatch(phase, r, m)
  <1>1. /\ m \in Nat \ {0} /\ op \in 1..Len(mic)
        /\ Len(mic) \in Nat /\ Dealt(mic, Len(mic), 1..n)
    <2>1. at[r] # Finished
      BY DEF Finished
    <2>2. MiniBatches(phase) \in Nat
      BY MiniBatchesPositive
    <2> QED  BY <2>1, <2>2 DEF Place, Partitioned
  <1>2. index \in Seq(1..n)
    BY <1>1, DealtShape
  <1>3. /\ \A p \in 1..n : rows[p] = batch[RowAt(phase, r, m, p)]
        /\ \A p \in 1..n : RowAt(phase, r, m, p) \in 1..BatchSize
    <2>1. DOMAIN batch = 1..BatchSize
      BY DEF FullBatch
    <2> QED  BY <1>1, <2>1, MiniBatchIs, RowAtFits
  <1>4. Forward(r) = [i \in DOMAIN index |-> rows[index[i]]]
    BY DEF Forward
  <1>5. \A i \in DOMAIN index : index[i] \in 1..n
    BY <1>2, LenProperties, ElementOfSeq
  <1> HIDE DEF index, n, rows, m
  <1>6. Forward(r) = [i \in DOMAIN index |-> batch[RowAt(phase, r, m, index[i])]]
    BY <1>3, <1>4, <1>5
  <1> QED  BY <1>2, <1>3, <1>5, <1>6 DEF index, n, m

\* Nothing raises but the blocked token, and it stands only in the padding.
LEMMA RaisesPadding ==
    ASSUME StepInv, NEW r \in Ranks, Raises(r)
    PROVE  BadWords(config) = {config.pad}
  <1>1. phase \in Calls /\ at[r] # Finished /\ at[r][2] > 0
    BY DEF Raises, Running
  <1>2. FullBatch(config, batch) /\ Place(phase, at[r], micro[r])
    BY <1>1 DEF StepInv, BatchInv, WorkInv, Calls
  <1>3. micro[r] # <<>>
    <2>1. Len(micro[r]) # 0
      BY <1>1, <1>2 DEF Place
    <2> QED  BY <2>1
  <1>4. PICK i \in DOMAIN Forward(r) : Refused(config, Forward(r)[i].tokens)
    BY <1>3 DEF Raises
  <1>5. PICK j \in 1..BatchSize : Forward(r)[i] = batch[j]
    <2> DEFINE index == micro[r][at[r][2]]
               place(h) == RowAt(phase, r, at[r][1], index[h])
    <2>1. /\ Forward(r) = [h \in DOMAIN index |-> batch[place(h)]]
          /\ \A h \in DOMAIN index : place(h) \in 1..BatchSize
      BY <1>1, <1>2, ForwardIs
    <2> HIDE DEF index, place
    <2> QED  BY <2>1
  <1>6. RowInv(config, batch[j])
    BY <1>2 DEF FullBatch
  <1> DEFINE w == batch[j].tokens
  <1>7. config.mode = "canonical" /\ \E k \in 1..Len(w) : w[k] = Semantic(config)[2]
    BY <1>4, <1>5 DEF Refused, Contains
  <1>8. BadWords(config) = {Semantic(config)[2]}
    BY <1>7 DEF BadWords
  <1> QED  BY <1>6, <1>7, <1>8 DEF RowInv

\* The length of a row, the prompt included.
LEMMA RowLengthPositive ==
    ASSUME NEW c, NEW row, RowInv(c, row)
    PROVE  RowLength(row) \in Nat \ {0}
  <1> DEFINE D == {k \in DOMAIN row.mask : row.mask[k]}
  <1>1. D \in SUBSET (1..ResponseLength) /\ ResponseLength \in Nat /\ PromptLength \in Nat \ {0}
    BY TrainingAssumption DEF RowInv
  <1>2. RowLength(row) = PromptLength + Cardinality(D)
    BY DEF RowLength, Quantify
  <1> HIDE DEF D
  <1>3. IsFiniteSet(1..ResponseLength)
    BY <1>1, FS_Interval
  <1>4. Cardinality(D) \in Nat
    BY <1>1, <1>3, FS_Subset, FS_CardinalityType
  <1> QED  BY <1>1, <1>2, <1>4

\* The lengths that a rank sorts by.
LEMMA LengthsArePositive ==
    ASSUME NEW c, FullBatch(c, batch), NEW call \in Calls, NEW r \in Ranks, NEW m \in Nat \ {0}
    PROVE  RowLengths(MiniBatch(call, r, m)) \in [1..MiniSize(call, m) -> Nat \ {0}]
  <1> DEFINE n == MiniSize(call, m)
             rows == MiniBatch(call, r, m)
  <1>1. /\ DOMAIN rows = 1..n
        /\ \A p \in 1..n : rows[p] = batch[RowAt(call, r, m, p)] /\ RowAt(call, r, m, p) \in 1..BatchSize
    BY MiniBatchIs, RowAtFits DEF FullBatch
  <1>3. \A p \in 1..n : RowLength(rows[p]) \in Nat \ {0}
    BY <1>1, RowLengthPositive DEF FullBatch
  <1> HIDE DEF rows, n
  <1>4. RowLengths(rows) = [p \in 1..n |-> RowLength(rows[p])]
    BY <1>1 DEF RowLengths
  <1>5. RowLengths(rows) \in [1..n -> Nat \ {0}]
    BY <1>3, <1>4
  <1> QED  BY <1>5 DEF rows, n

\* The ranks agree on a number of micro-batches that each can make.
LEMMA AgreedFits ==
    ASSUME NEW c, FullBatch(c, batch), phase \in Calls, NEW m \in Nat \ {0}
    PROVE  \E num \in 1..MiniSize(phase, m) : \A r \in Ranks : Agreed(m)[r] = num
  <1> DEFINE n == MiniSize(phase, m)
             limit == MaxTokenLen[phase] * GroupSize[phase]
             wanted(r) == MicroBatchesWanted(RowLengths(MiniBatch(phase, r, m)), limit)
             all == {wanted(q) : q \in Ranks}
  <1>1. n \in Nat \ {0}
    BY MiniBatchFits
  <1>2. limit \in Nat \ {0}
    <2>1. /\ MaxTokenLen[phase] \in Nat /\ GroupSize[phase] \in Nat
          /\ limit >= PromptLength + ResponseLength /\ PromptLength \in Nat \ {0} /\ ResponseLength \in Nat
      BY TrainingAssumption DEF Meshes
    <2>2. limit \in Nat
      BY <2>1
    <2> HIDE DEF limit
    <2> QED  BY <2>1, <2>2
  <1> HIDE DEF n, limit
  <1>3. ASSUME NEW q \in Ranks  PROVE  wanted(q) \in 1..n
    <2>1. RowLengths(MiniBatch(phase, q, m)) \in [1..n -> Nat \ {0}]
      BY LengthsArePositive DEF n
    <2> QED  BY <1>1, <1>2, <2>1, WantedFits
  <1>4. 0 \in Ranks
    BY BatchSizeNat DEF Ranks
  <1>5. all \subseteq 1..n /\ all # {}
    BY <1>3, <1>4
  <1>6. Agreed(m) = [r \in Ranks |-> Max(all)]
    BY DEF Agreed, limit
  <1> HIDE DEF all
  <1>7. Max(all) \in 1..n
    BY <1>1, <1>5, MaxIsIn
  <1> QED  BY <1>6, <1>7 DEF n

\* The micro-batches of rows hold each row once, none is empty, and they differ
\* by at most the work of the longest row.
EvenMicro(rows, mic) ==
    IsPartitionOf(mic, DOMAIN rows) /\ Spread(Works(rows), mic) <= Max(Range(Works(rows)))

\* What rearrange_micro_batches makes of a mini-batch is such.
LEMMA MadeEven ==
    ASSUME NEW c, FullBatch(c, batch), NEW call \in Calls, NEW r \in Ranks, NEW m \in Nat \ {0},
           NEW num \in 1..MiniSize(call, m)
    PROVE  EvenMicro(MiniBatch(call, r, m), MicroBatches(RowLengths(MiniBatch(call, r, m)), num))
  <1> DEFINE rows == MiniBatch(call, r, m)
             n == MiniSize(call, m)
             lengths == RowLengths(rows)
             work == Works(rows)
             d == Max({work[i] : i \in 1..n})
  <1>1. n \in Nat \ {0} /\ num \in Nat \ {0} /\ num <= n
    <2>1. n \in Nat \ {0} /\ num \in 1..n
      BY MiniBatchFits
    <2> HIDE DEF n
    <2> QED  BY ONLY <2>1
  <1>2. DOMAIN rows = 1..n
    BY MiniBatchIs DEF FullBatch
  <1>3. lengths \in [1..n -> Nat \ {0}]
    BY LengthsArePositive
  <1>4. work = [i \in 1..n |-> Workload(lengths[i])]
    BY <1>2 DEF Works, RowLengths
  <1> HIDE DEF rows, n, lengths, work
  <1>5. ASSUME NEW i \in 1..n  PROVE  work[i] \in Nat
    <2>1. lengths[i] \in Nat \ {0}
      BY <1>3
    <2>2. Workload(lengths[i]) \in Nat \ {0}
      BY <2>1, WorkloadPositive
    <2> QED  BY <2>2, <1>4
  <1>6. d \in Nat /\ \A i \in 1..n : work[i] <= d
    <2>1. Values(work, 1..n)
      BY <1>5 DEF Values
    <2> QED  BY <1>1, <2>1, LargestValue
  <1>7. d = Max(Range(work))
    BY <1>4 DEF Range
  <1> HIDE DEF d
  <1>8. DOMAIN lengths = 1..n /\ Positive(lengths, 1..n)
    BY <1>3 DEF Positive
  <1>9. IsPartitionOf(MicroBatches(lengths, num), 1..n) /\ Spread(work, MicroBatches(lengths, num)) <= d
    BY <1>1, <1>4, <1>6, <1>8, MicroBatchesAreEven
  <1>10. EvenMicro(rows, MicroBatches(lengths, num))
    BY ONLY <1>2, <1>7, <1>9 DEF EvenMicro, work
  <1> QED  BY ONLY <1>10 DEF rows, lengths

\* What the reduction leaves: as many micro-batches on every rank, no more than
\* a rank has rows, that share out the rows of its mini-batch evenly.
ReducedTo(m, num) ==
    /\ num \in 1..MiniSize(phase, m)
    /\ \A r \in Ranks :
          /\ at[r] = <<m, 0>> /\ at'[r] = <<m, 1>>
          /\ Partitioned(micro'[r], num, 1..MiniSize(phase, m)) /\ Len(micro'[r]) = num
          /\ EvenMicro(MiniBatch(phase, r, m), micro'[r])

\* The ranks ask for no more micro-batches than each can fill, agree on the
\* largest number and share their rows out.
LEMMA Reduced == StepInv /\ Reduce => \E m \in 1..MiniBatches(phase), num \in Nat : ReducedTo(m, num)
  <1> SUFFICES ASSUME StepInv, Reduce
               PROVE  \E m \in 1..MiniBatches(phase), num \in Nat : ReducedTo(m, num)
    OBVIOUS
  <1>1. PICK m \in 1..MiniBatches(phase) :
            /\ \A r \in Ranks : at[r] = <<m, 0>>
            /\ micro' = [r \in Ranks |-> Rearranged(RowLengths(MiniBatch(phase, r, m)), Agreed(m)[r])]
            /\ at' = [r \in Ranks |-> <<m, 1>>]
    BY DEF Reduce
  <1>2. phase \in Calls
    BY DEF Reduce
  <1>3. FullBatch(config, batch)
    BY <1>2 DEF StepInv, BatchInv, Calls
  <1>4. m \in Nat \ {0} /\ MiniBatches(phase) \in Nat
    BY <1>2, MiniBatchesPositive
  <1> DEFINE n == MiniSize(phase, m)
  <1>5. n \in Nat \ {0}
    BY <1>2, <1>4, MiniBatchFits
  <1>6. PICK num \in 1..n : \A r \in Ranks : Agreed(m)[r] = num
    BY <1>2, <1>3, <1>4, AgreedFits
  <1> HIDE DEF n
  <1>7. num \in Nat \ {0} /\ num \in Nat /\ num <= n
    BY <1>5
  <1>8. ASSUME NEW r \in Ranks
        PROVE  /\ Partitioned(micro'[r], num, 1..n) /\ Len(micro'[r]) = num
               /\ EvenMicro(MiniBatch(phase, r, m), micro'[r])
    <2> DEFINE lengths == RowLengths(MiniBatch(phase, r, m))
    <2>1. lengths \in [1..n -> Nat \ {0}]
      BY <1>2, <1>3, <1>4, LengthsArePositive DEF n
    <2>2. micro'[r] = Rearranged(lengths, num)
      BY <1>1, <1>6
    <2>9. EvenMicro(MiniBatch(phase, r, m), MicroBatches(lengths, num))
      BY <1>2, <1>3, <1>4, MadeEven DEF n
    <2> HIDE DEF lengths
    <2>3. DOMAIN lengths = 1..n
      BY <2>1
    <2>4. lengths \in Seq(Nat \ {0})
      BY ONLY <1>5, <2>1, SeqDef
    <2>5. Len(lengths) = n
      BY ONLY <1>5, <2>3, <2>4, LenProperties
    <2>6. micro'[r] = MicroBatches(lengths, num)
      BY <2>2, <2>5, <1>5, <1>7 DEF Rearranged
    <2>7. Partitioned(micro'[r], num, 1..n)
      BY <2>3, <2>6, <1>5, <1>7, MicroBatchesShareOut
    <2>8. Len(micro'[r]) = num
      BY <2>7, <1>7, DealtShape DEF Partitioned
    <2> QED  BY <2>6, <2>7, <2>8, <2>9
  <1>9. ReducedTo(m, num)
    BY <1>1, <1>8 DEF ReducedTo, n
  <1> QED  BY <1>7, <1>9

\* The ranks agree on a number of micro-batches that each of them can fill, so
\* that none raises and all have as many.
LEMMA ReduceStep == StepInv /\ Reduce => StepInv'
  <1> SUFFICES ASSUME StepInv, Reduce  PROVE  StepInv'
    OBVIOUS
  <1>1. phase \in Calls /\ phase' = phase /\ batch' = batch /\ config' = config
    BY DEF Reduce
  <1>2. RunInv' /\ BatchInv' /\ FailInv'
    BY <1>1 DEF StepInv, RunInv, BatchInv, FailInv, Calls
  <1>3. PICK m \in 1..MiniBatches(phase), num \in Nat : ReducedTo(m, num)
    BY Reduced
  <1>4. num \in Nat \ {0} /\ 1 <= num /\ m \in Nat \ {0} /\ MiniBatches(phase) \in Nat
    BY <1>1, <1>3, MiniBatchesPositive DEF ReducedTo
  <1>5. ASSUME NEW r \in Ranks  PROVE  Place(phase, at'[r], micro'[r])
    <2>1. at'[r] = <<m, 1>> /\ <<m, 1>> \in (1..MiniBatches(phase)) \X Nat
      BY <1>3 DEF ReducedTo
    <2>2. Len(micro'[r]) = num /\ Partitioned(micro'[r], num, 1..MiniSize(phase, m))
      BY <1>3 DEF ReducedTo
    <2> QED  BY <2>1, <2>2, <1>4 DEF Place
  <1>6. \A r, q \in Ranks : at'[r] = at'[q] /\ Len(micro'[r]) = Len(micro'[q])
    BY <1>3 DEF ReducedTo
  <1> QED  BY <1>1, <1>2, <1>5, <1>6 DEF StepInv, WorkInv

\* They go through the same number of forward passes and mini-batches.
LEMMA RunForwardStep == StepInv /\ RunForward => StepInv'
  <1> SUFFICES ASSUME StepInv, RunForward  PROVE  StepInv'
    OBVIOUS
  <1>1. PICK m \in 1..MiniBatches(phase), op \in 1..BatchSize :
            /\ \A r \in Ranks : at[r] = <<m, op>>
            /\ at' = [r \in Ranks |-> NextAt(m, op, Len(micro[r]))]
    BY DEF RunForward
  <1>2. phase \in Calls /\ phase' = phase /\ batch' = batch /\ config' = config /\ micro' = micro
    BY DEF RunForward
  <1>3. RunInv' /\ BatchInv' /\ FailInv'
    BY <1>2 DEF StepInv, RunInv, BatchInv, FailInv
  <1>4. MiniBatches(phase) \in Nat /\ m \in Nat \ {0} /\ op \in Nat \ {0}
    BY <1>2, MiniBatchesPositive, BatchSizeNat
  <1>5. \A r, q \in Ranks : Len(micro[r]) = Len(micro[q])
    BY DEF StepInv, WorkInv
  <1>6. ASSUME NEW r \in Ranks  PROVE  Place(phase, at'[r], micro[r])
    <2> DEFINE k == Len(micro[r])
    <2>1. at[r] = <<m, op>> /\ at[r] # Finished
      BY <1>1, <1>4 DEF Finished
    <2>2. Place(phase, at[r], micro[r])
      BY <1>2 DEF StepInv, WorkInv
    <2>3. k \in Nat \ {0} /\ op <= k /\ Partitioned(micro[r], k, 1..MiniSize(phase, m))
      BY <2>1, <2>2, <1>4 DEF Place
    <2>4. at'[r] = NextAt(m, op, k)
      BY <1>1
    <2> HIDE DEF k
    <2>5. CASE op < k
      <3>1. at'[r] = <<m, op + 1>>
        <4>1. ~(op >= k /\ m < MiniBatches(phase))
          BY <2>5, <2>3, <1>4
        <4> QED  BY <4>1, <2>4, <2>5 DEF NextAt
      <3>2. op + 1 <= k /\ op + 1 \in Nat
        BY <2>5, <2>3, <1>4
      <3>3. <<m, op + 1>> \in (1..MiniBatches(phase)) \X Nat
        BY <3>2
      <3> QED  BY <3>1, <3>2, <3>3, <2>3 DEF Place, k
    <2>6. CASE op >= k /\ m < MiniBatches(phase)
      <3>1. ~(op < k)
        BY <2>6, <2>3, <1>4
      <3>2. at'[r] = <<m + 1, 0>>
        BY <3>1, <2>4, <2>6 DEF NextAt
      <3>3. <<m + 1, 0>> \in (1..MiniBatches(phase)) \X Nat
        BY <2>6, <1>4
      <3> QED  BY <3>2, <3>3 DEF Place
    <2>7. CASE ~(op < k) /\ ~(op >= k /\ m < MiniBatches(phase))
      BY <2>4, <2>7 DEF NextAt, Place
    <2> QED  BY <2>3, <2>5, <2>6, <2>7, <1>4
  <1>7. \A r, q \in Ranks : at'[r] = at'[q]
    BY <1>1, <1>5
  <1> QED  BY <1>2, <1>3, <1>5, <1>6, <1>7 DEF StepInv, WorkInv

\* The driver only reorders the rows.
LEMMA BalanceStep == StepInv /\ Balance => StepInv'
  <1> SUFFICES ASSUME StepInv, Balance  PROVE  StepInv'
    OBVIOUS
  <1>1. /\ phase = "balance" /\ phase' = "student" /\ config' = config
        /\ batch' = Reordered(batch, BalancedOrder(Works(batch), World)) /\ Send("student")
    BY DEF Balance, Send
  <1>2. FullBatch(config, batch) /\ Accepted(config) /\ config \in Runs
    BY <1>1 DEF StepInv, BatchInv, RunInv
  <1>3. Permutes(BalancedOrder(Works(batch), World), BatchSize)
    <2>1. DOMAIN Works(batch) = 1..BatchSize
      BY <1>2 DEF Works, FullBatch
    <2> QED  BY <2>1, BatchSizeNat, BalancedOrderPermutes
  <1>4. FullBatch(config, batch')
    BY <1>1, <1>2, <1>3, ReorderFills
  <1>5. WorkInv'
    <2>1. "student" \in Calls
      BY DEF Calls
    <2> QED  BY <2>1, <1>1, SentInPlace
  <1> QED  BY <1>1, <1>2, <1>4, <1>5 DEF StepInv, RunInv, BatchInv, FailInv

\* The columns join the rows without a change to what is known of them.
LEMMA ReturnStep == StepInv /\ (StudentReturns \/ TeacherReturns) => StepInv'
  <1> SUFFICES ASSUME StepInv, StudentReturns \/ TeacherReturns  PROVE  StepInv'
    OBVIOUS
  <1>1. CASE StudentReturns
    <2> DEFINE column == Collected("student", [r \in Ranks |-> Returned(r)])
    <2>1. /\ phase = "student" /\ phase' = "teacher" /\ config' = config /\ Send("teacher")
          /\ batch' = WithColumn(batch, "student", column)
      BY <1>1 DEF StudentReturns, Send, WithColumn
    <2> HIDE DEF column
    <2>2. FullBatch(config, batch) /\ Accepted(config) /\ config \in Runs
      BY <2>1 DEF StepInv, BatchInv, RunInv
    <2>3. FullBatch(config, batch')
      <3>1. "student" \in {"student", "teacher"}
        OBVIOUS
      <3>2. FullBatch(config, WithColumn(batch, "student", column))
        BY ONLY <3>1, <2>2, ColumnFills
      <3> QED  BY <3>2, <2>1
    <2>4. WorkInv'
      <3>1. "teacher" \in Calls
        BY DEF Calls
      <3> QED  BY <3>1, <2>1, SentInPlace
    <2> QED  BY <2>1, <2>2, <2>3, <2>4 DEF StepInv, RunInv, BatchInv, FailInv
  <1>2. CASE TeacherReturns
    <2> DEFINE column == Collected("teacher", [r \in Ranks |-> Returned(r)])
    <2>1. /\ phase = "teacher" /\ phase' = "update" /\ config' = config /\ Send("update")
          /\ batch' = WithColumn(batch, "teacher", column)
      BY <1>2 DEF TeacherReturns, Send, WithColumn
    <2> HIDE DEF column
    <2>2. FullBatch(config, batch) /\ Accepted(config) /\ config \in Runs
      BY <2>1 DEF StepInv, BatchInv, RunInv
    <2>3. FullBatch(config, batch')
      <3>1. "teacher" \in {"student", "teacher"}
        OBVIOUS
      <3>2. FullBatch(config, WithColumn(batch, "teacher", column))
        BY ONLY <3>1, <2>2, ColumnFills
      <3> QED  BY <3>2, <2>1
    <2>4. WorkInv'
      <3>1. "update" \in Calls
        BY DEF Calls
      <3> QED  BY <3>1, <2>1, SentInPlace
    <2> QED  BY <2>1, <2>2, <2>3, <2>4 DEF StepInv, RunInv, BatchInv, FailInv
  <1> QED  BY <1>1, <1>2

\* Every step keeps the invariant.
LEMMA StepStep == StepInv /\ [Next]_vars => StepInv'
  <1> SUFFICES ASSUME StepInv, [Next]_vars  PROVE  StepInv'
    OBVIOUS
  <1>1. CASE Launch
    BY <1>1 DEF Launch, workers, StepInv, RunInv, BatchInv, WorkInv, FailInv, Calls
  <1>2. CASE Rollout
    <2>1. PICK lengths \in [1..BatchSize -> Lengths], inner \in Inner, last \in TrainStops(config),
               cut \in BOOLEAN : Generate(lengths, inner, last, cut)
      BY <1>2 DEF Rollout
    <2>2. phase = "rollout" /\ config \in Runs /\ Accepted(config)
      BY <1>2 DEF Rollout, StepInv, RunInv
    <2>3. FullBatch(config, batch')
      BY <2>1, <2>2, GenerateFills
    <2>4. phase' = "balance" /\ UNCHANGED <<config, workers>>
      BY <2>1 DEF Generate
    <2> QED  BY <2>2, <2>3, <2>4 DEF workers, StepInv, RunInv, BatchInv, WorkInv, FailInv, Calls
  <1>3. CASE Balance
    BY <1>3, BalanceStep
  <1>4. ASSUME NEW r \in Ranks, Enter(r)  PROVE  StepInv'
    BY <1>4 DEF Enter, StepInv, RunInv, BatchInv, WorkInv, FailInv
  <1>5. ASSUME NEW r \in Ranks, Fail(r)  PROVE  StepInv'
    <2>1. BadWords(config) = {config.pad}
      BY <1>5, RaisesPadding DEF Fail
    <2>2. phase \in Calls /\ phase' = "failed" /\ UNCHANGED <<config, batch, workers>>
      BY <1>5 DEF Fail, Raises, Running
    <2> QED  BY <2>1, <2>2 DEF workers, StepInv, RunInv, BatchInv, WorkInv, FailInv, Calls
  <1>6. CASE Reduce
    BY <1>6, ReduceStep
  <1>7. CASE RunForward
    BY <1>7, RunForwardStep
  <1>8. CASE StudentReturns \/ TeacherReturns
    BY <1>8, ReturnStep
  <1>9. CASE UpdateReturns
    BY <1>9 DEF UpdateReturns, workers, StepInv, RunInv, BatchInv, WorkInv, FailInv, Calls
  <1>10. CASE Evaluate
    BY <1>10 DEF Evaluate, workers, StepInv, RunInv, BatchInv, WorkInv, FailInv, Calls
  <1>11. CASE UNCHANGED vars
    BY <1>11 DEF vars, workers, StepInv, RunInv, BatchInv, WorkInv, FailInv
  <1>12. CASE Ended
    BY <1>11, <1>12 DEF Ended
  <1> QED
    BY <1>1, <1>2, <1>3, <1>4, <1>5, <1>6, <1>7, <1>8, <1>9, <1>10, <1>11, <1>12 DEF Next

\* It holds at the start.
LEMMA StepInit == Init => StepInv
  <1> SUFFICES ASSUME Init  PROVE  StepInv
    OBVIOUS
  <1>1. phase = "launch" /\ batch = <<>> /\ config \in Runs
        /\ \A r \in Ranks : at[r] = Finished /\ micro[r] = <<>>
    BY DEF Init
  <1> QED  BY <1>1 DEF StepInv, RunInv, BatchInv, WorkInv, FailInv, Calls

\* The ranks run the same collectives in the same order, whatever the lengths
\* of the responses, the number of ranks and their grouping per mesh: none waits
\* for a forward pass that another never runs (rearrange_micro_batches).  No rank
\* is asked for more micro-batches than it has rows, and the blocked token, which
\* no response ends with or holds, makes a worker raise only if the tokenizer pads
\* with it.
THEOREM RanksInStep == Spec => []InStep
  <1>1. StepInv => InStep
    BY DEF StepInv, WorkInv, FailInv, InStep
  <1> QED  BY <1>1, StepInit, StepStep, PTL DEF Spec

\* The mask of every row covers exactly what the engine generated, whenever the
\* semantic tokens name every EOS token of the student (get_response_mask).
THEOREM MasksAreExact == Spec => []GeneratedExactly
  <1>1. StepInv => GeneratedExactly
    <2> SUFFICES ASSUME StepInv, NEW i \in DOMAIN batch,
                        ToSet(Student(config)) \subseteq ToSet(Semantic(config))
                 PROVE  batch[i].mask = [k \in 1..ResponseLength |-> k <= batch[i].generated]
      BY DEF GeneratedExactly
    <2>1. batch # <<>>
      OBVIOUS
    <2>2. FullBatch(config, batch)
      BY <2>1 DEF StepInv, BatchInv
    <2>3. RowInv(config, batch[i])
      BY <2>2 DEF FullBatch
    <2> QED  BY <2>3 DEF RowInv
  <1> QED  BY <1>1, StepInit, StepStep, PTL DEF Spec

-----------------------------------------------------------------------------
(* The results on their way: what a rank has computed so far belongs to the *)
(* rows of the micro-batches it has run, in their order.                    *)

\* The ids of the rows of a rank's chunk.
IdAt(call, r) == [x \in 1..RowsPerDp(call) |-> batch[DpRank(call, r) * RowsPerDp(call) + x].id]

\* The results of a rank that returns one for every row: those of the
\* micro-batches it has run.
Along(call, r, p, mic, results) ==
    IF p = Finished
    THEN /\ Len(mic) \in Nat \ {0} /\ Partitioned(mic, Len(mic), 1..RowsPerDp(call))
         /\ results = Mapped(IdAt(call, r), JoinOf(mic)[Len(mic)])
    ELSE results = IF p[2] > 1 THEN Mapped(IdAt(call, r), JoinOf(mic)[p[2] - 1]) ELSE <<>>

\* While the log-probabilities are computed every rank has just these.
ColumnInv ==
    phase \in {"student", "teacher"} =>
        \A r \in Ranks : Along(phase, r, at[r], micro[r], out[r])

\* The ids a forward pass adds.
LEMMA ForwardIds ==
    ASSUME NEW c, FullBatch(c, batch), phase \in {"student", "teacher"}, NEW r \in Ranks,
           Place(phase, at[r], micro[r]), at[r][2] > 0
    PROVE  /\ micro[r][at[r][2]] \in Seq(1..RowsPerDp(phase))
           /\ [i \in DOMAIN Forward(r) |-> Forward(r)[i].id]
                 = Mapped(IdAt(phase, r), micro[r][at[r][2]])
  <1> DEFINE m == at[r][1]
             index == micro[r][at[r][2]]
             a == DpRank(phase, r) * RowsPerDp(phase)
             n == RowsPerDp(phase)
             row(i) == RowAt(phase, r, m, index[i])
  <1>1. phase \in Calls /\ phase # "update"
    BY DEF Calls
  <1>2. MiniSize(phase, m) = n /\ MiniFirst(phase, m) = 0
    BY <1>1 DEF MiniSize, MiniFirst
  <1>3. /\ index \in Seq(1..n)
        /\ Forward(r) = [i \in DOMAIN index |-> batch[row(i)]]
    BY <1>1, <1>2, ForwardIs
  <1>4. a \in Nat
    BY <1>1, ChunkFits DEF Meshes
  <1>5. \A i \in DOMAIN index : index[i] \in 1..n
    BY <1>3, LenProperties, ElementOfSeq
  <1>6. \A i \in DOMAIN index : row(i) = a + index[i]
    <2> SUFFICES ASSUME NEW i \in DOMAIN index  PROVE  row(i) = a + index[i]
      OBVIOUS
    <2>1. row(i) = a + 0 + index[i] /\ index[i] \in Nat
      BY <1>2, <1>5 DEF RowAt
    <2> HIDE DEF a, row, index
    <2> QED  BY <2>1, <1>4
  <1>7. \A x \in 1..n : IdAt(phase, r)[x] = batch[a + x].id
    BY DEF IdAt
  <1> HIDE DEF index, a, n, row
  <1>8. [i \in DOMAIN Forward(r) |-> Forward(r)[i].id] = [i \in DOMAIN index |-> batch[row(i)].id]
    BY <1>3
  <1>9. Mapped(IdAt(phase, r), index) = [i \in DOMAIN index |-> batch[row(i)].id]
    BY <1>5, <1>6, <1>7 DEF Mapped
  <1> QED  BY <1>3, <1>8, <1>9 DEF index, n

\* What a forward pass adds to the results of a rank.
LEMMA AlongForward ==
    ASSUME NEW c, FullBatch(c, batch), phase \in {"student", "teacher"}, NEW r \in Ranks,
           Place(phase, at[r], micro[r]), at[r][2] > 0,
           Along(phase, r, at[r], micro[r], out[r])
    PROVE  out[r] \o [i \in DOMAIN Forward(r) |-> Forward(r)[i].id]
              = Mapped(IdAt(phase, r), JoinOf(micro[r])[at[r][2]])
  <1> DEFINE mic == micro[r]
             op == at[r][2]
             k == Len(mic)
             R == 1..RowsPerDp(phase)
             ids == IdAt(phase, r)
             f == JoinOf(mic)
  <1>1. at[r] # Finished
    BY DEF Finished
  <1>2. /\ k \in Nat \ {0} /\ op \in Nat /\ op > 0 /\ op <= k
        /\ Dealt(mic, k, R)
    <2>1. MiniSize(phase, at[r][1]) = RowsPerDp(phase)
      BY DEF MiniSize
    <2>2. /\ at[r] \in (1..MiniBatches(phase)) \X Nat /\ k \in Nat \ {0} /\ op <= k
          /\ Partitioned(mic, k, R)
      BY <1>1, <2>1 DEF Place
    <2> QED  BY <2>2 DEF Partitioned
  <1>3. [i \in DOMAIN Forward(r) |-> Forward(r)[i].id] = Mapped(ids, mic[op])
    BY ForwardIds
  <1>4. out[r] = IF op > 1 THEN Mapped(ids, f[op - 1]) ELSE <<>>
    BY <1>1 DEF Along
  <1>5. /\ f[1] = mic[1] /\ \A i \in 2..k : f[i] = f[i - 1] \o mic[i]
    BY <1>2, JoinSteps
  <1>6. \A i \in 1..k : f[i] \in Seq(R)
    BY <1>2, JoinDealt
  <1>7. \A i \in 1..k : mic[i] \in Seq(R)
    BY <1>2, DealtShape
  <1> HIDE DEF f, ids, k, R
  <1>8. CASE op > 1
    <2>1. op \in 2..k /\ op - 1 \in 1..k /\ op \in 1..k
      BY ONLY <1>2, <1>8
    <2>2. f[op - 1] \in Seq(R) /\ mic[op] \in Seq(R) /\ f[op] = f[op - 1] \o mic[op]
      BY <1>5, <1>6, <1>7, <2>1
    <2>3. Mapped(ids, f[op]) = Mapped(ids, f[op - 1]) \o Mapped(ids, mic[op])
      <3> DEFINE s == f[op - 1]
                 t == mic[op]
      <3>1. s \in Seq(R) /\ t \in Seq(R) /\ f[op] = s \o t
        BY <2>2
      <3> HIDE DEF s, t
      <3>2. Mapped(ids, s \o t) = Mapped(ids, s) \o Mapped(ids, t)
        BY ONLY <3>1, MappedConcat
      <3> QED  BY <3>1, <3>2 DEF s, t
    <2> QED  BY <2>3, <1>3, <1>4, <1>8 DEF ids, f
  <1>9. CASE op = 1
    <2>1. 1 \in 1..k /\ ~(op > 1)
      BY ONLY <1>2, <1>9
    <2>2. mic[1] \in Seq(R) /\ f[op] = mic[1]
      BY <1>5, <1>7, <1>9, <2>1
    <2>3. IsMapped(Mapped(ids, mic[1]), ids, mic[1], R)
      BY <2>2, MappedIs
    <2>4. <<>> \o Mapped(ids, mic[1]) = Mapped(ids, mic[1])
      <3> DEFINE t == Mapped(ids, mic[1])
                 T == {ids[x] : x \in R}
      <3>1. t \in Seq(T)
        BY <2>3 DEF IsMapped
      <3> HIDE DEF t, T
      <3>2. <<>> \o t = t
        BY ONLY <3>1, ConcatEmptySeq
      <3> QED  BY <3>2 DEF t
    <2> QED  BY <2>1, <2>2, <2>4, <1>3, <1>4, <1>9 DEF ids, f
  <1>10. op > 1 \/ op = 1
    BY <1>2
  <1> QED  BY <1>8, <1>9, <1>10

\* The ids of the rows do not change while the workers run.
LEMMA ColumnForward == StepInv /\ ColumnInv /\ RunForward => ColumnInv'
  <1> SUFFICES ASSUME StepInv, ColumnInv, RunForward, phase \in {"student", "teacher"}, NEW r \in Ranks
               PROVE  Along(phase, r, at[r], micro[r], out[r])'
    BY DEF ColumnInv, RunForward
  <1>1. PICK m \in 1..MiniBatches(phase), op \in 1..BatchSize :
            /\ at[r] = <<m, op>>
            /\ at'[r] = NextAt(m, op, Len(micro[r]))
    BY DEF RunForward
  <1>2. /\ phase \in Calls /\ phase # "update" /\ phase' = phase /\ batch' = batch /\ micro' = micro
        /\ out'[r] = out[r] \o [i \in DOMAIN Forward(r) |-> Forward(r)[i].id]
    BY DEF RunForward
  <1>3. FullBatch(config, batch) /\ Place(phase, at[r], micro[r])
    BY <1>2 DEF StepInv, BatchInv, WorkInv
  <1> DEFINE k == Len(micro[r])
             ids == IdAt(phase, r)
             f == JoinOf(micro[r])
  <1>4. BatchSize \in Nat /\ op \in Nat /\ op > 0
    BY BatchSizeNat
  <1>5. /\ k \in Nat \ {0} /\ op <= k /\ Partitioned(micro[r], k, 1..RowsPerDp(phase))
    <2>1. at[r] # Finished /\ at[r][2] = op
      BY <1>1, <1>4 DEF Finished
    <2>2. MiniSize(phase, at[r][1]) = RowsPerDp(phase)
      BY <1>2 DEF MiniSize
    <2> QED  BY <2>1, <2>2, <1>3, <1>4 DEF Place
  <1>6. out'[r] = Mapped(ids, f[op])
    <2>1. at[r][2] = op /\ at[r][2] > 0
      BY <1>1, <1>4
    <2>2. Along(phase, r, at[r], micro[r], out[r]) /\ phase \in {"student", "teacher"} /\ r \in Ranks
      BY DEF ColumnInv
    <2>3. out[r] \o [i \in DOMAIN Forward(r) |-> Forward(r)[i].id] = Mapped(ids, f[at[r][2]])
      BY ONLY <2>1, <2>2, <1>3, AlongForward
    <2> QED  BY <2>1, <2>3, <1>2
  <1>7. MiniBatches(phase) = 1 /\ ids' = ids
    BY <1>2 DEF MiniBatches, IdAt
  <1>8. Along(phase, r, at[r], micro[r], out[r])' <=> Along(phase, r, at[r]', micro[r], out[r]')
    BY <1>2, <1>7 DEF Along
  <1> HIDE DEF k, ids, f
  <1>9. CASE op < k
    <2>1. at'[r] = <<m, op + 1>> /\ op + 1 > 1 /\ (op + 1) - 1 = op
      <3>1. ~(op >= k)
        BY <1>9, <1>4, <1>5
      <3> QED  BY <3>1, <1>1, <1>4, <1>9 DEF NextAt, k
    <2>2. at'[r] # Finished
      BY <2>1, <1>4 DEF Finished
    <2> QED  BY <2>1, <2>2, <1>6, <1>8 DEF Along, ids, f
  <1>10. CASE ~(op < k)
    <2>1. at'[r] = Finished /\ op = k
      <3>1. ~(m < MiniBatches(phase)) /\ op = k
        BY <1>10, <1>4, <1>5, <1>7
      <3> QED  BY <3>1, <1>1, <1>10 DEF NextAt, k
    <2> QED  BY <2>1, <1>5, <1>6, <1>8 DEF Along, ids, f, k
  <1> QED  BY <1>9, <1>10

\* The ids of the rows in the order of the batch.
Ids == [i \in 1..BatchSize |-> batch[i].id]

\* restore_dynamic_batch undoes the order of the micro-batches.
LEMMA RestoredIs ==
    ASSUME NEW call \in Calls, NEW r, NEW mic, NEW results, Along(call, r, Finished, mic, results)
    PROVE  Restore(results, mic) = IdAt(call, r)
  <1> DEFINE k == Len(mic)
             n == RowsPerDp(call)
             ids == IdAt(call, r)
             index == FlattenSeq(mic)
             at1(row) == CHOOSE i \in 1..n : index[i] = row
  <1>1. n \in Nat \ {0}
    <2>1. call \in Meshes
      BY DEF Meshes
    <2> QED  BY <2>1, MeshShape DEF Shape
  <1>2. k \in Nat \ {0} /\ Partitioned(mic, k, 1..n) /\ results = Mapped(ids, JoinOf(mic)[k])
    BY DEF Along
  <1> HIDE DEF n, k
  <1>3. index = JoinOf(mic)[k]
    BY <1>2, JoinSteps DEF k
  <1>4. Permutes(index, n)
    BY <1>1, <1>2, FlattenPermutes
  <1> HIDE DEF index, ids
  <1>5. DOMAIN index = 1..n /\ \A i \in 1..n : results[i] = ids[index[i]]
    BY <1>2, <1>3, <1>4 DEF Permutes, Mapped
  <1>6. \A row \in 1..n : at1(row) \in 1..n /\ index[at1(row)] = row
    BY <1>4 DEF Permutes
  <1>7. Restore(results, mic) = [row \in 1..n |-> results[at1(row)]]
    BY <1>5 DEF Restore, index
  <1> HIDE DEF at1
  <1>8. \A row \in 1..n : results[at1(row)] = ids[row]
    BY <1>5, <1>6
  <1>9. [row \in 1..n |-> results[at1(row)]] = [row \in 1..n |-> ids[row]]
    BY <1>8
  <1>10. ids = [row \in 1..n |-> ids[row]]
    BY DEF ids, IdAt, n
  <1> QED  BY <1>7, <1>9, <1>10 DEF ids

\* What a rank returns is its chunk of the ids.
LEMMA IdsByChunk ==
    ASSUME NEW mesh \in Meshes, NEW r \in Ranks
    PROVE  IdAt(mesh, r) = SubSeq(Ids, DpRank(mesh, r) * RowsPerDp(mesh) + 1,
                                       DpRank(mesh, r) * RowsPerDp(mesh) + RowsPerDp(mesh))
  <1> DEFINE a == DpRank(mesh, r) * RowsPerDp(mesh)
             s == RowsPerDp(mesh)
             S == {batch[i].id : i \in 1..BatchSize}
             u == IdAt(mesh, r)
             t == SubSeq(Ids, a + 1, a + s)
  <1>1. a \in Nat /\ s \in Nat \ {0} /\ a + s <= BatchSize /\ BatchSize \in Nat
    BY ChunkFits, MeshShape, BatchSizeNat DEF Shape
  <1>2. u = [x \in 1..s |-> batch[a + x].id]
    BY DEF IdAt
  <1>3. \A i \in 1..BatchSize : Ids[i] = batch[i].id /\ Ids[i] \in S
    BY DEF Ids
  <1> HIDE DEF a, s, S
  <1>4. \A x \in 1..s : a + x \in 1..BatchSize
    BY <1>1
  <1>5. u \in [1..s -> S]
    BY <1>2, <1>3, <1>4
  <1> HIDE DEF u
  <1>6. u \in Seq(S)
    BY ONLY <1>1, <1>5, SeqDef
  <1>7. Len(u) = s
    BY <1>1, <1>5, <1>6, LenProperties
  <1>8. /\ t \in Seq(S)
        /\ Len(t) = IF a + 1 <= a + s THEN (a + s) - (a + 1) + 1 ELSE 0
        /\ \A i \in 1 .. (a + s) - (a + 1) + 1 : t[i] = Ids[(a + 1) + i - 1]
    <2>1. \A i \in a + 1 .. a + s : Ids[i] \in S
      BY <1>1, <1>3
    <2>2. a + 1 \in Int /\ a + s \in Int
      BY <1>1
    <2> QED  BY ONLY <2>1, <2>2, SubSeqProperties
  <1> HIDE DEF t
  <1>9. Len(t) = s /\ \A i \in 1..s : t[i] = Ids[a + i]
    <2>1. (a + s) - (a + 1) + 1 = s /\ a + 1 <= a + s /\ \A i \in 1..s : (a + 1) + i - 1 = a + i
      BY <1>1
    <2> QED  BY <2>1, <1>8
  <1>10. \A i \in 1..s : t[i] = u[i]
    BY <1>2, <1>3, <1>4, <1>9
  <1>11. t = u
    BY ONLY <1>6, <1>7, <1>8, <1>9, <1>10, SeqEqual
  <1> QED  BY <1>11 DEF t, u, a, s

\* The column the driver gets holds for every row the result of that row.
LEMMA ColumnIsIds ==
    ASSUME StepInv, ColumnInv, NEW call \in {"student", "teacher"}, phase = call, AllFinished
    PROVE  Collected(call, [r \in Ranks |-> Returned(r)]) = Ids
  <1>1. call \in Calls /\ call \in Meshes
    BY DEF Calls, Meshes
  <1> DEFINE results == [r \in Ranks |-> Returned(r)]
             S == {batch[i].id : i \in 1..BatchSize}
  <1>2. ASSUME NEW r \in Ranks
        PROVE  results[r] = SubSeq(Ids, DpRank(call, r) * RowsPerDp(call) + 1,
                                        DpRank(call, r) * RowsPerDp(call) + RowsPerDp(call))
    <2>1. Along(call, r, Finished, micro[r], out[r])
      BY DEF ColumnInv, AllFinished
    <2>2. Restore(out[r], micro[r]) = IdAt(call, r)
      BY <1>1, <2>1, RestoredIs
    <2> QED  BY <1>1, <2>2, IdsByChunk DEF Returned
  <1>3. ByChunk(call, results, Ids)
    <2> HIDE DEF results
    <2> QED  BY <1>2 DEF ByChunk
  <1> HIDE DEF results
  <1>4. BatchSize \in Nat /\ Ids \in [1..BatchSize -> S]
    BY BatchSizeNat DEF Ids
  <1> HIDE DEF S
  <1>5. Ids \in Seq(S)
    BY ONLY <1>4, SeqDef
  <1>6. Len(Ids) = BatchSize
    BY <1>4, <1>5, LenProperties
  <1>7. Collected(call, results) = Ids
    BY ONLY <1>1, <1>3, <1>5, <1>6, CollectedIsAll
  <1> QED  BY <1>7 DEF results

\* The results that have joined the rows.
ResultInv ==
    \A i \in DOMAIN batch :
        /\ phase \in {"teacher", "update", "evaluate", "done"} => batch[i].student = batch[i].id
        /\ phase \in {"update", "evaluate", "done"} => batch[i].teacher = batch[i].id

\* The results of the log-probability calls on their way and in the rows.
ColumnsInv == ColumnInv /\ ResultInv

\* Nothing changes for them.
LEMMA ColumnsKept ==
    ColumnsInv /\ UNCHANGED <<phase, batch, at, micro, out>> => ColumnsInv'
  BY DEF ColumnsInv, ColumnInv, ResultInv, Along, IdAt

\* A call starts without results.
LEMMA SentWithout == ASSUME NEW call, Send(call)  PROVE  ColumnInv'
  <1>1. \A r \in Ranks : at'[r] = <<1, 0>> /\ out'[r] = <<>>
    BY DEF Send
  <1>2. <<1, 0>> # Finished /\ ~(<<1, 0>>[2] > 1)
    BY DEF Finished
  <1> QED  BY <1>1, <1>2 DEF ColumnInv, Along

\* The first forward pass comes after the reduction, before any result.
LEMMA ColumnReduce == ColumnInv /\ Reduce => ColumnInv'
  <1> SUFFICES ASSUME ColumnInv, Reduce, phase' \in {"student", "teacher"}, NEW r \in Ranks
               PROVE  Along(phase, r, at[r], micro[r], out[r])'
    BY DEF ColumnInv
  <1>1. PICK m \in 1..MiniBatches(phase) : at[r] = <<m, 0>> /\ at'[r] = <<m, 1>>
    BY DEF Reduce
  <1>2. phase' = phase /\ out' = out
    BY DEF Reduce
  <1>3. <<m, 0>> # Finished /\ <<m, 1>> # Finished /\ ~(<<m, 0>>[2] > 1) /\ ~(<<m, 1>>[2] > 1)
    <2>1. phase \in Calls
      BY DEF Reduce
    <2>2. MiniBatches(phase) \in Nat
      BY <2>1, MiniBatchesPositive
    <2> QED  BY <2>2 DEF Finished
  <1>4. out[r] = <<>>
    BY <1>1, <1>2, <1>3 DEF ColumnInv, Along
  <1> QED  BY <1>1, <1>2, <1>3, <1>4 DEF Along

\* The student's results join their rows.
LEMMA StudentJoins == StepInv /\ ColumnsInv /\ StudentReturns => ColumnsInv'
  <1> SUFFICES ASSUME StepInv, ColumnsInv, StudentReturns  PROVE  ColumnsInv'
    OBVIOUS
  <1> DEFINE column == Collected("student", [r \in Ranks |-> Returned(r)])
  <1>1. /\ phase = "student" /\ AllFinished /\ phase' = "teacher" /\ Send("teacher")
        /\ batch' = WithColumn(batch, "student", column)
    BY DEF StudentReturns, Send, WithColumn
  <1>2. column = Ids
    BY <1>1, ColumnIsIds DEF ColumnsInv
  <1> HIDE DEF column
  <1>3. FullBatch(config, batch)
    BY <1>1 DEF StepInv, BatchInv
  <1> DEFINE t == WithColumn(batch, "student", Ids)
  <1>4. /\ FullBatch(config, t)
        /\ \A i \in 1..BatchSize :
              /\ t[i].student = Ids[i]
              /\ \A e \in Fields \ {"student"} : t[i][e] = batch[i][e]
    <2>1. "student" \in {"student", "teacher"}
      OBVIOUS
    <2> QED  BY ONLY <2>1, <1>3, ColumnFills
  <1>5. DOMAIN t = 1..BatchSize
    BY <1>4 DEF FullBatch
  <1> HIDE DEF t
  <1>6. \A i \in 1..BatchSize : t[i].id = batch[i].id /\ Ids[i] = batch[i].id
    BY <1>4 DEF Fields, Ids
  <1>7. ResultInv'
    BY <1>1, <1>2, <1>4, <1>5, <1>6 DEF ResultInv, t
  <1> QED  BY <1>1, <1>7, SentWithout DEF ColumnsInv

\* The teacher's join them, and the student's stay.
LEMMA TeacherJoins == StepInv /\ ColumnsInv /\ TeacherReturns => ColumnsInv'
  <1> SUFFICES ASSUME StepInv, ColumnsInv, TeacherReturns  PROVE  ColumnsInv'
    OBVIOUS
  <1> DEFINE column == Collected("teacher", [r \in Ranks |-> Returned(r)])
  <1>1. /\ phase = "teacher" /\ AllFinished /\ phase' = "update" /\ Send("update")
        /\ batch' = WithColumn(batch, "teacher", column)
    BY DEF TeacherReturns, Send, WithColumn
  <1>2. column = Ids
    BY <1>1, ColumnIsIds DEF ColumnsInv
  <1> HIDE DEF column
  <1>3. FullBatch(config, batch) /\ \A i \in DOMAIN batch : batch[i].student = batch[i].id
    BY <1>1 DEF StepInv, BatchInv, ColumnsInv, ResultInv
  <1> DEFINE t == WithColumn(batch, "teacher", Ids)
  <1>4. /\ FullBatch(config, t)
        /\ \A i \in 1..BatchSize :
              /\ t[i].teacher = Ids[i]
              /\ \A e \in Fields \ {"teacher"} : t[i][e] = batch[i][e]
    <2>1. "teacher" \in {"student", "teacher"}
      OBVIOUS
    <2> QED  BY ONLY <2>1, <1>3, ColumnFills
  <1>5. DOMAIN t = 1..BatchSize /\ DOMAIN batch = 1..BatchSize
    BY <1>3, <1>4 DEF FullBatch
  <1> HIDE DEF t
  <1>6. \A i \in 1..BatchSize : /\ t[i].id = batch[i].id /\ Ids[i] = batch[i].id
                                /\ t[i].student = batch[i].id
    BY <1>3, <1>4, <1>5 DEF Fields, Ids
  <1>7. ResultInv'
    BY <1>1, <1>2, <1>4, <1>5, <1>6 DEF ResultInv, t
  <1> QED  BY <1>1, <1>7, SentWithout DEF ColumnsInv

\* Every step keeps them.
LEMMA ColumnsStep == StepInv /\ ColumnsInv /\ [Next]_vars => ColumnsInv'
  <1> SUFFICES ASSUME StepInv, ColumnsInv, [Next]_vars  PROVE  ColumnsInv'
    OBVIOUS
  <1> DEFINE working == phase \in {"student", "teacher", "update", "evaluate", "done"}
  <1>1. ASSUME phase' \notin {"student", "teacher", "update", "evaluate", "done"}  PROVE  ColumnsInv'
    BY <1>1 DEF ColumnsInv, ColumnInv, ResultInv
  <1>2. CASE UNCHANGED <<phase, batch, at, micro, out>>
    BY <1>2, ColumnsKept
  <1>3. CASE Launch \/ Rollout
    BY <1>1, <1>3 DEF Launch, Rollout, Generate
  <1>4. CASE Balance
    <2>1. phase' = "student" /\ Send("student")
      BY <1>4 DEF Balance, Send
    <2> QED  BY <2>1, SentWithout DEF ColumnsInv, ResultInv
  <1>5. ASSUME NEW r \in Ranks, Enter(r)  PROVE  ColumnsInv'
    BY <1>2, <1>5 DEF Enter
  <1>6. ASSUME NEW r \in Ranks, Fail(r)  PROVE  ColumnsInv'
    BY <1>1, <1>6 DEF Fail
  <1>7. CASE Reduce
    <2>1. ColumnInv'
      BY <1>7, ColumnReduce DEF ColumnsInv
    <2>2. ResultInv'
      BY <1>7 DEF Reduce, ColumnsInv, ResultInv
    <2> QED  BY <2>1, <2>2 DEF ColumnsInv
  <1>8. CASE RunForward
    <2>1. ColumnInv'
      BY <1>8, ColumnForward DEF ColumnsInv
    <2>2. ResultInv'
      BY <1>8 DEF RunForward, ColumnsInv, ResultInv
    <2> QED  BY <2>1, <2>2 DEF ColumnsInv
  <1>9. CASE StudentReturns \/ TeacherReturns
    BY <1>9, StudentJoins, TeacherJoins
  <1>10. CASE UpdateReturns \/ Evaluate
    BY <1>10 DEF UpdateReturns, Evaluate, ColumnsInv, ColumnInv, ResultInv
  <1>11. CASE UNCHANGED vars
    BY <1>2, <1>11 DEF vars, workers
  <1>12. CASE Ended
    BY <1>11, <1>12 DEF Ended
  <1> QED
    BY <1>3, <1>4, <1>5, <1>6, <1>7, <1>8, <1>9, <1>10, <1>11, <1>12 DEF Next

-----------------------------------------------------------------------------
(* The update: how often a row has been used.                               *)

\* How often row x of a rank has been used before the mini-batch m ...
UsedBefore(m, x) == (m - 1) \div PerEpoch + IF x <= MiniFirst("update", m) THEN 1 ELSE 0

\* ... and after it.
UsedAfter(m, x) ==
    (m - 1) \div PerEpoch
        + IF x <= MiniFirst("update", m) + MiniSize("update", m) THEN 1 ELSE 0

\* The mini-batches of an epoch follow each other without a gap.
LEMMA MiniBatchesFollow ==
    ASSUME NEW m \in Nat \ {0}, NEW x \in 1..RowsPerDp("update")
    PROVE  /\ UsedBefore(1, x) = 0
           /\ UsedBefore(m, x) \in Nat /\ UsedAfter(m, x) \in Nat
           /\ UsedBefore(m + 1, x) = UsedAfter(m, x)
           /\ m = MiniBatches("update") => UsedAfter(m, x) = Epochs
  <1> DEFINE s == RowsPerDp("update")
             b == MiniBatchSize
             p == PerEpoch
             e == (m - 1) \div p
             j == (m - 1) % p
  <1>1. s \in Nat \ {0} /\ b \in Nat \ {0} /\ Epochs \in Nat \ {0} /\ x \in 1..s
    <2>1. "update" \in Meshes
      BY DEF Meshes, Calls
    <2> QED  BY <2>1, MeshShape, TrainingAssumption DEF Shape
  <1>2. p \in Nat \ {0} /\ p > 0 /\ b * p - b < s /\ s <= b * p
    BY <1>1, CeilDivBounds DEF PerEpoch
  <1>3. \A i \in Nat \ {0} :
            /\ MiniFirst("update", i) = ((i - 1) % p) * b
            /\ MiniSize("update", i) = Min({((i - 1) % p) * b + b, s}) - ((i - 1) % p) * b
    BY DEF MiniFirst, MiniSize
  <1>4. MiniBatches("update") = Epochs * p
    BY DEF MiniBatches
  <1>5. \A i \in Nat \ {0} : /\ UsedBefore(i, x) = (i - 1) \div p + IF x <= MiniFirst("update", i) THEN 1 ELSE 0
                             /\ UsedAfter(i, x) = (i - 1) \div p
                                  + IF x <= MiniFirst("update", i) + MiniSize("update", i) THEN 1 ELSE 0
    BY DEF UsedBefore, UsedAfter
  <1> HIDE DEF s, b, p
  <1>6. m - 1 = p * e + j /\ j \in 0 .. p - 1 /\ e \in Int
    <2>1. m - 1 \in Int /\ p \in Int /\ p > 0
      BY <1>2
    <2> QED  BY <2>1, Division
  <1>7. e \in Nat
    <2>1. CASE e < 0
      <3>1. p * e + p <= p * 0
        BY <2>1, <1>2, <1>6, NextBlock
      <3>2. p * e \in Int
        BY <1>2, <1>6
      <3> QED  BY <3>1, <3>2, <1>2, <1>6
    <2> QED  BY <2>1, <1>6
  <1>8. MiniFirst("update", m) = b * j /\ b * j \in Nat
    <2>1. j * b = b * j /\ b * j \in Nat
      BY <1>1, <1>2, <1>6
    <2> QED  BY <2>1, <1>3 DEF j
  <1>9. MiniFirst("update", m) + MiniSize("update", m) = IF b * j + b <= s THEN b * j + b ELSE s
    <2>1. Min({b * j + b, s}) = IF b * j + b <= s THEN b * j + b ELSE s
      BY <1>1, <1>8, MinOfTwo
    <2>2. MiniSize("update", m) = Min({b * j + b, s}) - b * j
      <3>1. j * b = b * j
        BY <1>1, <1>2, <1>6
      <3> QED  BY <3>1, <1>3 DEF j
    <2> QED  BY <2>1, <2>2, <1>1, <1>8
  <1> DEFINE last == MiniFirst("update", m) + MiniSize("update", m)
  <1>10. /\ UsedBefore(m, x) = e + IF x <= b * j THEN 1 ELSE 0
         /\ UsedAfter(m, x) = e + IF x <= last THEN 1 ELSE 0
    BY <1>5, <1>8
  <1>11. (m + 1) - 1 = m /\ m + 1 \in Nat \ {0}
    OBVIOUS
  <1>12. UsedBefore(m + 1, x) = m \div p + IF x <= (m % p) * b THEN 1 ELSE 0
    BY <1>3, <1>5, <1>11
  <1>13. UsedBefore(1, x) = 0
    <2>1. (p * 0 + 0) \div p = 0 /\ (p * 0 + 0) % p = 0 /\ p * 0 + 0 = 0
      <3>1. 0 \in 0 .. p - 1
        BY <1>2
      <3> QED  BY <3>1, <1>2, QuotientIs
    <2>2. UsedBefore(1, x) = 0 \div p + IF x <= (0 % p) * b THEN 1 ELSE 0
      <3>1. 1 \in Nat \ {0} /\ 1 - 1 = 0
        OBVIOUS
      <3>2. MiniFirst("update", 1) = ((1 - 1) % p) * b
        BY <1>3, <3>1
      <3>3. UsedBefore(1, x) = (1 - 1) \div p + IF x <= MiniFirst("update", 1) THEN 1 ELSE 0
        BY <1>5, <3>1
      <3> QED  BY <3>1, <3>2, <3>3
    <2>3. 0 \div p = 0 /\ 0 % p = 0 /\ 0 * b = 0
      BY <2>1, <1>1
    <2> QED  BY <2>2, <2>3, <1>1
  <1> HIDE DEF e, j, last
  <1>14. CASE j + 1 \in 0 .. p - 1
    <2>1. m = p * e + (j + 1) /\ p * e \in Int
      BY <1>2, <1>6
    <2>2. m \div p = e /\ m % p = j + 1
      BY <2>1, <1>2, <1>6, <1>14, QuotientIs
    <2>3. b * (j + 1) + b <= b * p
      <3>1. j + 1 < p /\ j + 1 \in Int /\ p \in Int
        BY <1>14, <1>2, <1>6
      <3> QED  BY <3>1, <1>1, NextBlock
    <2>4. b * (j + 1) = b * j + b /\ (j + 1) * b = b * (j + 1) /\ b * p \in Int /\ b * (j + 1) \in Int
      BY <1>1, <1>2, <1>6
    <2>5. last = b * j + b
      BY <2>3, <2>4, <1>1, <1>2, <1>8, <1>9 DEF last
    <2>6. UsedBefore(m + 1, x) = UsedAfter(m, x)
      BY <2>2, <2>4, <2>5, <1>10, <1>12
    <2>7. m # Epochs * p
      <3>1. Epochs * p = p * Epochs + 0 /\ 0 \in 0 .. p - 1
        BY <1>1, <1>2
      <3>2. (p * Epochs + 0) % p = 0
        BY <3>1, <1>1, <1>2, QuotientIs
      <3> QED  BY <3>1, <3>2, <2>2, <1>6
    <2> QED  BY <2>6, <2>7, <1>1, <1>4, <1>7, <1>10, <1>13
  <1>15. CASE j = p - 1
    <2>1. m = p * (e + 1) + 0 /\ 0 \in 0 .. p - 1 /\ e + 1 \in Int
      <3>1. p * (e + 1) = p * e + p /\ p * e \in Int
        BY <1>2, <1>6
      <3> QED  BY <3>1, <1>2, <1>6, <1>15
    <2>2. m \div p = e + 1 /\ m % p = 0
      BY <2>1, <1>2, QuotientIs
    <2>3. b * j + b = b * p
      BY <1>1, <1>2, <1>15
    <2>4. last = s
      BY <2>3, <1>1, <1>2, <1>9 DEF last
    <2>5. UsedAfter(m, x) = e + 1
      BY <2>4, <1>1, <1>7, <1>10
    <2>6. UsedBefore(m + 1, x) = e + 1
      BY <2>2, <1>1, <1>7, <1>12
    <2>7. m = Epochs * p => e + 1 = Epochs
      <3>1. Epochs * p = p * Epochs + 0
        BY <1>1, <1>2
      <3>2. (p * Epochs + 0) \div p = Epochs
        BY <2>1, <1>1, <1>2, QuotientIs
      <3> QED  BY <3>1, <3>2, <2>2
    <2> QED  BY <2>5, <2>6, <2>7, <1>4, <1>7, <1>10, <1>13
  <1> QED  BY <1>14, <1>15, <1>2, <1>6

\* The ids of a rank's rows.
RowIds(call, r) == {IdAt(call, r)[x] : x \in 1..RowsPerDp(call)}

\* No two rows of a rank have the same id.
DistinctIds(call, r) ==
    /\ IdAt(call, r) \in [1..RowsPerDp(call) -> 1..BatchSize]
    /\ \A x, y \in 1..RowsPerDp(call) : IdAt(call, r)[x] = IdAt(call, r)[y] => x = y

\* They are those of the batch.
LEMMA IdsAreDistinct ==
    ASSUME NEW c, FullBatch(c, batch), NEW mesh \in Meshes, NEW r \in Ranks
    PROVE  DistinctIds(mesh, r)
  <1> DEFINE a == DpRank(mesh, r) * RowsPerDp(mesh)
             s == RowsPerDp(mesh)
             ids == IdAt(mesh, r)
  <1>1. a \in Nat /\ s \in Nat \ {0} /\ a + s <= BatchSize /\ BatchSize \in Nat
    BY ChunkFits, MeshShape, BatchSizeNat DEF Shape
  <1>2. ids = [x \in 1..s |-> batch[a + x].id]
    BY DEF IdAt
  <1>3. Permutes([i \in 1..BatchSize |-> batch[i].id], BatchSize)
    BY DEF FullBatch
  <1>4. /\ \A i \in 1..BatchSize : batch[i].id \in 1..BatchSize
        /\ \A i, j \in 1..BatchSize : batch[i].id = batch[j].id => i = j
    BY <1>3 DEF Permutes
  <1> HIDE DEF a, s, ids
  <1>5. \A x \in 1..s : a + x \in 1..BatchSize
    BY <1>1
  <1>6. ids \in [1..s -> 1..BatchSize]
    BY <1>2, <1>4, <1>5
  <1>7. ASSUME NEW x \in 1..s, NEW y \in 1..s, ids[x] = ids[y]  PROVE  x = y
    <2>1. a + x = a + y
      BY <1>2, <1>4, <1>5, <1>7
    <2> QED  BY <2>1, <1>1
  <1> QED  BY <1>6, <1>7 DEF DistinctIds, ids, s

\* added holds the ids of the rows of a micro-batch, which begins at first.
Adds(added, call, r, index, first) ==
    /\ added \in Seq(RowIds(call, r))
    /\ \A x \in 1..RowsPerDp(call) :
          Times(added, IdAt(call, r)[x]) = IF Hit(index, x - first) THEN 1 ELSE 0

\* What a forward pass of the update adds.
LEMMA ForwardAdds ==
    ASSUME NEW c, FullBatch(c, batch), phase \in Calls, NEW r \in Ranks,
           Place(phase, at[r], micro[r]), at[r][2] > 0
    PROVE  Adds([i \in DOMAIN Forward(r) |-> Forward(r)[i].id], phase, r,
                micro[r][at[r][2]], MiniFirst(phase, at[r][1]))
  <1> DEFINE m == at[r][1]
             op == at[r][2]
             mic == micro[r]
             index == mic[op]
             a == DpRank(phase, r) * RowsPerDp(phase)
             s == RowsPerDp(phase)
             first == MiniFirst(phase, m)
             n == MiniSize(phase, m)
             ids == IdAt(phase, r)
             row(i) == RowAt(phase, r, m, index[i])
             added == [i \in DOMAIN Forward(r) |-> Forward(r)[i].id]
             len == Len(index)
  <1>1. /\ m \in Nat \ {0} /\ op \in 1..Len(mic)
        /\ Len(mic) \in Nat /\ Dealt(mic, Len(mic), 1..n)
    <2>1. at[r] # Finished
      BY DEF Finished
    <2>2. MiniBatches(phase) \in Nat
      BY MiniBatchesPositive
    <2> QED  BY <2>1, <2>2 DEF Place, Partitioned
  <1>2. index \in Seq(1..n) /\ Forward(r) = [i \in DOMAIN index |-> batch[row(i)]]
    BY ForwardIs
  <1>3. /\ a \in Nat /\ s \in Nat \ {0}
        /\ first \in Nat /\ n \in Nat \ {0} /\ first + n <= s
    <2>1. phase \in Meshes
      BY DEF Meshes
    <2> QED  BY <2>1, <1>1, ChunkFits, MeshShape, MiniBatchFits DEF Shape
  <1>4. \A i \in DOMAIN index : row(i) = a + first + index[i]
    BY DEF RowAt
  <1>5. /\ ids = [x \in 1..s |-> batch[a + x].id]
        /\ \A x, y \in 1..s : ids[x] = ids[y] => x = y
    <2>1. phase \in Meshes
      BY DEF Meshes
    <2> QED  BY <2>1, IdsAreDistinct DEF DistinctIds, IdAt
  <1>6. len \in Nat /\ DOMAIN index = 1..len
    BY <1>2, LenProperties
  <1>7. \A i \in 1..len : index[i] \in 1..n
    BY <1>2, ElementOfSeq
  <1>8. \A i, j \in 1..len : index[i] = index[j] => i = j
    <2>1. op \in DOMAIN mic
      BY <1>1, DealtShape
    <2>2. Once(mic)
      BY <1>1 DEF Dealt
    <2> QED  BY <2>1, <2>2, <1>6 DEF Once
  <1>9. added = [i \in 1..len |-> batch[row(i)].id]
    BY <1>2, <1>6
  <1> HIDE DEF a, s, first, n, ids, index, row, len, added
  <1>10. \A i \in 1..len : /\ first + index[i] \in 1..s
                           /\ row(i) = a + (first + index[i])
                           /\ (first + index[i]) - first = index[i]
    <2> TAKE i \in 1..len
    <2>1. index[i] \in 1..n /\ row(i) = a + first + index[i]
      BY <1>4, <1>6, <1>7
    <2> DEFINE x == index[i]
               y == row(i)
    <2>2. x \in 1..n /\ y = a + first + x
      BY <2>1
    <2> HIDE DEF x, y
    <2>3. /\ first + x \in 1..s
          /\ y = a + (first + x)
          /\ (first + x) - first = x
      BY ONLY <2>2, <1>3
    <2> QED  BY <2>3 DEF x, y
  <1>11. \A i \in 1..len : added[i] = ids[first + index[i]]
    BY <1>5, <1>9, <1>10
  <1>12. added = [i \in 1..len |-> added[i]] /\ DOMAIN added = 1..len
    BY <1>9
  <1>13. added \in Seq(RowIds(phase, r))
    <2> DEFINE T == RowIds(phase, r)
    <2>1. \A i \in 1..len : added[i] \in T
      BY <1>10, <1>11 DEF RowIds, ids, s
    <2> HIDE DEF T
    <2>2. added \in [1..len -> T]
      BY <1>12, <2>1
    <2>3. added \in Seq(T)
      BY ONLY <1>6, <2>2, SeqDef
    <2> QED  BY <2>3 DEF T
  <1>14. IsInjective(added)
    <2>1. ASSUME NEW i \in 1..len, NEW j \in 1..len, added[i] = added[j]  PROVE  i = j
      <3>1. first + index[i] = first + index[j]
        BY <1>5, <1>10, <1>11, <2>1
      <3>2. index[i] = index[j]
        BY <3>1, <1>10
      <3> QED  BY <3>2, <1>8
    <2> QED  BY <2>1, <1>12 DEF IsInjective
  <1>15. ASSUME NEW x \in 1..s  PROVE  Hit(added, ids[x]) <=> Hit(index, x - first)
    <2>1. ASSUME Hit(added, ids[x])  PROVE  Hit(index, x - first)
      <3>1. PICK i \in 1..len : added[i] = ids[x]
        BY <2>1, <1>12 DEF Hit
      <3>2. first + index[i] = x
        BY <3>1, <1>5, <1>10, <1>11
      <3>3. index[i] = x - first
        BY <3>2, <1>10
      <3> QED  BY <3>3, <1>6 DEF Hit
    <2>2. ASSUME Hit(index, x - first)  PROVE  Hit(added, ids[x])
      <3>1. PICK i \in 1..len : index[i] = x - first
        BY <2>2, <1>6 DEF Hit
      <3>2. first + index[i] = x
        BY <3>1, <1>3
      <3>3. added[i] = ids[x]
        BY <3>2, <1>11
      <3> QED  BY <3>3, <1>12 DEF Hit
    <2> QED  BY <2>1, <2>2
  <1>16. \A x \in 1..s : Times(added, ids[x]) = IF Hit(index, x - first) THEN 1 ELSE 0
    BY <1>14, <1>15, TimesOnce
  <1> QED  BY <1>13, <1>16 DEF Adds, added, ids, index, first, s

\* How often row x of a rank has been used after n forward passes of the
\* mini-batch m.
UsedAlong(m, mic, n, x) ==
    (m - 1) \div PerEpoch
        + IF \/ x <= MiniFirst("update", m)
             \/ \E h \in 1..n : Hit(mic[h], x - MiniFirst("update", m))
          THEN 1 ELSE 0

\* The rows a rank has used in the update: as often as the mini-batches say.
Rounds(r, p, mic, results) ==
    /\ results \in Seq(RowIds("update", r))
    /\ \A x \in 1..RowsPerDp("update") :
          Times(results, IdAt("update", r)[x])
              = IF p = Finished THEN Epochs ELSE UsedAlong(p[1], mic, p[2] - 1, x)

\* While the student is updated every rank has used its rows so.
RoundInv == phase = "update" => \A r \in Ranks : Rounds(r, at[r], micro[r], out[r])

\* The last forward pass of a mini-batch has used all its rows.
LEMMA UsedAtEnds ==
    ASSUME NEW m \in Nat \ {0}, NEW mic, NEW k \in Nat \ {0},
           Partitioned(mic, k, 1..MiniSize("update", m)), NEW x \in 1..RowsPerDp("update")
    PROVE  UsedAlong(m, mic, k, x) = UsedAfter(m, x)
  <1> DEFINE first == MiniFirst("update", m)
             n == MiniSize("update", m)
  <1>1. first \in Nat /\ n \in Nat \ {0} /\ x \in Nat
    <2>1. "update" \in Calls
      BY DEF Calls
    <2>2. first \in Nat /\ n \in Nat \ {0}
      BY <2>1, MiniBatchFits
    <2>3. RowsPerDp("update") \in Nat
      BY <2>1, MeshShape DEF Meshes, Shape
    <2> QED  BY <2>2, <2>3
  <1>2. /\ mic \in [1..k -> Seq(1..n)]
        /\ \A y \in 1..n : Holds(mic, y)
    BY DEF Partitioned, Dealt
  <1> HIDE DEF first, n
  <1>3. ASSUME x <= first \/ \E h \in 1..k : Hit(mic[h], x - first)  PROVE  x <= first + n
    <2>1. CASE x <= first
      BY <2>1, <1>1
    <2>2. ASSUME NEW h \in 1..k, Hit(mic[h], x - first)  PROVE  x <= first + n
      <3>1. mic[h] \in Seq(1..n)
        BY <1>2
      <3>2. x - first \in 1..n
        BY ONLY <3>1, <2>2, HitIsIn
      <3> QED  BY <3>2, <1>1
    <2> QED  BY <1>3, <2>1, <2>2
  <1>4. ASSUME x <= first + n, ~(x <= first)  PROVE  \E h \in 1..k : Hit(mic[h], x - first)
    <2>1. x - first \in 1..n
      BY <1>1, <1>4
    <2>2. Holds(mic, x - first) /\ DOMAIN mic = 1..k
      BY <1>2, <2>1
    <2> QED  BY <2>2 DEF Holds, Hit
  <1>5. (x <= first \/ \E h \in 1..k : Hit(mic[h], x - first)) <=> x <= first + n
    <2>1. ASSUME x <= first  PROVE  x <= first + n
      BY <2>1, <1>1
    <2> QED  BY <2>1, <1>3, <1>4
  <1> QED  BY <1>5 DEF UsedAlong, UsedAfter, first, n

\* Before the first one no row of it is used.
LEMMA UsedAtStart ==
    ASSUME NEW m, NEW mic, NEW x, NEW n \in {-1, 0}
    PROVE  UsedAlong(m, mic, n, x) = UsedBefore(m, x)
  <1>1. 1..n = {}
    OBVIOUS
  <1> QED  BY <1>1 DEF UsedAlong, UsedBefore

\* No row is in two micro-batches of a mini-batch.
LEMMA UsedOnce ==
    ASSUME NEW m \in Nat \ {0}, NEW mic, NEW k \in Nat \ {0},
           Partitioned(mic, k, 1..MiniSize("update", m)),
           NEW x \in 1..RowsPerDp("update"), NEW op \in 1..k
    PROVE  UsedAlong(m, mic, op, x)
              = UsedAlong(m, mic, op - 1, x)
                    + IF Hit(mic[op], x - MiniFirst("update", m)) THEN 1 ELSE 0
  <1> DEFINE first == MiniFirst("update", m)
             n == MiniSize("update", m)
             e == (m - 1) \div PerEpoch
             y == x - first
             A(i) == x <= first \/ \E h \in 1..i : Hit(mic[h], y)
  <1>1. first \in Nat /\ n \in Nat \ {0} /\ x \in Nat /\ e \in Int
    <2>1. "update" \in Calls
      BY DEF Calls
    <2>2. first \in Nat /\ n \in Nat \ {0}
      BY <2>1, MiniBatchFits
    <2>3. RowsPerDp("update") \in Nat
      BY <2>1, MeshShape DEF Meshes, Shape
    <2>4. PerEpoch \in Nat \ {0}
      <3>1. RowsPerDp("update") \in Nat \ {0} /\ MiniBatchSize \in Nat \ {0}
        BY <2>1, MeshShape, TrainingAssumption DEF Meshes, Shape
      <3> QED  BY <3>1, CeilDivBounds DEF PerEpoch
    <2>5. e \in Int
      <3>1. m - 1 \in Int /\ PerEpoch \in Int /\ PerEpoch > 0
        BY <2>4
      <3> QED  BY <3>1, Division
    <2> QED  BY <2>2, <2>3, <2>5
  <1>2. mic \in [1..k -> Seq(1..n)] /\ Once(mic)
    BY DEF Partitioned, Dealt
  <1>3. \A i : UsedAlong(m, mic, i, x) = e + IF A(i) THEN 1 ELSE 0
    BY DEF UsedAlong
  <1> HIDE DEF first, n, e, y
  <1>4. op \in Nat /\ 1 .. op = (1 .. op - 1) \union {op} /\ 1 .. op - 1 \subseteq 1..k
    OBVIOUS
  <1>5. A(op) <=> A(op - 1) \/ Hit(mic[op], y)
    BY <1>4
  <1>6. ~(A(op - 1) /\ Hit(mic[op], y))
    <2> SUFFICES ASSUME Hit(mic[op], y), A(op - 1)  PROVE  FALSE
      OBVIOUS
    <2>1. mic[op] \in Seq(1..n)
      BY <1>2
    <2>2. y \in 1..n
      BY <2>1, HitIsIn
    <2>3. ~(x <= first)
      BY <2>2, <1>1 DEF y
    <2>4. PICK h \in 1 .. op - 1 : Hit(mic[h], y)
      BY <2>3
    <2>5. h \in DOMAIN mic /\ op \in DOMAIN mic /\ h # op
      BY <1>2, <1>4
    <2> QED  BY <2>4, <2>5, <1>2 DEF Once, Hit
  <1> HIDE DEF A
  <1>7. UsedAlong(m, mic, op, x) = UsedAlong(m, mic, op - 1, x) + IF Hit(mic[op], y) THEN 1 ELSE 0
    BY <1>1, <1>3, <1>5, <1>6
  <1> QED  BY <1>7 DEF y, first

\* A forward pass uses the rows of its micro-batch once.
LEMMA RoundsForward ==
    ASSUME NEW c, FullBatch(c, batch), phase = "update", NEW r \in Ranks,
           Place(phase, at[r], micro[r]), at[r][2] > 0, Rounds(r, at[r], micro[r], out[r]),
           NEW x \in 1..RowsPerDp("update")
    PROVE  LET results == out[r] \o [i \in DOMAIN Forward(r) |-> Forward(r)[i].id]
           IN  /\ results \in Seq(RowIds("update", r))
               /\ Times(results, IdAt("update", r)[x]) = UsedAlong(at[r][1], micro[r], at[r][2], x)
  <1> DEFINE m == at[r][1]
             op == at[r][2]
             mic == micro[r]
             k == Len(mic)
             first == MiniFirst("update", m)
             id == IdAt("update", r)[x]
             T == RowIds("update", r)
             old == out[r]
             added == [i \in DOMAIN Forward(r) |-> Forward(r)[i].id]
  <1>1. phase \in Calls /\ at[r] # Finished
    BY DEF Calls, Finished
  <1>2. /\ m \in Nat \ {0} /\ k \in Nat \ {0} /\ op \in 1..k
        /\ Partitioned(mic, k, 1..MiniSize("update", m))
    <2>1. MiniBatches(phase) \in Nat
      BY <1>1, MiniBatchesPositive
    <2> QED  BY <1>1, <2>1 DEF Place
  <1>3. Adds(added, "update", r, mic[op], first)
    BY <1>1, ForwardAdds
  <1> HIDE DEF added
  <1>4. added \in Seq(T) /\ Times(added, id) = IF Hit(mic[op], x - first) THEN 1 ELSE 0
    BY <1>3 DEF Adds
  <1>5. old \in Seq(T) /\ Times(old, id) = UsedAlong(m, mic, op - 1, x)
    BY <1>1 DEF Rounds
  <1>6. UsedAlong(m, mic, op, x)
            = UsedAlong(m, mic, op - 1, x) + IF Hit(mic[op], x - first) THEN 1 ELSE 0
    BY <1>2, UsedOnce
  <1> HIDE DEF id, T, old
  <1>7. old \o added \in Seq(T)
    BY <1>4, <1>5, ConcatProperties
  <1>8. Times(old \o added, id) = Times(old, id) + Times(added, id)
    BY ONLY <1>4, <1>5, TimesConcat
  <1> QED  BY <1>4, <1>5, <1>6, <1>7, <1>8 DEF id, T, old, added

\* The rows do not change while the workers run.
LEMMA RoundForward == StepInv /\ RoundInv /\ RunForward => RoundInv'
  <1> SUFFICES ASSUME StepInv, RoundInv, RunForward, phase = "update", NEW r \in Ranks
               PROVE  Rounds(r, at[r], micro[r], out[r])'
    BY DEF RoundInv, RunForward
  <1>1. PICK m \in 1..MiniBatches(phase), op \in 1..BatchSize :
            /\ at[r] = <<m, op>>
            /\ at'[r] = NextAt(m, op, Len(micro[r]))
    BY DEF RunForward
  <1> DEFINE results == out[r] \o [i \in DOMAIN Forward(r) |-> Forward(r)[i].id]
             mic == micro[r]
             k == Len(mic)
             s == RowsPerDp("update")
             id(x) == IdAt("update", r)[x]
  <1>2. /\ phase \in Calls /\ phase' = phase /\ batch' = batch /\ micro' = micro
        /\ out'[r] = results
    BY DEF RunForward
  <1>3. FullBatch(config, batch) /\ Place(phase, at[r], mic) /\ Rounds(r, at[r], mic, out[r])
    BY <1>2 DEF StepInv, BatchInv, WorkInv, RoundInv
  <1>4. /\ MiniBatches(phase) \in Nat /\ m \in Nat \ {0} /\ op \in Nat /\ op > 0
        /\ at[r][1] = m /\ at[r][2] = op
    BY <1>1, <1>2, MiniBatchesPositive, BatchSizeNat
  <1>5. k \in Nat \ {0} /\ op <= k /\ Partitioned(mic, k, 1..MiniSize("update", m))
    <2>1. at[r] # Finished
      BY <1>4 DEF Finished
    <2> QED  BY <2>1, <1>3, <1>4 DEF Place
  <1>6. ASSUME NEW x \in 1..s
        PROVE  /\ results \in Seq(RowIds("update", r))
               /\ Times(results, id(x)) = UsedAlong(m, mic, op, x)
    BY <1>3, <1>4, RoundsForward
  <1>7. 1 \in 1..s
    <2>1. s \in Nat \ {0}
      BY MeshShape DEF Meshes, Calls, Shape
    <2> QED  BY <2>1
  <1>8. IdAt("update", r)' = IdAt("update", r) /\ RowIds("update", r)' = RowIds("update", r)
    BY <1>2 DEF IdAt, RowIds
  <1> HIDE DEF results, k, s
  <1>9. ASSUME \A x \in 1..s : Times(results, id(x)) =
                    IF at'[r] = Finished THEN Epochs ELSE UsedAlong(at'[r][1], mic, at'[r][2] - 1, x)
        PROVE  Rounds(r, at[r], micro[r], out[r])'
    BY <1>2, <1>6, <1>7, <1>8, <1>9 DEF Rounds, s
  <1>10. CASE op < k
    <2>1. at'[r] = <<m, op + 1>> /\ (op + 1) - 1 = op
      <3>1. ~(op >= k)
        BY <1>10, <1>4, <1>5
      <3> QED  BY <3>1, <1>1, <1>4, <1>10 DEF NextAt, k
    <2>2. at'[r] # Finished /\ at'[r][1] = m /\ at'[r][2] - 1 = op
      BY <2>1, <1>4 DEF Finished
    <2> QED  BY <2>2, <1>6, <1>9
  <1>11. CASE ~(op < k)
    <2>1. op = k /\ op >= k
      BY <1>4, <1>5, <1>11
    <2>2. \A x \in 1..s : Times(results, id(x)) = UsedAfter(m, x)
      <3> SUFFICES ASSUME NEW x \in 1..s  PROVE  Times(results, id(x)) = UsedAfter(m, x)
        OBVIOUS
      <3>1. x \in 1..RowsPerDp("update")
        BY DEF s
      <3>2. UsedAlong(m, mic, k, x) = UsedAfter(m, x)
        BY <3>1, <1>4, <1>5, UsedAtEnds
      <3> QED  BY <3>2, <2>1, <1>6
    <2>3. CASE m < MiniBatches(phase)
      <3>1. at'[r] = <<m + 1, 0>>
        BY <2>1, <2>3, <1>1, <1>11 DEF NextAt, k
      <3>2. at'[r] # Finished /\ at'[r][1] = m + 1 /\ at'[r][2] - 1 = -1
        BY <3>1, <1>4 DEF Finished
      <3>3. \A x \in 1..s : UsedAlong(m + 1, mic, -1, x) = UsedAfter(m, x)
        <4> SUFFICES ASSUME NEW x \in 1..s  PROVE  UsedAlong(m + 1, mic, -1, x) = UsedAfter(m, x)
          OBVIOUS
        <4>1. UsedAlong(m + 1, mic, -1, x) = UsedBefore(m + 1, x)
          BY UsedAtStart
        <4>2. UsedBefore(m + 1, x) = UsedAfter(m, x)
          BY <1>4, MiniBatchesFollow DEF s
        <4> QED  BY <4>1, <4>2
      <3> QED  BY <3>2, <3>3, <2>2, <1>9
    <2>4. CASE ~(m < MiniBatches(phase))
      <3>1. at'[r] = Finished /\ m = MiniBatches("update")
        BY <2>1, <2>4, <1>1, <1>4, <1>11 DEF NextAt, k
      <3>2. \A x \in 1..s : UsedAfter(m, x) = Epochs
        BY <3>1, <1>4, MiniBatchesFollow DEF s
      <3> QED  BY <3>1, <3>2, <2>2, <1>9
    <2> QED  BY <2>3, <2>4
  <1> QED  BY <1>10, <1>11

\* The reduction comes before any forward pass of its mini-batch.
LEMMA RoundReduce == RoundInv /\ Reduce => RoundInv'
  <1> SUFFICES ASSUME RoundInv, Reduce, phase = "update", NEW r \in Ranks
               PROVE  Rounds(r, at[r], micro[r], out[r])'
    BY DEF RoundInv, Reduce
  <1>1. PICK m \in 1..MiniBatches(phase) : at[r] = <<m, 0>> /\ at'[r] = <<m, 1>>
    BY DEF Reduce
  <1>2. phase \in Calls /\ phase' = phase /\ out' = out /\ batch' = batch
    BY DEF Reduce
  <1>3. <<m, 0>> # Finished /\ <<m, 1>> # Finished
    <2>1. MiniBatches(phase) \in Nat
      BY <1>2, MiniBatchesPositive
    <2> QED  BY <2>1 DEF Finished
  <1>4. Rounds(r, at[r], micro[r], out[r])
    BY DEF RoundInv
  <1>5. \A x \in 1..RowsPerDp("update") : UsedAlong(m, micro[r], -1, x) = UsedAlong(m, micro'[r], 0, x)
    <2> SUFFICES ASSUME NEW x  PROVE  UsedAlong(m, micro[r], -1, x) = UsedAlong(m, micro'[r], 0, x)
      OBVIOUS
    <2>1. UsedAlong(m, micro[r], -1, x) = UsedBefore(m, x)
      BY UsedAtStart
    <2>2. UsedAlong(m, micro'[r], 0, x) = UsedBefore(m, x)
      BY UsedAtStart
    <2> QED  BY <2>1, <2>2
  <1>6. IdAt("update", r)' = IdAt("update", r) /\ RowIds("update", r)' = RowIds("update", r)
    BY <1>2 DEF IdAt, RowIds
  <1>7. at[r][1] = m /\ at[r][2] - 1 = -1 /\ at'[r][1] = m /\ at'[r][2] - 1 = 0
    BY <1>1
  <1>8. at[r] # Finished /\ at'[r] # Finished
    BY <1>1, <1>3
  <1> QED  BY <1>2, <1>4, <1>5, <1>6, <1>7, <1>8 DEF Rounds

\* The update starts with no row used.
LEMMA SentUnused == ASSUME Send("update")  PROVE  RoundInv'
  <1> SUFFICES ASSUME NEW r \in Ranks  PROVE  Rounds(r, at[r], micro[r], out[r])'
    BY DEF RoundInv
  <1>1. at'[r] = <<1, 0>> /\ out'[r] = <<>>
    BY DEF Send
  <1>2. <<1, 0>> # Finished /\ <<1, 0>>[1] = 1 /\ <<1, 0>>[2] - 1 = -1
    BY DEF Finished
  <1>3. \A x \in 1..RowsPerDp("update") : UsedAlong(1, micro'[r], -1, x) = 0
    <2> SUFFICES ASSUME NEW x \in 1..RowsPerDp("update")  PROVE  UsedAlong(1, micro'[r], -1, x) = 0
      OBVIOUS
    <2>1. UsedAlong(1, micro'[r], -1, x) = UsedBefore(1, x)
      BY UsedAtStart
    <2>2. 1 \in Nat \ {0}
      OBVIOUS
    <2>3. UsedBefore(1, x) = 0
      BY <2>2, MiniBatchesFollow
    <2> QED  BY <2>1, <2>3
  <1>4. \A id : Times(<<>>, id) = 0
    BY TimesNone DEF Hit
  <1>5. <<>> \in Seq(RowIds("update", r)')
    OBVIOUS
  <1> QED  BY <1>1, <1>2, <1>3, <1>4, <1>5 DEF Rounds

\* Every rank has finished the update.
AllRounds == \A r \in Ranks : Rounds(r, Finished, micro[r], out[r])

\* How often a rank has used the row with id number id, which is row x of the
\* data-parallel rank q.
LEMMA RankUses ==
    ASSUME NEW c, FullBatch(c, batch), AllRounds, NEW r \in Ranks,
           NEW q \in 0 .. DpSize("update") - 1, NEW x \in 1..RowsPerDp("update")
    PROVE  /\ out[r] \in Seq(1..BatchSize)
           /\ Times(out[r], batch[RowsPerDp("update") * q + x].id)
                 = IF DpRank("update", r) = q THEN Epochs ELSE 0
  <1> DEFINE s == RowsPerDp("update")
             d == DpSize("update")
             a == DpRank("update", r)
             ids == IdAt("update", r)
             T == RowIds("update", r)
             id == batch[s * q + x].id
  <1>1. "update" \in Meshes
    BY DEF Meshes, Calls
  <1>2. s \in Nat \ {0} /\ d \in Nat \ {0} /\ BatchSize = s * d /\ a \in 0 .. d - 1
    BY <1>1, MeshShape, ChunkFits DEF Shape
  <1>3. out[r] \in Seq(T) /\ \A y \in 1..s : Times(out[r], ids[y]) = Epochs
    BY DEF AllRounds, Rounds
  <1>4. ids \in [1..s -> 1..BatchSize] /\ ids = [y \in 1..s |-> batch[a * s + y].id]
    BY <1>1, IdsAreDistinct DEF DistinctIds, IdAt
  <1>5. T \subseteq 1..BatchSize /\ T = {ids[y] : y \in 1..s}
    BY <1>4 DEF RowIds
  <1>6. out[r] \in Seq(1..BatchSize)
    BY <1>3, <1>5, SeqMonotonic
  <1>7. \A i, j \in 1..BatchSize : batch[i].id = batch[j].id => i = j
    <2>1. Permutes([i \in 1..BatchSize |-> batch[i].id], BatchSize)
      BY DEF FullBatch
    <2> QED  BY <2>1 DEF Permutes
  <1>8. x \in 1..s /\ q \in 0 .. d - 1
    OBVIOUS
  <1> HIDE DEF s, d, a, ids, T
  <1>9. CASE a = q
    <2>1. a * s = s * q
      BY <1>2, <1>9
    <2>2. id = ids[x]
      BY <2>1, <1>4, <1>8
    <2> QED  BY <2>2, <1>3, <1>6, <1>8, <1>9 DEF s, a
  <1>10. CASE a # q
    <2>1. ~Hit(out[r], id)
      <3> SUFFICES ASSUME Hit(out[r], id)  PROVE  FALSE
        OBVIOUS
      <3>1. id \in T
        <4> HIDE DEF id
        <4> QED  BY <1>3, HitIsIn
      <3>2. PICK y \in 1..s : id = ids[y]
        BY <3>1, <1>5
      <3>3. batch[s * a + y].id = batch[s * q + x].id
        <4>1. a * s = s * a
          BY <1>2
        <4> QED  BY <4>1, <3>2, <1>4
      <3>4. s * a + y \in 1..BatchSize /\ s * q + x \in 1..BatchSize
        <4>1. s \in Int /\ s > 0 /\ d \in Nat
          BY <1>2
        <4>2. s * a + y \in 1 .. s * d
          BY ONLY <4>1, <1>2, y \in 1..s, BlockIn
        <4>3. s * q + x \in 1 .. s * d
          BY ONLY <4>1, <1>8, BlockIn
        <4> QED  BY <4>2, <4>3, <1>2
      <3>5. s * a + y = s * q + x
        BY <3>3, <3>4, <1>7
      <3>6. a = q
        <4>1. s \in Int /\ s > 0 /\ a \in Int /\ q \in Int
          BY <1>2
        <4> QED  BY ONLY <4>1, <3>5, <1>8, y \in 1..s, SameBlock
      <3> QED  BY <3>6, <1>10
    <2>2. Times(out[r], id) = 0
      <3> HIDE DEF id
      <3> QED  BY <2>1, TimesNone
    <2> QED  BY <2>2, <1>6, <1>10 DEF id, s, a
  <1> QED  BY <1>9, <1>10

\* The driver gets every row as often as there are epochs.
LEMMA CollectedUses ==
    ASSUME NEW c, FullBatch(c, batch), AllRounds, NEW id \in 1..BatchSize
    PROVE  /\ Collected("update", out) \in Seq(1..BatchSize)
           /\ Times(Collected("update", out), id) = Epochs
  <1> DEFINE g == GroupSize["update"]
             s == RowsPerDp("update")
             d == DpSize("update")
             parts == [i \in 1..World |-> IF Collects("update", i - 1) THEN out[i - 1] ELSE <<>>]
             R == 1..BatchSize
  <1>1. "update" \in Meshes
    BY DEF Meshes, Calls
  <1>2. /\ g \in Nat \ {0} /\ s \in Nat \ {0} /\ d \in Nat \ {0} /\ World = g * d /\ BatchSize = s * d
        /\ World \in Nat \ {0} /\ Epochs \in Nat
    BY <1>1, MeshShape, BatchSizeNat, TrainingAssumption DEF Shape
  <1>3. PICK pos \in 1..BatchSize : batch[pos].id = id
    <2>1. Permutes([i \in 1..BatchSize |-> batch[i].id], BatchSize)
      BY DEF FullBatch
    <2> QED  BY <2>1 DEF Permutes
  <1>4. PICK q \in 0 .. d - 1, x \in 1..s : pos = s * q + x
    <2>1. s \in Int /\ s > 0 /\ d \in Nat /\ pos \in 1 .. s * d
      BY <1>2
    <2> HIDE DEF s, d
    <2> QED  BY ONLY <2>1, InBlock
  <1>5. \A r \in Ranks : /\ out[r] \in Seq(R)
                         /\ Times(out[r], id) = IF DpRank("update", r) = q THEN Epochs ELSE 0
    BY <1>3, <1>4, RankUses
  <1>6. \A i \in 1..World : i - 1 \in Ranks /\ parts[i] =
            IF (i - 1) % g = 0 THEN out[i - 1] ELSE <<>>
    BY <1>2 DEF Collects, Ranks
  <1>7. \A i \in 1..World : DpRank("update", i - 1) = (i - 1) \div g
    BY DEF DpRank
  <1>8. parts = [i \in 1..World |-> parts[i]]
    OBVIOUS
  <1>9. Collected("update", out) = FlattenSeq(parts)
    BY DEF Collected
  <1> HIDE DEF parts, g, s, d, R
  <1> DEFINE n == g * q + 1
  <1>10. n \in 1..World /\ g * q \in Nat
    <2>1. q \in Int /\ d \in Int /\ q < d /\ q >= 0 /\ g \in Int /\ g > 0
      BY <1>2
    <2>2. g * q + g <= g * d
      BY <2>1, NextBlock
    <2>3. g * q \in Nat
      BY <1>2
    <2> QED  BY <2>2, <2>3, <1>2
  <1>11. ASSUME NEW i \in 1..World
         PROVE  ((i - 1) % g = 0 /\ (i - 1) \div g = q) <=> i = n
    <2>1. i - 1 \in Int /\ g \in Int /\ g > 0
      BY <1>2
    <2>2. i - 1 = g * ((i - 1) \div g) + ((i - 1) % g)
      BY <2>1, Division
    <2>3. (g * q + 0) \div g = q /\ (g * q + 0) % g = 0
      <3>1. 0 \in 0 .. g - 1 /\ q \in Int
        BY <1>2
      <3> QED  BY <3>1, <2>1, QuotientIs
    <2> QED  BY <2>1, <2>2, <2>3, <1>10
  <1>12. ASSUME NEW i \in 1..World
         PROVE  parts[i] \in Seq(R) /\ Times(parts[i], id) = IF i = n THEN Epochs ELSE 0
    <2>1. CASE (i - 1) % g = 0
      BY <2>1, <1>5, <1>6, <1>7, <1>11
    <2>2. CASE (i - 1) % g # 0
      <3>1. parts[i] = <<>> /\ i # n
        BY <2>2, <1>6, <1>11
      <3>2. Times(<<>>, id) = 0
        BY TimesNone DEF Hit
      <3> QED  BY <3>1, <3>2
    <2> QED  BY <2>1, <2>2
  <1> HIDE DEF n
  <1>13. OnlyIn(parts, World, R, id, n, Epochs)
    BY <1>2, <1>8, <1>10, <1>12 DEF OnlyIn
  <1>14. FlattenSeq(parts) \in Seq(R) /\ Times(FlattenSeq(parts), id) = Epochs
    BY ONLY <1>2, <1>13, JoinTimes
  <1> QED  BY <1>9, <1>14 DEF R

\* The update has used every row once per epoch.
TrainedInv ==
    /\ DOMAIN trained = 1..BatchSize
    /\ phase \in {"evaluate", "done"} => \A id \in 1..BatchSize : trained[id] = Epochs

\* The driver counts them.
LEMMA UpdateTrains == StepInv /\ RoundInv /\ TrainedInv /\ UpdateReturns => TrainedInv'
  <1> SUFFICES ASSUME StepInv, RoundInv, TrainedInv, UpdateReturns  PROVE  TrainedInv'
    OBVIOUS
  <1> DEFINE used == Collected("update", out)
  <1>1. /\ phase = "update" /\ AllFinished
        /\ trained' = [id \in DOMAIN trained |-> Quantify(DOMAIN used, LAMBDA i : used[i] = id)]
    BY DEF UpdateReturns
  <1>2. FullBatch(config, batch) /\ AllRounds
    BY <1>1 DEF StepInv, BatchInv, RoundInv, AllFinished, AllRounds
  <1>3. \A id \in 1..BatchSize : Times(used, id) = Epochs
    BY <1>2, CollectedUses
  <1> HIDE DEF used
  <1>4. trained' = [id \in 1..BatchSize |-> Times(used, id)]
    BY <1>1 DEF TrainedInv, Times, Quantify
  <1> QED  BY <1>3, <1>4 DEF TrainedInv

\* The whole invariant of the results.
OwnInv == StepInv /\ ColumnsInv /\ RoundInv /\ TrainedInv

\* Every step keeps it.
LEMMA OwnStep == OwnInv /\ [Next]_vars => OwnInv'
  <1> SUFFICES ASSUME OwnInv, [Next]_vars  PROVE  OwnInv'
    OBVIOUS
  <1>1. StepInv' /\ ColumnsInv'
    BY StepStep, ColumnsStep DEF OwnInv
  <1>2. ASSUME phase' # "update"  PROVE  RoundInv'
    BY <1>2 DEF RoundInv
  <1>3. ASSUME UNCHANGED trained, phase' \notin {"evaluate", "done"} \/ phase' = phase \/ phase = "evaluate"
        PROVE  TrainedInv'
    BY <1>3 DEF OwnInv, TrainedInv
  <1>4. CASE UNCHANGED <<phase, batch, at, micro, out, trained>>
    <2>1. RoundInv'
      BY <1>4 DEF OwnInv, RoundInv, Rounds, IdAt, RowIds
    <2> QED  BY <2>1, <1>1, <1>3, <1>4 DEF OwnInv
  <1>5. CASE Launch \/ Rollout
    BY <1>1, <1>2, <1>3, <1>5 DEF Launch, Rollout, Generate, OwnInv
  <1>6. CASE Balance
    BY <1>1, <1>2, <1>3, <1>6 DEF Balance, Send, OwnInv
  <1>7. ASSUME NEW r \in Ranks, Enter(r)  PROVE  OwnInv'
    BY <1>4, <1>7 DEF Enter
  <1>8. ASSUME NEW r \in Ranks, Fail(r)  PROVE  OwnInv'
    BY <1>1, <1>2, <1>3, <1>8 DEF Fail, OwnInv
  <1>9. CASE Reduce
    <2>1. RoundInv'
      BY <1>9, RoundReduce DEF OwnInv
    <2>2. UNCHANGED trained /\ phase' = phase
      BY <1>9 DEF Reduce
    <2> QED  BY <2>1, <2>2, <1>1, <1>3 DEF OwnInv
  <1>10. CASE RunForward
    <2>1. RoundInv'
      BY <1>10, RoundForward DEF OwnInv
    <2>2. UNCHANGED trained /\ phase' = phase
      BY <1>10 DEF RunForward
    <2> QED  BY <2>1, <2>2, <1>1, <1>3 DEF OwnInv
  <1>11. CASE StudentReturns
    BY <1>1, <1>2, <1>3, <1>11 DEF StudentReturns, Send, OwnInv
  <1>12. CASE TeacherReturns
    <2>1. Send("update") /\ phase' = "update" /\ UNCHANGED trained
      BY <1>12 DEF TeacherReturns, Send
    <2> QED  BY <2>1, <1>1, <1>3, SentUnused DEF OwnInv
  <1>13. CASE UpdateReturns
    <2>1. phase' = "evaluate"
      BY <1>13 DEF UpdateReturns
    <2> QED  BY <2>1, <1>1, <1>2, <1>13, UpdateTrains DEF OwnInv
  <1>14. CASE Evaluate
    BY <1>1, <1>2, <1>3, <1>14 DEF Evaluate, OwnInv
  <1>15. CASE UNCHANGED vars
    BY <1>4, <1>15 DEF vars, workers
  <1>16. CASE Ended
    BY <1>15, <1>16 DEF Ended
  <1> QED
    BY <1>5, <1>6, <1>7, <1>8, <1>9, <1>10, <1>11, <1>12, <1>13, <1>14, <1>15, <1>16 DEF Next

\* It holds at the start.
LEMMA OwnInit == Init => OwnInv
  <1> SUFFICES ASSUME Init  PROVE  OwnInv
    OBVIOUS
  <1>1. phase = "launch" /\ batch = <<>> /\ trained = [id \in 1..BatchSize |-> 0]
    BY DEF Init
  <1>2. StepInv
    BY StepInit
  <1> QED  BY <1>1, <1>2 DEF OwnInv, ColumnsInv, ColumnInv, ResultInv, RoundInv, TrainedInv

\* On every mesh and for every division into micro-batches a row gets its own
\* results back: the prompt it answers, the log-probabilities of the student and
\* of the teacher, and one update per epoch, whatever the order in which
\* _balance_batch, rearrange_micro_batches and the mini-batches take the rows
\* (decorator.py, restore_dynamic_batch, dp_actor.py).
THEOREM OwnResultsAlways == Spec => []OwnResults
  <1>1. OwnInv => OwnResults
    <2> SUFFICES ASSUME OwnInv  PROVE  OwnResults
      OBVIOUS
    <2>1. \A i \in DOMAIN batch : batch[i].answers = batch[i].prompt
      <3> SUFFICES ASSUME NEW i \in DOMAIN batch  PROVE  batch[i].answers = batch[i].prompt
        OBVIOUS
      <3>1. batch # <<>>
        OBVIOUS
      <3>2. FullBatch(config, batch)
        BY <3>1 DEF OwnInv, StepInv, BatchInv
      <3> QED  BY <3>2 DEF FullBatch, RowInv
    <2> QED  BY <2>1 DEF OwnInv, ColumnsInv, ResultInv, TrainedInv, OwnResults
  <1> QED  BY <1>1, OwnInit, OwnStep, PTL DEF Spec

-----------------------------------------------------------------------------
(* Types.                                                                   *)

\* The driver's phases.
Phases == {"launch", "rejected", "rollout", "balance", "evaluate", "done", "failed"} \union Calls

\* The results in the rows are ids.
ValuesInv == \A i \in DOMAIN batch : batch[i].student \in 0..BatchSize /\ batch[i].teacher \in 0..BatchSize

\* Where a rank stands and what it has.
RankTyped(p, mic, results) ==
    /\ p = Finished \/ p \in (1..MiniBatches("update")) \X (0..BatchSize)
    /\ Len(mic) <= BatchSize
    /\ results \in Seq(1..BatchSize)

\* The same of all ranks.
WorkersInv ==
    /\ waiting \subseteq Ranks
    /\ \A r \in Ranks : RankTyped(at[r], micro[r], out[r])

\* What type correctness adds to the invariant of the results.
TypeInv ==
    /\ phase \in Phases
    /\ ValuesInv
    /\ WorkersInv
    /\ \A id \in DOMAIN trained : trained[id] \in 0..Epochs

\* Every call has at most as many mini-batches as the update.
LEMMA UpdateHasMost ==
    ASSUME NEW call \in Calls
    PROVE  MiniBatches(call) \in Nat \ {0} /\ MiniBatches(call) <= MiniBatches("update")
  <1>1. MiniBatches(call) \in Nat \ {0} /\ MiniBatches("update") \in Nat \ {0}
    <2>1. "update" \in Calls
      BY DEF Calls
    <2> QED  BY <2>1, MiniBatchesPositive
  <1>2. CASE call = "update"
    BY <1>1, <1>2
  <1>3. CASE call # "update"
    <2>1. MiniBatches(call) = 1
      BY <1>3 DEF MiniBatches
    <2> QED  BY <2>1, <1>1
  <1> QED  BY <1>2, <1>3

\* A call starts with typed workers.
LEMMA SentTyped == ASSUME NEW call \in Calls, Send(call)  PROVE  WorkersInv'
  <1>1. /\ waiting' = {}
        /\ \A r \in Ranks : at'[r] = <<1, 0>> /\ micro'[r] = <<>> /\ out'[r] = <<>>
    BY DEF Send
  <1>2. MiniBatches("update") \in Nat \ {0} /\ BatchSize \in Nat
    BY MiniBatchesPositive, BatchSizeNat DEF Calls
  <1>3. RankTyped(<<1, 0>>, <<>>, <<>>)
    <2>1. <<1, 0>> \in (1..MiniBatches("update")) \X (0..BatchSize)
      BY <1>2
    <2>2. Len(<<>>) <= BatchSize /\ <<>> \in Seq(1..BatchSize)
      BY <1>2
    <2> QED  BY <2>1, <2>2 DEF RankTyped
  <1> QED  BY <1>1, <1>3 DEF WorkersInv

\* The reduction gives no rank more micro-batches than the batch has rows.
LEMMA TypedReduce == StepInv /\ WorkersInv /\ Reduce => WorkersInv'
  <1> SUFFICES ASSUME StepInv, WorkersInv, Reduce  PROVE  WorkersInv'
    OBVIOUS
  <1>1. phase \in Calls /\ waiting' = {} /\ out' = out
    BY DEF Reduce
  <1>2. PICK m \in 1..MiniBatches(phase), num \in Nat : ReducedTo(m, num)
    BY Reduced
  <1>3. /\ MiniBatches(phase) \in Nat /\ MiniBatches("update") \in Nat
        /\ MiniBatches(phase) <= MiniBatches("update") /\ m \in Nat \ {0}
    BY <1>1, UpdateHasMost DEF Calls
  <1> DEFINE s == RowsPerDp(phase)
             d == DpSize(phase)
             n == MiniSize(phase, m)
  <1>4. BatchSize \in Nat \ {0} /\ num <= BatchSize
    <2>1. phase \in Meshes
      BY <1>1 DEF Meshes
    <2>2. BatchSize = s * d /\ s \in Nat \ {0} /\ d \in Nat \ {0}
      BY <2>1, MeshShape DEF Shape
    <2>3. MiniFirst(phase, m) \in Nat /\ n \in Nat \ {0} /\ MiniFirst(phase, m) + n <= s
      BY <1>1, <1>3, MiniBatchFits
    <2>4. num \in 1..n
      BY <1>2 DEF ReducedTo
    <2> HIDE DEF s, d, n
    <2>5. s * (d - 1) >= 0 /\ s * d = s * (d - 1) + s
      <3>1. d - 1 \in Nat /\ s \in Nat
        BY <2>2
      <3>2. s * (d - 1) \in Nat
        BY <3>1
      <3>3. s * d = s * (d - 1) + s
        BY <2>2
      <3> QED  BY <3>2, <3>3
    <2> QED  BY <2>2, <2>3, <2>4, <2>5, BatchSizeNat
  <1>5. ASSUME NEW r \in Ranks  PROVE  RankTyped(at'[r], micro'[r], out'[r])
    <2>1. at'[r] = <<m, 1>> /\ Len(micro'[r]) = num
      BY <1>2 DEF ReducedTo
    <2>2. <<m, 1>> \in (1..MiniBatches("update")) \X (0..BatchSize)
      <3>1. m \in 1..MiniBatches("update") /\ 1 \in 0..BatchSize
        BY <1>3, <1>4
      <3> QED  BY <3>1
    <2>3. out'[r] \in Seq(1..BatchSize)
      BY <1>1 DEF WorkersInv, RankTyped
    <2> QED  BY <2>1, <2>2, <2>3, <1>4 DEF RankTyped
  <1> QED  BY <1>1, <1>5 DEF WorkersInv

\* A forward pass adds ids and goes on to one that exists.
LEMMA TypedForward == StepInv /\ WorkersInv /\ RunForward => WorkersInv'
  <1> SUFFICES ASSUME StepInv, WorkersInv, RunForward  PROVE  WorkersInv'
    OBVIOUS
  <1>1. PICK m \in 1..MiniBatches(phase), op \in 1..BatchSize :
            /\ \A r \in Ranks : at[r] = <<m, op>>
            /\ at' = [r \in Ranks |-> NextAt(m, op, Len(micro[r]))]
    BY DEF RunForward
  <1>2. /\ phase \in Calls /\ waiting' = {} /\ micro' = micro
        /\ out' = [r \in Ranks |-> out[r] \o [i \in DOMAIN Forward(r) |-> Forward(r)[i].id]]
    BY DEF RunForward
  <1>3. /\ MiniBatches(phase) \in Nat /\ MiniBatches("update") \in Nat /\ BatchSize \in Nat
        /\ MiniBatches(phase) <= MiniBatches("update") /\ m \in Nat \ {0} /\ op \in Nat \ {0}
    BY <1>2, UpdateHasMost, BatchSizeNat DEF Calls
  <1>4. ASSUME NEW r \in Ranks  PROVE  RankTyped(at'[r], micro'[r], out'[r])
    <2> DEFINE k == Len(micro[r])
               added == [i \in DOMAIN Forward(r) |-> Forward(r)[i].id]
               old == out[r]
    <2>1. FullBatch(config, batch) /\ Place(phase, at[r], micro[r]) /\ RankTyped(at[r], micro[r], out[r])
      BY <1>2 DEF StepInv, BatchInv, WorkInv, WorkersInv, Calls
    <2>2. at[r] = <<m, op>> /\ at[r] # Finished /\ at[r][2] > 0
      BY <1>1, <1>3 DEF Finished
    <2>3. k \in Nat /\ op <= k /\ k <= BatchSize
      BY <2>1, <2>2 DEF Place, RankTyped
    <2>4. out'[r] \in Seq(1..BatchSize)
      <3>1. added \in Seq(RowIds(phase, r))
        BY <1>2, <2>1, <2>2, ForwardAdds DEF Adds
      <3>2. phase \in Meshes
        BY <1>2 DEF Meshes
      <3>3. DistinctIds(phase, r)
        BY <2>1, <3>2, IdsAreDistinct
      <3>4. RowIds(phase, r) \subseteq 1..BatchSize
        BY <3>3 DEF RowIds, DistinctIds
      <3>5. old \in Seq(1..BatchSize) /\ out'[r] = old \o added
        BY <1>2, <2>1 DEF RankTyped
      <3> HIDE DEF added, old
      <3>6. added \in Seq(1..BatchSize)
        BY <3>1, <3>4, SeqMonotonic
      <3>7. old \o added \in Seq(1..BatchSize)
        BY ONLY <3>5, <3>6, ConcatProperties
      <3> QED  BY <3>5, <3>7
    <2>5. at'[r] = Finished \/ at'[r] \in (1..MiniBatches("update")) \X (0..BatchSize)
      <3>1. at'[r] = NextAt(m, op, k)
        BY <1>1
      <3> HIDE DEF k
      <3>2. CASE op < k
        <4>1. at'[r] = <<m, op + 1>>
          <5>1. ~(op >= k /\ m < MiniBatches(phase))
            BY <3>2, <2>3, <1>3
          <5> QED  BY <5>1, <3>1, <3>2 DEF NextAt
        <4>2. m \in 1..MiniBatches("update") /\ op + 1 \in 0..BatchSize
          BY <3>2, <2>3, <1>3
        <4>3. <<m, op + 1>> \in (1..MiniBatches("update")) \X (0..BatchSize)
          BY <4>2
        <4> QED  BY <4>1, <4>3
      <3>3. CASE op >= k /\ m < MiniBatches(phase)
        <4>1. at'[r] = <<m + 1, 0>>
          <5>1. ~(op < k)
            BY <3>3, <2>3, <1>3
          <5> QED  BY <5>1, <3>1, <3>3 DEF NextAt
        <4>2. m + 1 \in 1..MiniBatches("update") /\ 0 \in 0..BatchSize
          BY <3>3, <1>3
        <4>3. <<m + 1, 0>> \in (1..MiniBatches("update")) \X (0..BatchSize)
          BY <4>2
        <4> QED  BY <4>1, <4>3
      <3>4. CASE ~(op < k) /\ ~(op >= k /\ m < MiniBatches(phase))
        BY <3>1, <3>4 DEF NextAt
      <3> QED  BY <3>2, <3>3, <3>4, <2>3, <1>3
    <2> QED  BY <2>3, <2>4, <2>5, <1>2 DEF RankTyped
  <1> QED  BY <1>2, <1>4 DEF WorkersInv

\* The values that join the rows are ids.
LEMMA TypedReturns == OwnInv /\ ValuesInv /\ (StudentReturns \/ TeacherReturns) => ValuesInv'
  <1> SUFFICES ASSUME OwnInv, ValuesInv, NEW f \in {"student", "teacher"}, phase = f, AllFinished,
                      batch' = WithColumn(batch, f, Collected(f, [r \in Ranks |-> Returned(r)]))
               PROVE  ValuesInv'
    BY DEF StudentReturns, TeacherReturns, WithColumn
  <1> DEFINE column == Collected(f, [r \in Ranks |-> Returned(r)])
             t == WithColumn(batch, f, column)
  <1>1. column = Ids
    BY ColumnIsIds DEF OwnInv, ColumnsInv
  <1> HIDE DEF column
  <1>2. FullBatch(config, batch)
    BY DEF OwnInv, StepInv, BatchInv
  <1>3. /\ FullBatch(config, t)
        /\ \A i \in 1..BatchSize : /\ t[i][f] = column[i]
                                   /\ \A e \in Fields \ {f} : t[i][e] = batch[i][e]
    BY <1>2, ColumnFills
  <1>4. DOMAIN t = 1..BatchSize /\ DOMAIN batch = 1..BatchSize
    BY <1>2, <1>3 DEF FullBatch
  <1>5. \A i \in 1..BatchSize : Ids[i] \in 1..BatchSize
    BY <1>2 DEF Ids, FullBatch, RowInv
  <1> HIDE DEF t
  <1>6. \A i \in 1..BatchSize : t[i].student \in 0..BatchSize /\ t[i].teacher \in 0..BatchSize
    <2> SUFFICES ASSUME NEW i \in 1..BatchSize
                 PROVE  t[i].student \in 0..BatchSize /\ t[i].teacher \in 0..BatchSize
      OBVIOUS
    <2>1. t[i][f] \in 0..BatchSize
      BY <1>1, <1>3, <1>5, BatchSizeNat
    <2>2. batch[i].student \in 0..BatchSize /\ batch[i].teacher \in 0..BatchSize
      BY <1>4 DEF ValuesInv
    <2>3. CASE f = "student"
      <3>1. t[i].teacher = batch[i].teacher
        BY <2>3, <1>3 DEF Fields
      <3> QED  BY <2>1, <2>2, <2>3, <3>1
    <2>4. CASE f = "teacher"
      <3>1. t[i].student = batch[i].student
        BY <2>4, <1>3 DEF Fields
      <3> QED  BY <2>1, <2>2, <2>4, <3>1
    <2> QED  BY <2>3, <2>4
  <1> QED  BY <1>4, <1>6 DEF ValuesInv, t, column

\* Every step keeps the types.
LEMMA TypeStep == OwnInv /\ TypeInv /\ [Next]_vars => TypeInv'
  <1> SUFFICES ASSUME OwnInv, TypeInv, [Next]_vars  PROVE  TypeInv'
    OBVIOUS
  <1>1. OwnInv'
    BY OwnStep
  <1>2. ASSUME phase' \in Phases, UNCHANGED <<batch, workers, trained>>  PROVE  TypeInv'
    BY <1>2 DEF workers, TypeInv, ValuesInv, WorkersInv
  <1>3. CASE Launch \/ Evaluate
    BY <1>2, <1>3 DEF Launch, Evaluate, Phases
  <1>4. CASE Rollout
    <2>1. PICK lengths, inner, last, cut : Generate(lengths, inner, last, cut)
      BY <1>4 DEF Rollout
    <2>2. /\ DOMAIN batch' = 1..BatchSize
          /\ \A i \in 1..BatchSize : batch'[i].student = 0 /\ batch'[i].teacher = 0
      BY <2>1 DEF Generate
    <2>3. phase' = "balance" /\ UNCHANGED <<workers, trained>>
      BY <2>1 DEF Generate
    <2> QED  BY <2>2, <2>3, BatchSizeNat DEF workers, TypeInv, ValuesInv, WorkersInv, Phases
  <1>5. CASE Balance
    <2> DEFINE order == BalancedOrder(Works(batch), World)
    <2>1. /\ phase' = "student" /\ Send("student") /\ trained' = trained
          /\ batch' = Reordered(batch, order) /\ FullBatch(config, batch)
      BY <1>5 DEF Balance, Send, OwnInv, StepInv, BatchInv
    <2>2. Permutes(order, BatchSize)
      <3>1. DOMAIN Works(batch) = 1..BatchSize
        BY <2>1 DEF Works, FullBatch
      <3> QED  BY <3>1, BatchSizeNat, BalancedOrderPermutes
    <2> HIDE DEF order
    <2>3. DOMAIN batch' = 1..BatchSize /\ \A i \in 1..BatchSize : batch'[i] = batch[order[i]]
      BY <2>1, <2>2 DEF Reordered, Permutes
    <2>4. ValuesInv'
      <3>1. \A i \in 1..BatchSize : order[i] \in DOMAIN batch
        BY <2>1, <2>2 DEF Permutes, FullBatch
      <3>2. \A i \in DOMAIN batch : batch[i].student \in 0..BatchSize /\ batch[i].teacher \in 0..BatchSize
        BY DEF TypeInv, ValuesInv
      <3> QED  BY ONLY <2>3, <3>1, <3>2 DEF ValuesInv
    <2>5. WorkersInv'
      BY <2>1, SentTyped DEF Calls
    <2> QED  BY <2>1, <2>4, <2>5 DEF TypeInv, Phases, Calls
  <1>6. ASSUME NEW r \in Ranks, Enter(r)  PROVE  TypeInv'
    BY <1>6 DEF Enter, TypeInv, ValuesInv, WorkersInv
  <1>7. ASSUME NEW r \in Ranks, Fail(r)  PROVE  TypeInv'
    BY <1>2, <1>7 DEF Fail, Phases
  <1>8. CASE Reduce \/ RunForward
    <2>1. WorkersInv'
      BY <1>8, TypedReduce, TypedForward DEF OwnInv, TypeInv
    <2>2. UNCHANGED <<phase, batch, trained>>
      BY <1>8 DEF Reduce, RunForward
    <2> QED  BY <2>1, <2>2 DEF TypeInv, ValuesInv
  <1>9. CASE StudentReturns \/ TeacherReturns
    <2>1. ValuesInv'
      BY <1>9, TypedReturns DEF TypeInv
    <2>2. PICK call \in {"teacher", "update"} : phase' = call /\ Send(call)
      BY <1>9 DEF StudentReturns, TeacherReturns, Send
    <2>3. WorkersInv'
      BY <2>2, SentTyped DEF Calls
    <2>4. trained' = trained
      BY <1>9 DEF StudentReturns, TeacherReturns
    <2> QED  BY <2>1, <2>2, <2>3, <2>4 DEF TypeInv, Phases, Calls
  <1>10. CASE UpdateReturns
    <2>1. phase' = "evaluate" /\ UNCHANGED <<batch, workers>>
      BY <1>10 DEF UpdateReturns
    <2>2. \A id \in DOMAIN trained' : trained'[id] \in 0..Epochs
      BY <1>1, <2>1, TrainingAssumption DEF OwnInv, TrainedInv
    <2> QED  BY <2>1, <2>2 DEF workers, TypeInv, ValuesInv, WorkersInv, Phases
  <1>11. CASE UNCHANGED vars
    BY <1>11 DEF vars, workers, TypeInv, ValuesInv, WorkersInv
  <1>12. CASE Ended
    BY <1>11, <1>12 DEF Ended
  <1> QED
    BY <1>3, <1>4, <1>5, <1>6, <1>7, <1>8, <1>9, <1>10, <1>11, <1>12 DEF Next

\* The types hold at the start.
LEMMA TypeInit == Init => TypeInv
  <1> SUFFICES ASSUME Init  PROVE  TypeInv
    OBVIOUS
  <1>1. BatchSize \in Nat /\ Epochs \in Nat
    BY BatchSizeNat, TrainingAssumption
  <1>2. RankTyped(Finished, <<>>, <<>>)
    <2>1. Len(<<>>) <= BatchSize /\ <<>> \in Seq(1..BatchSize)
      BY <1>1
    <2> QED  BY <2>1 DEF RankTyped
  <1> QED  BY <1>1, <1>2 DEF Init, TypeInv, Phases, ValuesInv, WorkersInv

\* The state of driver and workers is well typed, in a run that failed half-way
\* too: no rank goes past the last mini-batch, has more micro-batches than the
\* batch has rows, or uses a row more often than there are epochs.
THEOREM TypeCorrect == Spec => []TypeOK
  <1>1. OwnInv /\ TypeInv => TypeOK
    <2> SUFFICES ASSUME OwnInv, TypeInv  PROVE  TypeOK
      OBVIOUS
    <2> DEFINE top == Max({BatchSize, ResponseLength})
    <2>1. top \in Nat /\ BatchSize <= top /\ ResponseLength <= top /\ BatchSize \in Nat /\ ResponseLength \in Nat
      <3>1. BatchSize \in Nat /\ ResponseLength \in Nat
        BY BatchSizeNat, TrainingAssumption
      <3> QED  BY <3>1, MaxOfTwo
    <2> HIDE DEF top
    <2>2. Len(batch) \in {0, BatchSize}
      BY DEF OwnInv, StepInv, BatchInv, FullBatch
    <2>3. ASSUME NEW i \in DOMAIN batch
          PROVE  /\ {batch[i].id, batch[i].generated} \subseteq 1..top
                 /\ {batch[i].student, batch[i].teacher} \subseteq 0..BatchSize
                 /\ {batch[i].prompt, batch[i].answers} \subseteq 1..Prompts
      <3>1. batch # <<>>
        OBVIOUS
      <3>2. RowInv(config, batch[i])
        BY <3>1 DEF OwnInv, StepInv, BatchInv, FullBatch
      <3>3. batch[i].id \in 1..BatchSize /\ batch[i].generated \in 1..ResponseLength
        BY <3>2 DEF RowInv
      <3>4. {batch[i].id, batch[i].generated} \subseteq 1..top
        BY <3>3, <2>1
      <3> QED  BY <3>2, <3>4 DEF RowInv, TypeInv, ValuesInv
    <2>4. ASSUME NEW r \in Ranks  PROVE  ToSet(out[r]) \subseteq 1..BatchSize
      <3>1. out[r] \in Seq(1..BatchSize)
        BY DEF TypeInv, WorkersInv, RankTyped
      <3>2. \A x \in DOMAIN out[r] : out[r][x] \in 1..BatchSize
        BY <3>1, LenProperties, ElementOfSeq
      <3> QED  BY <3>2 DEF ToSet
    <2>5. config \in Runs
      BY DEF OwnInv, StepInv, RunInv
    <2> QED  BY <2>2, <2>3, <2>4, <2>5 DEF TypeOK, TypeInv, Phases, WorkersInv, RankTyped, top
  <1> QED  BY <1>1, OwnInit, OwnStep, TypeInit, TypeStep, PTL DEF Spec
-----------------------------------------------------------------------------
(* The balance.                                                             *)

\* The n-th smallest of values that rise along a permutation.
LEMMA NthIs ==
    ASSUME NEW n \in Nat \ {0}, NEW f, DOMAIN f = 1..n, Values(f, 1..n), NEW r, Permutes(r, n),
           \A i, j \in 1..n : i <= j => f[r[i]] <= f[r[j]], NEW m \in 1..n
    PROVE  Nth(f, m) = f[r[m]]
  <1> DEFINE v == f[r[m]]
             below(x) == {i \in 1..n : f[i] <= x}
             first(l) == {r[j] : j \in 1..l}
             S == {x \in Range(f) : Cardinality(below(x)) >= m}
  <1>1. Nth(f, m) = Min(S)
    BY DEF Nth, Quantify
  <1>2. /\ \A i \in 1..n : r[i] \in 1..n /\ f[i] \in Nat
        /\ \A i, j \in 1..n : r[i] = r[j] => i = j
        /\ \A j \in 1..n : \E i \in 1..n : r[i] = j
    BY DEF Permutes, Values
  <1>3. ASSUME NEW l \in 0..n  PROVE  IsFiniteSet(first(l)) /\ Cardinality(first(l)) = l
    <2> DEFINE g == [j \in 1..l |-> r[j]]
    <2>1. \A j \in 1..l : j \in 1..n
      OBVIOUS
    <2>2. \A i, j \in 1..l : g[i] = g[j] => i = j
      BY <2>1, <1>2
    <2>3. ExistsBijection(1..l, first(l))
      <3>1. g \in Bijection(1..l, first(l))
        BY <2>2 DEF Bijection, Injection, Surjection, IsInjective
      <3> HIDE DEF g, first
      <3> QED  BY <3>1 DEF ExistsBijection
    <2>4. IsFiniteSet(1..l) /\ Cardinality(1..l) = l
      BY FS_Interval
    <2> HIDE DEF g, first
    <2> QED  BY <2>3, <2>4, FS_Bijection
  <1>4. ASSUME NEW x  PROVE  IsFiniteSet(below(x)) /\ Cardinality(below(x)) \in Nat
    <2>1. below(x) \in SUBSET (1..n) /\ IsFiniteSet(1..n)
      BY FS_Interval
    <2> HIDE DEF below
    <2> QED  BY <2>1, FS_Subset, FS_CardinalityType
  <1>5. v \in S
    <2>1. v \in Range(f)
      BY <1>2 DEF Range
    <2>2. ASSUME NEW j \in 1..m  PROVE  r[j] \in below(v)
      <3>1. j \in 1..n /\ j <= m
        OBVIOUS
      <3> QED  BY <3>1, <1>2
    <2>6. first(m) \subseteq below(v)
      BY <2>2
    <2>3. m \in 0..n
      OBVIOUS
    <2> HIDE DEF v, first, below
    <2>4. Cardinality(first(m)) = m /\ Cardinality(first(m)) <= Cardinality(below(v))
      BY <2>6, <2>3, <1>3, <1>4, FS_Subset
    <2>5. Cardinality(below(v)) >= m
      BY <2>4, <1>4
    <2> QED  BY <2>1, <2>5
  <1>6. ASSUME NEW x \in S  PROVE  v <= x
    <2>1. x \in Nat /\ v \in Nat
      <3>1. PICK i \in 1..n : x = f[i]
        BY DEF Range
      <3> QED  BY <3>1, <1>2
    <2>2. Cardinality(below(x)) >= m
      OBVIOUS
    <2>3. CASE ~(v <= x)
      <3>1. ASSUME NEW i \in below(x)  PROVE  i \in first(m - 1)
        <4>1. PICK j \in 1..n : r[j] = i
          BY <1>2
        <4>2. f[i] <= x /\ f[i] \in Nat
          BY <1>2
        <4>3. ~(f[r[m]] <= f[r[j]])
          BY <4>1, <4>2, <2>1, <2>3
        <4>4. ~(m <= j)
          BY <4>3
        <4>5. j \in 1 .. m - 1
          BY <4>4
        <4> QED  BY <4>1, <4>5
      <3>2. below(x) \subseteq first(m - 1)
        BY <3>1
      <3>3. m - 1 \in 0..n
        OBVIOUS
      <3> HIDE DEF v, first, below
      <3>4. Cardinality(first(m - 1)) = m - 1 /\ Cardinality(below(x)) <= Cardinality(first(m - 1))
        BY <3>2, <3>3, <1>3, FS_Subset
      <3> QED  BY <3>4, <2>2, <1>4
    <2> QED  BY <2>3
  <1>7. S \subseteq Nat
    BY <1>2 DEF Range
  <1> HIDE DEF S
  <1>8. Min(S) \in S /\ \A x \in S : Min(S) <= x
    BY <1>5, <1>7, LeastIsIn
  <1> HIDE DEF v
  <1>9. Min(S) = v
    <2> DEFINE c == Min(S)
    <2>1. c \in Nat /\ v \in Nat /\ c <= v /\ v <= c
      BY <1>5, <1>6, <1>7, <1>8
    <2> HIDE DEF c
    <2>2. c = v
      BY ONLY <2>1
    <2> QED  BY <2>2 DEF c
  <1> QED  BY <1>1, <1>9 DEF v

\* The chunks of q rows differ by no more work than two rows that k consecutive
\* ones of the sorted rows span.
EvenChunks(works, k, q) ==
    Spread(works, Chunks(k, q)) <= Max({Nth(works, k * g) - Nth(works, k * (g - 1) + 1) : g \in 1..q})

\* The ranks' chunks are even, by what the reordered batch itself shows.
LEMMA ReorderedSpread ==
    ASSUME NEW n \in Nat \ {0}, NEW k \in Nat \ {0}, NEW q \in Nat \ {0}, n = k * q, NEW work,
           DOMAIN work = 1..n, Positive(work, 1..n),
           NEW after, after = [i \in 1..n |-> work[BalancedOrder(work, k)[i]]]
    PROVE  EvenChunks(after, k, q)
  <1> DEFINE rows == Ascending(work, [m \in 1..n |-> m])
             order == BalancedOrder(work, k)
             r == [m \in 1..n |-> CHOOSE i \in 1..n : order[i] = rows[m]]
             v == [g \in 1..q |-> work[rows[k * g]] - work[rows[k * (g - 1) + 1]]]
             d == Max({v[g] : g \in 1..q})
  <1>1. n % k = 0
    <2>1. k \in Int /\ k > 0 /\ q \in Int /\ 0 \in 0 .. k - 1
      OBVIOUS
    <2>2. (k * q + 0) % k = 0
      BY ONLY <2>1, QuotientIs
    <2> QED  BY <2>2
  <1>2. Permutes(order, n)
    BY <1>1, BalancedOrderPermutes
  <1>3. Permutes(rows, n)
    BY RowsPermute
  <1>4. Values(work, 1..n)
    BY PositiveValues
  <1>5. \A i, j \in 1..n : i <= j => work[rows[i]] <= work[rows[j]]
    BY <1>4, RowsRise
  <1>6. after = [i \in 1..n |-> work[order[i]]]
    OBVIOUS
  <1> HIDE DEF rows, order
  <1>7. ASSUME NEW m \in 1..n  PROVE  r[m] \in 1..n /\ order[r[m]] = rows[m] /\ after[r[m]] = work[rows[m]]
    <2>1. rows[m] \in 1..n
      BY <1>3 DEF Permutes
    <2>2. \E i \in 1..n : order[i] = rows[m]
      BY <2>1, <1>2 DEF Permutes
    <2>3. r[m] \in 1..n /\ order[r[m]] = rows[m]
      BY <2>2
    <2> HIDE DEF r
    <2> QED  BY <2>3, <1>6
  <1>8. Permutes(r, n)
    <2>1. r = [m \in 1..n |-> r[m]]
      OBVIOUS
    <2> HIDE DEF r
    <2>2. r \in [1..n -> 1..n]
      BY <2>1, <1>7
    <2>3. ASSUME NEW i \in 1..n, NEW j \in 1..n, r[i] = r[j]  PROVE  i = j
      <3>1. rows[i] = rows[j]
        BY <1>7, <2>3
      <3> QED  BY <3>1, <1>3 DEF Permutes
    <2>4. n \in Nat
      OBVIOUS
    <2> QED  BY <2>2, <2>3, <2>4, InjectionPermutes
  <1> HIDE DEF r
  <1>9. ASSUME NEW m \in 1..n  PROVE  Nth(after, m) = work[rows[m]]
    <2>1. DOMAIN after = 1..n
      BY <1>6
    <2>2. Values(after, 1..n)
      <3> SUFFICES ASSUME NEW i \in 1..n  PROVE  after[i] \in Nat
        BY DEF Values
      <3>1. order[i] \in 1..n
        BY <1>2 DEF Permutes
      <3>2. work[order[i]] \in Nat
        BY <3>1, <1>4 DEF Values
      <3> QED  BY <3>2, <1>6
    <2>3. \A i, j \in 1..n : i <= j => after[r[i]] <= after[r[j]]
      BY <1>5, <1>7
    <2>4. Nth(after, m) = after[r[m]]
      BY ONLY n \in Nat \ {0}, m \in 1..n, <2>1, <2>2, <2>3, <1>8, NthIs
    <2> QED  BY <2>4, <1>7
  <1>10. ASSUME NEW g \in 1..q
         PROVE  k * g \in 1..n /\ k * (g - 1) + 1 \in 1..n /\ k * (g - 1) + 1 <= k * g /\ k * g = k * (g - 1) + k
    <2>1. k \in Int /\ k > 0 /\ q \in Nat /\ g - 1 \in 0 .. q - 1 /\ 1 \in 1..k /\ k \in 1..k
      OBVIOUS
    <2>2. k * (g - 1) + 1 \in 1 .. k * q /\ k * (g - 1) + k \in 1 .. k * q
      BY ONLY <2>1, BlockIn
    <2>3. k * g = k * (g - 1) + k
      OBVIOUS
    <2> DEFINE c == k * (g - 1)
    <2>4. c \in Int
      OBVIOUS
    <2> HIDE DEF c
    <2>5. c + 1 <= c + k
      BY <2>4
    <2> QED  BY <2>2, <2>3, <2>5 DEF c
  <1>11. {Nth(after, k * g) - Nth(after, k * (g - 1) + 1) : g \in 1..q} = {v[g] : g \in 1..q}
    <2>1. \A g \in 1..q : Nth(after, k * g) - Nth(after, k * (g - 1) + 1) = v[g]
      <3> TAKE g \in 1..q
      <3>1. Nth(after, k * g) = work[rows[k * g]] /\ Nth(after, k * (g - 1) + 1) = work[rows[k * (g - 1) + 1]]
        BY <1>9, <1>10
      <3> QED  BY <3>1
    <2> HIDE DEF v
    <2> QED  BY <2>1
  <1>12. Values(v, 1..q)
    <2> SUFFICES ASSUME NEW g \in 1..q  PROVE  v[g] \in Nat
      BY DEF Values
    <2> DEFINE x == rows[k * g]
               y == rows[k * (g - 1) + 1]
    <2>1. x \in 1..n /\ y \in 1..n
      BY <1>3, <1>10 DEF Permutes
    <2>2. work[y] <= work[x]
      BY <1>5, <1>10
    <2>3. v[g] = work[x] - work[y]
      OBVIOUS
    <2> HIDE DEF x, y, v
    <2>4. work[x] \in Nat /\ work[y] \in Nat
      BY <2>1, <1>4 DEF Values
    <2> QED  BY <2>2, <2>3, <2>4
  <1> HIDE DEF v
  <1>13. d \in Nat /\ \A g \in 1..q : v[g] <= d
    BY <1>12, LargestValue
  <1> HIDE DEF d
  <1>14. Narrow(work, n, k, d, TRUE)
    <2>1. n \div k = q
      <3>1. k \in Int /\ k > 0 /\ q \in Int /\ 0 \in 0 .. k - 1
        OBVIOUS
      <3>2. (k * q + 0) \div k = q
        BY ONLY <3>1, QuotientIs
      <3> QED  BY <3>2
    <2>2. ASSUME NEW g \in 0 .. (n \div k) - 1  PROVE  work[rows[k * g + k]] - work[rows[k * g + 1]] <= d
      <3>1. g + 1 \in 1..q /\ (g + 1) - 1 = g
        BY <2>1
      <3>2. v[g + 1] <= d
        BY <3>1, <1>13
      <3>3. k * (g + 1) = k * g + k
        BY <3>1
      <3>4. v[g + 1] = work[rows[k * (g + 1)]] - work[rows[k * g + 1]]
        BY <3>1 DEF v
      <3> QED  BY <3>2, <3>3, <3>4
    <2> QED  BY <2>2 DEF Narrow, rows
  <1>15. Spread(after, Chunks(k, q)) <= d
    BY <1>13, <1>14, BalancedOrderIsEven
  <1> QED  BY <1>11, <1>15 DEF d, EvenChunks

\* What holds of the chunks of the ranks in every call, and of the micro-batches
\* of a rank from its first forward pass on.
ChunkInv == phase \in Calls => EvenChunks(Works(batch), World, BatchSize \div World)

MicroInv ==
    \A call \in Calls, r \in Ranks, m \in Nat, op \in Nat \ {0} :
        phase = call /\ at[r] = <<m, op>> => EvenMicro(MiniBatch(call, r, m), micro[r])

EvenInv == StepInv /\ ChunkInv /\ MicroInv

\* _balance_batch makes the chunks even.
LEMMA BalanceIsEven == StepInv /\ Balance => ChunkInv'
  <1> SUFFICES ASSUME StepInv, Balance  PROVE  ChunkInv'
    OBVIOUS
  <1> DEFINE n == BatchSize
             work == Works(batch)
             order == BalancedOrder(work, World)
             after == Works(batch')
             q == BatchSize \div World
  <1>1. phase = "balance" /\ batch' = Reordered(batch, order)
    BY DEF Balance
  <1>2. FullBatch(config, batch)
    BY <1>1 DEF StepInv, BatchInv
  <1>3. n \in Nat \ {0} /\ World \in Nat \ {0} /\ n % World = 0
    BY BatchSizeNat
  <1>4. n = World * q /\ q \in Nat \ {0}
    <2>1. n = World * q /\ q \in Nat
      <3>1. World \in Int /\ World > 0 /\ n \in Nat
        BY <1>3
      <3> QED  BY <3>1, <1>3, Exactly
    <2> HIDE DEF q, n
    <2> QED  BY <2>1, <1>3
  <1>5. DOMAIN batch = 1..n /\ \A i \in 1..n : RowInv(config, batch[i])
    BY <1>2 DEF FullBatch
  <1> HIDE DEF n, q
  <1>6. work = [i \in 1..n |-> Workload(RowLength(batch[i]))]
    BY <1>5 DEF Works
  <1>7. DOMAIN work = 1..n /\ Positive(work, 1..n)
    <2>1. ASSUME NEW i \in 1..n  PROVE  work[i] \in Nat \ {0}
      <3>1. RowLength(batch[i]) \in Nat \ {0}
        BY <1>5, RowLengthPositive
      <3>2. Workload(RowLength(batch[i])) \in Nat \ {0}
        BY <3>1, WorkloadPositive
      <3> QED  BY <3>2, <1>6
    <2> HIDE DEF work
    <2> QED  BY <2>1, <1>6 DEF Positive
  <1> HIDE DEF work
  <1>8. Permutes(order, n)
    BY <1>3, <1>7, BalancedOrderPermutes
  <1>9. after = [i \in 1..n |-> work[order[i]]]
    <2>1. order \in [1..n -> 1..n] /\ DOMAIN order = 1..n
      BY <1>8 DEF Permutes
    <2> HIDE DEF order
    <2>2. batch' = [i \in 1..n |-> batch[order[i]]]
      BY <1>1, <2>1 DEF Reordered
    <2>3. DOMAIN batch' = 1..n /\ \A i \in 1..n : batch'[i] = batch[order[i]]
      BY <2>2
    <2>4. after = [i \in 1..n |-> Workload(RowLength(batch'[i]))]
      BY <2>3 DEF Works
    <2>5. \A i \in 1..n : work[order[i]] = Workload(RowLength(batch[order[i]]))
      BY <2>1, <1>6
    <2> HIDE DEF after
    <2> QED  BY <2>3, <2>4, <2>5
  <1> HIDE DEF after
  <1>10. EvenChunks(after, World, q)
    <2>1. after = [i \in 1..n |-> work[BalancedOrder(work, World)[i]]]
      BY <1>9 DEF order
    <2> QED  BY ONLY <2>1, <1>3, <1>4, <1>7, ReorderedSpread
  <1> QED  BY <1>10 DEF ChunkInv, after, q

\* A call that was just sent has no micro-batches yet.
LEMMA SentEven == ASSUME NEW call, Send(call)  PROVE  MicroInv'
  <1> SUFFICES ASSUME NEW f \in Calls, NEW r \in Ranks, NEW m \in Nat, NEW op \in Nat \ {0}
               PROVE  at'[r] # <<m, op>>
    BY DEF MicroInv
  <1> QED  BY DEF Send

\* The rows of a mini-batch are those of the batch.
LEMMA MiniBatchKept ==
    ASSUME batch' = batch, NEW call, NEW r, NEW m
    PROVE  MiniBatch(call, r, m)' = MiniBatch(call, r, m)
  BY DEF MiniBatch, Chunk

\* The reduction makes even micro-batches, and the forward passes use them.
LEMMA CollectiveIsEven == EvenInv /\ (Reduce \/ RunForward) => MicroInv'
  <1> SUFFICES ASSUME EvenInv, Reduce \/ RunForward,
                      NEW call \in Calls, NEW r \in Ranks, NEW m \in Nat, NEW op \in Nat \ {0},
                      phase' = call, at'[r] = <<m, op>>
               PROVE  EvenMicro(MiniBatch(call, r, m)', micro'[r])
    BY DEF MicroInv
  <1>1. phase = call /\ batch' = batch
    BY DEF Reduce, RunForward
  <1>2. MiniBatch(call, r, m)' = MiniBatch(call, r, m)
    BY <1>1, MiniBatchKept
  <1>3. CASE Reduce
    <2>1. PICK b \in 1..MiniBatches(phase), num \in Nat : ReducedTo(b, num)
      BY <1>3, Reduced DEF EvenInv
    <2>2. at'[r] = <<b, 1>> /\ EvenMicro(MiniBatch(phase, r, b), micro'[r])
      BY <2>1 DEF ReducedTo
    <2>3. b = m
      BY <2>2
    <2> QED  BY <2>2, <2>3, <1>1, <1>2
  <1>4. CASE RunForward
    <2>1. PICK b \in 1..MiniBatches(phase), o \in 1..BatchSize :
              at[r] = <<b, o>> /\ at'[r] = NextAt(b, o, Len(micro[r]))
      BY <1>4 DEF RunForward
    <2>2. micro' = micro
      BY <1>4 DEF RunForward
    <2>3. at'[r] = <<b, o + 1>>
      BY <2>1 DEF NextAt, Finished
    <2>4. b = m
      BY <2>3
    <2>5. b \in Nat /\ o \in Nat \ {0}
      BY <1>1, <2>1, MiniBatchesPositive, BatchSizeNat
    <2>6. EvenMicro(MiniBatch(call, r, b), micro[r])
      BY <1>1, <2>1, <2>5 DEF EvenInv, MicroInv
    <2> QED  BY <2>2, <2>4, <2>6, <1>2
  <1> QED  BY <1>3, <1>4

\* The columns that join the rows leave their lengths alone.
LEMMA ReturnsKeepWork == StepInv /\ (StudentReturns \/ TeacherReturns) => Works(batch') = Works(batch)
  <1> SUFFICES ASSUME StepInv, NEW f \in {"student", "teacher"}, phase = f, NEW column,
                      batch' = WithColumn(batch, f, column)
               PROVE  Works(batch') = Works(batch)
    BY DEF StudentReturns, TeacherReturns, WithColumn
  <1>1. FullBatch(config, batch)
    BY DEF StepInv, BatchInv
  <1>2. /\ FullBatch(config, batch')
        /\ \A i \in 1..BatchSize : \A e \in Fields \ {f} : batch'[i][e] = batch[i][e]
    BY <1>1, ColumnFills
  <1>3. DOMAIN batch = 1..BatchSize /\ DOMAIN batch' = 1..BatchSize
    BY <1>1, <1>2 DEF FullBatch
  <1>4. \A i \in 1..BatchSize : batch'[i].mask = batch[i].mask
    BY <1>2 DEF Fields
  <1>5. \A i \in 1..BatchSize : RowLength(batch'[i]) = RowLength(batch[i])
    <2> TAKE i \in 1..BatchSize
    <2>1. batch'[i].mask = batch[i].mask
      BY <1>4
    <2> DEFINE length(mask) == PromptLength + Cardinality({k \in DOMAIN mask : mask[k]})
    <2>2. RowLength(batch'[i]) = length(batch'[i].mask) /\ RowLength(batch[i]) = length(batch[i].mask)
      BY DEF RowLength, Quantify
    <2> HIDE DEF length
    <2> QED  BY <2>1, <2>2
  <1> QED  BY <1>3, <1>5 DEF Works

\* Every step keeps the balance.
LEMMA EvenStep == EvenInv /\ [Next]_vars => EvenInv'
  <1> SUFFICES ASSUME EvenInv, [Next]_vars  PROVE  EvenInv'
    OBVIOUS
  <1>1. StepInv'
    BY StepStep DEF EvenInv
  <1>2. ASSUME phase' \notin Calls  PROVE  EvenInv'
    BY <1>1, <1>2 DEF EvenInv, ChunkInv, MicroInv
  <1>3. ASSUME UNCHANGED <<phase, batch, at, micro>>  PROVE  EvenInv'
    <2>1. ChunkInv'
      BY <1>3 DEF EvenInv, ChunkInv
    <2>2. MicroInv'
      <3> SUFFICES ASSUME NEW call \in Calls, NEW r \in Ranks, NEW m \in Nat, NEW op \in Nat \ {0},
                          phase' = call, at'[r] = <<m, op>>
                   PROVE  EvenMicro(MiniBatch(call, r, m)', micro'[r])
        BY DEF MicroInv
      <3>1. MiniBatch(call, r, m)' = MiniBatch(call, r, m)
        BY <1>3, MiniBatchKept
      <3>2. EvenMicro(MiniBatch(call, r, m), micro[r])
        BY <1>3 DEF EvenInv, MicroInv
      <3> QED  BY <3>1, <3>2, <1>3
    <2> QED  BY <1>1, <2>1, <2>2 DEF EvenInv
  <1>4. CASE Launch \/ Rollout \/ UpdateReturns \/ Evaluate
    BY <1>2, <1>4 DEF Launch, Rollout, Generate, UpdateReturns, Evaluate, Calls
  <1>5. CASE Balance
    <2>1. ChunkInv'
      BY <1>5, BalanceIsEven DEF EvenInv
    <2>2. Send("student")
      BY <1>5 DEF Balance
    <2> QED  BY <1>1, <2>1, <2>2, SentEven DEF EvenInv
  <1>6. ASSUME NEW r \in Ranks, Enter(r) \/ Fail(r)  PROVE  EvenInv'
    BY <1>2, <1>3, <1>6 DEF Enter, Fail, Calls
  <1>7. CASE Reduce \/ RunForward
    <2>1. MicroInv'
      BY <1>7, CollectiveIsEven
    <2>2. phase' = phase /\ batch' = batch
      BY <1>7 DEF Reduce, RunForward
    <2>3. ChunkInv'
      BY <2>2 DEF EvenInv, ChunkInv
    <2> QED  BY <1>1, <2>1, <2>3 DEF EvenInv
  <1>8. CASE StudentReturns \/ TeacherReturns
    <2>1. phase \in Calls /\ \E call \in Calls : Send(call)
      BY <1>8 DEF StudentReturns, TeacherReturns, Calls
    <2>2. Works(batch') = Works(batch)
      BY <1>8, ReturnsKeepWork DEF EvenInv
    <2>3. ChunkInv'
      BY <2>1, <2>2 DEF EvenInv, ChunkInv
    <2> QED  BY <1>1, <2>1, <2>3, SentEven DEF EvenInv
  <1>9. CASE UNCHANGED vars
    BY <1>3, <1>9 DEF vars, workers
  <1>10. CASE Ended
    BY <1>9, <1>10 DEF Ended
  <1> QED
    BY <1>4, <1>5, <1>6, <1>7, <1>8, <1>9, <1>10 DEF Next

\* Throughout the calls of a step, whatever the lengths of the responses, the
\* chunks of the ranks and the micro-batches of every rank are as even as the
\* largest differencing method promises (_balance_batch,
\* rearrange_micro_batches, karmarkar_karp).
THEOREM BalancedAlways == Spec => []Balanced
  <1>1. Init => EvenInv
    BY StepInit DEF Init, EvenInv, ChunkInv, MicroInv, Calls
  <1>2. EvenInv => Balanced
    <2> SUFFICES ASSUME EvenInv, phase \in Calls  PROVE  Balanced
      BY DEF Balanced
    <2>1. EvenChunks(Works(batch), World, BatchSize \div World)
      BY DEF EvenInv, ChunkInv
    <2>2. ASSUME NEW r \in Ranks, at[r] # Finished, at[r][2] > 0
          PROVE  EvenMicro(MiniBatch(phase, r, at[r][1]), micro[r])
      <3>1. at[r] \in (1..MiniBatches(phase)) \X Nat /\ MiniBatches(phase) \in Nat
        BY <2>2, MiniBatchesPositive DEF EvenInv, StepInv, WorkInv, Place
      <3>2. at[r] = <<at[r][1], at[r][2]>> /\ at[r][1] \in Nat /\ at[r][2] \in Nat \ {0}
        BY <3>1, <2>2
      <3> QED  BY <3>2 DEF EvenInv, MicroInv
    <2> QED  BY <2>1, <2>2 DEF Balanced, EvenChunks, EvenMicro, Chunks
  <1> QED  BY <1>1, <1>2, EvenStep, PTL DEF Spec
==============================================================================
