--------------------------- MODULE SeqlenBalancing ---------------------------
(***************************************************************************)
(* verl/utils/seqlen_balancing.py: how rows of different lengths are       *)
(* shared out, over the data-parallel ranks and over the micro-batches of  *)
(* one rank.  The rows are the positions of a sequence of workloads and a  *)
(* partition is a sequence of sequences of rows.                           *)
(***************************************************************************)
EXTENDS Integers, Sequences, FiniteSets, SequencesExt, FiniteSetsExt, Functions

\* Floating point operations of one row.  Lengths are counted in blocks of
\* 4096 tokens, so that 24576 s + s^2 is 4096^2 times this.
Workload(blocks) == 6 * blocks + blocks * blocks

Load(work, rows) == SumFunction([i \in DOMAIN rows |-> work[rows[i]]])

Spread(work, parts) ==
    LET loads == {Load(work, parts[i]) : i \in DOMAIN parts}
    IN  Max(loads) - Min(loads)

\* Lexicographic order on sequences of numbers.
LexLess(s, t) ==
    \/ IsStrictPrefix(s, t)
    \/ \E i \in DOMAIN s \intersect DOMAIN t :
          s[i] < t[i] /\ \A j \in 1 .. i - 1 : s[j] = t[j]

\* sorted: the items by their rank, those that tie in the order they had.
\* ranked holds for every item its rank and its position.
Arranged(s, ranked) ==
    LET upTo(p) == {q \in ranked : q[1] < p[1] \/ (q[1] = p[1] /\ q[2] <= p[2])}
    IN  [n \in DOMAIN s |-> s[(CHOOSE p \in ranked : Cardinality(upTo(p)) = n)[2]]]

\* The rank of an item is the number of those that come before it.
InOrder(s, before(_, _)) ==
    Arranged(s, {<<Cardinality({j \in DOMAIN s : before(s[j], s[i])}), i>> : i \in DOMAIN s})

-----------------------------------------------------------------------------
(* karmarkar_karp: the largest differencing method.  A state is a sequence  *)
(* of k sets of rows, the heaviest first.                                   *)

\* Set.__lt__: the sum, then the number of items, then the items.
Heavier(work, s, t) ==
    LexLess(<<Load(work, t), Len(t)>> \o t, <<Load(work, s), Len(s)>> \o s)

Sorted(work, parts) == InOrder(parts, LAMBDA s, t : Heavier(work, s, t))

\* State.__init__ for rows that are to end up in k different sets.
StateOf(work, rows, k) ==
    Sorted(work, [i \in 1..k |-> IF i \in DOMAIN rows THEN <<rows[i]>> ELSE <<>>])

\* A variant the runs must reject: the heaviest set takes the heaviest.
MergeStatesSame(work, s, t) ==
    Sorted(work, [i \in DOMAIN s |-> s[i] \o t[i]])

\* State.merge: the heaviest set of one takes the lightest of the other.
MergeStates(work, s, t) ==
    Sorted(work, [i \in DOMAIN s |-> s[i] \o t[Len(s) + 1 - i]])

\* State.__lt__: the widest spread, then the heaviest first set.
PoppedFirst(work, s, t) ==
    \/ Spread(work, s) > Spread(work, t)
    \/ Spread(work, s) = Spread(work, t) /\ Heavier(work, s[1], t[1])

\* heappop: the state that has the fewest others, namely none, before it.
Popped(work, heap) ==
    LET ranked == {<<Cardinality({t \in heap : PoppedFirst(work, t, s)}), s>> : s \in heap}
    IN  (CHOOSE p \in ranked : \A q \in ranked : p[1] <= q[1])[2]

\* The first state of the heap is merged with the second.
MergeFirst(work, heap) ==
    LET s == Popped(work, heap)
        t == Popped(work, heap \ {s})
    IN  ((heap \ {s}) \ {t}) \union {MergeStates(work, s, t)}

\* The state that is left when all are merged.
Merged(work, heap) ==
    LET h[n \in 0 .. Cardinality(heap) - 1] ==
            IF n = 0 THEN heap ELSE MergeFirst(work, h[n - 1])
    IN  CHOOSE s \in h[Cardinality(heap) - 1] : TRUE

\* The rows from the lightest to the heaviest.
Ascending(work, rows) ==
    InOrder(rows, LAMBDA i, j : LexLess(<<work[i], i>>, <<work[j], j>>))

\* With equal_size every k consecutive rows start in k different sets.
StartHeap(work, k, equalSize) ==
    LET rows == Ascending(work, [i \in DOMAIN work |-> i])
    IN  IF equalSize
        THEN {StateOf(work, SubSeq(rows, k * g + 1, k * g + k), k) : g \in 0 .. (Len(rows) \div k) - 1}
        ELSE {StateOf(work, <<rows[i]>>, k) : i \in DOMAIN rows}

\* get_seqlen_balanced_partitions: every set in the order of its rows.
Partitions(work, k, equalSize) ==
    LET state == Merged(work, StartHeap(work, k, equalSize))
    IN  [i \in 1..k |-> InOrder(state[i], <)]

\* What its callers rely on, and its assertions check.
IsPartitionOf(parts, rows) ==
    /\ \A i \in DOMAIN parts : Len(parts[i]) > 0
    /\ LET all == FlattenSeq(parts)
       IN  IsInjective(all) /\ ToSet(all) = rows

-----------------------------------------------------------------------------
(* The two uses.                                                            *)

Odd(s) == [i \in 1 .. (Len(s) + 1) \div 2 |-> s[2 * i - 1]]
Even(s) == [i \in 1 .. Len(s) \div 2 |-> s[2 * i]]

HeavyInside(s) == Odd(s) \o Reverse(Even(s))
LightOutside(s) == Reverse(Odd(s)) \o Even(s)

\* _balance_batch: the new order of the rows of the whole batch, the heavy
\* rows of each of the k parts in its middle.
BalancedOrder(work, k) ==
    LET arranged(parts) == [i \in DOMAIN parts |-> HeavyInside(Ascending(work, parts[i]))]
    IN  FlattenSeq(arranged(Partitions(work, k, TRUE)))

CeilDiv(a, b) == (a + b - 1) \div b

\* rearrange_micro_batches: how many micro-batches one rank asks for ...
MicroBatchesWanted(lengths, maxTokenLen) ==
    Min({Len(lengths), CeilDiv(SumFunction(lengths), maxTokenLen)})

\* ... and which rows they hold when there are num of them, the light
\* micro-batches at both ends.
MicroBatches(lengths, num) ==
    LET work == [i \in DOMAIN lengths |-> Workload(lengths[i])]
        heavyFirst(s, t) == LexLess(<<Load(work, t), t[1]>>, <<Load(work, s), s[1]>>)
    IN  LightOutside(InOrder(Partitions(work, num, FALSE), heavyFirst))

\* A variant the runs must reject: the order of the micro-batches instead of its inverse.
RestoreForward(results, micro) == LET index == FlattenSeq(micro)
    IN  [row \in DOMAIN index |-> results[index[row]]]

\* restore_dynamic_batch: the results of the micro-batches, one after the
\* other, put back in the order of the rows.
Restore(results, micro) == LET index == FlattenSeq(micro)
    IN  [row \in DOMAIN index |-> results[CHOOSE i \in DOMAIN index : index[i] = row]]
=============================================================================
