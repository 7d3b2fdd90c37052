---------------------------- MODULE TrainingStep -----------------------------
(***************************************************************************)
(* One step of on-policy distillation (RayPPOTrainer.fit, synchronous      *)
(* rollout): the launcher fixes the EOS semantics, the engines generate,   *)
(* the driver reorders the batch, the workers compute the student's and    *)
(* the teacher's log-probabilities and update the student, the checkpoint  *)
(* is evaluated.  A result is the id of the row it was computed from, so   *)
(* that a row that gets another row's result shows.                        *)
(*                                                                         *)
(* The workers are the ranks 0 .. World-1.  A call of the worker group     *)
(* hands every data-parallel group its chunk of the batch; the ranks run   *)
(* it as a sequence of collective operations, and one that another rank    *)
(* never enters is waited for for ever.                                    *)
(***************************************************************************)
EXTENDS EosSemantics, SeqlenBalancing

CONSTANTS
    World,            \* ranks of the worker group
    GroupSize,        \* ranks that share one data-parallel rank, per mesh
    Prompts,          \* train_batch_size
    N,                \* rollout.n, responses per prompt
    Lengths,          \* lengths a response may have, in blocks
    ResponseLength,
    PromptLength,
    MaxTokenLen,      \* per call: the budget of a micro-batch, per rank
    MiniBatchSize,    \* rows of one rank in a mini-batch of the update
    Epochs,           \* ppo_epochs
    Runs,             \* the runs that may be launched
    Text,             \* a token that ends nothing
    None

Calls == {"student", "teacher", "update"}
Meshes == Calls \union {"rollout"}
Ranks == 0 .. World - 1
BatchSize == Prompts * N

DpSize(mesh) == World \div GroupSize[mesh]
RowsPerDp(mesh) == BatchSize \div DpSize(mesh)

ASSUME TrainingAssumption ==
    /\ {World, Prompts, N, ResponseLength, PromptLength, MiniBatchSize, Epochs} \subseteq Nat \ {0}
    /\ Lengths # {} /\ Lengths \subseteq 1..ResponseLength
    /\ GroupSize \in [Meshes -> Nat \ {0}] /\ MaxTokenLen \in [Calls -> Nat]
    /\ \A m \in Meshes :
          /\ World % GroupSize[m] = 0
          /\ BatchSize % DpSize(m) = 0
    /\ BatchSize % World = 0
    /\ \A call \in Calls : MaxTokenLen[call] * GroupSize[call] >= PromptLength + ResponseLength
    /\ \A c \in Runs :
          /\ \A s \in {c.student, c.teacher, c.asked} : s \in Seq(ToSet(s))
          /\ Text \notin ToSet(Student(c)) \union ToSet(Semantic(c))

VARIABLES
    config,     \* the run
    phase,      \* where the driver stands
    batch,      \* the driver's batch, a sequence of rows
    at,         \* per rank: the collective it runs next, <<mini-batch, operation>>
    waiting,    \* the ranks that have entered it
    micro,      \* per rank: the micro-batches of its mini-batch, <<>> if it has none
    out,        \* per rank: results so far, in the order of the micro-batches
    trained,    \* per row id: how often the student was updated with it
    evaluation  \* stop and blocked tokens of the evaluation

workers == <<at, waiting, micro, out>>
vars == <<config, phase, batch, workers, trained, evaluation>>

Finished == <<0, 0>>

Init ==
    /\ config \in Runs
    /\ phase = "launch"
    /\ batch = <<>>
    /\ at = [r \in Ranks |-> Finished]
    /\ waiting = {}
    /\ micro = [r \in Ranks |-> <<>>]
    /\ out = [r \in Ranks |-> <<>>]
    /\ trained = [id \in 1..BatchSize |-> 0]
    /\ evaluation = None

-----------------------------------------------------------------------------
(* The worker group's dispatch and collect functions (decorator.py) and the *)
(* DataProto operations they use.                                           *)

DpRank(mesh, r) == r \div GroupSize[mesh]
Collects(mesh, r) == r % GroupSize[mesh] = 0

\* chunk, then dispatch_nd_compute: the rows of one rank.
Chunk(mesh, r) ==
    LET size == RowsPerDp(mesh) first == DpRank(mesh, r) * size
    IN  SubSeq(batch, first + 1, first + size)

\* collect_nd_compute and concat: what the driver gets from results[r].
Collected(mesh, results) ==
    FlattenSeq([i \in 1..World |-> IF Collects(mesh, i - 1) THEN results[i - 1] ELSE <<>>])

\* repeat with interleave: the prompt of every row.
Repeated == [i \in 1..BatchSize |-> (i - 1) \div N + 1]

-----------------------------------------------------------------------------
(* The launcher and the rollout.                                            *)

Launch ==
    /\ phase = "launch"
    /\ phase' = IF Accepted(config) THEN "rollout" ELSE "rejected"
    /\ UNCHANGED <<config, batch, workers, trained, evaluation>>

\* A response of the engine: tokens that do not end it, the one that does, and
\* padding.  At the length limit it may also be cut.
Response(length, inner, last, cut) ==
    [i \in 1..ResponseLength |->
        CASE i < length -> inner
          [] i = length -> IF cut /\ length = ResponseLength THEN inner ELSE last
          [] OTHER      -> config.pad]

\* The tokens a response may hold without ending.
Inner == {Text} \union ((ToSet(Student(config)) \union ToSet(Semantic(config)))
                            \ (TrainStops(config) \union BadWords(config)))

\* generate_sequences: the ranks of a tensor-parallel group get the same
\* prompts and produce the same responses, which the driver joins to the rows
\* it has repeated itself.
Generate(lengths, inner, last, cut) ==
    LET size == RowsPerDp("rollout")
        given(r) == SubSeq(Repeated, DpRank("rollout", r) * size + 1, (DpRank("rollout", r) + 1) * size)
        answered == Collected("rollout", [r \in Ranks |-> given(r)])
        tokens(i) == Response(lengths[i], inner, last, cut)
    IN  /\ batch' = [i \in 1..BatchSize |->
                        [id |-> i, prompt |-> Repeated[i], answers |-> answered[i],
                         tokens |-> tokens(i), generated |-> lengths[i],
                         mask |-> ResponseMask(tokens(i), MaskTokens(config)),
                         student |-> 0, teacher |-> 0]]
        /\ phase' = "balance"
        /\ UNCHANGED <<config, workers, trained, evaluation>>

Rollout ==
    /\ phase = "rollout"
    /\ \E lengths \in [1..BatchSize -> Lengths], inner \in Inner,
          last \in TrainStops(config), cut \in BOOLEAN : Generate(lengths, inner, last, cut)

-----------------------------------------------------------------------------
(* Calls of the worker group.                                               *)

RowLength(row) == PromptLength + Quantify(DOMAIN row.mask, LAMBDA i : row.mask[i])
RowLengths(rows) == [i \in DOMAIN rows |-> RowLength(rows[i])]

\* The driver sends the call: every rank starts with its first mini-batch.
Send(call) ==
    /\ phase' = call
    /\ at' = [r \in Ranks |-> <<1, 0>>]
    /\ waiting' = {}
    /\ micro' = [r \in Ranks |-> <<>>]
    /\ out' = [r \in Ranks |-> <<>>]

Works(rows) == [i \in DOMAIN rows |-> Workload(RowLength(rows[i]))]
Reordered(rows, order) == [i \in DOMAIN order |-> rows[order[i]]]

\* _balance_batch.
Balance ==
    /\ phase = "balance"
    /\ batch' = Reordered(batch, BalancedOrder(Works(batch), World))
    /\ Send("student")
    /\ UNCHANGED <<config, trained, evaluation>>

\* update_policy splits the rows of a rank into mini-batches and goes through
\* them once per epoch, the other calls take all rows at once.
PerEpoch == CeilDiv(RowsPerDp("update"), MiniBatchSize)

\* A variant the runs must reject: one epoch more.
MiniBatchesAnotherEpoch(call) == IF call = "update" THEN (Epochs + 1) * PerEpoch ELSE 1

MiniBatches(call) == IF call = "update" THEN Epochs * PerEpoch ELSE 1

MiniBatch(call, r, m) ==
    LET rows == Chunk(call, r) first == ((m - 1) % PerEpoch) * MiniBatchSize
    IN  IF call = "update" THEN SubSeq(rows, first + 1, Min({first + MiniBatchSize, Len(rows)}))
                           ELSE rows

\* The rows of the forward pass rank r is about to run.
Forward(r) ==
    LET rows == MiniBatch(phase, r, at[r][1]) index == micro[r][at[r][2]]
    IN  [i \in DOMAIN index |-> rows[index[i]]]

Running(r) == phase \in Calls /\ at[r] # Finished

\* What makes a worker raise before the forward pass: more micro-batches than
\* rows, or the blocked token in a micro-batch of the student.
Raises(r) ==
    /\ Running(r) /\ at[r][2] > 0
    /\ \/ micro[r] = <<>>
       \/ /\ phase \in {"student", "update"}
          /\ \E i \in DOMAIN Forward(r) : Refused(config, Forward(r)[i].tokens)

\* A rank enters its next collective: the reduction of the number of
\* micro-batches, or a forward pass, which gathers the weights of all shards.
Enter(r) ==
    /\ Running(r) /\ r \notin waiting /\ ~Raises(r)
    /\ waiting' = waiting \union {r}
    /\ UNCHANGED <<config, phase, batch, at, micro, out, trained, evaluation>>

\* The exception reaches the driver, which does not catch it.
Fail(r) ==
    /\ Raises(r) /\ r \notin waiting
    /\ phase' = "failed"
    /\ UNCHANGED <<config, batch, workers, trained, evaluation>>

\* Where a rank goes from operation op of mini-batch m when the mini-batch
\* has k forward passes.
NextAt(m, op, k) ==
    CASE op < k                             -> <<m, op + 1>>
      [] op >= k /\ m < MiniBatches(phase)  -> <<m + 1, 0>>
      [] OTHER                              -> Finished

\* A variant the runs must reject: every rank takes its own number.
AgreedAlone(m) ==
    [r \in Ranks |-> MicroBatchesWanted(RowLengths(MiniBatch(phase, r, m)),
                                        MaxTokenLen[phase] * GroupSize[phase])]

\* rearrange_micro_batches: every rank takes the largest number any asks for,
\* and karmarkar_karp refuses more micro-batches than there are rows.
Agreed(m) ==
    LET wanted(r) == MicroBatchesWanted(RowLengths(MiniBatch(phase, r, m)),
                                        MaxTokenLen[phase] * GroupSize[phase])
    IN  [r \in Ranks |-> Max({wanted(q) : q \in Ranks})]

Rearranged(lengths, num) == IF num > Len(lengths) THEN <<>> ELSE MicroBatches(lengths, num)

\* A collective takes place once every rank has entered the same one.
Reduce ==
    /\ phase \in Calls /\ waiting = Ranks
    /\ \E m \in 1 .. MiniBatches(phase) :
          /\ \A r \in Ranks : at[r] = <<m, 0>>
          /\ micro' = [r \in Ranks |-> Rearranged(RowLengths(MiniBatch(phase, r, m)), Agreed(m)[r])]
          /\ at' = [r \in Ranks |-> <<m, 1>>]
    /\ waiting' = {}
    /\ UNCHANGED <<config, phase, batch, out, trained, evaluation>>

RunForward ==
    /\ phase \in Calls /\ waiting = Ranks
    /\ \E m \in 1 .. MiniBatches(phase), op \in 1 .. BatchSize :
          /\ \A r \in Ranks : at[r] = <<m, op>>
          /\ at' = [r \in Ranks |-> NextAt(m, op, Len(micro[r]))]
    /\ out' = [r \in Ranks |-> out[r] \o [i \in DOMAIN Forward(r) |-> Forward(r)[i].id]]
    /\ waiting' = {}
    /\ UNCHANGED <<config, phase, batch, micro, trained, evaluation>>

\* What a rank returns from compute_log_prob and compute_rm_score.
Returned(r) == Restore(out[r], micro[r])

AllFinished == \A r \in Ranks : at[r] = Finished

\* batch.union: the column joins the rows by position.
StudentReturns ==
    /\ phase = "student" /\ AllFinished
    /\ LET column == Collected("student", [r \in Ranks |-> Returned(r)])
       IN  batch' = [i \in DOMAIN batch |-> [batch[i] EXCEPT !.student = column[i]]]
    /\ Send("teacher")
    /\ UNCHANGED <<config, trained, evaluation>>

TeacherReturns ==
    /\ phase = "teacher" /\ AllFinished
    /\ LET column == Collected("teacher", [r \in Ranks |-> Returned(r)])
       IN  batch' = [i \in DOMAIN batch |-> [batch[i] EXCEPT !.teacher = column[i]]]
    /\ Send("update")
    /\ UNCHANGED <<config, trained, evaluation>>

UpdateReturns ==
    /\ phase = "update" /\ AllFinished
    /\ LET used == Collected("update", out)
       IN  trained' = [id \in DOMAIN trained |-> Quantify(DOMAIN used, LAMBDA i : used[i] = id)]
    /\ phase' = "evaluate"
    /\ UNCHANGED <<config, batch, workers, evaluation>>

\* The checkpoint's generation config may or may not name the additional
\* tokens: the code that saves it is not in the repository.
Evaluate ==
    /\ phase = "evaluate"
    /\ \E saved \in {ToSet(Student(config)), ToSet(Student(config)) \union Additional(config)} :
          evaluation' = [stops |-> EvalStops(config, saved), blocked |-> EvalBadWords(config)]
    /\ phase' = "done"
    /\ UNCHANGED <<config, batch, workers, trained>>

\* Nothing more happens; any other state without a successor is a hang.
Ended == phase \in {"rejected", "failed", "done"} /\ UNCHANGED vars

Next ==
    \/ Launch
    \/ Rollout
    \/ Balance
    \/ \E r \in Ranks : Enter(r) \/ Fail(r)
    \/ Reduce \/ RunForward
    \/ StudentReturns \/ TeacherReturns \/ UpdateReturns
    \/ Evaluate
    \/ Ended

Spec == Init /\ [][Next]_vars

-----------------------------------------------------------------------------
(* Properties.                                                              *)

\* Type correctness of the driver's and the workers' state.
TypeOK ==
    /\ config \in Runs
    /\ phase \in {"launch", "rejected", "rollout", "balance", "evaluate", "done", "failed"} \union Calls
    /\ Len(batch) \in {0, BatchSize}
    /\ \A i \in DOMAIN batch :
          /\ {batch[i].id, batch[i].generated} \subseteq 1 .. Max({BatchSize, ResponseLength})
          /\ {batch[i].student, batch[i].teacher} \subseteq 0..BatchSize
          /\ {batch[i].prompt, batch[i].answers} \subseteq 1..Prompts
    /\ \A r \in Ranks : at[r] = Finished \/ at[r] \in (1 .. MiniBatches("update")) \X (0..BatchSize)
    /\ waiting \subseteq Ranks
    /\ \A r \in Ranks : Len(micro[r]) <= BatchSize /\ ToSet(out[r]) \subseteq 1..BatchSize
    /\ \A id \in DOMAIN trained : trained[id] \in 0..Epochs

\* A row keeps its own results through dispatch, micro-batches of any shape
\* and the way back: the response answers the row's prompt, the student's and
\* the teacher's log-probabilities are those of its response, and the update
\* uses every row once per epoch (fit, _balance_batch, decorator.py,
\* prepare_dynamic_batch and restore_dynamic_batch).
OwnResults ==
    /\ \A i \in DOMAIN batch :
          /\ batch[i].answers = batch[i].prompt
          /\ phase \in {"teacher", "update", "evaluate", "done"} => batch[i].student = batch[i].id
          /\ phase \in {"update", "evaluate", "done"} => batch[i].teacher = batch[i].id
    /\ phase \in {"evaluate", "done"} => \A id \in DOMAIN trained : trained[id] = Epochs

\* The mask covers exactly what the engine generated, the token that ended the
\* response included and no padding, provided that the semantic tokens name
\* every EOS token of the student, as the derived ones do (get_response_mask
\* against the tokens vLLM really stops at).
GeneratedExactly ==
    \A i \in DOMAIN batch :
        ToSet(Student(config)) \subseteq ToSet(Semantic(config)) =>
            batch[i].mask = [k \in 1..ResponseLength |-> k <= batch[i].generated]

\* "This prevents a run trained with one EOS policy from being silently
\* evaluated with another" (slurm/README.md): the evaluation ends a response
\* at the tokens training ended it at, and blocks what training blocked.
SamePolicyEvaluated ==
    evaluation # None =>
        /\ evaluation.stops = TrainStops(config)
        /\ evaluation.blocked = BadWords(config)

\* The n-th smallest of these values.
Nth(values, n) ==
    Min({v \in Range(values) : Quantify(DOMAIN values, LAMBDA i : values[i] <= v) >= n})

\* After _balance_batch the chunks of the ranks differ by no more work than
\* two rows that World consecutive rows of the sorted batch span; the
\* micro-batches of a rank hold each of its rows once, are not empty, and
\* differ by at most the work of its longest row (karmarkar_karp).
Balanced ==
    phase \in Calls =>
        LET share == BatchSize \div World
            chunks == [p \in 1..World |-> [i \in 1..share |-> (p - 1) * share + i]]
            spans == {Nth(Works(batch), World * g) - Nth(Works(batch), World * (g - 1) + 1) : g \in 1..share}
        IN  /\ Spread(Works(batch), chunks) <= Max(spans)
            /\ \A r \in Ranks :
                  at[r] # Finished /\ at[r][2] > 0 =>
                    LET rows == MiniBatch(phase, r, at[r][1])
                    IN  /\ IsPartitionOf(micro[r], DOMAIN rows)
                        /\ Spread(Works(rows), micro[r]) <= Max(Range(Works(rows)))

\* The ranks run the same sequence of collectives whatever the lengths of
\* their responses, so that none waits for a forward pass that another never
\* runs (rearrange_micro_batches reduces the number of micro-batches over the
\* group), and no run is aborted, unless the blocked token is the one the
\* tokenizer pads with.
InStep ==
    /\ \A r, q \in Ranks : at[r] = at[q]
    /\ phase = "failed" => BadWords(config) = {config.pad}
=============================================================================
