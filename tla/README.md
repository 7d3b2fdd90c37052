# Verification of the training core of opd-eos

The repository studies on-policy distillation (OPD) of language models. It is a
fork of verl with its own training step, EOS handling, evaluation scripts and
batch launchers. This directory holds TLA+ models of four parts of it, their TLC
runs, and proofs checked by TLAPS:

1. the fully asynchronous recipe (rollouter, trainer, message queue, synchronizer),
2. its partial rollout, down to the tokens of a response,
3. checkpoints, and the watcher that evaluates them while the run goes on,
4. the control of a synchronous distillation step, from the EOS policy that the
   launcher fixes to the EOS policy the evaluation applies.

All paths below are relative to the repository.

## 1. Inventory

### The fully asynchronous recipe (`verl/recipe/fully_async_policy`)

| Component | State | Operations | Talks to |
|---|---|---|---|
| Message queue (`message_queue.py`) | sample deque, validation deque, counters, `running`, lock and condition | `put_sample`, `get_sample`, `update_param_version`, `clear_queue`, `shutdown`, `put_validate`, `get_validate` | a Ray actor called by rollouter, trainer and synchronizer |
| Rollouter (`fully_async_rollouter.py`) | pending, result and cancel queues, set of active tasks, `paused`, `monitor_loop_trigger`, `staleness_samples`, version; one `asyncio.Lock` with a condition on it | coroutines: feeder, processor, one task per sample, consumer, main, monitor; remote calls: `pause`, `update_param_version`, `resume` | servers, message queue |
| Trainer (`fully_async_trainer.py`) | `local_trigger_step`, `current_param_version`, the validation record read last | `fit`, `_get_samples_from_queue`, `_trigger_parameter_sync_after_step` | message queue, synchronizer |
| Synchronizer (`param_sync.py`) | references to the last `update_param_version` and `resume` calls | `sync_weights`, `wait_last_valid` | rollouter, queue, workers |
| Task runner (`fully_async_main.py`) | the component handles | builds the components, synchronizes version 0, starts both `fit` calls | all of them |
| Partial-rollout servers and agent loops (`vllm_rollout/`, `agent_loop/`) | `paused`, per-request cancel events and outputs | `generate_for_partial`, `cancel`, `resume` | called by rollouter tasks |

Hard behaviours: coroutines that interleave at every `await` around one lock and
a condition; flags tested before the lock that protects them; counts read on one
side of an `await` and used on the other; remote calls that nobody waits for;
a sentinel that must come last; a bounded queue that discards; interrupted work
that must be resumed. What makes the recipe correct: the staleness budget, no
generation while weights are replaced, version labels that tell the truth, exact
numbers of samples per version, no lost sample, and an end for both sides.

### Checkpoints and their evaluation

| Component | State | Operations | Talks to |
|---|---|---|---|
| Trainer (`ppo/ray_trainer.py`) | `global_steps`; on disk a shard per rank, `config.json`, `data.pt`, the tracker file | `_save_checkpoint`, `_load_checkpoint` | the watcher, through files only |
| Watcher (`watch_eval_*.sl`) | the steps it has still to look at; on disk `.completed_step_*` and copies of summaries | `checkpoint_ready`, `evaluate_step`, `write_final_summary`, the polling loop | starts the evaluator |
| Evaluator (`scripts/val/eval/opd_eval_curve.py`) | on disk merged models, generations (JSONL and NPZ), `eval_run_config.json`, `grading_summary.json` | `prepare_eval_output_root`, `ensure_merged_model`, `generate_for_model`, `grade_file`, `write_summary` | the model merger, vLLM |

Hard behaviours: no process knows whether another one is in the middle of a
write; each may die between any two writes and is run again on what it left.
Correct means: training resumes from a whole checkpoint, a step counts as evaluated only
with complete results of its own, and the watcher comes to an end.

### The distillation step

| Component | State | Operations |
|---|---|---|
| EOS semantics (`scripts/run_semantics.py`, `verl/utils/eos_semantics.py`, the options of vLLM) | `run_semantics.json`, sampling parameters | which tokens stop, are blocked, end the mask |
| Driver (`ppo/ray_trainer.py`) | the batch, a `DataProto` | rollout, `_balance_batch`, the three calls of the worker groups, `union` |
| Worker groups (`single_controller`, `fsdp_workers.py`, `dp_actor.py`) | a chunk of the batch per data-parallel rank | dispatch, micro-batches, forward passes that are collectives, collection |
| Sequence balancing (`utils/seqlen_balancing.py`) | none | `karmarkar_karp`, `rearrange_micro_batches`, `restore_dynamic_batch` |

Hard behaviours: rows are permuted, cut into chunks, shared out again and put back,
by different code for every call; ranks must run the same number of
collectives although their rows differ; five EOS modes are implemented in four
places that must agree.

### Everything else

The agent loops, reward managers, tools, kernels and other recipes of verl are
inherited and numerical or unused by the distillation runs; launchers, analysis
and plotting scripts are static.

`PROJECT.json` lists every component with its status and the reason, and every
hazard with the line where it bites and the properties that watch it.

## 2. Modules

| Module | Models |
|---|---|
| `MessageQueue` | the operations of the actor, one action each, as seen by a caller that is served at once |
| `MessageQueueWait` | the same actor with its consumers: waiting on the condition, being woken, losing the race for a sample, shutdown |
| `FullyAsync` | rollouter, trainer and synchronizer around an instance of `MessageQueue` |
| `SynchronousTraining` | abstract specification: generate the quota of a version, train on exactly it, publish the next version |
| `FullyAsyncSync` | the refinement mapping from `FullyAsync` to `SynchronousTraining` |
| `TokenStream` | abstract specification: a response is one stream of tokens, extended under the weights of the moment, final once complete |
| `PartialGeneration` | servers, calls and agent loops of partial rollout, the pause around them; refines `TokenStream` |
| `Checkpointing` | saving, dying and resuming of the trainer, file by file |
| `CheckpointEval` | extends `Checkpointing` by the watcher and the evaluator, with failures and restarts |
| `SeqlenBalancing` | the partition algorithms as operators |
| `EosSemantics` | the decision of every EOS mode as operators, for training and for evaluation |
| `TrainingStep` | driver and ranks of one distillation step, over the two above |
| `MessageQueueProofs`, `FullyAsyncProofs`, `FullyAsyncSyncProofs`, `PartialGenerationProofs`, `CheckpointEvalProofs`, `SeqlenBalancingProofs`, `TrainingStepProofs` | theorems about the module of that name, and their proofs |
| `CommonLemmas` | lemmas about finite sums, joins of sequences and least numbers that several of the proofs use |
| `MC*` | instances for TLC |

Definitions named `...Late`, `...Only`, `...Unchecked` and the like, each under
a comment "A variant the runs must reject", are plausible bugs of the operator that
follows. They are used only to show that the properties are not vacuous.

### How `FullyAsync` corresponds to the code

The rollouter is an asyncio actor, so one step of the model is what a coroutine
does from one `await` to the next. The program counters say where each one
stands:

* `ppc`, the processor. `loop` is the top of the loop; from there to the next
  real suspension nothing else of the rollouter runs (`Yielded`). `mark`,
  `idle`, `start`: waiting for the lock before setting `paused`, before the idle
  block, before starting a task. `drain`, `full`, `final`: the three loops that
  reap finished tasks, before going idle, before one task too many, and after
  `DONE`. `idleCond`, `startCond`: inside `condition.wait()`; `...Woken`: notified
  and about to compete for the lock again. `dead`: an unbound `done_tasks` was
  read.
* `mainpc` (`_streaming_generation_main`), `mpc` (`_async_monitor_loop`), `tpc`
  (`FullyAsyncTrainer.fit` with the synchronizer it calls and waits for), `upc`
  (the pending `update_param_version`, then `resume`, which nobody waits for
  until the next synchronization).
* `lockq` is `self.lock`: its holder, then the FIFO of waiters. `asyncio.wait`
  and the gather in `pause` keep the lock, as in the code.
* Samples are counted while they are interchangeable (pending, running,
  finished, interrupted). From `result_queue` on, a sample is the parameter
  version it is labelled with. `None` is `Nothing`.
* A running sample has several responses. A server that is paused answers each with
  `is_cancel`; the task returns only when all have come back, possibly after the
  servers run again. `interrupted` counts the running tasks that have such an
  answer: they can only end in `cancel_queue`.
* `acc` is the part of the staleness sum that `update_param_version` has read
  before it awaits the queue size; tasks finish and the consumer moves samples
  between the two reads.
* `trained` and `resumedBy` are history: samples trained on, and who cleared
  `paused` last.

Abstractions, and why they lose nothing the properties need:

* `_feed_samples` is merged into `taken`: `pending_queue` holds 128 items, and a
  `get` waits only until the feeder, which waits for nothing but free slots, has run.
* `val_reward_fn` is taken to be set, as the task runner always does.
* `update_param_version_sync` on the queue and the collective transfer of the
  weights are one step: nobody reads either while the other runs.
* `resume` sets the rollouter's flags and then resumes the servers while it
  holds the lock; the processor cannot start a task in between, so it is one step.
* `resume(dependency_ref)` starts after the update has completed, because Ray
  resolves top-level references before it runs an actor method.
* Counters that are only printed are left out, and so is the exception path of
  `_streaming_generation_main`: the only exception the modelled code can raise is
  the unbound `done_tasks`, which `ProcessorSurvives` excludes.
* Failures of actors are not modelled: the recipe has no recovery from them.

Initially, version 0 has been synchronized, the initial validation record has
been read (with or without metrics), and both `fit` calls have begun.

### How `PartialGeneration` corresponds to the code

* `place` is where a sample is: `pending_queue`, a running task, `cancel_queue`, or
  finished. `output[r]` is the entry of `agent_loop_output_list`: its tokens, its
  log-probabilities (`logs`), `is_cancel`, `param_version_start`.
* A token is the position in the response that its prompt implies and the version of
  the weights that produced it. A lost, repeated or reordered token would show
  in the positions; a log-probability that belongs to another token likewise.
* `call[r]` is one `generate_for_partial`: sent, generating, answered. `event` is its
  cancel event; `entries` counts the server's `cancel_event` dictionary, whose
  other keys nobody reads. The lock of a server is held over no suspension
  while calls run, so each of its critical sections is one step. vLLM's generator ends
  with its last output, so a call is finished in the step that brings the last token.
* `_choose_server` takes the head of a heap that every task of a worker changes, and
  every call has a fresh request id: any server may be chosen.
* `pause` holds the rollouter's lock from `BeginPause` to `EndPause`; `MonitorWaits` and
  `MonitorUnpause` are the monitor of `FullyAsync` that gets the lock after it. The
  staleness budget and the limit on concurrent tasks, which only restrict when a
  task may start, are in `FullyAsync`; here any task may start when nothing is paused, and none
  has to: a sample that the processor leaves behind (`find_stranded`, `find_stuck`) is one that
  stays in its place.
* `param_version_end` feeds metrics only and is left out.

### How `Checkpointing` and `CheckpointEval` correspond to the code

* The steps and tasks that the watcher and the evaluator still have to look at are sets; they are
  taken least first, as the loops of the scripts do.
* A file is absent, torn (opened, not completely written), broken (torn such that reading it
  raises what the evaluator does not catch) or carries what tells its
  writes apart: the run of the trainer, the number of faults before a generation, the
  runs of the shards a merged model was made from.
* `HasComplete` is what `has_complete_generation_output` returns, `CheckRaises` when it does not return:
  for rows cut within a character, which `count_lines` decodes outside the `try`, and for what `np.savez`
  leaves when it dies, for which `np.load` raises `EOFError` or `BadZipFile`. `Failed` then ends
  the scan, and the loop goes on behind it, the test of the final marker included.
* Every `open(..., "w")`, `torch.save`, `np.savez` is two steps, so processes see torn
  files and die leaving them. `prepare_eval_output_root` replaces its file atomically.
* `evaluate_step` runs inside an `if`, where `set -e` is off: `CopyFails` goes on to `Mark`.
* A run that finds the tracker empty fails at `int("")`; `Resume` is then not enabled.
* The steps between two saves are one `Train`; `rewritten` and `copyFailed` are history.
* The bytes of a checkpoint are written by a checkpoint manager that is not part of
  the repository; the model takes its files from what the watcher tests and the merger reads.

### How `TrainingStep` corresponds to the code

* A row has an id; a computed result is the id of the row it was computed from. The
  columns `student` and `teacher` are `old_log_probs` and the teacher's
  log-probabilities; `trained` counts the updates a row took part in.
* Ranks run a call as a sequence of collectives, `at[r] = <<mini-batch, operation>>`:
  operation 0 is the `all_reduce` of the number of micro-batches, the others are forward
  passes, each of which gathers sharded parameters. `Reduce` and `RunForward`
  happen when all ranks have entered the same one. A rank that raises ends the run.
* Lengths are in blocks of 4096 tokens. `karmarkar_karp` is modelled with its heap order
  and its tie-breaks, so the partitions are those of the code. Sorting is by rank (an item's
  place is the number of items before it, ties in the order they had), `heappop` takes a state
  that has the fewest others before it, and all merges are a recursive function of
  their number.
* `EosSemantics` keeps the primary token and the order of every list; texts, names and
  tracked tokens are left out. That vLLM also stops at the model's own EOS
  tokens is external, as is whether the saved generation config names additional ones:
  both possibilities are explored.

### Fairness

`FairSpec` of `FullyAsync` assumes weak fairness of each coroutine (the event loop
runs whatever is ready, generation of a sample ends) and strong fairness of the
calls served by the rollouter: they sit in the loop's FIFO ready queue, so
they are served even when the processor is only now and then suspended. In
`MessageQueueWait` only woken consumers are fair; nobody is obliged to put,
to call `get_sample` or to shut down.

`PartialGeneration`: weak fairness of running tasks, of calls, of a synchronization that has
begun and of the monitor once it waits for the lock. Nothing is assumed of the start of a task: the
processor may have taken `DONE`, after which it never looks into `cancel_queue`, or wait for the
staleness budget. Nor must a synchronization begin. Engines are fair because generation is
bounded by `max_tokens`.
`CheckpointEval`: weak fairness of the trainer's and of the watcher's own steps, the
restart of a dead job included (the user submits it again); faults are not fair and
bounded. `TrainingStep` needs no fairness: a hang is a state without successor, and
the run checks for deadlock with `Ended` as the only way to stop.

## 3. Runs

| Run | Instance | What it shows |
|---|---|---|
| `message_queue` | capacity 2, 3 consumers, 5 samples | no sample disappears uncounted, order is kept, no lost wakeup, shutdown releases everybody |
| `async_stream` | 6 samples, 1 per step, 2 steps per version, budget 3, 2 tasks at a time | asynchronous mode without partial rollout |
| `sync_training` | 9 samples, 2 per step, 2 steps per version, budget 4 (`staleness_threshold = 0`), 3 tasks | the whole machinery implements `SynchronousTraining` |
| `partial_rollout` | as `async_stream`, with partial rollout | safety with interrupted samples; may stop, see `find_stuck` |
| `partial_generation` | 1 sample with 2 responses, 2 servers, 2 synchronizations, responses cut to 2 of at most 3 tokens | a response survives any pattern of interruptions |
| `ckpt_eval` | 2 ranks, 2 saved steps, 2 runs of the trainer, 2 tasks, 2 faults of watcher, evaluator or `cp` | trainer, watcher and evaluator, each may die anywhere |
| `training_step` | 2 ranks, 2 prompts with 2 responses of 1 to 3 blocks, teacher on one mesh of 2 ranks, 36 EOS configurations | one step, every combination of lengths |
| `find_quiet`, `find_budget`, `find_final_result`, `find_stranded`, `find_stuck` | 4 or 5 samples | disagreements between the code and its documentation, below |

Bounds. Capacity 2 and 5 puts overflow the queue several times with one and two
samples consumed in between; 3 consumers allow a woken one to lose the race
while another still waits. In `FullyAsync` the only bound is `NumSamples`; the
chosen sizes give a budget that is not a multiple of the version's quota, three
or more synchronizations, a last incomplete batch, more tasks than one (so one can
finish while another runs), and idle, full and final reaping. Nine other
sizes (up to 7 samples, 4 tasks) were checked with the same results.

In `partial_generation` a response can be interrupted before its first token, after one,
and after its last, once more after a resumption, on the other server, while its sibling is finished or
not; generation may run past the cut (`ModelRoom`). More samples only add
interleavings of tasks that share nothing but the servers' flags. In `ckpt_eval` two runs let a
step be saved again, two faults hit the retry of what the first one broke, and a
second step lets a scan go on after a failed one. In `training_step` two rows per rank
and lengths 1 to 3 make ranks need different numbers of micro-batches (a budget of 4 or 5 blocks),
and tie, unbalance and refill partitions; the teacher's mesh differs from the student's, so the
chunks of the two calls differ. The 36 configurations are all modes with one or two EOS
tokens of the student, equal or different ones of the teacher, derived or explicit semantic tokens.

Properties (the comments in the modules state each in full):

* `BacklogBounded`: samples in flight stay within `max_required_samples + 2`;
  one extra for the sample in the processor's hands, one for the consumer's.
* `TrainedPerVersion`, `OnPolicy`, `ImplementsSynchronous`: which version trains
  on how many and which samples.
* `QuietDuringSync`, `QuietUnlessMonitor`, `LabelMatchesWeights`: nothing is
  generated while weights are replaced, and labels are true. Without partial rollout
  `QuietDuringSync` fails through the monitor only, which is what
  `QuietUnlessMonitor` says; with `staleness_threshold = 0` the budget is used up whenever a
  synchronization runs, so the monitor has no occasion to interfere; with partial rollout
  the servers refuse, which `partial_rollout` checks.
* `InOrderDelivery`: whatever `get_sample` returns was put after everything returned before,
  so a sample is not handed out twice either, by whichever consumers.
* `SentinelIsLast`, `NoSampleLost`: the end of the stream, and the account of all
  samples after it: trained on, dropped by the full queue, or thrown away with the last batch.
  A sample left in the queue behind the sentinel would be lost.
* `ProcessorSurvives`: `done_tasks` is never unbound where it is read, because
  the three reaping loops can only be entered with an active task and lose it
  to `pause` only while they wait for the lock, by when an earlier round
  has assigned it.
* `Termination`, `PauseEnds`: everybody comes to an end, every pause too.
* `ImplementsStream`, `LogProbsAligned`, `StartIsOldest`, `LabelIsNewest`: an interruption
  leaves no trace in a response, and what training reads of it (log-probabilities,
  versions) is true. `log_probs` are not cut with the tokens, but a longer list
  still starts with those of the kept tokens, which is all that is read.
* `EnginesQuiet`: with partial rollout the monitor's race of `find_quiet` is harmless, since
  a paused server refuses every request until the synchronization is over.
* `ForgottenRequestsBounded`: a request cancelled before its first token is never
  removed from `cancel_event`; the leak is at most one entry for every response and
  synchronization.
* `SynchronizationEnds`: once `pause` has begun, the gather of the running tasks, the update and `resume`
  come to their end, because a paused server answers requests at once. That every sample is
  finished is not claimed: the code does not see to it (`find_stranded`, `find_stuck`).
* `ResumesFromWhole`: the tracker never names a checkpoint that is incomplete, mixed from
  two runs or about to be overwritten, even when a run dies inside a save.
* `MergedFromOneCheckpoint`, `MarkedHasResults`, `ResultsStand`, `ExitsWhenAllEvaluated`,
  `WatcherEnds`: each is stated with the exception the code has. A step that a
  new run saves again may be evaluated from mixed shards; a failed `cp` leaves a marked step without its
  summary; a merge that dies while it writes leaves a model that is taken for
  whole, and its step can then never be evaluated (`TornModel`); nor can one whose generations a
  death left such that the evaluator cannot read them (`BrokenResults`).
* `OwnResults`, `Balanced`, `InStep`: rows and results stay together, work is shared out as
  the algorithm promises, ranks never wait for each other in vain.
* `GeneratedExactly`, `SamePolicyEvaluated`: the mask covers what was generated, and
  training and evaluation use one EOS policy. The first needs the semantic tokens to
  contain the student's: a run with explicit ids that omit one stops at a token the
  mask does not know, and padding is trained on. `InStep` names the other exception:
  in mode `canonical`, a tokenizer that pads with the blocked token aborts every run.

### Findings

1. `find_quiet`: `_async_monitor_loop` tests its flags before it takes the lock. It
   may wait behind `pause()` and then undo it: the processor starts a task
   during the synchronization, which the README (203-204) excludes.
2. `find_budget`: the reset of `staleness_samples` misses the samples in the hands of
   the consumer and of the processor, so more than the documented maximum is
   produced between two updates.
3. `find_final_result`: the validation record popped as the final one can be that of the
   synchronization before; the last record is then never read.
4. `find_stranded`: samples interrupted after the processor has taken `DONE` are
   never generated to their end.
5. `find_stuck`: interrupted samples count against the staleness budget but are
   resumed only below it. When they fill it, everybody waits forever.

None needs a failure, only timing. 4 and 5 concern `partial_rollout=True` only.

Two disagreements have no run of their own; they are the exceptions that `WatcherEnds` names. The
evaluator takes a directory with any safetensors file for a whole model (`TornModel`). And its test
(`test_opd_eval_curve.py:293-294`) writes `b"interrupted"` as the tokens and expects the generations
to be taken for incomplete, whereas an interrupted `np.savez` leaves an empty file or a zip archive
without its directory; reading it raises what `opd_eval_curve.py:572` does not catch, so the
evaluator ends on every retry and the step is never evaluated (`BrokenResults`). Without these
conjuncts TLC finds `WatcherEnds` violated.

## 4. Proofs

Every safety invariant, every action property and every refinement that a passing run checks
is also a theorem, for every value of the constants that satisfies the named
assumptions of the module that declares them:

* `ConfigAssumption`, `MaxQueueSizeAssumption`, `MaxPutsAssumption`: the assertions of
  `FullyAsyncRollouter.__init__` and `set_max_required_samples`.
* `RolloutAssumption`, `NothingAssumption`: finitely many samples and servers, at least one
  server, response and token; `Nothing` is none of the values.
* `CheckpointAssumption`, `EvalAssumption`: there is a rank, a step, a start of the job, a task;
  the markers that stand for "absent", "torn" and "broken" are different from what files hold.
* `TrainingAssumption`: sizes are positive, every mesh divides the ranks and the batch, a
  micro-batch may hold the longest row (as `fit` and `rearrange_micro_batches` assert),
  the token lists of a run are sequences, and `Text` ends nothing.

Theorems that need more say so in their hypotheses: `ZeroStaleness` for the refinement to
`SynchronousTraining`, `Partial` or its negation where the two modes of the rollouter differ.

### The asynchronous recipe

`MessageQueueProofs`: `TypeCorrect`, `NewestKept`, `CountersCorrect`,
`NoWakeupLost`, `DeliveredInOrder`. Each invariant is inductive together with the
type invariant; order of delivery needs `HoldsNewest` and that everything handed out
is older than everything queued. It is stated of every step that counts a sample as consumed,
so that a sample handed out twice in a row is seen as well.

`FullyAsyncProofs`:

* `TypeCorrect`. Type correctness is not inductive alone: that
  `Release` is a sequence needs to know that the lock is held where it is released.
  `TypeInv` adds `LockInv`: `pause` heads `lockq` during its gather, and
  `update_param_version` between its two reads; and that after `DONE` the processor never
  returns to its loop, which bounds `taken`. That nobody else's step
  takes the lock from its holder is the lemma `LockKept`.
* `BudgetKept` (`BacklogBounded`). `BacklogInv` says that the samples in flight
  exceed `staleness` by at most 2, that they are within the budget plus 2, and that
  between the two reads of the reset what has been counted is still what the tasks and
  the cancel queue hold, up to the one sample the processor may carry. The bound of
  each action is an arithmetic lemma of its own (`Backlog<Coroutine>`).
* `ExactlyTrained` (`TrainedPerVersion`), by `TrainInv`: how the trainer's counters follow
  `trained` in each of its states.
* `SentinelComesLast`, by `EndInv`: where the processor has ended no task runs, so what
  the consumer still moves comes before the sentinel.
* `ProcessorSurvivesAlways`, by `FirstInv`: while `done_tasks` is unbound the processor
  stands where it holds the lock with an active task, or in its first rounds.
* `QuietBarMonitor`, `QuietWhenPartial`, `LabelledByWeights`, by `SyncInv`: a synchronization
  under way that nobody has resumed means `paused` and no task in generation, and the
  rollouter's version is the trainer's outside the window of the synchronization.
* `OnlyInterruptedLost`, `EverySampleAccounted`, by `FlowInv`: every sample taken is in exactly one
  of the places the account names, the message queue among them; `TakenLast` adds that the queue is
  empty once the trainer has taken the sentinel; `WholeInv`, that without partial rollout nothing
  is in `cancel_queue`.

`FullyAsyncSyncProofs`, for `staleness_threshold = 0`: `OnPolicyAlways`,
`PartialHasNoEffect`, `EverySampleAccountedAtZero`, and the refinement `SynchronousAtZero`
(`ImplementsSynchronous`). `ZeroInv` is the conjunction of `QuotaInv` (what has been
started in the present version), `VersionInv`, `LabelInv` (labels of the samples on the way),
`WindowInv` (who may be where during a synchronization), `OrderInv`, `UninterruptedInv` and
`CountInv`. With it each step of the machinery maps to a step of `SynchronousTraining` or a stutter.

`PartialGenerationProofs`: `TypeCorrect`, `NoGenerationDuringSync` (`EnginesQuiet`),
`LogProbsMatchTokens`, `StartIsBound`, `LabelIsMaximum`, `LeakIsBounded`, and the refinement to `TokenStream`,
`ResponseIsOneStream`. `IndInv` has seven parts: `CallInv` (an answered or generating call of a
paused server has its event set), `PlaceInv`, `PhaseInv` (where samples and the pause stand),
`TokenInv`, `LabelInv` (an output's tokens carry versions between its first and the present one),
`EntriesInv` and `MemoryInv` (what each server still remembers, a sum over the responses).

### Checkpoints

`CheckpointEvalProofs`, about trainer, watcher and evaluator together:

* `WholeCheckpoint` (`ResumesFromWhole`). `SavingInv` follows `_save_checkpoint`: until the tracker is emptied, the
  step being saved comes after the one it names, so no write reaches that checkpoint; when
  `data.pt` is opened all shards are the present run's, and when the tracker is written
  `data.pt` is too. `BoundInv` keeps the step within `Steps` across restarts.
* `TypeCorrect`, `ModelsAreWhole`, `MarksMeanResults`, `ExitIsComplete` and the action property
  `MarkedIsFinal`, by `FilesInv` (what may be on disk), `JobInv` and `ScanInv` (what the watcher still has to
  look at, and that it leaves only when nothing is left), `ModelInv`, `ResultsInv` and `WorkInv` (what a complete
  model, a complete result and a half-written one imply).

### The distillation step

`SeqlenBalancingProofs`: `PartitionsShareOut` and `MicroBatchesShareOut` (every row in exactly one
set, for every workload and number of sets), `BalancedOrderPermutes` (the order of
`_balance_batch` is a permutation). They need that a sort by rank is a permutation whatever the
comparison, and that the heap always holds states that share out the rows between them.
What the algorithm sorts by matters for the second half: `PartitionsAreEven`,
`MicroBatchesAreEven` and `BalancedOrderIsEven` bound the difference of work between the sets.
The argument follows the states of the heap (`Tidy`):

1. the load of a set is the sum over its rows, whatever their order, and joining two sets adds;
2. the sets of a state have nonincreasing loads, so the heaviest of one joined to the lightest
   of the other gives no wider spread than the wider of the two (`MergeTidy`);
3. the states of the first heap spread by one row, or with equal sizes by the span of k
   consecutive sorted rows (`StartTidy`);
4. a state has no empty set or none with two rows, so the last one, which holds at least as many
   rows as sets, has no empty set (`NoneEmpty`);
5. with equal sizes all sets of a state have one length, so that the chunks of the ranks are
   the sets (`EqualShares`).

Point 4 is where the workloads must be positive: the heavier of two sets is then the one that
is not empty.

`TrainingStepProofs`:

* `OnePolicyPerRun` (`SamePolicyEvaluated`), by `PolicyInv` and the equality of the two decisions in
  every mode.
* `RanksInStep` (`InStep`), by `StepInv`: `RunInv` (the run was accepted), `BatchInv` (the batch is a
  permutation of rows that the engine generated), `WorkInv` (all ranks are at the same collective
  and have the same number of micro-batches), `FailInv` (a worker raises only on the blocked token).
* `MasksAreExact` (`GeneratedExactly`).
* `OwnResultsAlways` (`OwnResults`), by `OwnInv`: `ColumnInv` (what a rank has so far are the results of
  the micro-batches it has run, joined), `RoundInv` (how often each row has been used in the epochs
  completed, in the mini-batches before this one and in its micro-batches so far) and `TrainedInv`.
  That `Restore` undoes the division, that the chunks of the data-parallel groups joined give the whole
  batch on every mesh, and that the mini-batches of an epoch hold each row once are lemmas.
* `TypeCorrect`, by `TypeInv`.
* `BalancedAlways` (`Balanced`), by `EvenInv`: `ChunkInv` (the chunks of the reordered batch, from
  `_balance_batch` to the end of the update) and `MicroInv` (every rank's micro-batches from the
  reduction to its last forward pass). The bound on the chunks is stated of the batch the ranks get,
  by its n-th smallest workload, and not of the order the algorithm sorted; `NthIs` relates the two
  by counting.

Induction over data: the library's rules for it take an operator as parameter and are not
usable here, but its well-founded orderings are constants. `CommonLemmas` takes a smallest
counterexample under them, so that sums over sets, recursive functions of a number and joins of
sequences can be reasoned about for all sizes.

### What the proofs corrected

* `OnPolicy` was parenthesized so that it said less than its comment.
* The cases of `NextAt` overlapped, which TLC does not notice and which leaves the meaning
  open. They exclude each other now.
* `TrainingAssumption` did not say that `Text` ends no response or that the token lists are
  sequences, and `RolloutAssumption` not that samples and servers are finite: the runs had it by their instances.
* `Balanced` was stated by a sort of the standard modules that the provers do not know; it
  counts now (`Nth`).
* `InStep` said only that no run is aborted when the blocked token is not the padding; it now
  names what an aborted run has blocked.
* The sorts and the heap of `SeqlenBalancing` and `Normalized` of `EosSemantics` were recursive operators
  and are now ranks and functions.

### Model-checked only

* Liveness (`Termination`, `PauseEnds`, `ShutdownReleases`, `SynchronizationEnds`, `WatcherEnds`), which
  is out of the prover's reach.
* The five properties the runs of section 3 find violated: they are false of the code.

## 5. Plan

Done: all the modules above, and the theorems of section 4. What would say more about the code:

1. the positive side of the findings as theorems: under which configuration each of the five
   violated properties does hold;
2. that the counters of the rollouter determine when it may take a sample, for every interleaving
   with the reset, as an equation and not only as the bound of `BacklogBounded`.

## 6. Not modelled

* Tensor computation: losses, advantages, the teacher's probability transforms of the EOS
  modes (`eos_semantics.py`), kernels, optimizers, metrics. Their substance is real
  arithmetic, which TLC and TLAPS do not reach.
* In the distillation step: the top-k path (`log_prob_top_k > 0`; the launchers set 0),
  critic, reference policy and REMAX, static micro-batches, the Megatron workers.
* The teacher's switching to its own chat template (`fsdp_workers.py:2672`), which decodes the
  rows, applies the teacher's template and tokenizes them again: a conversion of text. In `TrainingStep`
  the teacher scores the student's rows as they are.
* `--additional-eos-token-ids` given by hand: the launchers never pass it.
* A change of the evaluation's settings between two starts of the watcher:
  `prepare_eval_output_root` refuses it by comparing one record.
* Inherited parts of verl that the distillation runs do not use: multi-turn agent loops, tools,
  SGLang, rollout skip, the transfer queue and the other recipes. The largest part of the
  repository's lines is there and in tensor code.
* Failures of Ray actors in the asynchronous recipe: it has no recovery from them.
