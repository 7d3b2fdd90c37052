--------------------------- MODULE CheckpointEval ---------------------------
(***************************************************************************)
(* The watcher (watch_eval_opd_sampled_token_*.sl), which polls the        *)
(* checkpoints of a live run, and the evaluator it starts for each,        *)
(* scripts/val/eval/opd_eval_curve.py.  They and the trainer share nothing *)
(* but files.  Both may die, or an evaluation fail, between any two writes; *)
(* the watcher is then started again on the same directories.              *)
(*                                                                         *)
(* A generated file carries the number of faults before it was generated,  *)
(* which tells the generations of one step apart; a merged model the runs  *)
(* its shards come from.  What a death leaves of a file is Torn: too short; *)
(* or Broken: reading it raises what the evaluator does not catch.  One     *)
(* evaluation template; the settings that eval_run_config.json records do   *)
(* not change.                                                             *)
(***************************************************************************)
EXTENDS Checkpointing, FiniteSetsExt

CONSTANTS
    NumTasks,   \* evaluation tasks
    MaxFaults,  \* bound: failures of the watcher, the evaluator and cp
    Broken

ASSUME EvalAssumption ==
    /\ NumTasks \in Nat \ {0} /\ MaxFaults \in Nat
    /\ \A runs \in SUBSET (1..MaxRuns) : runs \notin {Absent, Torn}
    /\ Broken \notin Nat /\ Broken \notin {Absent, Torn}

Tasks == 1..NumTasks

VARIABLES
    \* files
    merged,         \* merged_root/step_*: of which runs the weights are
    jsonl, npz,     \* the generations of every step and task, and their tokens
    evalConfig,     \* eval_run_config.json is there
    summary,        \* grading_summary.json
    stepSummary,    \* grading_summary_step_*.json
    marked,         \* .completed_step_*
    \* processes
    wpc,            \* where the watcher or its evaluator stands
    todo,           \* the steps of the scan not yet looked at, the least first
    job,            \* "step" or "final": what the evaluator runs for
    specs,          \* the steps the evaluator has still to evaluate, the least first
    task,           \* the task it is writing
    loaded,         \* the runs whose shards the merger has loaded
    rows,           \* summary_rows
    \* history
    faults,
    copyFailed      \* steps whose summary cp could not copy

files == <<merged, jsonl, npz, evalConfig, summary, stepSummary, marked>>
memory == <<todo, job, specs, task, loaded, rows>>
faultVars == <<faults, copyFailed>>
evalVars == <<files, wpc, memory, faultVars>>
vars == <<ckptVars, evalVars>>

EvalInit ==
    /\ merged = [s \in Steps |-> Absent]
    /\ jsonl = [s \in Steps |-> [t \in Tasks |-> Absent]]
    /\ npz = [s \in Steps |-> [t \in Tasks |-> Absent]]
    /\ evalConfig = FALSE /\ summary = Absent
    /\ stepSummary = [s \in Steps |-> Absent]
    /\ marked = {}
    /\ wpc = "scan"
    /\ todo = {} /\ job = "step" /\ specs = {} /\ task = 1
    /\ loaded = {} /\ rows = {}
    /\ faults = 0 /\ copyFailed = {}

Init == CkptInit /\ EvalInit

-----------------------------------------------------------------------------
(* The main loop of the watcher.                                            *)

\* discover_steps sorts what it finds.
Candidate == Min(todo)

DirExists(s) == config[s] \/ data[s] # Absent \/ \E r \in Ranks : shard[s][r] # Absent

Scan ==
    /\ wpc = "scan"
    /\ todo' = {s \in Steps : DirExists(s)}
    /\ wpc' = "next"
    /\ UNCHANGED <<files, job, specs, task, loaded, rows, faultVars>>

\* A variant the runs must reject: ready as soon as the shards are there.
WantedEarly(s) == s <= FinalStep /\ s \notin marked /\ \A r \in Ranks : shard[s][r] # Absent

Wanted(s) == s <= FinalStep /\ s \notin marked /\ FilesExist(s)

Skip ==
    /\ wpc = "next" /\ todo # {} /\ ~Wanted(Candidate)
    /\ todo' = todo \ {Candidate}
    /\ UNCHANGED <<files, wpc, job, specs, task, loaded, rows, faultVars>>

Start(kind, steps) ==
    /\ wpc' = "prepare"
    /\ job' = kind
    /\ specs' = steps
    /\ rows' = {}

\* evaluate_step
BeginStep ==
    /\ wpc = "next" /\ todo # {} /\ Wanted(Candidate)
    /\ Start("step", {Candidate})
    /\ UNCHANGED <<files, todo, task, loaded, faultVars>>

\* A variant the runs must reject: the watcher exits when the final step is
\* there, evaluated or not.
EndScanEarly ==
    /\ wpc = "next" /\ todo = {}
    /\ IF FilesExist(FinalStep) /\ marked # {}
       THEN Start("final", marked)
       ELSE wpc' = "scan" /\ UNCHANGED <<job, specs, rows>>
    /\ UNCHANGED <<files, todo, task, loaded, faultVars>>

\* write_final_summary once the final step is evaluated, else sleep and scan.
EndScan ==
    /\ wpc = "next" /\ todo = {}
    /\ IF FinalStep \in marked
       THEN Start("final", marked)
       ELSE wpc' = "scan" /\ UNCHANGED <<job, specs, rows>>
    /\ UNCHANGED <<files, todo, task, loaded, faultVars>>

\* A failed evaluation of a step ends the scan (set -e is off in a condition), and
\* the loop goes on behind it; in the final summary it ends the watcher.
Failed ==
    /\ wpc' = IF job = "step" THEN "next" ELSE "down"
    /\ todo' = {}
    /\ UNCHANGED <<files, job, specs, task, loaded, rows>>

-----------------------------------------------------------------------------
(* main of the evaluator, for the first of specs.                           *)

Current == Min(specs)
HasOutputs == \E s \in Steps, t \in Tasks : jsonl[s][t] # Absent

\* A variant the runs must reject: existing outputs are refused with their config.
PrepareStrict ==
    /\ wpc = "prepare"
    /\ IF HasOutputs
       THEN Failed /\ UNCHANGED faultVars
       ELSE /\ evalConfig' = TRUE
            /\ wpc' = "merge"
            /\ UNCHANGED <<merged, jsonl, npz, summary, stepSummary, marked,
                           memory, faultVars>>

\* prepare_eval_output_root replaces the file in one step.
Prepare ==
    /\ wpc = "prepare"
    /\ IF HasOutputs /\ ~evalConfig
       THEN Failed /\ UNCHANGED faultVars
       ELSE /\ evalConfig' = TRUE
            /\ wpc' = "merge"
            /\ UNCHANGED <<merged, jsonl, npz, summary, stepSummary, marked,
                           memory, faultVars>>

\* A variant the runs must reject: a merged model is never used again.
IsModelDirNever(s) == FALSE

\* is_hf_model_dir: any weights file will do, a torn one too.
IsModelDir(s) == merged[s] # Absent

MergeReuse ==
    /\ wpc = "merge" /\ IsModelDir(Current)
    /\ wpc' = "generate"
    /\ UNCHANGED <<files, memory, faultVars>>

\* The merger reads all shards; it fails on one that is being written.
MergeLoad ==
    /\ wpc = "merge" /\ ~IsModelDir(Current)
    /\ IF \E r \in Ranks : shard[Current][r] \in {Absent, Torn}
       THEN Failed /\ UNCHANGED faultVars
       ELSE /\ loaded' = {shard[Current][r] : r \in Ranks}
            /\ wpc' = "merging"
            /\ UNCHANGED <<files, todo, job, specs, task, rows, faultVars>>

MergeOpen ==
    /\ wpc = "merging"
    /\ merged' = [merged EXCEPT ![Current] = Torn]
    /\ wpc' = "saving"
    /\ UNCHANGED <<jsonl, npz, evalConfig, summary, stepSummary, marked, memory,
                   faultVars>>

MergeSave ==
    /\ wpc = "saving"
    /\ merged' = [merged EXCEPT ![Current] = loaded]
    /\ wpc' = "generate"
    /\ UNCHANGED <<jsonl, npz, evalConfig, summary, stepSummary, marked, memory,
                   faultVars>>

\* A variant the runs must reject: only the rows are looked at.
HasCompleteRows(s, t) == jsonl[s][t] \in Nat

\* has_complete_generation_output: all rows, and tokens that record their hash.
HasComplete(s, t) == jsonl[s][t] \in Nat /\ npz[s][t] = jsonl[s][t]

\* The check takes the tasks in order and stops at the first that is not complete.
\* It raises on rows cut within a character, which count_lines cannot decode, and
\* on tokens that np.savez was writing, in which np.load finds no zip directory.
CheckRaises(s) ==
    \E t \in Tasks :
        /\ \A u \in 1..(t - 1) : HasComplete(s, u)
        /\ jsonl[s][t] = Broken \/ (jsonl[s][t] \in Nat /\ npz[s][t] = Broken)

GenerateReuse ==
    /\ wpc = "generate" /\ \A t \in Tasks : HasComplete(Current, t)
    /\ wpc' = "grade"
    /\ UNCHANGED <<files, memory, faultVars>>

\* The workers return all results before the first is written; they cannot
\* load a torn model.
Generate ==
    /\ wpc = "generate" /\ \E t \in Tasks : ~HasComplete(Current, t)
    /\ IF CheckRaises(Current) \/ merged[Current] = Torn
       THEN Failed /\ UNCHANGED faultVars
       ELSE /\ wpc' = "openJsonl"
            /\ task' = 1
            /\ UNCHANGED <<files, todo, job, specs, loaded, rows, faultVars>>

\* write_generation_results: the rows, which a death may cut anywhere, then their
\* tokens.
OpenJsonl ==
    /\ wpc = "openJsonl"
    /\ \E cut \in {Torn, Broken} : jsonl' = [jsonl EXCEPT ![Current][task] = cut]
    /\ wpc' = "writeJsonl"
    /\ UNCHANGED <<merged, npz, evalConfig, summary, stepSummary, marked, memory,
                   faultVars>>

WriteJsonl ==
    /\ wpc = "writeJsonl"
    /\ jsonl' = [jsonl EXCEPT ![Current][task] = faults]
    /\ wpc' = "openNpz"
    /\ UNCHANGED <<merged, npz, evalConfig, summary, stepSummary, marked, memory,
                   faultVars>>

OpenNpz ==
    /\ wpc = "openNpz"
    /\ npz' = [npz EXCEPT ![Current][task] = Broken]
    /\ wpc' = "writeNpz"
    /\ UNCHANGED <<merged, jsonl, evalConfig, summary, stepSummary, marked,
                   memory, faultVars>>

WriteNpz ==
    /\ wpc = "writeNpz"
    /\ npz' = [npz EXCEPT ![Current][task] = faults]
    /\ IF task = NumTasks THEN wpc' = "grade" /\ UNCHANGED task
                          ELSE wpc' = "openJsonl" /\ task' = task + 1
    /\ UNCHANGED <<merged, jsonl, evalConfig, summary, stepSummary, marked, todo,
                   job, specs, loaded, rows, faultVars>>

\* What the files of a step and task are graded as.
Row(s, t) == [step |-> s, task |-> t, text |-> jsonl[s][t], tokens |-> npz[s][t]]

\* grade_file for every task
Grade ==
    /\ wpc = "grade"
    /\ rows' = rows \union {Row(Current, t) : t \in Tasks}
    /\ wpc' = "openSummary"
    /\ UNCHANGED <<files, todo, job, specs, task, loaded, faultVars>>

OpenSummary ==
    /\ wpc = "openSummary"
    /\ summary' = Torn
    /\ wpc' = "writeSummary"
    /\ UNCHANGED <<merged, jsonl, npz, evalConfig, stepSummary, marked, memory,
                   faultVars>>

\* After the last step the evaluator returns to the watcher, which after the
\* final summary exits.
WriteSummary ==
    /\ wpc = "writeSummary"
    /\ summary' = rows
    /\ specs' = specs \ {Current}
    /\ wpc' = IF specs' # {} THEN "merge"
              ELSE IF job = "step" THEN "copy" ELSE "exit"
    /\ UNCHANGED <<merged, jsonl, npz, evalConfig, stepSummary, marked, todo, job,
                   task, loaded, rows, faultVars>>

-----------------------------------------------------------------------------
(* The rest of evaluate_step.                                               *)

Copy ==
    /\ wpc = "copy"
    /\ stepSummary' = [stepSummary EXCEPT ![Candidate] = summary]
    /\ wpc' = "mark"
    /\ UNCHANGED <<merged, jsonl, npz, evalConfig, summary, marked, memory,
                   faultVars>>

\* cp fails and evaluate_step goes on.
CopyFails ==
    /\ wpc = "copy" /\ faults < MaxFaults
    /\ faults' = faults + 1
    /\ copyFailed' = copyFailed \union {Candidate}
    /\ wpc' = "mark"
    /\ UNCHANGED <<files, memory>>

Mark ==
    /\ wpc = "mark"
    /\ marked' = marked \union {Candidate}
    /\ todo' = todo \ {Candidate}
    /\ wpc' = "next"
    /\ UNCHANGED <<merged, jsonl, npz, evalConfig, summary, stepSummary, job,
                   specs, task, loaded, rows, faultVars>>

-----------------------------------------------------------------------------
(* Faults.                                                                  *)

EvaluatorPoints ==
    {"prepare", "merge", "merging", "saving", "generate", "openJsonl", "writeJsonl",
     "openNpz", "writeNpz", "grade", "openSummary", "writeSummary"}
Evaluating == wpc \in EvaluatorPoints

EvaluatorFails ==
    /\ Evaluating /\ faults < MaxFaults
    /\ faults' = faults + 1
    /\ Failed
    /\ UNCHANGED copyFailed

WatcherDies ==
    /\ wpc \notin {"down", "exit"} /\ faults < MaxFaults
    /\ faults' = faults + 1
    /\ wpc' = "down"
    /\ todo' = {}
    /\ UNCHANGED <<files, job, specs, task, loaded, rows, copyFailed>>

Restart ==
    /\ wpc = "down"
    /\ wpc' = "scan"
    /\ UNCHANGED <<files, memory, faultVars>>

-----------------------------------------------------------------------------
Evaluator ==
    \/ Prepare \/ MergeReuse \/ MergeLoad \/ MergeOpen \/ MergeSave
    \/ GenerateReuse \/ Generate \/ OpenJsonl \/ WriteJsonl \/ OpenNpz \/ WriteNpz
    \/ Grade \/ OpenSummary \/ WriteSummary

Watcher ==
    \/ Scan \/ Skip \/ BeginStep \/ EndScan \/ Evaluator \/ Copy \/ Mark \/ Restart

Fault == EvaluatorFails \/ WatcherDies \/ CopyFails

\* A run that finds the tracker empty does not get anywhere.
Terminated ==
    /\ wpc = "exit" /\ (tpc = "done" \/ (tpc = "down" /\ tracker = Torn))
    /\ UNCHANGED vars

Next ==
    \/ Trainer /\ UNCHANGED evalVars
    \/ (Watcher \/ Fault) /\ UNCHANGED ckptVars
    \/ Terminated

Spec == Init /\ [][Next]_vars

\* Both jobs are started again after they have died; nothing else is assumed of
\* faults.
FairSpec ==
    /\ Spec
    /\ WF_vars((Train \/ Save \/ EndStep \/ Resume) /\ UNCHANGED evalVars)
    /\ WF_vars(Watcher /\ UNCHANGED ckptVars)

-----------------------------------------------------------------------------
(* Types and correctness.                                                   *)

FileIds == (0..MaxFaults) \union {Absent, Torn, Broken}
Rows == [step : Steps, task : Tasks, text : FileIds, tokens : FileIds]

TypeOK ==
    /\ CkptTypeOK
    /\ merged \in [Steps -> {Absent, Torn} \union SUBSET (1..MaxRuns)]
    /\ jsonl \in [Steps -> [Tasks -> FileIds]]
    /\ npz \in [Steps -> [Tasks -> FileIds]]
    /\ evalConfig \in BOOLEAN
    /\ summary \in {Absent, Torn} \union SUBSET Rows
    /\ stepSummary \in [Steps -> {Absent, Torn} \union SUBSET Rows]
    /\ marked \subseteq Steps /\ copyFailed \subseteq Steps
    /\ wpc \in EvaluatorPoints \union {"scan", "next", "copy", "mark", "down", "exit"}
    /\ job \in {"step", "final"}
    /\ todo \subseteq Steps /\ specs \subseteq Steps
    /\ task \in Tasks /\ loaded \subseteq 1..MaxRuns /\ rows \subseteq Rows
    /\ faults \in 0..MaxFaults

\* checkpoint_ready: a model is merged from one complete checkpoint, the one that
\* stays, unless a run that died between data.pt and the tracker made the next
\* run save the step again under the watcher's eyes.
MergedFromOneCheckpoint ==
    \A s \in Steps \ rewritten : merged[s] \notin {Absent, Torn} =>
        \A r \in Ranks : merged[s] = {shard[s][r]}

\* evaluate_step: a step is marked only when its summary holds a row for every
\* task, graded from rows and tokens of one generation, unless cp failed.
MarkedHasResults ==
    \A s \in marked \ copyFailed :
        /\ stepSummary[s] = {Row(s, t) : t \in Tasks}
        /\ \A t \in Tasks : jsonl[s][t] \in Nat /\ npz[s][t] = jsonl[s][t]

\* generate_for_model: what a marked step was graded from is never written again,
\* so the curve of the final summary is the one of the step summaries.
ResultsStand ==
    [][\A s \in marked : /\ jsonl'[s] = jsonl[s] /\ npz'[s] = npz[s]
                         /\ merged'[s] = merged[s]]_<<marked, jsonl, npz, merged>>

\* The loop exits only when every checkpoint up to the final step is evaluated
\* and the final summary has a row for every task of each.
ExitsWhenAllEvaluated ==
    wpc = "exit" =>
        /\ \A s \in 1..FinalStep : FilesExist(s) => s \in marked
        /\ summary = {Row(s, t) : s \in marked, t \in Tasks}

\* A merge that died has left a torn model, which is_hf_model_dir takes for whole.
TornModel == \E s \in Steps : merged[s] = Torn /\ ~(wpc = "saving" /\ s = Current)

\* A death has left generations that has_complete_generation_output cannot read: its
\* test (test_opd_eval_curve.py) takes interrupted tokens for incomplete, so that they
\* are made anew, but not such as np.savez leaves.
BrokenResults ==
    \E s \in Steps, t \in Tasks :
        /\ Broken \in {jsonl[s][t], npz[s][t]}
        /\ ~(wpc \in {"writeJsonl", "writeNpz"} /\ s = Current /\ t = task)

\* Whatever else dies or fails, the watcher evaluates the whole run and exits, once
\* training has ended: only a merge that died while it wrote the weights and an
\* evaluator that left files it cannot read itself keep it from that.
WatcherEnds ==
    <>(tpc = "done") /\ [](~TornModel /\ ~BrokenResults) => <>(wpc = "exit")
=============================================================================
