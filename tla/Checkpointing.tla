---------------------------- MODULE Checkpointing ----------------------------
(***************************************************************************)
(* RayPPOTrainer saves checkpoints (_save_checkpoint) and starts again     *)
(* from the last one (_load_checkpoint) when the job is run again after it *)
(* has died.  Only the steps that save are modelled, numbered from 1;      *)
(* FinalStep is total_training_steps.  A file is Absent, Torn (opened and  *)
(* not yet completely written) or the run, that is the start of the job,   *)
(* that wrote it.  Checkpoints are never removed (max_actor_ckpt_to_keep   *)
(* is null).                                                               *)
(***************************************************************************)
EXTENDS Integers, FiniteSets

CONSTANTS
    Ranks,          \* the workers, one shard of the model each
    FinalStep,      \* the last step
    MaxRuns,        \* bound: starts of the training job
    Absent, Torn

ASSUME CheckpointAssumption ==
    /\ FinalStep \in Nat \ {0} /\ MaxRuns \in Nat \ {0}
    /\ Absent \notin Nat /\ Torn \notin Nat /\ Absent # Torn
    /\ IsFiniteSet(Ranks) /\ Ranks # {}

\* A run that resumes from step FinalStep trains and saves one more.
Steps == 1..(FinalStep + MaxRuns - 1)

VARIABLES
    shard,      \* actor/model_world_size_*_rank_*.pt of every step and rank
    config,     \* actor/huggingface/config.json and actor/fsdp_config.json
    data,       \* data.pt
    tracker,    \* latest_checkpointed_iteration.txt, 0 when there is none
    run,        \* which start of the job this is
    tpc,        \* where fit stands
    step,       \* global_steps
    rewritten   \* history: steps whose checkpoint was complete and is saved again

disk == <<shard, config, data, tracker>>
ckptVars == <<disk, run, tpc, step, rewritten>>

CkptInit ==
    /\ shard = [s \in Steps |-> [r \in Ranks |-> Absent]]
    /\ config = [s \in Steps |-> FALSE]
    /\ data = [s \in Steps |-> Absent]
    /\ tracker = 0
    /\ run = 1 /\ tpc = "train" /\ step = 1
    /\ rewritten = {}

\* What checkpoint_ready of the watcher takes for a complete checkpoint.
FilesExist(s) ==
    /\ data[s] # Absent
    /\ config[s]
    /\ \A r \in Ranks : shard[s][r] # Absent

-----------------------------------------------------------------------------
(* fit and _save_checkpoint.                                                *)

\* Training up to the next step that saves.
Train ==
    /\ tpc = "train"
    /\ tpc' = "actor"
    /\ rewritten' = IF FilesExist(step) THEN rewritten \union {step} ELSE rewritten
    /\ UNCHANGED <<disk, run, step>>

\* save_checkpoint of the worker group: every rank opens and writes its shard
\* over the one that is there.
OpenShard(r) ==
    /\ tpc = "actor"
    /\ shard[step][r] \notin {Torn, run}
    /\ shard' = [shard EXCEPT ![step][r] = Torn]
    /\ UNCHANGED <<config, data, tracker, run, tpc, step, rewritten>>

WriteShard(r) ==
    /\ tpc = "actor"
    /\ shard[step][r] = Torn
    /\ shard' = [shard EXCEPT ![step][r] = run]
    /\ UNCHANGED <<config, data, tracker, run, tpc, step, rewritten>>

WriteConfig ==
    /\ tpc = "actor" /\ ~config[step]
    /\ config' = [config EXCEPT ![step] = TRUE]
    /\ UNCHANGED <<shard, data, tracker, run, tpc, step, rewritten>>

ActorSaved == config[step] /\ \A r \in Ranks : shard[step][r] = run

\* The call returns when every rank has passed its barrier.
OpenData ==
    /\ tpc = "actor" /\ ActorSaved
    /\ data' = [data EXCEPT ![step] = Torn]
    /\ tpc' = "data"
    /\ UNCHANGED <<shard, config, tracker, run, step, rewritten>>

WriteData ==
    /\ tpc = "data"
    /\ data' = [data EXCEPT ![step] = run]
    /\ tpc' = "tracker"
    /\ UNCHANGED <<shard, config, tracker, run, step, rewritten>>

\* open(..., "w") empties the tracker before the step is written to it.
OpenTracker ==
    /\ tpc = "tracker" /\ tracker # Torn
    /\ tracker' = Torn
    /\ UNCHANGED <<shard, config, data, run, tpc, step, rewritten>>

WriteTracker ==
    /\ tpc = "tracker" /\ tracker = Torn
    /\ tracker' = step
    /\ tpc' = "saved"
    /\ UNCHANGED <<shard, config, data, run, step, rewritten>>

\* A variant the runs must reject: fit does not return after the last step.
EndStepOn ==
    /\ tpc = "saved"
    /\ tpc' = "train"
    /\ step' = step + 1
    /\ UNCHANGED <<disk, run, rewritten>>

\* fit returns after a step with global_steps >= total_training_steps.
EndStep ==
    /\ tpc = "saved"
    /\ IF step >= FinalStep THEN tpc' = "done" /\ UNCHANGED step
                       ELSE tpc' = "train" /\ step' = step + 1
    /\ UNCHANGED <<disk, run, rewritten>>

-----------------------------------------------------------------------------
(* The job dies and is run again.                                           *)

TrainerDies ==
    /\ tpc \notin {"down", "done"} /\ run < MaxRuns
    /\ tpc' = "down"
    /\ UNCHANGED <<disk, run, step, rewritten>>

\* A variant the runs must reject: the step of the tracker is trained again.
NextStepSame == IF tracker = 0 THEN 1 ELSE tracker

\* global_steps is the tracker's step, then incremented.
NextStep == tracker + 1

\* _load_checkpoint with resume_mode auto.  It reads the tracker (with
\* find_latest_ckpt_path, which no longer starts the job on an empty one).
Resume ==
    /\ tpc = "down" /\ tracker # Torn
    /\ run' = run + 1
    /\ step' = NextStep
    /\ tpc' = "train"
    /\ UNCHANGED <<disk, rewritten>>

Save ==
    \/ \E r \in Ranks : OpenShard(r) \/ WriteShard(r)
    \/ WriteConfig \/ OpenData \/ WriteData \/ OpenTracker \/ WriteTracker

Trainer == Train \/ Save \/ EndStep \/ TrainerDies \/ Resume

CkptTypeOK ==
    /\ shard \in [Steps -> [Ranks -> (1..MaxRuns) \union {Absent, Torn}]]
    /\ config \in [Steps -> BOOLEAN]
    /\ data \in [Steps -> (1..MaxRuns) \union {Absent, Torn}]
    /\ tracker \in {0, Torn} \union Steps
    /\ run \in 1..MaxRuns
    /\ tpc \in {"train", "actor", "data", "tracker", "saved", "down",
               "done"}
    /\ step \in Steps
    /\ rewritten \subseteq Steps

Whole(s) ==
    /\ config[s] /\ data[s] \in Nat
    /\ \A r \in Ranks : shard[s][r] = data[s]

\* _save_checkpoint, "latest checkpointed iteration tracker (for atomic usage)":
\* the checkpoint that a new run starts from is complete, all its files come from
\* one run, and nobody writes to it any more.
ResumesFromWhole ==
    tracker \in Steps =>
        Whole(tracker) /\ (tpc \in {"train", "actor", "data"} => step > tracker)
=============================================================================
