------------------------- MODULE CheckpointEvalProofs -------------------------
(***************************************************************************)
(* The checkpoint that a new run of the trainer starts from is whole, and  *)
(* what the watcher and the evaluator make of the checkpoints of a run     *)
(* that goes on, dies and is started again, for every number of ranks,     *)
(* steps, tasks, runs and faults.                                          *)
(***************************************************************************)
EXTENDS CheckpointEval, WellFoundedInduction, TLAPS

-----------------------------------------------------------------------------
(* The trainer's side, whatever watcher and evaluator do meanwhile.         *)

Saving == {"train", "actor", "data", "tracker"}

\* Steps are within their bound, as the runs so far allow.
BoundInv ==
    /\ tpc = "down" => run < MaxRuns
    /\ step <= FinalStep + run - 1
    /\ tracker # Torn => tracker <= FinalStep + run - 1

\* What is being saved comes after the step of the tracker; what has been saved
\* when the tracker is about to name it is the present run's.
SavingInv ==
    /\ tpc \in {"train", "actor", "data"} => tracker # Torn
    /\ tpc \in Saving => tracker = Torn \/ tracker < step
    /\ tpc \in {"data", "tracker"} => ActorSaved
    /\ tpc = "tracker" => data[step] = run
    /\ tpc = "saved" => tracker = step
    /\ tracker \in Steps => Whole(tracker)

CkptInv == CkptTypeOK /\ BoundInv /\ SavingInv

\* What CheckpointAssumption says of the constants, as the proofs use it.
LEMMA Constants ==
    /\ FinalStep \in Nat /\ FinalStep >= 1 /\ MaxRuns \in Nat /\ MaxRuns >= 1
    /\ Absent \notin Nat /\ Torn \notin Nat /\ Absent # Torn
    /\ Steps \subseteq Nat /\ \A s \in Steps : s >= 1 /\ s # Torn
    /\ 1..MaxRuns \subseteq Nat
  BY CheckpointAssumption DEF CheckpointAssumption, Steps

\* The first start of the job, with no checkpoint, satisfies the invariant.
LEMMA InitCkptInv == CkptInit => CkptInv
  BY Constants DEF CkptInit, CkptInv, CkptTypeOK, BoundInv, SavingInv, Steps, Saving

\* Every step of the trainer keeps the variables' types, and the steps within what
\* the starts of the job so far allow.
LEMMA BoundKept ==
    ASSUME CkptInv, Trainer
    PROVE  BoundInv' /\ CkptTypeOK'
  <1> USE Constants DEF CkptInv, BoundInv, SavingInv, CkptTypeOK, disk, Saving
  <1>1. CASE Train
    BY <1>1 DEF Train
  <1>2. CASE \E r \in Ranks : OpenShard(r)
    BY <1>2 DEF OpenShard
  <1>3. CASE \E r \in Ranks : WriteShard(r)
    BY <1>3 DEF WriteShard
  <1>4. CASE WriteConfig
    BY <1>4 DEF WriteConfig
  <1>5. CASE OpenData
    BY <1>5 DEF OpenData
  <1>6. CASE WriteData
    BY <1>6 DEF WriteData
  <1>7. CASE OpenTracker
    BY <1>7 DEF OpenTracker
  <1>8. CASE WriteTracker
    BY <1>8 DEF WriteTracker
  <1>9. CASE EndStep
    BY <1>9 DEF EndStep, Steps
  <1>10. CASE TrainerDies
    BY <1>10 DEF TrainerDies
  <1>11. CASE Resume
    BY <1>11 DEF Resume, NextStep, Steps
  <1> QED
    BY <1>1, <1>2, <1>3, <1>4, <1>5, <1>6, <1>7, <1>8, <1>9, <1>10, <1>11
    DEF Trainer, Save

\* Every step of the trainer keeps the order in which _save_checkpoint writes, and
\* none writes to the checkpoint that the tracker names.
LEMMA SavingKept ==
    ASSUME CkptInv, Trainer
    PROVE  SavingInv'
  <1> USE Constants DEF CkptInv, BoundInv, SavingInv, CkptTypeOK, disk, Saving, Whole,
          ActorSaved
  <1>1. CASE Train
    BY <1>1 DEF Train
  <1>2. CASE \E r \in Ranks : OpenShard(r)
    <2>1. PICK r \in Ranks : OpenShard(r)
      BY <1>2
    <2>2. /\ tpc = "actor" /\ tpc' = "actor"
          /\ UNCHANGED <<config, data, tracker, step>>
          /\ \A s \in Steps : s # step => shard'[s] = shard[s]
      BY <2>1 DEF OpenShard
    <2>3. tracker \in Steps => tracker # step
      BY <2>2
    <2>4. tracker \in Steps => Whole(tracker)'
      BY <2>2, <2>3
    <2> QED
      BY <2>2, <2>4
  <1>3. CASE \E r \in Ranks : WriteShard(r)
    <2>1. PICK r \in Ranks : WriteShard(r)
      BY <1>3
    <2>2. /\ tpc = "actor" /\ tpc' = "actor"
          /\ UNCHANGED <<config, data, tracker, step>>
          /\ \A s \in Steps : s # step => shard'[s] = shard[s]
      BY <2>1 DEF WriteShard
    <2>3. tracker \in Steps => tracker # step
      BY <2>2
    <2>4. tracker \in Steps => Whole(tracker)'
      BY <2>2, <2>3
    <2> QED
      BY <2>2, <2>4
  <1>4. CASE WriteConfig
    BY <1>4 DEF WriteConfig
  <1>5. CASE OpenData
    BY <1>5 DEF OpenData
  <1>6. CASE WriteData
    BY <1>6 DEF WriteData
  <1>7. CASE OpenTracker
    BY <1>7 DEF OpenTracker
  <1>8. CASE WriteTracker
    BY <1>8 DEF WriteTracker
  <1>9. CASE EndStep
    BY <1>9 DEF EndStep
  <1>10. CASE TrainerDies
    BY <1>10 DEF TrainerDies
  <1>11. CASE Resume
    BY <1>11 DEF Resume, NextStep
  <1> QED
    BY <1>1, <1>2, <1>3, <1>4, <1>5, <1>6, <1>7, <1>8, <1>9, <1>10, <1>11
    DEF Trainer, Save

LEMMA CkptInvKept ==
    ASSUME CkptInv, [Next]_vars
    PROVE  CkptInv'
  <1>1. CASE Trainer
    BY <1>1, BoundKept, SavingKept DEF CkptInv
  <1>2. CASE UNCHANGED ckptVars
    BY <1>2 DEF ckptVars, disk, CkptInv, CkptTypeOK, BoundInv, SavingInv, Saving, Whole,
       ActorSaved
  <1> QED
    BY <1>1, <1>2 DEF Next, Terminated, vars

\* The checkpoint that _load_checkpoint would start from is complete, comes from one
\* run, and nobody writes to it, however often the job dies and is started again and
\* whatever the watcher and its evaluator do meanwhile.
THEOREM WholeCheckpoint == Spec => []ResumesFromWhole
  <1>1. Init => CkptInv
    BY InitCkptInv DEF Init
  <1>2. CkptInv /\ [Next]_vars => CkptInv'
    BY CkptInvKept
  <1>3. CkptInv => ResumesFromWhole
    BY Constants DEF CkptInv, CkptTypeOK, SavingInv, Saving, ResumesFromWhole
  <1> QED
    BY <1>1, <1>2, <1>3, PTL DEF Spec

-----------------------------------------------------------------------------
(* The least element of a set of steps.                                     *)

Less == {pair \in Nat \X Nat : pair[1] < pair[2]}

\* Steps can be taken least first.
LEMMA LessIsWellFounded == IsWellFoundedOn(Less, Nat)
  BY NatLessThanWellFounded DEF OpToRel, Less

LEMMA MinIsLeast ==
    ASSUME NEW S, S \subseteq Nat, S # {}
    PROVE  Min(S) \in S /\ \A s \in S : Min(S) <= s
  <1>1. PICK least \in S : \A s \in S : ~(<<s, least>> \in Less)
    BY LessIsWellFounded, WFMin
  <1>2. ASSUME NEW s \in S
        PROVE  least <= s
    <2>1. \A m, n \in Nat : m < n => <<m, n>> \in Less
      BY DEF Less
    <2>2. ~(s < least)
      BY <1>1, <2>1, Zenon
    <2> QED
      BY <2>2
  <1> QED
    BY <1>2 DEF Min

-----------------------------------------------------------------------------
(* The checkpoints as the watcher finds them.                               *)

\* Steps are saved one after the other; a checkpoint that is complete for
\* checkpoint_ready stays so, and its shards stay those of one run until the trainer
\* saves the step again.
FilesInv ==
    /\ \A s \in Steps : DirExists(s) => s <= step
    /\ \A s \in Steps : s < step => FilesExist(s)
    /\ tracker # Torn => tracker \in {step - 1, step}
    /\ \A s \in Steps : data[s] # Absent => FilesExist(s)
    /\ \A s \in Steps \ rewritten :
         data[s] # Absent => \E n \in 1..MaxRuns : \A r \in Ranks : shard[s][r] = n
    /\ tpc = "actor" /\ data[step] # Absent => step \in rewritten

\* What a step of the trainer leaves of a checkpoint.
Stays(s) ==
    /\ FilesExist(s) => FilesExist(s)'
    /\ data[s] # Absent /\ s \notin rewritten' => shard'[s] = shard[s]
    /\ s \in rewritten => s \in rewritten'

\* There are no checkpoints yet.
LEMMA FilesInit == CkptInit => FilesInv
  BY Constants DEF CkptInit, FilesInv, DirExists, FilesExist, Steps

\* A step that writes no file.
LEMMA FilesKeptAside ==
    ASSUME FilesInv, UNCHANGED disk, rewritten \subseteq rewritten',
           step' = step \/ (step' = step + 1 /\ step \in Nat
                              /\ (step \in Steps => FilesExist(step))),
           tracker # Torn => tracker' \in {step' - 1, step'},
           tpc' = "actor" /\ data'[step'] # Absent => step' \in rewritten'
    PROVE  FilesInv' /\ \A s \in Steps : Stays(s)
  <1>1. \A s \in Steps : (FilesExist(s)' <=> FilesExist(s)) /\ (DirExists(s)' <=> DirExists(s))
    BY DEF disk, FilesExist, DirExists
  <1>2. \A s \in Steps : Stays(s)
    BY <1>1 DEF Stays, disk
  <1>3. \A s \in Steps : s \in Nat
    BY DEF Steps
  <1>4. \A s \in Steps : (DirExists(s)' => s <= step') /\ (s < step' => FilesExist(s)')
    BY <1>1, <1>3 DEF FilesInv
  <1> QED
    BY <1>1, <1>2, <1>4 DEF FilesInv, disk

\* A step that saves: the files of other steps stay, and what was there of the step
\* being saved is there.
LEMMA FilesKeptSaving ==
    ASSUME CkptInv, FilesInv, UNCHANGED <<step, rewritten>>,
           \A s \in Steps \ {step} :
             shard'[s] = shard[s] /\ config'[s] = config[s] /\ data'[s] = data[s],
           FilesExist(step) => FilesExist(step)',
           data'[step] # Absent => FilesExist(step)',
           \/ data'[step] = data[step] /\ shard'[step] = shard[step]
           \/ step \in rewritten
           \/ data'[step] = Absent /\ data[step] = Absent
           \/ /\ \E n \in 1..MaxRuns : \A r \in Ranks : shard[step][r] = n
              /\ shard'[step] = shard[step],
           tracker' # Torn => tracker' \in {step - 1, step},
           tpc' = "actor" => /\ tpc = "actor"
                             /\ data'[step] = data[step]
    PROVE  FilesInv' /\ \A s \in Steps : Stays(s)
  <1>1. step \in Steps /\ \A s \in Steps : s \in Nat
    BY DEF CkptInv, CkptTypeOK, Steps
  <1>2. \A s \in Steps \ {step} :
          (FilesExist(s)' <=> FilesExist(s)) /\ (DirExists(s)' <=> DirExists(s))
    BY DEF FilesExist, DirExists
  <1>3. \A s \in Steps : Stays(s)
    <2>1. \A s \in Steps \ {step} : Stays(s)
      BY <1>2 DEF Stays
    <2>2. Stays(step)
      BY DEF Stays
    <2> QED
      BY <2>1, <2>2
  <1>4. \A s \in Steps : (DirExists(s)' => s <= step') /\ (s < step' => FilesExist(s)')
    BY <1>1, <1>2 DEF FilesInv
  <1>5. \A s \in Steps : data'[s] # Absent => FilesExist(s)'
    BY <1>2 DEF FilesInv
  <1>6. ASSUME NEW s \in Steps \ rewritten', data'[s] # Absent
        PROVE  \E n \in 1..MaxRuns : \A r \in Ranks : shard'[s][r] = n
    <2>1. CASE s # step
      BY <1>6, <2>1 DEF FilesInv
    <2>2. CASE s = step
      BY <1>6, <2>2 DEF FilesInv
    <2> QED
      BY <2>1, <2>2
  <1>7. tpc' = "actor" /\ data'[step'] # Absent => step' \in rewritten'
    BY DEF FilesInv
  <1> QED
    BY <1>3, <1>4, <1>5, <1>6, <1>7 DEF FilesInv

\* Whatever the trainer does, its files keep the order in which they are written.
LEMMA FilesTrainer ==
    ASSUME CkptInv, FilesInv, Trainer
    PROVE  FilesInv' /\ \A s \in Steps : Stays(s)
  <1>1. /\ step \in Steps /\ step \in Nat /\ run \in 1..MaxRuns /\ run # Absent /\ Torn # Absent
        /\ tracker \in {0, Torn} \union Steps /\ run \in Nat
        /\ shard \in [Steps -> [Ranks -> (1..MaxRuns) \union {Absent, Torn}]]
        /\ config \in [Steps -> BOOLEAN]
        /\ data \in [Steps -> (1..MaxRuns) \union {Absent, Torn}]
    BY Constants DEF CkptInv, CkptTypeOK
  <1>2. CASE Train
    BY <1>1, <1>2, FilesKeptAside DEF Train, FilesInv, disk
  <1>3. ASSUME NEW r \in Ranks, OpenShard(r) \/ WriteShard(r)
        PROVE  FilesInv' /\ \A s \in Steps : Stays(s)
    <2>1. /\ tpc = "actor" /\ UNCHANGED <<config, data, tracker, step, rewritten, tpc>>
          /\ \/ shard' = [shard EXCEPT ![step][r] = Torn]
             \/ shard' = [shard EXCEPT ![step][r] = run]
      BY <1>3 DEF OpenShard, WriteShard
    <2>2. /\ \A s \in Steps \ {step} : shard'[s] = shard[s]
          /\ \A q \in Ranks : shard[step][q] # Absent => shard'[step][q] # Absent
      BY <1>1, <2>1
    <2>3. FilesExist(step) => FilesExist(step)'
      BY <2>1, <2>2 DEF FilesExist
    <2>4. data'[step] # Absent => FilesExist(step)' /\ step \in rewritten
      BY <1>1, <2>1, <2>3 DEF FilesInv
    <2> QED
      BY <2>1, <2>2, <2>3, <2>4, FilesKeptSaving DEF FilesInv
  <1>4. CASE WriteConfig
    <2>1. /\ tpc = "actor" /\ UNCHANGED <<shard, data, tracker, step, rewritten, tpc>>
          /\ config' = [config EXCEPT ![step] = TRUE]
      BY <1>4 DEF WriteConfig
    <2>2. FilesExist(step) => FilesExist(step)'
      BY <1>1, <2>1 DEF FilesExist
    <2>3. data'[step] # Absent => FilesExist(step)'
      BY <1>1, <2>1, <2>2 DEF FilesInv
    <2> QED
      BY <1>1, <2>1, <2>2, <2>3, FilesKeptSaving DEF FilesInv
  <1>5. CASE OpenData
    <2>1. /\ tpc = "actor" /\ ActorSaved /\ UNCHANGED <<shard, config, tracker, step, rewritten>>
          /\ data' = [data EXCEPT ![step] = Torn] /\ tpc' = "data"
      BY <1>5 DEF OpenData
    <2>2. FilesExist(step)'
      BY <1>1, <2>1 DEF FilesExist, ActorSaved
    <2>3. \E n \in 1..MaxRuns : \A r \in Ranks : shard[step][r] = n
      BY <1>1, <2>1 DEF ActorSaved
    <2> QED
      BY <1>1, <2>1, <2>2, <2>3, FilesKeptSaving DEF FilesInv
  <1>6. CASE WriteData
    <2>1. /\ tpc = "data" /\ UNCHANGED <<shard, config, tracker, step, rewritten>>
          /\ data' = [data EXCEPT ![step] = run] /\ tpc' = "tracker" /\ ActorSaved
      BY <1>6 DEF WriteData, CkptInv, SavingInv
    <2>2. FilesExist(step)'
      BY <1>1, <2>1 DEF FilesExist, ActorSaved
    <2>3. \E n \in 1..MaxRuns : \A r \in Ranks : shard[step][r] = n
      BY <1>1, <2>1 DEF ActorSaved
    <2> QED
      BY <1>1, <2>1, <2>2, <2>3, FilesKeptSaving DEF FilesInv
  <1>7. CASE OpenTracker \/ WriteTracker
    <2>1. /\ UNCHANGED <<shard, config, data, step, rewritten>>
          /\ tracker' \in {Torn, step} /\ tpc' \in {"tracker", "saved"}
      BY <1>7 DEF OpenTracker, WriteTracker
    <2>2. FilesExist(step)' <=> FilesExist(step)
      BY <2>1 DEF FilesExist
    <2> QED
      BY <1>1, <2>1, <2>2, FilesKeptSaving DEF FilesInv
  <1>8. CASE EndStep \/ Resume
    <2>1. /\ UNCHANGED <<disk, rewritten>> /\ tpc' \in {"train", "done"} /\ tracker # Torn
          /\ \/ step' = step /\ tracker \in {step - 1, step}
             \/ step' = step + 1 /\ tracker = step
      <3>1. CASE EndStep
        BY <1>1, <1>8, <3>1, Constants DEF EndStep, CkptInv, SavingInv
      <3>2. CASE Resume
        BY <1>1, <3>2 DEF Resume, NextStep, disk, FilesInv
      <3> QED
        BY <1>8, <3>1, <3>2 DEF EndStep
    <2>2. tracker = step => FilesExist(step)
      BY <1>1, Constants DEF CkptInv, SavingInv, Whole, FilesExist
    <2>3. tracker' \in {step' - 1, step'}
      BY <1>1, <2>1 DEF disk
    <2> QED
      BY <1>1, <2>1, <2>2, <2>3, FilesKeptAside
  <1>9. CASE TrainerDies
    BY <1>1, <1>9, FilesKeptAside DEF TrainerDies, FilesInv, disk
  <1> QED
    BY <1>2, <1>3, <1>4, <1>5, <1>6, <1>7, <1>8, <1>9 DEF Trainer, Save

-----------------------------------------------------------------------------
(* The watcher's scan and the evaluator's job.                              *)

Writing == {"openJsonl", "writeJsonl", "openNpz", "writeNpz"}
Merging == {"merging", "saving"}
Graded == wpc \in {"openSummary", "writeSummary"}

\* The evaluation of one step, from its beginning to its mark.
InStep == wpc \in {"copy", "mark"} \/ (Evaluating /\ job = "step")

\* The steps the evaluator was started for.
Scope == IF job = "step" THEN {Candidate} ELSE marked
Complete(s) == \A t \in Tasks : HasComplete(s, t)
RowsOf(S) == {Row(s, t) : s \in S, t \in Tasks}

JobInv ==
    /\ Evaluating => specs # {} /\ specs \subseteq Scope
    /\ InStep => /\ job = "step" /\ todo # {} /\ Candidate \notin marked
                 /\ Candidate <= FinalStep /\ FilesExist(Candidate)
    /\ (Evaluating /\ job = "final") \/ wpc = "exit" => FinalStep \in marked
    /\ wpc \in Writing \union Merging => job = "step"

\* A scan that has found the final step has found, or marked before, all others.
ScanInv ==
    /\ FinalStep \in todo =>
         \A s \in 1..(FinalStep - 1) : FilesExist(s) /\ s \in todo \union marked
    /\ FinalStep \in marked => 1..FinalStep \subseteq marked

\* Models are merged from complete checkpoints, and never away from a marked step.
ModelInv ==
    /\ \A s \in Steps : merged[s] # Absent => FilesExist(s)
    /\ MergedFromOneCheckpoint
    /\ wpc \in Merging /\ Current \notin rewritten =>
         \A r \in Ranks : loaded = {shard[Current][r]}
    /\ wpc \in Writing \union {"generate", "grade", "openSummary", "writeSummary"} =>
         merged[Current] # Absent
    /\ wpc \in {"copy", "mark"} => merged[Candidate] # Absent
    /\ \A s \in marked : merged[s] # Absent

\* The results of the marked steps.
ResultsInv ==
    /\ \A s \in marked : Complete(s)
    /\ \A s \in marked \ copyFailed : stepSummary[s] = RowsOf({s})

\* Rows and tokens of one generation, up to the task being written, and the rows
\* graded from them.
WorkInv ==
    /\ wpc \in Writing => \A t \in Tasks : t < task => HasComplete(Current, t)
    /\ wpc \in {"openNpz", "writeNpz"} => jsonl[Current][task] = faults
    /\ wpc = "grade" \/ Graded => Complete(Current)
    /\ wpc \in {"copy", "mark"} => Complete(Candidate)
    /\ Evaluating => rows = RowsOf((Scope \ specs) \union (IF Graded THEN {Current} ELSE {}))
    /\ wpc = "copy" => summary = RowsOf({Candidate})
    /\ wpc = "mark" => Candidate \in copyFailed \/ stepSummary[Candidate] = RowsOf({Candidate})
    /\ wpc = "exit" => summary = RowsOf(marked)

\* Where the sets the steps are taken from are not empty, the least is one of them.
LEMMA LeastSteps ==
    ASSUME TypeOK
    PROVE  /\ todo # {} => Candidate \in todo /\ Candidate \in Steps
                           /\ \A s \in todo : Candidate <= s
           /\ specs # {} => Current \in specs /\ Current \in Steps
           /\ Steps \subseteq Nat /\ todo \subseteq Nat /\ specs \subseteq Nat
  <1>1. todo \subseteq Steps /\ specs \subseteq Steps /\ Steps \subseteq Nat
    BY Constants DEF TypeOK
  <1>2. todo # {} => Candidate \in todo /\ \A s \in todo : Candidate <= s
    BY <1>1, MinIsLeast DEF Candidate
  <1>3. specs # {} => Current \in specs
    BY <1>1, MinIsLeast DEF Current
  <1> QED
    BY <1>1, <1>2, <1>3

\* The step the evaluator is busy with.
LEMMA Busy ==
    ASSUME TypeOK, JobInv, Evaluating
    PROVE  /\ Current \in specs /\ Current \in Steps
           /\ job = "step" => specs = {Candidate} /\ Current = Candidate
           /\ job = "final" => Current \in marked
           /\ job \in {"step", "final"}
  <1>1. specs # {} /\ specs \subseteq Scope
    BY DEF JobInv
  <1>2. Current \in specs /\ Current \in Steps /\ job \in {"step", "final"}
    BY <1>1, LeastSteps DEF TypeOK
  <1> QED
    BY <1>1, <1>2 DEF Scope

\* One file of a step and task is written.
LEMMA FileWritten ==
    ASSUME NEW S, NEW T, NEW V, NEW f \in [S -> [T -> V]], NEW s \in S, NEW t \in T, NEW v \in V
    PROVE  /\ [f EXCEPT ![s][t] = v] \in [S -> [T -> V]]
           /\ [f EXCEPT ![s][t] = v][s][t] = v
           /\ \A r \in S, u \in T : r # s \/ u # t => [f EXCEPT ![s][t] = v][r][u] = f[r][u]
  OBVIOUS

\* The types are kept by every step.
LEMMA EvalTypes ==
    ASSUME TypeOK, JobInv, [Next]_vars, CkptTypeOK'
    PROVE  TypeOK'
  <1> USE DEF TypeOK, files, memory, faultVars
  <1>1. CASE UNCHANGED evalVars
    BY <1>1 DEF evalVars
  <1>2. Evaluating => Current \in Steps /\ merged[Current] \in {Absent, Torn} \union SUBSET (1..MaxRuns)
    BY Busy
  <1>3. todo # {} => Candidate \in Steps
    BY LeastSteps
  <1>4. /\ faults \in FileIds /\ {Torn, Broken} \subseteq FileIds /\ NumTasks \in Nat /\ task + 1 \in Nat
        /\ task # NumTasks => task + 1 \in Tasks
        /\ 1 \in Tasks
    BY EvalAssumption DEF FileIds, Tasks
  <1>5. CASE Scan \/ Skip \/ BeginStep \/ EndScan
    BY <1>3, <1>5 DEF Scan, Skip, BeginStep, EndScan, Start, EvaluatorPoints
  <1>6. CASE Prepare \/ MergeReuse \/ MergeLoad
    <2>1. CASE Prepare \/ MergeReuse
      BY <1>6, <2>1 DEF Prepare, MergeReuse, Failed, EvaluatorPoints
    <2>2. CASE MergeLoad
      <3>1. Current \in Steps
        BY <1>2, <2>2 DEF MergeLoad, Evaluating, EvaluatorPoints
      <3>2. (\A r \in Ranks : shard[Current][r] \notin {Absent, Torn}) =>
              {shard[Current][r] : r \in Ranks} \subseteq 1..MaxRuns
        BY <3>1 DEF CkptTypeOK
      <3> QED
        BY <2>2, <3>2 DEF MergeLoad, Failed, EvaluatorPoints
    <2> QED
      BY <1>6, <2>1, <2>2
  <1>7. CASE MergeOpen \/ MergeSave
    BY <1>7 DEF MergeOpen, MergeSave, EvaluatorPoints
  <1>8. CASE GenerateReuse \/ Generate
    BY <1>4, <1>8 DEF GenerateReuse, Generate, Failed, EvaluatorPoints
  <1>9. CASE OpenJsonl \/ WriteJsonl
    <2>1. jsonl' \in [Steps -> [Tasks -> FileIds]]
      <3>1. Current \in Steps
        BY <1>2, <1>9 DEF OpenJsonl, WriteJsonl, Evaluating, EvaluatorPoints
      <3>2. \E id \in FileIds : jsonl' = [jsonl EXCEPT ![Current][task] = id]
        <4>1. CASE OpenJsonl
          BY <1>4, <4>1 DEF OpenJsonl
        <4>2. CASE WriteJsonl
          BY <1>4, <4>2 DEF WriteJsonl
        <4> QED
          BY <1>9, <4>1, <4>2
      <3>3. jsonl \in [Steps -> [Tasks -> FileIds]] /\ task \in Tasks
        OBVIOUS
      <3> QED
        BY ONLY <3>1, <3>2, <3>3, FileWritten
    <2>2. wpc' \in {"writeJsonl", "openNpz"}
          /\ UNCHANGED <<merged, npz, evalConfig, summary, stepSummary, marked, memory, faultVars>>
      BY <1>9 DEF OpenJsonl, WriteJsonl
    <2> QED
      BY <2>1, <2>2 DEF EvaluatorPoints
  <1>10. CASE OpenNpz \/ WriteNpz
    <2>1. npz' \in [Steps -> [Tasks -> FileIds]]
      <3>1. Current \in Steps
        BY <1>2, <1>10 DEF OpenNpz, WriteNpz, Evaluating, EvaluatorPoints
      <3>2. \E id \in FileIds : npz' = [npz EXCEPT ![Current][task] = id]
        BY <1>4, <1>10 DEF OpenNpz, WriteNpz
      <3>3. npz \in [Steps -> [Tasks -> FileIds]] /\ task \in Tasks
        OBVIOUS
      <3> QED
        BY ONLY <3>1, <3>2, <3>3, FileWritten
    <2>2. /\ wpc' \in {"writeNpz", "grade", "openJsonl"} /\ task' \in Tasks
          /\ UNCHANGED <<merged, jsonl, evalConfig, summary, stepSummary, marked, todo, job,
                         specs, loaded, rows, faultVars>>
      BY <1>4, <1>10 DEF OpenNpz, WriteNpz
    <2> QED
      BY <2>1, <2>2 DEF EvaluatorPoints
  <1>11. CASE Grade
    <2>1. Current \in Steps
      BY <1>2, <1>11 DEF Grade, Evaluating, EvaluatorPoints
    <2>2. {Row(Current, t) : t \in Tasks} \subseteq Rows
      BY <2>1 DEF Row, Rows
    <2> QED
      BY <1>11, <2>2 DEF Grade, EvaluatorPoints
  <1>12. CASE OpenSummary \/ WriteSummary
    BY <1>12 DEF OpenSummary, WriteSummary, EvaluatorPoints
  <1>13. CASE Copy \/ CopyFails \/ Mark
    <2>1. todo # {}
      BY <1>13 DEF Copy, CopyFails, Mark, JobInv, InStep
    <2>2. CASE Copy
      BY <1>3, <2>1, <2>2 DEF Copy
    <2>3. CASE CopyFails
      BY <1>3, <2>1, <2>3, EvalAssumption DEF CopyFails
    <2>4. CASE Mark
      BY <1>3, <2>1, <2>4 DEF Mark
    <2> QED
      BY <1>13, <2>2, <2>3, <2>4
  <1>14. CASE EvaluatorFails \/ WatcherDies \/ Restart
    <2>1. /\ faults' \in 0..MaxFaults /\ wpc' \in {"scan", "next", "down"} /\ todo' \subseteq Steps
          /\ UNCHANGED <<files, job, specs, task, loaded, rows, copyFailed>>
      BY <1>14, EvalAssumption DEF EvaluatorFails, WatcherDies, Restart, Failed
    <2> QED
      BY <2>1
  <1> QED
    BY <1>1, <1>5, <1>6, <1>7, <1>8, <1>9, <1>10, <1>11, <1>12, <1>13, <1>14
    DEF Next, Watcher, Evaluator, Fault, Terminated, vars

EvalInv == JobInv /\ ScanInv /\ ModelInv /\ ResultsInv /\ WorkInv

\* The watcher gets to its scan, or down.
Idle == wpc \in {"scan", "next", "down"}

\* The watcher starts with nothing evaluated.
LEMMA EvalInitInv == Init => TypeOK /\ EvalInv
  <1> SUFFICES ASSUME Init
               PROVE  TypeOK /\ EvalInv
    OBVIOUS
  <1>1. CkptTypeOK
    BY InitCkptInv DEF Init, CkptInv
  <1>2. Absent \in FileIds /\ 1 \in Tasks /\ 0 \in 0..MaxFaults /\ FinalStep \in Nat \ {0}
    BY EvalAssumption, CheckpointAssumption DEF FileIds, Tasks
  <1>3. TypeOK
    BY <1>1, <1>2 DEF Init, EvalInit, TypeOK
  <1>4. wpc = "scan" /\ todo = {} /\ marked = {} /\ \A s \in Steps : merged[s] = Absent
    BY DEF Init, EvalInit
  <1>5. JobInv /\ ScanInv /\ ResultsInv /\ WorkInv
    BY <1>4 DEF JobInv, ScanInv, ResultsInv, WorkInv, InStep, Evaluating, EvaluatorPoints, Writing,
                Merging, Graded
  <1>6. ModelInv
    BY <1>4 DEF ModelInv, MergedFromOneCheckpoint, Writing, Merging
  <1> QED
    BY <1>3, <1>5, <1>6 DEF EvalInv

\* A marked step is never merged, generated or graded for the first time.
LEMMA FirstTime ==
    ASSUME TypeOK, EvalInv
    PROVE  /\ wpc = "merge" /\ ~IsModelDir(Current) => job = "step"
           /\ wpc = "generate" /\ (\E t \in Tasks : ~HasComplete(Current, t)) => job = "step"
  <1>1. wpc \in {"merge", "generate"} /\ job = "final" => Current \in marked
    BY Busy DEF EvalInv, Evaluating, EvaluatorPoints
  <1>2. job \in {"step", "final"}
    BY DEF TypeOK
  <1> QED
    BY <1>1, <1>2 DEF EvalInv, ModelInv, ResultsInv, Complete, IsModelDir

\* The evaluator's job stays the one it was started for.
LEMMA JobNext ==
    ASSUME TypeOK, EvalInv, [Next]_vars, \A s \in Steps : FilesExist(s) => FilesExist(s)'
    PROVE  JobInv'
  <1> USE DEF files, memory
  <1>1. CASE UNCHANGED evalVars
    <2>1. UNCHANGED <<Candidate, InStep, Evaluating, Scope>>
      BY <1>1 DEF evalVars, Candidate, InStep, Evaluating, Scope
    <2>2. InStep => Candidate \in Steps
      BY LeastSteps DEF EvalInv, JobInv
    <2> QED
      BY <1>1, <2>1, <2>2 DEF evalVars, EvalInv, JobInv
  <1>2. CASE Idle'
    BY <1>2 DEF JobInv, InStep, Evaluating, EvaluatorPoints, Idle, Writing, Merging
  <1>3. CASE BeginStep
    <2>1. Candidate \in Steps /\ Candidate' = Candidate /\ UNCHANGED <<todo, marked>>
          /\ todo # {} /\ wpc' = "prepare" /\ job' = "step" /\ specs' = {Candidate}
      BY <1>3, LeastSteps DEF BeginStep, Start, Candidate
    <2>2. Candidate \notin marked /\ Candidate <= FinalStep /\ FilesExist(Candidate)'
      BY <1>3, <2>1 DEF BeginStep, Wanted
    <2> QED
      BY <2>1, <2>2 DEF JobInv, InStep, Evaluating, EvaluatorPoints, Scope, Writing, Merging
  <1>4. CASE EndScan /\ ~Idle'
    BY <1>4 DEF EndScan, Start, Idle, JobInv, InStep, Evaluating, EvaluatorPoints, Scope,
                Writing, Merging
  <1>5. CASE ~UNCHANGED evalVars /\ Evaluator /\ ~WriteSummary /\ ~Idle'
    <2>1. /\ UNCHANGED <<todo, job, specs, marked>> /\ Evaluating /\ Evaluating'
          /\ wpc' \in Writing \union Merging => job = "step"
      <3>1. CASE Prepare \/ MergeReuse \/ MergeLoad
        BY <1>5, <3>1, FirstTime
        DEF Idle, Evaluating, EvaluatorPoints, Writing, Merging, Prepare, MergeReuse,
            MergeLoad, Failed
      <3>2. CASE MergeOpen \/ MergeSave \/ GenerateReuse \/ Generate
        BY <1>5, <3>2, FirstTime
        DEF Idle, Evaluating, EvaluatorPoints, Writing, Merging, MergeOpen, MergeSave,
            GenerateReuse, Generate, Failed, EvalInv, JobInv
      <3>3. CASE OpenJsonl \/ WriteJsonl \/ OpenNpz \/ WriteNpz
        BY <1>5, <3>3
        DEF Idle, Evaluating, EvaluatorPoints, Writing, Merging, OpenJsonl, WriteJsonl,
            OpenNpz, WriteNpz, EvalInv, JobInv
      <3>4. CASE Grade \/ OpenSummary
        BY <1>5, <3>4
        DEF Evaluating, EvaluatorPoints, Writing, Merging, Grade, OpenSummary
      <3> QED
        BY <1>5, <3>1, <3>2, <3>3, <3>4 DEF Evaluator
    <2>2. UNCHANGED <<Candidate, Scope>>
      BY <2>1 DEF Candidate, Scope
    <2>3. InStep' => InStep /\ Candidate \in Steps
      BY <2>1, LeastSteps DEF InStep, Evaluating, EvaluatorPoints, EvalInv, JobInv
    <2>4. wpc' # "exit"
      BY <2>1 DEF Evaluating, EvaluatorPoints
    <2> QED
      BY <2>1, <2>2, <2>3, <2>4 DEF EvalInv, JobInv
  <1>6. CASE WriteSummary
    <2>1. /\ UNCHANGED <<todo, job, marked>> /\ Evaluating
          /\ specs' = specs \ {Current}
          /\ wpc' = IF specs' # {} THEN "merge" ELSE IF job = "step" THEN "copy" ELSE "exit"
      BY <1>6 DEF WriteSummary, Evaluating, EvaluatorPoints
    <2>2. UNCHANGED <<Candidate, Scope>>
      BY <2>1 DEF Candidate, Scope
    <2>3. /\ job = "step" => specs' = {} /\ wpc' = "copy" /\ InStep /\ Candidate \in Steps
          /\ specs' \subseteq Scope /\ job \in {"step", "final"}
      BY <2>1, Busy, LeastSteps DEF InStep, EvalInv, JobInv
    <2> QED
      BY <2>1, <2>2, <2>3
      DEF EvalInv, JobInv, InStep, Evaluating, EvaluatorPoints, Writing, Merging
  <1>7. CASE Copy \/ CopyFails
    <2>1. UNCHANGED <<todo, job, specs, marked>> /\ wpc = "copy" /\ wpc' = "mark"
      BY <1>7 DEF Copy, CopyFails
    <2>2. UNCHANGED <<Candidate, Scope>> /\ InStep /\ Candidate \in Steps
      BY <2>1, LeastSteps DEF Candidate, Scope, InStep, EvalInv, JobInv
    <2> QED
      BY <2>1, <2>2
      DEF EvalInv, JobInv, InStep, Evaluating, EvaluatorPoints, Writing, Merging
  <1> QED
    BY <1>1, <1>2, <1>3, <1>4, <1>5, <1>6, <1>7
    DEF Next, Watcher, Fault, Terminated, vars, Idle, Scan, Skip, Mark, EvaluatorFails,
        WatcherDies, Restart, Failed

\* The steps come up in ascending order, and a later one exists only if all before
\* it have been saved.
LEMMA ScanNext ==
    ASSUME CkptTypeOK, TypeOK, FilesInv, EvalInv, [Next]_vars,
           \A s \in Steps : FilesExist(s) => FilesExist(s)'
    PROVE  ScanInv'
  <1>1. FinalStep \in Nat \ {0} /\ 1..FinalStep \subseteq Steps /\ FinalStep \in Steps
    BY CheckpointAssumption DEF Steps
  <1>2. CASE (todo' = todo \/ todo' = {}) /\ marked' = marked
    BY <1>1, <1>2 DEF EvalInv, ScanInv
  <1>3. CASE Skip
    <2>1. /\ todo # {} /\ ~Wanted(Candidate) /\ todo' = todo \ {Candidate}
          /\ Candidate \in todo /\ marked' = marked
      BY <1>3, LeastSteps DEF Skip, files
    <2>2. FinalStep \in todo /\ Candidate < FinalStep => Candidate \in marked
      <3>1. FinalStep \in todo /\ Candidate < FinalStep => Candidate \in 1..(FinalStep - 1)
        BY <1>1, <2>1, LeastSteps DEF Steps
      <3> QED
        BY <1>1, <2>1, <3>1, LeastSteps DEF EvalInv, ScanInv, Wanted
    <2>3. ASSUME FinalStep \in todo', NEW s \in 1..(FinalStep - 1)
          PROVE  FilesExist(s)' /\ s \in todo' \union marked
      <3>1. FinalStep \in todo /\ Candidate < FinalStep
        BY <1>1, <2>1, <2>3, LeastSteps
      <3> QED
        BY <1>1, <2>1, <2>2, <2>3, <3>1 DEF EvalInv, ScanInv
    <2> QED
      BY <2>1, <2>3 DEF EvalInv, ScanInv
  <1>4. CASE Scan /\ UNCHANGED ckptVars
    <2>1. marked' = marked /\ todo' = {s \in Steps : DirExists(s)}
      BY <1>4 DEF Scan, files
    <2>2. ASSUME FinalStep \in todo', NEW s \in 1..(FinalStep - 1)
          PROVE  FilesExist(s)' /\ s \in todo'
      <3>1. s \in Steps /\ s < step
        BY <1>1, <2>1, <2>2 DEF FilesInv, CkptTypeOK, Steps
      <3>2. FilesExist(s)
        BY <3>1 DEF FilesInv
      <3>3. DirExists(s)
        BY <3>2 DEF FilesExist, DirExists
      <3> QED
        BY <2>1, <3>1, <3>2, <3>3
    <2> QED
      BY <2>1, <2>2 DEF EvalInv, ScanInv
  <1>5. CASE Mark
    <2>1. /\ marked' = marked \union {Candidate} /\ todo' = todo \ {Candidate}
          /\ Candidate \in todo /\ \A s \in todo : Candidate <= s
      BY <1>5, LeastSteps DEF Mark, EvalInv, JobInv, InStep
    <2>2. todo \subseteq Nat /\ marked \subseteq Steps
      BY LeastSteps DEF TypeOK
    <2>3. FinalStep \in todo' =>
            \A s \in 1..(FinalStep - 1) : FilesExist(s)' /\ s \in todo' \union marked'
      BY <1>1, <2>1 DEF EvalInv, ScanInv
    <2>4. FinalStep \in marked' => 1..FinalStep \subseteq marked'
      <3>1. CASE Candidate = FinalStep
        <4>1. \A s \in 1..(FinalStep - 1) : s \notin todo /\ s \in todo \union marked
          BY <1>1, <2>1, <2>2, <3>1 DEF EvalInv, ScanInv
        <4>2. 1..FinalStep = (1..(FinalStep - 1)) \union {FinalStep}
          BY <1>1
        <4> QED
          BY <2>1, <3>1, <4>1, <4>2
      <3>2. CASE Candidate # FinalStep
        BY <2>1, <3>2 DEF EvalInv, ScanInv
      <3> QED
        BY <3>1, <3>2
    <2> QED
      BY <2>3, <2>4 DEF ScanInv
  <1>6. \/ (todo' = todo \/ todo' = {}) /\ marked' = marked
        \/ Skip \/ (Scan /\ UNCHANGED ckptVars) \/ Mark
    BY DEF Next, Watcher, Fault, Terminated, vars, evalVars, files, memory, BeginStep,
          EndScan, Evaluator, Prepare, MergeReuse, MergeLoad, MergeOpen, MergeSave,
          GenerateReuse, Generate, OpenJsonl, WriteJsonl, OpenNpz, WriteNpz, Grade,
          OpenSummary, WriteSummary, Copy, CopyFails, EvaluatorFails, WatcherDies, Restart,
          Failed
  <1> QED
    BY <1>2, <1>3, <1>4, <1>5, <1>6

\* What a marked step was evaluated from is not written again.
LEMMA MarkedStand ==
    ASSUME TypeOK, EvalInv, [Next]_vars
    PROVE  \A s \in marked : /\ jsonl'[s] = jsonl[s] /\ npz'[s] = npz[s]
                             /\ merged'[s] = merged[s]
  <1>1. CASE UNCHANGED <<jsonl, npz, merged>>
    BY <1>1
  <1>2. CASE OpenJsonl \/ WriteJsonl \/ OpenNpz \/ WriteNpz \/ MergeOpen \/ MergeSave
    <2>1. wpc \in Writing \union Merging /\ Evaluating
      BY <1>2 DEF OpenJsonl, WriteJsonl, OpenNpz, WriteNpz, MergeOpen, MergeSave, Writing,
                  Merging, Evaluating, EvaluatorPoints
    <2>2. job = "step" /\ Current \in Steps /\ Current \notin marked
      BY <2>1, Busy DEF EvalInv, JobInv, InStep
    <2>3. \A s \in Steps \ {Current} :
            jsonl'[s] = jsonl[s] /\ npz'[s] = npz[s] /\ merged'[s] = merged[s]
      BY <1>2 DEF TypeOK, OpenJsonl, WriteJsonl, OpenNpz, WriteNpz, MergeOpen, MergeSave
    <2> QED
      BY <2>2, <2>3 DEF TypeOK
  <1>3. \/ UNCHANGED <<jsonl, npz, merged>>
        \/ OpenJsonl \/ WriteJsonl \/ OpenNpz \/ WriteNpz \/ MergeOpen \/ MergeSave
    BY DEF Next, Watcher, Fault, Terminated, vars, evalVars, files, Scan, Skip, BeginStep,
          EndScan, Evaluator, Prepare, MergeReuse, MergeLoad, GenerateReuse, Generate, Grade,
          OpenSummary, WriteSummary, Copy, CopyFails, Mark, EvaluatorFails, WatcherDies,
          Restart, Failed
  <1> QED
    BY <1>1, <1>2, <1>3

\* Where the merger and the generation stand with their model.
LEMMA ModelNext ==
    ASSUME CkptTypeOK, TypeOK, FilesInv, EvalInv, [Next]_vars, \A s \in Steps : Stays(s)
    PROVE  ModelInv'
  <1> USE DEF files, memory
  <1>1. /\ \A s \in Steps : FilesExist(s) => FilesExist(s)' /\ data[s] # Absent
        /\ marked \subseteq Steps
    BY DEF Stays, FilesExist, TypeOK
  <1>2. InStep => Candidate \in Steps /\ FilesExist(Candidate) /\ job = "step"
    BY LeastSteps DEF EvalInv, JobInv
  <1>3. Evaluating /\ job = "step" => Current = Candidate /\ InStep
    BY Busy DEF EvalInv, InStep
  <1>4. CASE UNCHANGED evalVars
    <2>1. UNCHANGED <<Current, Candidate, merged, marked, wpc, loaded>>
      BY <1>4 DEF evalVars, Candidate, Current
    <2>2. \A s \in Steps : FilesExist(s) /\ s \notin rewritten' =>
            s \notin rewritten /\ shard'[s] = shard[s]
      BY <1>1 DEF Stays
    <2>3. wpc \in Merging => Current \in Steps /\ FilesExist(Current)
      BY <1>2, <1>3 DEF EvalInv, JobInv, Merging, Evaluating, EvaluatorPoints
    <2>4. MergedFromOneCheckpoint'
      BY <2>1, <2>2 DEF EvalInv, ModelInv, MergedFromOneCheckpoint
    <2> QED
      BY <1>1, <2>1, <2>2, <2>3, <2>4 DEF EvalInv, ModelInv
  <1>5. ASSUME UNCHANGED ckptVars, merged' = merged,
               \A s \in marked' : merged[s] # Absent,
               wpc' \in Merging => /\ wpc \in Merging \/ MergeLoad
                                   /\ UNCHANGED specs,
               wpc' \in Writing \union {"generate", "grade", "openSummary", "writeSummary"} =>
                 merged[Current] # Absent /\ UNCHANGED specs,
               wpc' \in {"copy", "mark"} => merged[Candidate] # Absent /\ UNCHANGED todo,
               loaded' = loaded \/ MergeLoad
        PROVE  ModelInv'
    <2>1. UNCHANGED <<shard, rewritten>> /\ \A s \in Steps : FilesExist(s)' <=> FilesExist(s)
      BY <1>5 DEF ckptVars, disk, FilesExist
    <2>2. wpc' \in Merging /\ Current' \notin rewritten' =>
            \A r \in Ranks : loaded' = {shard'[Current'][r]}
      <3>1. CASE MergeLoad
        <4>1. wpc' \in Merging => /\ loaded' = {shard[Current][r] : r \in Ranks}
                                  /\ Current' = Current /\ Current \in Steps
                                  /\ data[Current] # Absent
          BY <1>1, <1>2, <1>3, <3>1, FirstTime
          DEF MergeLoad, Failed, Merging, Evaluating, EvaluatorPoints, Current
        <4>2. wpc' \in Merging /\ Current \notin rewritten =>
                \E n \in 1..MaxRuns : \A r \in Ranks : shard[Current][r] = n
          BY <4>1 DEF FilesInv
        <4> QED
          BY <2>1, <4>1, <4>2
      <3>2. CASE ~MergeLoad
        BY <1>5, <2>1, <3>2 DEF EvalInv, ModelInv, Current
      <3> QED
        BY <3>1, <3>2
    <2>3. MergedFromOneCheckpoint'
      BY <1>5, <2>1 DEF EvalInv, ModelInv, MergedFromOneCheckpoint
    <2>4. /\ wpc' \in Writing \union {"generate", "grade", "openSummary", "writeSummary"} =>
               merged'[Current'] # Absent
          /\ wpc' \in {"copy", "mark"} => merged'[Candidate'] # Absent
      BY <1>5 DEF Current, Candidate
    <2> QED
      BY <1>5, <2>1, <2>2, <2>3, <2>4 DEF EvalInv, ModelInv
  <1>6. CASE UNCHANGED ckptVars /\ (MergeOpen \/ MergeSave)
    <2>1. /\ wpc \in Merging /\ UNCHANGED <<specs, loaded, marked>>
          /\ wpc' \in {"saving", "generate"}
          /\ UNCHANGED <<shard, rewritten>> /\ \A s \in Steps : FilesExist(s)' <=> FilesExist(s)
      BY <1>6 DEF MergeOpen, MergeSave, Merging, ckptVars, disk, FilesExist
    <2>2. Current \in Steps /\ FilesExist(Current) /\ Current' = Current
      BY <1>2, <1>3, <2>1 DEF EvalInv, JobInv, Merging, Evaluating, EvaluatorPoints, Current
    <2>3. \A s \in Steps \ {Current} : merged'[s] = merged[s]
      BY <1>6 DEF MergeOpen, MergeSave, TypeOK
    <2>4. /\ merged'[Current] # Absent
          /\ merged'[Current] = Torn \/ merged'[Current] = loaded
      BY <1>6, <2>2, Constants, EvalAssumption DEF MergeOpen, MergeSave, TypeOK
    <2>5. Current \notin rewritten => \A r \in Ranks : loaded = {shard[Current][r]}
      BY <2>1 DEF EvalInv, ModelInv
    <2>6. MergedFromOneCheckpoint'
      BY <2>1, <2>3, <2>4, <2>5 DEF EvalInv, ModelInv, MergedFromOneCheckpoint
    <2> QED
      BY <1>1, <2>1, <2>2, <2>3, <2>4, <2>5, <2>6 DEF EvalInv, ModelInv, Writing
  <1>7. CASE UNCHANGED ckptVars /\ (Watcher \/ Fault) /\ ~MergeOpen /\ ~MergeSave
    <2>1. merged' = merged
      BY <1>7 DEF Watcher, Fault, Scan, Skip, BeginStep, EndScan, Evaluator, Prepare,
                  MergeReuse, MergeLoad, GenerateReuse, Generate, OpenJsonl, WriteJsonl,
                  OpenNpz, WriteNpz, Grade, OpenSummary, WriteSummary, Copy, CopyFails, Mark,
                  EvaluatorFails, WatcherDies, Restart, Failed
    <2>2. wpc' \in Writing \union {"generate", "grade", "openSummary", "writeSummary"} =>
            merged[Current] # Absent /\ UNCHANGED specs
      <3>1. CASE wpc \in Writing \union {"generate", "grade", "openSummary", "writeSummary"}
        <4>1. CASE WriteSummary
          BY <4>1 DEF WriteSummary, Writing
        <4>2. CASE ~WriteSummary
          BY <1>7, <3>1, <4>2
          DEF EvalInv, ModelInv, Writing, Watcher, Fault, Scan, Skip, BeginStep, EndScan,
              Evaluator, Prepare, MergeReuse, MergeLoad, GenerateReuse, Generate, OpenJsonl,
              WriteJsonl, OpenNpz, WriteNpz, Grade, OpenSummary, Copy, CopyFails, Mark,
              EvaluatorFails, WatcherDies, Restart, Failed
        <4> QED
          BY <4>1, <4>2
      <3>2. CASE wpc \notin Writing \union {"generate", "grade", "openSummary", "writeSummary"}
        BY <1>7, <3>2
        DEF Writing, Watcher, Fault, Scan, Skip, BeginStep, EndScan, Start, Evaluator, Prepare,
            MergeReuse, MergeLoad, GenerateReuse, Generate, OpenJsonl, WriteJsonl, OpenNpz,
            WriteNpz, Grade, OpenSummary, WriteSummary, Copy, CopyFails, Mark,
            EvaluatorFails, WatcherDies, Restart, Failed, IsModelDir
      <3> QED
        BY <3>1, <3>2
    <2>3. wpc' \in {"copy", "mark"} => merged[Candidate] # Absent /\ UNCHANGED todo
      <3>1. CASE WriteSummary
        BY <1>3, <3>1 DEF WriteSummary, Evaluating, EvaluatorPoints, EvalInv, ModelInv
      <3>2. CASE Copy \/ CopyFails
        BY <3>2 DEF Copy, CopyFails, EvalInv, ModelInv
      <3>3. CASE ~WriteSummary /\ ~Copy /\ ~CopyFails
        BY <1>7, <3>3
        DEF Watcher, Fault, Scan, Skip, BeginStep, EndScan, Start, Evaluator, Prepare,
            MergeReuse, MergeLoad, GenerateReuse, Generate, OpenJsonl, WriteJsonl, OpenNpz,
            WriteNpz, Grade, OpenSummary, Mark, EvaluatorFails, WatcherDies, Restart, Failed
      <3> QED
        BY <3>1, <3>2, <3>3
    <2>4. wpc' \in Merging => (wpc \in Merging \/ MergeLoad) /\ UNCHANGED specs
      BY <1>7
      DEF Merging, Watcher, Fault, Scan, Skip, BeginStep, EndScan, Start, Evaluator, Prepare,
          MergeReuse, MergeLoad, GenerateReuse, Generate, OpenJsonl, WriteJsonl, OpenNpz,
          WriteNpz, Grade, OpenSummary, WriteSummary, Copy, CopyFails, Mark, EvaluatorFails,
          WatcherDies, Restart, Failed
    <2>5. loaded' = loaded \/ MergeLoad
      BY <1>7
      DEF Watcher, Fault, Scan, Skip, BeginStep, EndScan, Evaluator, Prepare, MergeReuse,
          GenerateReuse, Generate, OpenJsonl, WriteJsonl, OpenNpz, WriteNpz, Grade,
          OpenSummary, WriteSummary, Copy, CopyFails, Mark, EvaluatorFails, WatcherDies,
          Restart, Failed
    <2>6. \A s \in marked' : merged[s] # Absent
      <3>1. CASE Mark
        BY <3>1 DEF Mark, EvalInv, ModelInv
      <3>2. CASE ~Mark
        BY <1>7, <3>2
        DEF EvalInv, ModelInv, Watcher, Fault, Scan, Skip, BeginStep, EndScan, Evaluator,
            Prepare, MergeReuse, MergeLoad, GenerateReuse, Generate, OpenJsonl, WriteJsonl,
            OpenNpz, WriteNpz, Grade, OpenSummary, WriteSummary, Copy, CopyFails,
            EvaluatorFails, WatcherDies, Restart, Failed
      <3> QED
        BY <3>1, <3>2
    <2> QED
      BY <1>5, <1>7, <2>1, <2>2, <2>3, <2>4, <2>5, <2>6
  <1> QED
    BY <1>4, <1>6, <1>7 DEF Next, Terminated, vars

\* A mark follows the copy of the rows, or its failure.
LEMMA ResultsNext ==
    ASSUME TypeOK, EvalInv, [Next]_vars
    PROVE  ResultsInv'
  <1>1. \A s \in marked : /\ Complete(s)' /\ RowsOf({s})' = RowsOf({s})
    <2> SUFFICES ASSUME NEW s \in marked
                 PROVE  Complete(s)' /\ RowsOf({s})' = RowsOf({s})
      OBVIOUS
    <2>1. jsonl'[s] = jsonl[s] /\ npz'[s] = npz[s] /\ Complete(s)
      BY MarkedStand DEF EvalInv, ResultsInv
    <2>2. Complete(s)'
      BY <2>1 DEF Complete, HasComplete
    <2>3. RowsOf({s})' = RowsOf({s})
      BY <2>1 DEF RowsOf, Row
    <2> QED
      BY <2>2, <2>3
  <1>2. CASE Mark
    <2>1. /\ UNCHANGED <<jsonl, npz, stepSummary, copyFailed>>
          /\ marked' = marked \union {Candidate} /\ wpc = "mark"
      BY <1>2 DEF Mark, faultVars
    <2>2. /\ Complete(Candidate)
          /\ Candidate \in copyFailed \/ stepSummary[Candidate] = RowsOf({Candidate})
      BY <2>1 DEF EvalInv, WorkInv
    <2>3. \A s \in Steps : (Complete(s)' <=> Complete(s)) /\ RowsOf({s})' = RowsOf({s})
      BY <2>1 DEF Complete, HasComplete, RowsOf, Row
    <2>4. Candidate \in Steps /\ marked \subseteq Steps
      BY <2>1, LeastSteps DEF EvalInv, JobInv, InStep, TypeOK
    <2> QED
      BY <2>1, <2>2, <2>3, <2>4 DEF EvalInv, ResultsInv
  <1>3. CASE Copy
    <2>1. /\ UNCHANGED <<marked, copyFailed>> /\ Candidate \notin marked
          /\ \A s \in Steps \ {Candidate} : stepSummary'[s] = stepSummary[s]
      BY <1>3 DEF Copy, faultVars, TypeOK, EvalInv, JobInv, InStep
    <2> QED
      BY <1>1, <2>1 DEF EvalInv, ResultsInv, TypeOK
  <1>4. CASE marked' = marked /\ stepSummary' = stepSummary /\ copyFailed \subseteq copyFailed'
    BY <1>1, <1>4 DEF EvalInv, ResultsInv
  <1>5. \/ marked' = marked /\ stepSummary' = stepSummary /\ copyFailed \subseteq copyFailed'
        \/ Mark \/ Copy
    BY DEF Next, Watcher, Fault, Terminated, vars, evalVars, files, faultVars, Scan, Skip,
          BeginStep, EndScan, Evaluator, Prepare, MergeReuse, MergeLoad, MergeOpen, MergeSave,
          GenerateReuse, Generate, OpenJsonl, WriteJsonl, OpenNpz, WriteNpz, Grade,
          OpenSummary, WriteSummary, CopyFails, EvaluatorFails, WatcherDies, Restart, Failed
  <1> QED
    BY <1>2, <1>3, <1>4, <1>5

\* Where no generation is written.
LEMMA NotWritten ==
    ASSUME UNCHANGED <<jsonl, npz>>
    PROVE  /\ \A s \in Steps : Complete(s)' <=> Complete(s)
           /\ \A s \in Steps, t \in Tasks : HasComplete(s, t)' <=> HasComplete(s, t)
           /\ \A S \in SUBSET Steps : RowsOf(S)' = RowsOf(S)
  BY DEF Complete, HasComplete, RowsOf, Row

\* Rows are graded one step after the other.
LEMMA RowsJoin ==
    ASSUME NEW S, NEW T
    PROVE  RowsOf(S \union T) = RowsOf(S) \union RowsOf(T) /\ RowsOf({}) = {}
  BY DEF RowsOf

\* Rows and tokens are written task by task, and graded when all are there.
LEMMA WorkNext ==
    ASSUME TypeOK, EvalInv, [Next]_vars
    PROVE  WorkInv'
  <1> USE DEF files, memory, faultVars
  <1>1. CASE UNCHANGED evalVars
    <2>1. /\ UNCHANGED <<Candidate, Current, Scope, Evaluating, Graded>>
          /\ UNCHANGED <<jsonl, npz, rows, specs, task, faults, wpc, summary, stepSummary,
                         copyFailed, marked>>
      BY <1>1 DEF evalVars, Candidate, Current, Scope, Evaluating, Graded
    <2>2. WorkInv
      BY DEF EvalInv
    <2> QED
      BY <2>1, <2>2 DEF WorkInv, Complete, HasComplete, RowsOf, Row
  <1>2. CASE Idle'
    BY <1>2 DEF Idle, WorkInv, Writing, Graded, Evaluating, EvaluatorPoints
  <1>3. CASE (BeginStep \/ EndScan) /\ ~Idle'
    <2>1. wpc' = "prepare" /\ rows' = {} /\ Scope' = specs'
      BY <1>3 DEF BeginStep, EndScan, Start, Idle, Scope, Candidate
    <2> QED
      BY <2>1 DEF WorkInv, Writing, Graded, Evaluating, EvaluatorPoints, RowsOf
  <1>4. Evaluating => /\ Current \in Steps /\ specs \subseteq Scope /\ Current \in specs
                      /\ job = "step" => Scope \ specs = {} /\ Current = Candidate
                      /\ rows = RowsOf((Scope \ specs) \union (IF Graded THEN {Current} ELSE {}))
    BY Busy DEF EvalInv, JobInv, WorkInv, Scope
  \* An evaluator that goes on with the step and writes no generation.
  <1>5. ASSUME Evaluating, Evaluating', UNCHANGED <<todo, job, specs, marked, jsonl, npz>>,
               wpc' \notin Writing \/ (wpc' = "openJsonl" /\ task' = 1),
               wpc' = "grade" \/ Graded' => Complete(Current),
               rows' = RowsOf((Scope \ specs) \union (IF Graded' THEN {Current} ELSE {}))
        PROVE  WorkInv'
    <2>1. UNCHANGED <<Candidate, Current, Scope>>
      BY <1>5 DEF Candidate, Current, Scope
    <2>2. PICK S : S = (Scope \ specs) \union (IF Graded' THEN {Current} ELSE {})
      OBVIOUS
    <2>3. S \subseteq Steps /\ S = ((Scope \ specs) \union (IF Graded THEN {Current} ELSE {}))'
      <3>1. Scope \subseteq Steps
        BY <1>4, <1>5, Busy DEF Scope, TypeOK, EvalInv
      <3> QED
        BY <1>4, <1>5, <2>1, <2>2, <3>1
    <2>4. RowsOf(S)' = RowsOf(S) /\ (Complete(Current)' <=> Complete(Current))
      BY <1>4, <1>5, <2>1, <2>3 DEF Complete, HasComplete, RowsOf, Row
    <2>5. Evaluating' =>
            rows' = RowsOf((Scope \ specs) \union (IF Graded THEN {Current} ELSE {}))'
      BY <1>5, <2>2, <2>3, <2>4
    <2>6. wpc' \in Writing => \A t \in Tasks : t < task' => HasComplete(Current, t)'
      BY <1>5 DEF Tasks, Writing
    <2> QED
      BY <1>5, <2>4, <2>5, <2>6 DEF WorkInv, Writing, Evaluating, EvaluatorPoints
  <1>6. CASE (\/ Prepare \/ MergeReuse \/ MergeLoad \/ MergeOpen \/ MergeSave
              \/ GenerateReuse \/ Generate \/ OpenSummary) /\ ~Idle'
    <2>1. /\ Evaluating /\ Evaluating' /\ UNCHANGED <<todo, job, specs, marked, jsonl, npz, rows>>
          /\ wpc' \notin Writing \/ (wpc' = "openJsonl" /\ task' = 1)
      BY <1>6 DEF Prepare, MergeReuse, MergeLoad, MergeOpen, MergeSave, GenerateReuse,
                  Generate, OpenSummary, Failed, Idle, Evaluating, EvaluatorPoints, Writing
    <2>2. Graded' <=> Graded \/ OpenSummary
      BY <1>6 DEF Prepare, MergeReuse, MergeLoad, MergeOpen, MergeSave, GenerateReuse,
                  Generate, OpenSummary, Failed, Graded
    <2>3. wpc' = "grade" \/ Graded' => Complete(Current)
      BY <1>6 DEF EvalInv, WorkInv, Complete, Graded, Prepare, MergeReuse, MergeLoad,
                  MergeOpen, MergeSave, GenerateReuse, Generate, OpenSummary, Failed
    <2>4. Graded' <=> Graded
      BY <1>6, <2>2 DEF OpenSummary, Graded
    <2> QED
      BY <1>4, <1>5, <2>1, <2>3, <2>4
  <1>7. CASE Grade
    <2>1. /\ Evaluating /\ Evaluating' /\ UNCHANGED <<todo, job, specs, marked, jsonl, npz>>
          /\ wpc' = "openSummary" /\ ~Graded /\ Graded' /\ Complete(Current)
          /\ rows' = rows \union RowsOf({Current})
      BY <1>7 DEF Grade, Evaluating, EvaluatorPoints, Graded, EvalInv, WorkInv, RowsOf
    <2>2. rows' = RowsOf((Scope \ specs) \union {Current})
      BY <1>4, <2>1, RowsJoin
    <2> QED
      BY <1>5, <2>1, <2>2 DEF Writing
  <1>8. CASE OpenJsonl \/ WriteJsonl \/ OpenNpz \/ WriteNpz
    <2>1. /\ Evaluating /\ Evaluating' /\ ~Graded /\ ~Graded' /\ wpc \in Writing
          /\ UNCHANGED <<todo, job, specs, marked, rows, faults>>
          /\ wpc' \in Writing \union {"grade"}
      BY <1>8 DEF OpenJsonl, WriteJsonl, OpenNpz, WriteNpz, Evaluating, EvaluatorPoints, Graded,
                  Writing
    <2>2. /\ job = "step" /\ Current \in Steps /\ task \in Tasks /\ rows = RowsOf({})
          /\ Scope \ specs = {}
      BY <1>4, <2>1 DEF TypeOK, EvalInv, JobInv
    <2>3. UNCHANGED <<Candidate, Current, Scope>>
      BY <2>1 DEF Candidate, Current, Scope
    <2>4. Evaluating' =>
            rows' = RowsOf((Scope \ specs) \union (IF Graded THEN {Current} ELSE {}))'
      BY <2>1, <2>2, <2>3 DEF RowsOf
    <2>5. \A t \in Tasks \ {task} : HasComplete(Current, t)' <=> HasComplete(Current, t)
      <3>1. \A t \in Tasks \ {task} :
              jsonl'[Current][t] = jsonl[Current][t] /\ npz'[Current][t] = npz[Current][t]
        BY <1>8, <2>2 DEF OpenJsonl, WriteJsonl, OpenNpz, WriteNpz, TypeOK
      <3> QED
        BY <2>3, <3>1 DEF HasComplete
    <2>6. \A t \in Tasks : t < task => HasComplete(Current, t)
      BY <2>1 DEF EvalInv, WorkInv
    <2>7. CASE ~WriteNpz
      <3>1. /\ task' = task /\ wpc' \in Writing /\ (wpc' = "openNpz" => WriteJsonl)
            /\ (wpc' = "writeNpz" => OpenNpz)
        BY <1>8, <2>7 DEF OpenJsonl, WriteJsonl, OpenNpz, Writing
      <3>2. \A t \in Tasks : t < task' => HasComplete(Current, t)'
        BY <2>5, <2>6, <3>1 DEF Tasks
      <3>3. WriteJsonl => jsonl'[Current][task] = faults
        BY <2>2 DEF WriteJsonl, TypeOK
      <3>4. OpenNpz => jsonl'[Current][task] = faults
        BY DEF OpenNpz, EvalInv, WorkInv
      <3>5. wpc' \in {"openNpz", "writeNpz"} => jsonl'[Current'][task'] = faults'
        BY <2>1, <2>3, <3>1, <3>3, <3>4
      <3>6. wpc' \notin {"grade", "copy", "mark", "exit"}
        BY <3>1 DEF Writing
      <3> QED
        BY <2>1, <2>4, <3>2, <3>5, <3>6 DEF WorkInv
    <2>8. CASE WriteNpz
      <3>1. /\ jsonl'[Current][task] = faults /\ npz'[Current][task] = faults /\ faults \in Nat
        BY <2>2, <2>8 DEF WriteNpz, EvalInv, WorkInv, TypeOK
      <3>2. \A t \in Tasks : t = task => HasComplete(Current, t)'
        BY <2>3, <3>1, <2>1 DEF HasComplete, WriteNpz
      <3>3. \A t \in Tasks : t < task + 1 => HasComplete(Current, t)'
        BY <2>2, <2>5, <2>6, <3>2 DEF Tasks
      <3>4. CASE task = NumTasks
        <4>1. wpc' = "grade" /\ Complete(Current)'
          BY <2>8, <3>3, <3>4, EvalAssumption DEF WriteNpz, Complete, Tasks
        <4> QED
          BY <2>4, <4>1 DEF WorkInv, Writing, Graded
      <3>5. CASE task # NumTasks
        <4>1. wpc' = "openJsonl" /\ task' = task + 1
          BY <2>8, <3>5 DEF WriteNpz
        <4> QED
          BY <2>4, <3>3, <4>1 DEF WorkInv, Writing, Graded
      <3> QED
        BY <3>4, <3>5
    <2> QED
      BY <2>7, <2>8
  <1>9. CASE WriteSummary
    <2>1. /\ Evaluating /\ Graded /\ UNCHANGED <<todo, job, marked, jsonl, npz, rows>>
          /\ summary' = rows /\ specs' = specs \ {Current}
          /\ wpc' = IF specs' # {} THEN "merge" ELSE IF job = "step" THEN "copy" ELSE "exit"
      BY <1>9 DEF WriteSummary, Evaluating, EvaluatorPoints, Graded
    <2>2. Candidate' = Candidate /\ Scope' = Scope
      BY <2>1 DEF Candidate, Scope
    <2>3. Complete(Current) /\ Current \in specs /\ Current \in Steps /\ Scope \subseteq Steps
      BY <1>4, <2>1, Busy DEF EvalInv, WorkInv, Scope, TypeOK
    <2>4. rows = RowsOf(Scope \ specs')
      <3>1. Scope \ specs' = (Scope \ specs) \union {Current}
        BY <1>4, <2>1, <2>3
      <3> QED
        BY <1>4, <2>1, <3>1
    <2>5. PICK S : S = Scope' \ specs'
      OBVIOUS
    <2>6. rows' = RowsOf(S)' /\ summary' = RowsOf(S)'
      <3>1. S \subseteq Steps /\ rows = RowsOf(S)
        BY <2>2, <2>3, <2>4, <2>5
      <3> QED
        BY <2>1, <3>1, NotWritten
    <2>7. CASE specs' # {}
      <3>1. wpc' = "merge" /\ ~Graded' /\ Evaluating'
        BY <2>1, <2>7 DEF Graded, Evaluating, EvaluatorPoints
      <3> QED
        BY <2>5, <2>6, <3>1 DEF WorkInv, Writing
    <2>8. CASE specs' = {} /\ job = "step"
      <3>1. wpc' = "copy" /\ ~Graded' /\ ~Evaluating' /\ Scope' = {Candidate'}
        BY <2>1, <2>8 DEF Graded, Evaluating, EvaluatorPoints, Scope
      <3>2. Complete(Candidate)' /\ summary' = RowsOf({Candidate})'
        BY <1>4, <2>1, <2>2, <2>3, <2>5, <2>6, <2>8, <3>1, NotWritten
      <3> QED
        BY <3>1, <3>2 DEF WorkInv, Writing
    <2>9. CASE specs' = {} /\ job # "step"
      <3>1. wpc' = "exit" /\ ~Graded' /\ ~Evaluating' /\ Scope' = marked'
        BY <2>1, <2>9 DEF Graded, Evaluating, EvaluatorPoints, Scope
      <3> QED
        BY <2>5, <2>6, <2>9, <3>1 DEF WorkInv, Writing
    <2> QED
      BY <2>7, <2>8, <2>9
  <1>10. CASE Copy \/ CopyFails
    <2>1. /\ wpc = "copy" /\ wpc' = "mark" /\ UNCHANGED <<todo, jsonl, npz>>
          /\ Candidate' = Candidate
      BY <1>10 DEF Copy, CopyFails, Candidate
    <2>2. Candidate \in Steps /\ Complete(Candidate) /\ summary = RowsOf({Candidate})
      BY <2>1, LeastSteps DEF EvalInv, JobInv, InStep, WorkInv
    <2>3. Complete(Candidate)' /\ RowsOf({Candidate})' = RowsOf({Candidate})
      BY <2>1, <2>2 DEF Complete, HasComplete, RowsOf, Row
    <2>4. Candidate \in copyFailed' \/ stepSummary'[Candidate] = RowsOf({Candidate})
      BY <1>10, <2>2 DEF Copy, CopyFails, TypeOK
    <2> QED
      BY <2>1, <2>3, <2>4 DEF WorkInv, Writing, Graded, Evaluating, EvaluatorPoints
  <1> QED
    BY <1>1, <1>2, <1>3, <1>6, <1>7, <1>8, <1>9, <1>10
    DEF Next, Watcher, Fault, Terminated, vars, Idle, Scan, Skip, Mark, Evaluator,
        EvaluatorFails, WatcherDies, Restart, Failed

-----------------------------------------------------------------------------
(* The theorems.                                                            *)

WatchInv == CkptInv /\ FilesInv /\ TypeOK /\ EvalInv

\* The inductive invariant holds at the start,
LEMMA WatchInit == Init => WatchInv
  BY InitCkptInv, FilesInit, EvalInitInv DEF Init, WatchInv

\* and every step of the trainer, the watcher and a fault keeps it.
LEMMA WatchNext ==
    ASSUME WatchInv, [Next]_vars
    PROVE  WatchInv'
  <1>1. CkptInv' /\ CkptTypeOK /\ CkptTypeOK'
    BY CkptInvKept DEF WatchInv, CkptInv
  <1>2. FilesInv' /\ \A s \in Steps : Stays(s)
    <2>1. CASE Trainer
      BY <2>1, FilesTrainer DEF WatchInv
    <2>2. CASE UNCHANGED ckptVars
      BY <2>2 DEF ckptVars, disk, WatchInv, FilesInv, Stays, DirExists, FilesExist
    <2> QED
      BY <2>1, <2>2 DEF Next, Terminated, vars
  <1>3. \A s \in Steps : FilesExist(s) => FilesExist(s)'
    BY <1>2 DEF Stays
  <1>4. TypeOK'
    BY <1>1, EvalTypes DEF WatchInv, EvalInv
  <1>5. JobInv' /\ ScanInv'
    BY <1>1, <1>3, JobNext, ScanNext DEF WatchInv
  <1>6. ModelInv'
    BY <1>1, <1>2, ModelNext DEF WatchInv
  <1>7. ResultsInv' /\ WorkInv'
    BY ResultsNext, WorkNext DEF WatchInv
  <1> QED
    BY <1>1, <1>2, <1>4, <1>5, <1>6, <1>7 DEF WatchInv, EvalInv

\* Files, processes and histories keep their types: what the evaluator merges,
\* generates, grades and sums up is about steps and tasks there are, and the step
\* that main and evaluate_step go by is one of them.
THEOREM TypeCorrect == Spec => []TypeOK
  <1>1. WatchInv => TypeOK
    BY DEF WatchInv
  <1> QED
    BY <1>1, WatchInit, WatchNext, PTL DEF Spec

\* checkpoint_ready keeps the merger from a checkpoint that is not complete: every
\* merged model is of one run, the run whose shards are there, as long as a run that
\* died before it wrote the tracker has not made the next one save the step again.
THEOREM ModelsAreWhole == Spec => []MergedFromOneCheckpoint
  <1>1. WatchInv => MergedFromOneCheckpoint
    BY DEF WatchInv, EvalInv, ModelInv
  <1> QED
    BY <1>1, WatchInit, WatchNext, PTL DEF Spec

\* evaluate_step marks a step only with its results: rows and tokens of one
\* generation for every task, and a copied summary of just these, unless cp failed.
THEOREM MarksMeanResults == Spec => []MarkedHasResults
  <1>1. WatchInv => MarkedHasResults
    BY DEF WatchInv, EvalInv, ResultsInv, Complete, HasComplete, RowsOf, MarkedHasResults
  <1> QED
    BY <1>1, WatchInit, WatchNext, PTL DEF Spec

\* The watcher that exits has evaluated every step up to the final one, and its
\* final summary holds the rows of all of them, whatever died or failed before.
THEOREM ExitIsComplete == Spec => []ExitsWhenAllEvaluated
  <1>1. WatchInv => ExitsWhenAllEvaluated
    BY DEF WatchInv, EvalInv, JobInv, ScanInv, WorkInv, RowsOf, ExitsWhenAllEvaluated
  <1> QED
    BY <1>1, WatchInit, WatchNext, PTL DEF Spec

\* No step of anyone writes the generations or the merged model of a marked step
\* again: evaluators that are started again and the final one only read them.
THEOREM MarkedIsFinal == Spec => ResultsStand
  <1>1. WatchInv /\ [Next]_vars =>
          [\A s \in marked : /\ jsonl'[s] = jsonl[s] /\ npz'[s] = npz[s]
                             /\ merged'[s] = merged[s]]_<<marked, jsonl, npz, merged>>
    BY MarkedStand DEF WatchInv
  <1> QED
    BY <1>1, WatchInit, WatchNext, PTL DEF Spec, ResultsStand

=============================================================================
