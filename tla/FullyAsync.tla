----------------------------- MODULE FullyAsync -----------------------------
(***************************************************************************)
(* recipe/fully_async_policy: FullyAsyncRollouter, FullyAsyncTrainer,      *)
(* ParameterSynchronizer and the MessageQueue between them.                *)
(*                                                                         *)
(* The rollouter is an asyncio actor.  Its coroutines (the processor,      *)
(* one task per sample, consumer, main, monitor) and the calls it serves   *)
(* (pause, update_param_version, resume) run on one event loop: a step of  *)
(* the model is what a coroutine does from one await to the next.  They    *)
(* share self.lock, a FIFO asyncio.Lock: lockq is its holder followed by   *)
(* the coroutines waiting for it.  Samples are counted, not named; what    *)
(* follows a finished sample is the parameter version it is labelled with. *)
(***************************************************************************)
EXTENDS Integers, Sequences

CONSTANTS
    NumSamples,     \* total_rollout_steps
    Required,       \* required_samples: what one training step consumes
    Trigger,        \* trigger_parameter_sync_step
    MaxRequired,    \* int(required * (staleness_threshold + 1) * trigger)
    MaxConcurrent,  \* max_concurrent_samples
    Partial,        \* async_training.partial_rollout
    TestFreq,       \* rollout.test_freq
    Nothing         \* None

ASSUME ConfigAssumption ==
    /\ NumSamples \in Nat \ {0} /\ Required \in Nat \ {0}
    /\ Trigger \in Nat \ {0}
    /\ MaxRequired \in Nat /\ MaxRequired >= Required * Trigger
    /\ MaxConcurrent \in 1..MaxRequired
    /\ Partial \in BOOLEAN
    /\ TestFreq \in Int
    /\ Nothing \notin Nat

VARIABLES
    \* the message queue
    queue, valQueue, open, currentParamVersion, totalProduced, totalConsumed,
    droppedSamples, cleared,
    \* the rollouter
    taken,          \* items taken from pending_queue: the samples, then "DONE"
    ppc,            \* where the processor coroutine stands
    bound,          \* done_tasks has been assigned in _processor_worker
    running,        \* generation tasks that have not returned
    interrupted,    \* those of them that a cancelled server has answered
    unreaped,       \* tasks that have returned and are still in active_tasks
    cancelQueue,    \* number of samples in cancel_queue
    resultQueue,    \* versions of the samples in result_queue
    consuming,      \* version of the sample in the consumer's hands, or Nothing
    mainpc,         \* where _streaming_generation_main stands
    mpc,            \* where _async_monitor_loop stands
    lockq,          \* self.lock: its holder, then the coroutines waiting
    paused, monitorTrigger, staleness,
    version,        \* the rollouter's current_param_version
    serversPaused,  \* the inference servers' paused flag
    weights,        \* version of the weights loaded in the inference servers
    upc,            \* the pending update_param_version call, then resume
    acc,            \* the part of the staleness sum read before its await
    lastUpdate,     \* validate argument of the update_param_version call
    \* the trainer and the synchronizer, which it calls and waits for
    tpc,            \* where FullyAsyncTrainer.fit stands
    got,            \* samples collected for the next batch
    localStep,      \* local_trigger_step
    trainVersion,   \* the trainer's current_param_version
    validate,       \* the running synchronization is the final one
    valData,        \* the validation result read last, or Nothing
    \* history
    trained,        \* samples trained on
    resumedBy       \* who cleared paused since the last pause()

mq == <<queue, valQueue, open, currentParamVersion, totalProduced,
        totalConsumed, droppedSamples, cleared>>
rollout == <<running, unreaped, cancelQueue>>
control == <<paused, monitorTrigger, serversPaused, resumedBy>>
sync == <<version, weights, upc, acc, lastUpdate>>
trainer == <<tpc, got, localStep, trainVersion, validate, valData, trained>>
vars == <<mq, taken, ppc, bound, interrupted, rollout, resultQueue, consuming,
          mainpc, mpc, lockq, control, staleness, sync, trainer>>

MQ == INSTANCE MessageQueue WITH MaxQueueSize <- MaxRequired

Done == NumSamples + 1      \* the "DONE" that follows the last sample

\* The state once FullyAsyncTaskRunner has built the components, synchronized
\* version 0 and both fit calls have begun.
Init ==
    /\ MQ!MQInit
    /\ taken = 0 /\ ppc = "loop" /\ bound = FALSE
    /\ interrupted = 0 /\ running = 0 /\ unreaped = 0 /\ cancelQueue = 0
    /\ resultQueue = <<>> /\ consuming = Nothing
    /\ mainpc = "wait" /\ mpc = "sleep" /\ lockq = <<>>
    /\ paused = FALSE /\ monitorTrigger = TRUE /\ serversPaused = FALSE
    /\ resumedBy = "sync"
    /\ staleness = 0 /\ version = 0 /\ weights = 0 /\ upc = "none" /\ acc = 0
    /\ lastUpdate = FALSE
    /\ tpc = "collect" /\ got = 0 /\ localStep = 1 /\ trainVersion = 0
    /\ validate = FALSE /\ trained = 0
    /\ \E before \in BOOLEAN : valData = [version |-> 0, metrics |-> before]

-----------------------------------------------------------------------------
(* The rollouter's lock, flags and bounds.                                  *)

Holds(who) == lockq # <<>> /\ Head(lockq) = who
Release == Tail(lockq)
\* async with self.lock: granted at once when nobody holds it.
Want(who) == Append(lockq, who)

\* A variant the runs must reject: notify_all forgotten.
NotNotified == ppc

\* condition.notify_all: the processor is the only coroutine that waits.
Notified == CASE ppc = "idleCond" -> "idleWoken"
              [] ppc = "startCond" -> "startWoken"
              [] OTHER -> ppc

\* A variant the runs must reject: staleness_samples not tested.
ShouldPauseFull == Len(queue) >= MaxRequired

\* A variant the runs must reject: both bounds tested with > instead of >=.
ShouldPauseLate == Len(queue) > MaxRequired \/ staleness > MaxRequired

ShouldPause == Len(queue) >= MaxRequired \/ staleness >= MaxRequired
Active == running + unreaped

-----------------------------------------------------------------------------
(* _processor_worker.  _feed_samples starts first and its put only waits    *)
(* when 128 items are pending, so pending_queue.get() never waits here.     *)
(* At ppc = "loop" the processor is inside a stretch of code with no await: *)
(* no other coroutine of the rollouter runs before it has left it.          *)

Yielded == ppc # "loop"

\* A variant the runs must reject: the remaining tasks are not awaited at the end.
ContinueHasty(loop, active) ==
    CASE loop = "drain" -> IF active > 0 THEN "drain" ELSE "idle"
      [] loop = "full"  -> IF active >= MaxConcurrent THEN "full" ELSE "start"
      [] loop = "final" -> "end"

\* Where it goes on from the three loops that reap finished tasks: before going
\* idle, before one task too many, and after "DONE".
Continue(loop, active) ==
    CASE loop = "drain" -> IF active > 0 THEN "drain" ELSE "idle"
      [] loop = "full"  -> IF active >= MaxConcurrent THEN "full" ELSE "start"
      [] loop = "final" -> IF active > 0 THEN "final" ELSE "end"

\* A variant the runs must reject: paused is not tested again before a task starts.
GrantedUnchecked(point, q, isPaused) ==
    /\ lockq' = q
    /\ ppc' = IF point = "idle" /\ isPaused THEN "idleCond" ELSE "loop"
    /\ running' = IF point = "start" THEN running + 1 ELSE running

\* Inside the lock, with q behind it: wait on the condition while paused,
\* else leave the idle block or start the task; either way release the lock.
Granted(point, q, isPaused) ==
    /\ lockq' = q
    /\ IF isPaused
       THEN ppc' = (IF point = "idle" THEN "idleCond" ELSE "startCond")
            /\ UNCHANGED running
       ELSE /\ ppc' = "loop"
            /\ running' = IF point = "start" THEN running + 1 ELSE running

\* async with self.lock at this point of the code, while q have or want it.
Enter(point, q, isPaused) ==
    CASE point \in {"idle", "start"} /\ q = <<>> -> Granted(point, q, isPaused)
      [] point = "end" -> ppc' = "end" /\ lockq' = q /\ UNCHANGED running
      [] OTHER -> ppc' = point /\ lockq' = Append(q, "proc") /\ UNCHANGED running

\* The check at the top of the loop finds a reason to pause.
ProcPause ==
    /\ ppc = "loop"
    /\ paused \/ ShouldPause
    /\ IF lockq = <<>>
       THEN paused' = TRUE /\ Enter(Continue("drain", Active), <<>>, TRUE)
       ELSE Enter("mark", lockq, paused) /\ UNCHANGED paused
    /\ UNCHANGED <<mq, taken, bound, interrupted, unreaped, cancelQueue,
                   resultQueue, consuming, mainpc, mpc, monitorTrigger,
                   serversPaused, resumedBy, staleness, sync, trainer>>

ProcMark ==
    /\ ppc = "mark" /\ Holds("proc")
    /\ paused' = TRUE
    /\ Enter(Continue("drain", Active), Release, TRUE)
    /\ UNCHANGED <<mq, taken, bound, interrupted, unreaped, cancelQueue,
                   resultQueue, consuming, mainpc, mpc, monitorTrigger,
                   serversPaused, resumedBy, staleness, sync, trainer>>

\* A variant the runs must reject: done_tasks local to each round.
AssignDoneLocal == UNCHANGED bound

AssignDone == bound' = TRUE

\* asyncio.wait returns with at least one finished task, holding the lock.
ProcReap ==
    /\ ppc \in {"drain", "full", "final"} /\ Holds("proc")
    /\ unreaped > 0
    /\ unreaped' = 0
    /\ AssignDone
    /\ Enter(Continue(ppc, running), Release, paused)
    /\ UNCHANGED <<mq, taken, interrupted, cancelQueue, resultQueue, consuming,
                   mainpc, mpc, control, staleness, sync, trainer>>

\* pause() has emptied active_tasks while the processor waited for the lock: it
\* iterates over the done_tasks of an earlier round, or over an unbound name.
ProcNothingToReap ==
    /\ ppc \in {"drain", "full", "final"} /\ Holds("proc")
    /\ Active = 0
    /\ IF bound THEN Enter(Continue(ppc, 0), Release, paused)
                ELSE ppc' = "dead" /\ lockq' = Release /\ UNCHANGED running
    /\ UNCHANGED <<mq, taken, bound, interrupted, unreaped, cancelQueue,
                   resultQueue, consuming, mainpc, mpc, control, staleness,
                   sync, trainer>>

ProcGranted ==
    /\ ppc \in {"idle", "start"} /\ Holds("proc")
    /\ Granted(ppc, Release, paused)
    /\ UNCHANGED <<mq, taken, bound, interrupted, unreaped, cancelQueue,
                   resultQueue, consuming, mainpc, mpc, control, staleness,
                   sync, trainer>>

\* Once notified it takes the lock again and tests paused again.
ProcWake ==
    /\ ppc \in {"idleWoken", "startWoken"}
    /\ Enter(IF ppc = "idleWoken" THEN "idle" ELSE "start", lockq, paused)
    /\ UNCHANGED <<mq, taken, bound, interrupted, unreaped, cancelQueue,
                   resultQueue, consuming, mainpc, mpc, control, staleness,
                   sync, trainer>>

\* An interrupted sample comes first, ...
ProcResume ==
    /\ ppc = "loop" /\ ~paused /\ ~ShouldPause
    /\ cancelQueue > 0
    /\ cancelQueue' = cancelQueue - 1
    /\ Enter(Continue("full", Active), lockq, paused)
    /\ UNCHANGED <<mq, taken, bound, interrupted, unreaped, resultQueue,
                   consuming, mainpc, mpc, control, staleness, sync, trainer>>

\* ... otherwise the next pending item.
ProcFetch ==
    /\ ppc = "loop" /\ ~paused /\ ~ShouldPause
    /\ cancelQueue = 0
    /\ taken' = taken + 1
    /\ staleness' = staleness + 1
    /\ Enter(Continue(IF taken' = Done THEN "final" ELSE "full", Active), lockq,
             paused)
    /\ UNCHANGED <<mq, bound, interrupted, unreaped, cancelQueue, resultQueue,
                   consuming, mainpc, mpc, control, sync, trainer>>

Processor ==
    \/ ProcPause \/ ProcMark \/ ProcReap \/ ProcNothingToReap \/ ProcGranted
    \/ ProcWake \/ ProcResume \/ ProcFetch

-----------------------------------------------------------------------------
(* _process_single_sample_streaming, _consumer_worker and                   *)
(* _streaming_generation_main.                                              *)

\* pause() is between cancelling the servers and the end of its gather.
Gathering == tpc = "gather"

\* All responses of a sample complete.  Cancelled servers let a response complete
\* only if it was being generated when pause() cancelled them.
TaskFinish ==
    /\ Yielded /\ running > interrupted
    /\ serversPaused => Gathering
    /\ running' = running - 1
    /\ unreaped' = unreaped + 1
    /\ resultQueue' = Append(resultQueue, version)
    /\ UNCHANGED <<mq, taken, ppc, bound, interrupted, cancelQueue, consuming,
                   mainpc, mpc, lockq, control, staleness, sync, trainer>>

\* generate_for_partial answers is_cancel for a response of a running task.
TaskInterrupt ==
    /\ serversPaused /\ running > interrupted
    /\ interrupted' = interrupted + 1
    /\ UNCHANGED <<mq, taken, ppc, bound, rollout, resultQueue, consuming, mainpc,
                   mpc, lockq, control, staleness, sync, trainer>>

\* Its task returns once all its responses have: the servers may run again.
TaskCancel ==
    /\ Yielded /\ interrupted > 0
    /\ interrupted' = interrupted - 1
    /\ running' = running - 1
    /\ unreaped' = unreaped + 1
    /\ cancelQueue' = cancelQueue + 1
    /\ UNCHANGED <<mq, taken, ppc, bound, resultQueue, consuming, mainpc, mpc,
                   lockq, control, staleness, sync, trainer>>

ConsumerGet ==
    /\ Yielded /\ mainpc \in {"wait", "join"}
    /\ consuming = Nothing /\ resultQueue # <<>>
    /\ consuming' = Head(resultQueue)
    /\ resultQueue' = Tail(resultQueue)
    /\ UNCHANGED <<mq, taken, ppc, bound, interrupted, rollout, mainpc, mpc,
                   lockq, control, staleness, sync, trainer>>

ConsumerPut ==
    /\ consuming # Nothing
    /\ MQ!PutSample(consuming)
    /\ consuming' = Nothing
    /\ UNCHANGED <<taken, ppc, bound, interrupted, rollout, resultQueue,
                   mainpc, mpc, lockq, control, staleness, sync, trainer>>

\* feed_task and processor_task have completed.
MainStreamed ==
    /\ mainpc = "wait" /\ ppc = "end"
    /\ mainpc' = "join"
    /\ UNCHANGED <<mq, taken, ppc, bound, interrupted, rollout, resultQueue,
                   consuming, mpc, lockq, control, staleness, sync, trainer>>

\* result_queue.join() returns, the consumer is cancelled, None is put.
MainSentinel ==
    /\ mainpc = "join" /\ resultQueue = <<>> /\ consuming = Nothing
    /\ MQ!PutSample(Nothing)
    /\ mainpc' = "sent"
    /\ UNCHANGED <<taken, ppc, bound, interrupted, rollout, resultQueue,
                   consuming, mpc, lockq, control, staleness, sync, trainer>>

\* async with self.lock: self.running = False
MainStop ==
    /\ Yielded /\ mainpc = "sent"
    /\ IF lockq = <<>> THEN mainpc' = "done" /\ UNCHANGED lockq
                       ELSE mainpc' = "stop" /\ lockq' = Want("main")
    /\ UNCHANGED <<mq, taken, ppc, bound, interrupted, rollout, resultQueue,
                   consuming, mpc, control, staleness, sync, trainer>>

MainStopped ==
    /\ Yielded /\ mainpc = "stop" /\ Holds("main")
    /\ mainpc' = "done"
    /\ lockq' = Release
    /\ UNCHANGED <<mq, taken, ppc, bound, interrupted, rollout, resultQueue,
                   consuming, mpc, control, staleness, sync, trainer>>

-----------------------------------------------------------------------------
(* _async_monitor_loop: the flags are tested before the lock is taken.      *)

Unpause ==
    /\ paused' = FALSE
    /\ resumedBy' = IF paused THEN "monitor" ELSE resumedBy
    /\ ppc' = Notified

\* The top of the loop, with q the lock's queue: still running?
CheckRunning(q) ==
    IF q = <<>> THEN lockq' = q /\ mpc' = IF mainpc = "done" THEN "done" ELSE "sleep"
                ELSE lockq' = Append(q, "monitor") /\ mpc' = "check"

MonitorTick ==
    /\ Yielded /\ mpc = "sleep"
    /\ IF ~monitorTrigger \/ ShouldPause
       THEN CheckRunning(lockq) /\ UNCHANGED <<paused, resumedBy, ppc>>
       ELSE IF lockq = <<>>
       THEN Unpause /\ CheckRunning(<<>>)
       ELSE mpc' = "lock" /\ lockq' = Want("monitor")
            /\ UNCHANGED <<paused, resumedBy, ppc>>
    /\ UNCHANGED <<mq, taken, bound, interrupted, rollout, resultQueue,
                   consuming, mainpc, monitorTrigger, serversPaused, staleness,
                   sync, trainer>>

MonitorUnpause ==
    /\ Yielded /\ mpc = "lock" /\ Holds("monitor")
    /\ Unpause
    /\ CheckRunning(Release)
    /\ UNCHANGED <<mq, taken, bound, interrupted, rollout, resultQueue,
                   consuming, mainpc, monitorTrigger, serversPaused, staleness,
                   sync, trainer>>

MonitorChecked ==
    /\ Yielded /\ mpc = "check" /\ Holds("monitor")
    /\ lockq' = Release
    /\ mpc' = IF mainpc = "done" THEN "done" ELSE "sleep"
    /\ UNCHANGED <<mq, taken, ppc, bound, interrupted, rollout, resultQueue,
                   consuming, mainpc, control, staleness, sync, trainer>>

-----------------------------------------------------------------------------
(* FullyAsyncTrainer.fit and, on its behalf, ParameterSynchronizer.         *)

\* _get_samples_from_queue: an incomplete batch is thrown away.
TrainerGet ==
    /\ tpc = "collect"
    /\ MQ!TakeSample
    /\ IF Head(queue) = Nothing
       THEN tpc' = "finish" /\ UNCHANGED got
       ELSE /\ got' = got + 1
            /\ tpc' = IF got' = Required THEN "train" ELSE "collect"
    /\ UNCHANGED <<taken, ppc, bound, interrupted, rollout, resultQueue,
                   consuming, mainpc, mpc, lockq, control, staleness, sync,
                   localStep, trainVersion, validate, valData, trained>>

\* A variant the runs must reject: one training step too many per version.
StepsLeftLate == localStep <= Trigger

StepsLeft == localStep < Trigger

\* One training step, then _trigger_parameter_sync_after_step.
TrainerStep ==
    /\ tpc = "train"
    /\ got' = 0
    /\ trained' = trained + Required
    /\ IF StepsLeft
       THEN /\ localStep' = localStep + 1
            /\ tpc' = "validation"
            /\ UNCHANGED trainVersion
       ELSE /\ localStep' = 1
            /\ trainVersion' = trainVersion + 1
            /\ tpc' = "waitLast"
    /\ UNCHANGED <<mq, taken, ppc, bound, interrupted, rollout, resultQueue,
                   consuming, mainpc, mpc, lockq, control, staleness, sync,
                   validate, valData>>

\* The end of fit: synchronize once more unless the validation result read
\* last carries metrics.
TrainerFinish ==
    /\ tpc = "finish"
    /\ IF valData = Nothing \/ ~valData.metrics
       THEN /\ trainVersion' = trainVersion + 1
            /\ localStep' = 1
            /\ validate' = TRUE
            /\ tpc' = "waitLast"
       ELSE /\ tpc' = "done"
            /\ UNCHANGED <<trainVersion, localStep, validate>>
    /\ UNCHANGED <<mq, taken, ppc, bound, interrupted, rollout, resultQueue,
                   consuming, mainpc, mpc, lockq, control, staleness, sync,
                   got, valData, trained>>

\* A variant the runs must reject: the servers are not told to stop.
BeginPauseOnly ==
    /\ paused' = TRUE
    /\ serversPaused' = FALSE
    /\ resumedBy' = "nobody"
    /\ tpc' = "gather"

\* pause(), holding the lock, up to its gather: in partial mode it cancels the
\* servers first.
BeginPause ==
    /\ paused' = TRUE
    /\ serversPaused' = Partial
    /\ resumedBy' = "nobody"
    /\ tpc' = "gather"

\* wait_last_valid, then sync_weights calls rollouter.pause.
SyncPause ==
    /\ Yielded /\ tpc = "waitLast" /\ upc = "none"
    /\ lockq' = Want("pause")
    /\ IF lockq = <<>>
       THEN BeginPause
       ELSE tpc' = "pause" /\ UNCHANGED <<paused, serversPaused, resumedBy>>
    /\ UNCHANGED <<mq, taken, ppc, bound, interrupted, rollout, resultQueue,
                   consuming, mainpc, mpc, monitorTrigger, staleness, sync,
                   got, localStep, trainVersion, validate, valData, trained>>

PauseGranted ==
    /\ Yielded /\ tpc = "pause" /\ Holds("pause")
    /\ BeginPause
    /\ UNCHANGED <<mq, taken, ppc, bound, interrupted, rollout, resultQueue,
                   consuming, mainpc, mpc, lockq, monitorTrigger, staleness,
                   sync, got, localStep, trainVersion, validate, valData,
                   trained>>

\* All tasks have returned; active_tasks is cleared.
PauseEnd ==
    /\ Yielded /\ tpc = "gather" /\ running = 0
    /\ unreaped' = 0
    /\ monitorTrigger' = FALSE
    /\ lockq' = Release
    /\ tpc' = "sync"
    /\ UNCHANGED <<mq, taken, ppc, bound, interrupted, running, cancelQueue,
                   resultQueue, consuming, mainpc, mpc, paused, serversPaused,
                   resumedBy, staleness, sync, got, localStep, trainVersion,
                   validate, valData, trained>>

\* The weights arrive; update_param_version is called but not awaited.
SyncWeights ==
    /\ tpc = "sync"
    /\ MQ!UpdateParamVersion(trainVersion)
    /\ weights' = trainVersion
    /\ upc' = "update"
    /\ lastUpdate' = validate
    /\ tpc' = IF validate THEN "waitFinal" ELSE "validation"
    /\ UNCHANGED <<taken, ppc, bound, interrupted, rollout, resultQueue,
                   consuming, mainpc, mpc, lockq, control, staleness, version,
                   acc, got, localStep, trainVersion, validate, valData,
                   trained>>

\* get_validate_sync after every training step.
TrainerValidation ==
    /\ tpc = "validation"
    /\ MQ!GetValidate
    /\ valData' = IF valQueue = <<>> THEN Nothing ELSE Head(valQueue)
    /\ tpc' = "collect"
    /\ UNCHANGED <<taken, ppc, bound, interrupted, rollout, resultQueue,
                   consuming, mainpc, mpc, lockq, control, staleness, sync,
                   got, localStep, trainVersion, validate, trained>>

\* The final synchronization: wait for its update and resume, read its result.
TrainerFinal ==
    /\ tpc = "waitFinal" /\ upc = "none"
    /\ MQ!GetValidate
    /\ valData' = IF valQueue = <<>> THEN Nothing ELSE Head(valQueue)
    /\ tpc' = "done"
    /\ UNCHANGED <<taken, ppc, bound, interrupted, rollout, resultQueue,
                   consuming, mainpc, mpc, lockq, control, staleness, sync,
                   got, localStep, trainVersion, validate, trained>>

Trainer ==
    \/ TrainerGet \/ TrainerStep \/ TrainerFinish \/ SyncPause \/ PauseGranted
    \/ PauseEnd \/ SyncWeights \/ TrainerValidation \/ TrainerFinal

-----------------------------------------------------------------------------
(* update_param_version and resume, which run while the trainer goes on.    *)

ReadCounts ==
    /\ version' = weights
    /\ acc' = Active + Len(resultQueue) + cancelQueue
    /\ upc' = "count"

UpdateCall ==
    /\ Yielded /\ upc = "update"
    /\ lockq' = Want("update")
    /\ IF lockq = <<>> THEN ReadCounts
                       ELSE upc' = "updateLock" /\ UNCHANGED <<version, acc>>
    /\ UNCHANGED <<mq, taken, ppc, bound, interrupted, rollout, resultQueue,
                   consuming, mainpc, mpc, control, staleness, weights,
                   lastUpdate, trainer>>

UpdateGranted ==
    /\ Yielded /\ upc = "updateLock" /\ Holds("update")
    /\ ReadCounts
    /\ UNCHANGED <<mq, taken, ppc, bound, interrupted, rollout, resultQueue,
                   consuming, mainpc, mpc, lockq, control, staleness, weights,
                   lastUpdate, trainer>>

Validates == \/ TestFreq > 0 /\ version > 0 /\ version % TestFreq = 0
             \/ lastUpdate

UpdateWrite ==
    /\ Yielded /\ upc = "count"
    /\ staleness' = acc + Len(queue)
    /\ acc' = 0
    /\ MQ!PutValidate([version |-> version, metrics |-> Validates])
    /\ upc' = "updated"
    /\ lockq' = Release
    /\ UNCHANGED <<taken, ppc, bound, interrupted, rollout, resultQueue,
                   consuming, mainpc, mpc, control, version, weights,
                   lastUpdate, trainer>>

\* resume(), holding the lock with q behind it.
EndPause(q) ==
    /\ paused' = FALSE
    /\ monitorTrigger' = TRUE
    /\ serversPaused' = FALSE
    /\ resumedBy' = "sync"
    /\ ppc' = Notified
    /\ upc' = "none"
    /\ lockq' = q

\* Ray starts resume once the update it depends on has completed.
ResumeCall ==
    /\ Yielded /\ upc = "updated"
    /\ IF lockq = <<>>
       THEN EndPause(<<>>)
       ELSE upc' = "resume" /\ lockq' = Want("resume") /\ UNCHANGED <<control, ppc>>
    /\ UNCHANGED <<mq, taken, bound, interrupted, rollout, resultQueue,
                   consuming, mainpc, mpc, staleness, version, weights, acc,
                   lastUpdate, trainer>>

ResumeGranted ==
    /\ Yielded /\ upc = "resume" /\ Holds("resume")
    /\ EndPause(Release)
    /\ UNCHANGED <<mq, taken, bound, interrupted, rollout, resultQueue,
                   consuming, mainpc, mpc, staleness, version, weights, acc,
                   lastUpdate, trainer>>

Update == UpdateCall \/ UpdateGranted \/ UpdateWrite \/ ResumeCall \/ ResumeGranted

-----------------------------------------------------------------------------
Finished == tpc = "done" /\ mainpc = "done" /\ mpc = "done"
Terminated == Finished /\ UNCHANGED vars

Task == TaskFinish \/ TaskInterrupt \/ TaskCancel
Consumer == ConsumerGet \/ ConsumerPut
Main == MainStreamed \/ MainSentinel \/ MainStop \/ MainStopped
Monitor == MonitorTick \/ MonitorUnpause \/ MonitorChecked

Next ==
    \/ Processor \/ Task \/ Consumer \/ Main \/ Monitor \/ Trainer
    \/ Update \/ Terminated

Spec == Init /\ [][Next]_vars

\* The event loop runs every coroutine that is ready, generation of a sample
\* ends, and the trainer and the synchronizer keep running.  Calls that Ray has
\* delivered wait in the loop's FIFO ready queue: they are served even if the
\* processor never stays idle, hence SF.
FairSpec ==
    /\ Spec
    /\ WF_vars(Processor) /\ WF_vars(Task)
    /\ WF_vars(Consumer) /\ WF_vars(Main) /\ WF_vars(Monitor)
    /\ SF_vars(Trainer) /\ SF_vars(Update)
-----------------------------------------------------------------------------
(* Types and correctness.                                                   *)

QueueTypeOK ==
    /\ queue \in Seq(Nat \union {Nothing})
    /\ valQueue \in Seq([version : Nat, metrics : BOOLEAN])
    /\ open \in BOOLEAN /\ currentParamVersion \in Nat
    /\ totalProduced \in Nat /\ totalConsumed \in Nat
    /\ droppedSamples \in Nat /\ cleared \in Nat

ProcessorTypeOK ==
    /\ taken \in 0..Done
    /\ ppc \in {"loop", "mark", "drain", "idle", "idleCond", "idleWoken",
                "full", "start", "startCond", "startWoken", "final", "end", "dead"}
    /\ bound \in BOOLEAN
    /\ running \in Nat /\ unreaped \in Nat /\ cancelQueue \in Nat
    /\ interrupted \in 0..running
    /\ lockq \in Seq({"proc", "monitor", "main", "pause", "update", "resume"})

RolloutTypeOK ==
    /\ resultQueue \in Seq(Nat) /\ consuming \in Nat \union {Nothing}
    /\ mainpc \in {"wait", "join", "sent", "stop", "done"}
    /\ mpc \in {"sleep", "lock", "check", "done"}
    /\ paused \in BOOLEAN /\ monitorTrigger \in BOOLEAN
    /\ serversPaused \in BOOLEAN /\ resumedBy \in {"sync", "monitor", "nobody"}
    /\ staleness \in Nat /\ version \in Nat /\ weights \in Nat
    /\ upc \in {"none", "update", "updateLock", "count", "updated", "resume"}
    /\ acc \in Nat /\ lastUpdate \in BOOLEAN

TrainerTypeOK ==
    /\ tpc \in {"collect", "train", "validation", "waitLast", "pause", "gather",
                "sync", "finish", "waitFinal", "done"}
    /\ got \in Nat /\ localStep \in 1..Trigger /\ trainVersion \in Nat
    /\ validate \in BOOLEAN /\ trained \in Nat
    /\ valData \in [version : Nat, metrics : BOOLEAN] \union {Nothing}

TypeOK == QueueTypeOK /\ ProcessorTypeOK /\ RolloutTypeOK /\ TrainerTypeOK

\* A sample is in the processor's hands between its queue and its task.
InHand == ppc \in {"full", "start", "startCond", "startWoken"}
HasSentinel == mainpc \in {"sent", "stop", "done"}

Count(condition) == IF condition THEN 1 ELSE 0

Produced == Len(resultQueue) + Count(consuming # Nothing) + Len(queue)
Backlog == Count(InHand) + running + cancelQueue + Produced

\* max_required_samples: the staleness budget.  update_param_version counts
\* neither the sample in the processor's hands nor the one in the consumer's, so
\* the samples in flight can exceed the budget, but by those two only.
BacklogBounded == Backlog - Count(HasSentinel) <= MaxRequired + 2

\* README "staleness_threshold": the samples generated between two parameter
\* updates and the stale ones left over from before together stay within
\* (1 + staleness_threshold) * trigger * required.
ProducedWithinBudget == Produced - Count(HasSentinel) <= MaxRequired

\* README "staleness_threshold=0, indicates synchronous training": a sample is
\* trained on by the very version that generated it.
OnPolicy ==
    [][(/\ MaxRequired = Required * Trigger
        /\ totalConsumed' # totalConsumed
        /\ Head(queue) # Nothing) => Head(queue) = trainVersion]_vars

\* _trigger_parameter_sync_after_step: between two synchronizations the trainer
\* consumes exactly trigger * required samples; only the final one comes early.
TrainedPerVersion ==
    LET perVersion == Trigger * Required
    IN  IF validate THEN /\ (trainVersion - 1) * perVersion <= trained
                         /\ trained < trainVersion * perVersion
                    ELSE trained = trainVersion * perVersion + (localStep - 1) * Required

\* The weights in the servers are being replaced, or already are while the
\* rollouter still labels samples with the version before.
SyncWindow == tpc = "sync" \/ upc \in {"update", "updateLock", "count"}
Generating == IF serversPaused THEN 0 ELSE running

\* sync_weights: no sample is being generated while the weights are replaced.
QuietDuringSync == SyncWindow => Generating = 0

\* The same, except when the monitor cleared paused after pause() had set it.
QuietUnlessMonitor == SyncWindow /\ resumedBy # "monitor" => Generating = 0

\* param_version: a sample that finishes generation is labelled with the version
\* of the weights that the servers hold.
LabelMatchesWeights ==
    [][Len(resultQueue') > Len(resultQueue) => version = weights]_vars

\* _streaming_generation_main: when the trainer meets the sentinel nothing it
\* could still train on is on its way.
SentinelIsLast ==
    HasSentinel => running = 0 /\ resultQueue = <<>> /\ consuming = Nothing

\* _streaming_generation_main: every sample fed is trained on, dropped by the
\* full queue, or thrown away with the last, incomplete batch; none is left unread
\* in the message queue.
NoSampleLost == Finished => trained + got + droppedSamples = NumSamples

\* README "async stream pipeline with partial rollout": the samples interrupted
\* by a synchronization continue to be generated after it.
InterruptedContinue == cancelQueue > 0 ~> cancelQueue = 0

\* _processor_worker: done_tasks is never read before it has been assigned.
ProcessorSurvives == ppc # "dead"

\* fit, "final parameter sync and validate": the result read after the final
\* synchronization is that of the final parameters.
FinalResultIsFinal ==
    tpc = "done" /\ validate => valData # Nothing /\ valData.version = trainVersion

\* fit: the rollouter and the trainer both come to their end.
Termination == <>Finished

\* pause, resume, _async_monitor_loop: a processor that waits goes on.
PauseEnds == ppc \in {"idleCond", "startCond"} ~> ppc \notin {"idleCond", "startCond"}
=============================================================================
