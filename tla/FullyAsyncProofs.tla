-------------------------- MODULE FullyAsyncProofs --------------------------
(***************************************************************************)
(* What FullyAsync guarantees for every number of samples, batch size,     *)
(* staleness budget and number of concurrent samples, in both rollout      *)
(* modes: the types, the staleness budget, what happens to the samples on  *)
(* their way to the trainer, and to the weights on theirs to the servers.  *)
(***************************************************************************)
EXTENDS FullyAsync, SequenceTheorems, TLAPS

Samples == Nat \union {Nothing}
Clients == {"proc", "monitor", "main", "pause", "update", "resume"}
Points == {"drain", "idle", "full", "start", "final", "end"}

-----------------------------------------------------------------------------
(* The message queue's operations and the processor's way through the lock. *)

LEMMA PutEffect ==
    ASSUME NEW sample \in Samples, queue \in Seq(Samples), totalProduced \in Nat,
           droppedSamples \in Nat, MQ!PutSample(sample)
    PROVE  /\ queue' \in Seq(Samples) /\ Len(queue') <= Len(queue) + 1
           /\ totalProduced' = totalProduced + 1
           /\ droppedSamples' \in Nat
           /\ UNCHANGED <<valQueue, open, currentParamVersion, totalConsumed, cleared>>
  <1> DEFINE kept == IF MQ!Full THEN Tail(queue) ELSE queue
  <1>1. kept \in Seq(Samples) /\ Len(kept) <= Len(queue)
    <2>1. CASE MQ!Full
      <3>1. queue # <<>>
        BY <2>1, ConfigAssumption DEF MQ!Full
      <3> QED
        BY <2>1, <3>1, HeadTailProperties
    <2>2. CASE ~MQ!Full
      BY <2>2
    <2> QED
      BY <2>1, <2>2
  <1>2. queue' = Append(kept, sample)
    BY DEF MQ!PutSample
  <1> HIDE DEF kept
  <1>3. queue' \in Seq(Samples) /\ Len(queue') <= Len(queue) + 1
    BY <1>1, <1>2, AppendProperties
  <1> QED
    BY <1>3 DEF MQ!PutSample

LEMMA EnterEffect ==
    ASSUME NEW point \in Points, NEW q \in Seq(Clients), NEW isPaused \in BOOLEAN,
           Enter(point, q, isPaused)
    PROVE  \/ /\ point \in {"idle", "start"} /\ q = <<>> /\ isPaused
              /\ lockq' = <<>> /\ running' = running
              /\ ppc' = IF point = "idle" THEN "idleCond" ELSE "startCond"
           \/ /\ point = "idle" /\ q = <<>> /\ ~isPaused
              /\ lockq' = <<>> /\ running' = running /\ ppc' = "loop"
           \/ /\ point = "start" /\ q = <<>> /\ ~isPaused
              /\ lockq' = <<>> /\ running' = running + 1 /\ ppc' = "loop"
           \/ /\ point = "end"
              /\ lockq' = q /\ running' = running /\ ppc' = "end"
           \/ /\ point # "end" /\ (point \in {"idle", "start"} => q # <<>>)
              /\ lockq' = Append(q, "proc") /\ running' = running /\ ppc' = point
  BY DEF Enter, Granted, Points

LEMMA ContinuePoints ==
    ASSUME NEW active \in Nat
    PROVE  /\ Continue("drain", active) \in {"drain", "idle"}
           /\ Continue("full", active) \in {"full", "start"}
           /\ Continue("final", active) \in {"final", "end"}
  BY DEF Continue

LEMMA EnterTypes ==
    ASSUME NEW point \in Points, NEW q \in Seq(Clients), NEW isPaused \in BOOLEAN,
           running \in Nat, Enter(point, q, isPaused)
    PROVE  /\ lockq' \in Seq(Clients) /\ running' \in {running, running + 1}
           /\ ppc' \in {"idleCond", "startCond", "loop", "drain", "idle", "full",
                       "start", "final", "end"}
           /\ point \in {"final", "end"} => ppc' = point
  <1>1. Append(q, "proc") \in Seq(Clients) /\ <<>> \in Seq(Clients)
    BY AppendProperties DEF Clients
  <1>2. lockq' \in {<<>>, q, Append(q, "proc")} /\ running' \in {running, running + 1}
    BY EnterEffect
  <1>3. /\ ppc' \in {"idleCond", "startCond", "loop", "end", point}
        /\ point \in {"final", "end"} => ppc' = point
    BY EnterEffect
  <1>4. lockq' \in Seq(Clients)
    BY <1>1, <1>2
  <1>5. ppc' \in {"idleCond", "startCond", "loop", "drain", "idle", "full",
                  "start", "final", "end"}
    BY <1>3 DEF Points
  <1> QED
    BY <1>2, <1>3, <1>4, <1>5

-----------------------------------------------------------------------------
(* The lock.  A step made on behalf of one client either appends it to the  *)
(* lock's queue, or finds the lock free or its own.                         *)

LockMove(client) ==
    lockq' = lockq \/ lockq' = Append(lockq, client) \/ lockq = <<>> \/ Holds(client)

\* So nobody is put out of the lock by another's step.
LEMMA LockKept ==
    ASSUME lockq \in Seq(Clients), NEW client \in Clients, NEW who \in Clients,
           client # who, LockMove(client), Holds(who)
    PROVE  Holds(who)'
  <1>1. lockq # <<>> /\ Head(lockq) = who
    BY DEF Holds
  <1>2. lockq' = lockq \/ lockq' = Append(lockq, client)
    BY <1>1 DEF LockMove, Holds
  <1>3. Append(lockq, client) # <<>> /\ Head(Append(lockq, client)) = who
    BY <1>1
  <1> QED
    BY <1>1, <1>2, <1>3 DEF Holds

LEMMA LockMoves ==
    /\ Processor => LockMove("proc")
    /\ Main => LockMove("main")
    /\ Monitor => LockMove("monitor")
    /\ Task \/ Consumer => UNCHANGED lockq
  <1>1. Processor => LockMove("proc")
    BY DEF Processor, ProcPause, ProcMark, ProcReap, ProcNothingToReap, ProcGranted,
           ProcWake, ProcResume, ProcFetch, Enter, Granted, LockMove
  <1>2. Main => LockMove("main")
    BY DEF Main, MainStreamed, MainSentinel, MainStop, MainStopped, Want, LockMove
  <1>3. Monitor => LockMove("monitor")
    BY DEF Monitor, MonitorTick, MonitorUnpause, MonitorChecked, CheckRunning, Want,
           LockMove, control
  <1>4. Task \/ Consumer => UNCHANGED lockq
    BY DEF Task, TaskFinish, TaskInterrupt, TaskCancel, Consumer, ConsumerGet, ConsumerPut
  <1> QED
    BY <1>1, <1>2, <1>3, <1>4

-----------------------------------------------------------------------------
(* Types.  After "DONE" the processor only reaps, so taken stops there.     *)

\* pause() keeps the lock during its gather, update_param_version during its count.
LockInv ==
    /\ tpc = "gather" => Holds("pause")
    /\ upc = "count" => Holds("update")

TypeInv == TypeOK /\ LockInv /\ (taken = Done => ppc \in {"final", "end", "dead"})

LEMMA InitType == Init => TypeInv
  <1> SUFFICES ASSUME Init PROVE TypeInv
    OBVIOUS
  <1>1. QueueTypeOK
    BY DEF Init, MQ!MQInit, QueueTypeOK
  <1>2. /\ taken = 0 /\ ppc = "loop" /\ bound = FALSE
        /\ interrupted = 0 /\ running = 0 /\ unreaped = 0 /\ cancelQueue = 0
        /\ lockq = <<>>
    BY DEF Init
  <1>3. ProcessorTypeOK /\ taken # Done
    <2>1. NumSamples \in Nat \ {0}
      BY ConfigAssumption
    <2>2. 0 \in 0..Done /\ 0 # Done
      BY ONLY <2>1 DEF Done
    <2>3. lockq \in Seq(Clients)
      BY <1>2, EmptySeq
    <2>4. interrupted \in 0..running
      BY ONLY <1>2
    <2> QED
      BY ONLY <1>2, <2>2, <2>3, <2>4 DEF ProcessorTypeOK, Clients
  <1>4. RolloutTypeOK
    <2>1. /\ resultQueue = <<>> /\ consuming = Nothing
          /\ mainpc = "wait" /\ mpc = "sleep"
          /\ paused = FALSE /\ monitorTrigger = TRUE /\ serversPaused = FALSE
          /\ resumedBy = "sync" /\ staleness = 0 /\ version = 0 /\ weights = 0
          /\ upc = "none" /\ acc = 0 /\ lastUpdate = FALSE
      BY DEF Init
    <2>2. resultQueue \in Seq(Nat)
      BY <2>1, EmptySeq
    <2> QED
      BY ONLY <2>1, <2>2 DEF RolloutTypeOK
  <1>5. TrainerTypeOK
    <2>1. valData \in [version : Nat, metrics : BOOLEAN]
      BY DEF Init
    <2>2. 1 \in 1..Trigger
      BY ConfigAssumption
    <2> QED
      BY <2>1, <2>2 DEF Init, TrainerTypeOK
  <1>6. LockInv
    BY DEF Init, LockInv
  <1> QED
    BY <1>1, <1>3, <1>4, <1>5, <1>6 DEF TypeInv, TypeOK

\* What every step of the processor has in common.
LEMMA ProcessorFrame ==
    Processor => UNCHANGED <<mq, interrupted, resultQueue, consuming, mainpc, mpc,
                             monitorTrigger, serversPaused, resumedBy, sync, trainer>>
  BY DEF Processor, ProcPause, ProcMark, ProcReap, ProcNothingToReap, ProcGranted,
         ProcWake, ProcResume, ProcFetch, control

LEMMA ProcessorType == TypeInv /\ Processor => TypeInv'
  <1> SUFFICES ASSUME TypeInv, Processor PROVE TypeInv'
    OBVIOUS
  <1> USE ConfigAssumption
  <1> DEFINE PPC == /\ lockq' \in Seq(Clients) /\ running' \in {running, running + 1}
                    /\ ppc' \in {"loop", "mark", "drain", "idle", "idleCond",
                                "full", "start", "startCond", "final", "end", "dead"}
                    /\ taken' = Done => ppc' \in {"final", "end", "dead"}
                    /\ taken' \in 0..Done /\ staleness' \in Nat
                    /\ bound' \in BOOLEAN /\ unreaped' \in Nat /\ paused' \in BOOLEAN
                    /\ cancelQueue' \in Nat
  <1>1. /\ lockq \in Seq(Clients) /\ running \in Nat /\ unreaped \in Nat
        /\ cancelQueue \in Nat /\ staleness \in Nat /\ bound \in BOOLEAN
        /\ Active \in Nat /\ paused \in BOOLEAN /\ interrupted \in 0..running
        /\ taken \in 0..Done
        /\ taken = Done => ppc \in {"final", "end", "dead"}
    BY DEF TypeInv, TypeOK, ProcessorTypeOK, RolloutTypeOK, Active, Clients
  <1>2. /\ lockq # <<>> => Release \in Seq(Clients)
        /\ <<>> \in Seq(Clients)
        /\ Append(lockq, "proc") \in Seq(Clients)
    BY <1>1, HeadTailProperties, AppendProperties DEF Release, Clients
  <1>3. ASSUME ProcPause PROVE PPC
    <2>1. CASE lockq = <<>>
      <3>1. Enter(Continue("drain", Active), <<>>, TRUE) /\ paused' = TRUE
        BY <1>3, <2>1 DEF ProcPause
      <3>2. Continue("drain", Active) \in Points
        BY <1>1, ContinuePoints DEF Points
      <3> QED
        BY <1>1, <1>2, <1>3, <3>1, <3>2, EnterTypes DEF ProcPause
    <2>2. CASE lockq # <<>>
      <3>1. ppc' = "mark" /\ lockq' = Append(lockq, "proc") /\ running' = running
            /\ paused' = paused
        BY <1>3, <2>2 DEF ProcPause, Enter
      <3> QED
        BY <1>1, <1>2, <1>3, <3>1 DEF ProcPause
    <2> QED
      BY <2>1, <2>2
  <1>4. ASSUME ProcMark PROVE PPC
    <2>1. Enter(Continue("drain", Active), Release, TRUE) /\ lockq # <<>>
      BY <1>4 DEF ProcMark, Holds
    <2>2. Continue("drain", Active) \in Points
      BY <1>1, ContinuePoints DEF Points
    <2> QED
      BY <1>1, <1>2, <1>4, <2>1, <2>2, EnterTypes DEF ProcMark
  <1>5. ASSUME ProcReap PROVE PPC
    <2>1. Enter(Continue(ppc, running), Release, paused) /\ lockq # <<>>
      BY <1>5 DEF ProcReap, Holds
    <2>2. /\ Continue(ppc, running) \in Points
          /\ ppc = "final" => Continue(ppc, running) \in {"final", "end"}
      BY <1>1, <1>5, ContinuePoints DEF ProcReap, Points
    <2> QED
      BY <1>1, <1>2, <1>5, <2>1, <2>2, EnterTypes DEF ProcReap, AssignDone, control
  <1>6. ASSUME ProcNothingToReap PROVE PPC
    <2>1. /\ Continue(ppc, 0) \in Points
          /\ ppc = "final" => Continue(ppc, 0) \in {"final", "end"}
      BY <1>6, ContinuePoints DEF ProcNothingToReap, Points
    <2>2. CASE bound
      <3>1. Enter(Continue(ppc, 0), Release, paused) /\ lockq # <<>>
        BY <1>6, <2>2 DEF ProcNothingToReap, Holds
      <3> QED
        BY <1>1, <1>2, <1>6, <2>1, <3>1, EnterTypes DEF ProcNothingToReap, control
    <2>3. CASE ~bound
      BY <1>1, <1>2, <1>6, <2>3 DEF ProcNothingToReap, Holds, control
    <2> QED
      BY <2>2, <2>3
  <1>7. ASSUME ProcGranted PROVE PPC
    BY <1>1, <1>2, <1>7 DEF ProcGranted, Granted, Holds, control
  <1>8. ASSUME ProcWake PROVE PPC
    <2>1. Enter(IF ppc = "idleWoken" THEN "idle" ELSE "start", lockq, paused)
      BY <1>8 DEF ProcWake
    <2> QED
      BY <1>1, <1>2, <1>8, <2>1, EnterTypes DEF ProcWake, Points, control
  <1>9. ASSUME ProcResume PROVE PPC
    <2>1. Enter(Continue("full", Active), lockq, paused)
      BY <1>9 DEF ProcResume
    <2>2. Continue("full", Active) \in Points
      BY <1>1, ContinuePoints DEF Points
    <2> QED
      BY <1>1, <1>2, <1>9, <2>1, <2>2, EnterTypes DEF ProcResume, control
  <1>10. ASSUME ProcFetch PROVE PPC
    <2>1. taken' = taken + 1 /\ taken # Done /\ staleness' = staleness + 1
      BY <1>1, <1>10 DEF ProcFetch
    <2>2. Enter(Continue(IF taken' = Done THEN "final" ELSE "full", Active), lockq, paused)
      BY <1>10 DEF ProcFetch
    <2>3. /\ Continue(IF taken' = Done THEN "final" ELSE "full", Active) \in Points
          /\ taken' = Done => Continue(IF taken' = Done THEN "final" ELSE "full", Active)
                                 \in {"final", "end"}
      BY <1>1, ContinuePoints DEF Points
    <2>4. taken' \in 0..Done
      BY <1>1, <2>1 DEF Done
    <2> QED
      BY <1>1, <1>2, <1>10, <2>1, <2>2, <2>3, <2>4, EnterTypes DEF ProcFetch, control
  <1>11. PPC
    BY <1>3, <1>4, <1>5, <1>6, <1>7, <1>8, <1>9, <1>10 DEF Processor
  <1>12. UNCHANGED <<mq, interrupted, resultQueue, consuming, mainpc, mpc,
                     monitorTrigger, serversPaused, resumedBy, sync, trainer>>
    BY ProcessorFrame
  <1>13. QueueTypeOK' /\ TrainerTypeOK'
    BY <1>12 DEF TypeInv, TypeOK, QueueTypeOK, TrainerTypeOK, mq, trainer
  <1>14. ProcessorTypeOK'
    <2>1. running' \in Nat /\ interrupted' \in 0..running'
      BY <1>1, <1>11, <1>12
    <2> QED
      BY <1>11, <2>1 DEF ProcessorTypeOK, Clients, Done
  <1>15. RolloutTypeOK'
    BY <1>11, <1>12 DEF TypeInv, TypeOK, RolloutTypeOK, sync
  <1> QED
    <2>1. LockInv'
      BY <1>1, <1>12, LockMoves, LockKept DEF TypeInv, LockInv, Clients, sync, trainer
    <2> QED
      BY <1>11, <1>13, <1>14, <1>15, <2>1 DEF TypeInv, TypeOK, Done

LEMMA TaskType == TypeInv /\ Task => TypeInv'
  <1> SUFFICES ASSUME TypeInv, Task PROVE TypeInv'
    OBVIOUS
  <1>0. /\ running \in Nat /\ unreaped \in Nat /\ cancelQueue \in Nat
        /\ interrupted \in 0..running
    BY DEF TypeInv, TypeOK, ProcessorTypeOK
  <1>1. /\ UNCHANGED <<mq, taken, ppc, bound, consuming, mainpc, mpc, lockq, control,
                       staleness, sync, trainer>>
        /\ running' \in Nat /\ interrupted' \in 0..running'
        /\ unreaped' \in {unreaped, unreaped + 1}
        /\ cancelQueue' \in {cancelQueue, cancelQueue + 1}
        /\ resultQueue' \in {resultQueue, Append(resultQueue, version)}
    <2>1. CASE TaskFinish
      BY <1>0, <2>1 DEF TaskFinish
    <2>2. CASE TaskInterrupt
      BY <1>0, <2>2 DEF TaskInterrupt, rollout
    <2>3. CASE TaskCancel
      BY <1>0, <2>3 DEF TaskCancel
    <2> QED
      BY <2>1, <2>2, <2>3 DEF Task
  <1>2. QueueTypeOK' /\ TrainerTypeOK'
    BY <1>1 DEF TypeInv, TypeOK, QueueTypeOK, TrainerTypeOK, mq, trainer
  <1>3. ProcessorTypeOK'
    BY <1>0, <1>1 DEF TypeInv, TypeOK, ProcessorTypeOK, Done
  <1>4. RolloutTypeOK'
    <2>1. resultQueue' \in Seq(Nat)
      <3>1. resultQueue \in Seq(Nat) /\ version \in Nat
        BY DEF TypeInv, TypeOK, RolloutTypeOK
      <3>2. resultQueue' = resultQueue \/ resultQueue' = Append(resultQueue, version)
        BY <1>1
      <3> QED
        BY ONLY <3>1, <3>2, AppendProperties
    <2> QED
      BY <1>1, <2>1 DEF TypeInv, TypeOK, RolloutTypeOK, control, sync
  <1>5. LockInv'
    BY <1>1 DEF TypeInv, LockInv, Holds, sync, trainer
  <1> QED
    BY <1>1, <1>2, <1>3, <1>4, <1>5 DEF TypeInv, TypeOK, Done

LEMMA ConsumerType == TypeInv /\ Consumer => TypeInv'
  <1> SUFFICES ASSUME TypeInv, Consumer PROVE TypeInv'
    OBVIOUS
  <1>1. /\ UNCHANGED <<taken, ppc, bound, interrupted, rollout, mainpc, mpc, lockq, control,
                       staleness, sync, trainer>>
    BY DEF Consumer, ConsumerGet, ConsumerPut
  <1>2. TrainerTypeOK' /\ ProcessorTypeOK'
    BY <1>1 DEF TypeInv, TypeOK, ProcessorTypeOK, TrainerTypeOK, rollout, trainer, Done
  <1>0. LockInv'
    BY <1>1 DEF TypeInv, LockInv, Holds, sync, trainer
  <1>3. CASE ConsumerGet
    <2>1. consuming' \in Nat /\ resultQueue' \in Seq(Nat)
      BY <1>3, HeadTailProperties DEF ConsumerGet, TypeInv, TypeOK, RolloutTypeOK
    <2>2. QueueTypeOK'
      BY <1>3 DEF ConsumerGet, TypeInv, TypeOK, QueueTypeOK, mq
    <2>3. RolloutTypeOK'
      BY <1>1, <2>1 DEF TypeInv, TypeOK, RolloutTypeOK, control, sync
    <2> QED
      BY <1>0, <1>1, <1>2, <2>2, <2>3 DEF TypeInv, TypeOK, Done
  <1>4. CASE ConsumerPut
    <2>1. consuming \in Samples /\ consuming' = Nothing /\ MQ!PutSample(consuming)
          /\ UNCHANGED resultQueue
      BY <1>4 DEF ConsumerPut, TypeInv, TypeOK, RolloutTypeOK, Samples
    <2>2. QueueTypeOK'
      BY <2>1, PutEffect DEF TypeInv, TypeOK, QueueTypeOK, Samples
    <2>3. RolloutTypeOK'
      BY <1>1, <2>1 DEF TypeInv, TypeOK, RolloutTypeOK, control, sync
    <2> QED
      BY <1>0, <1>1, <1>2, <2>2, <2>3 DEF TypeInv, TypeOK, Done
  <1> QED
    BY <1>3, <1>4 DEF Consumer

LEMMA MainType == TypeInv /\ Main => TypeInv'
  <1> SUFFICES ASSUME TypeInv, Main PROVE TypeInv'
    OBVIOUS
  <1>1. /\ UNCHANGED <<taken, ppc, bound, interrupted, rollout, resultQueue, consuming,
                       mpc, control, staleness, sync, trainer>>
        /\ mainpc' \in {"wait", "join", "sent", "stop", "done"}
        /\ UNCHANGED mq \/ MQ!PutSample(Nothing)
        /\ \/ lockq' = lockq \/ lockq' = Append(lockq, "main")
           \/ lockq # <<>> /\ lockq' = Tail(lockq)
    BY DEF Main, MainStreamed, MainSentinel, MainStop, MainStopped, Want, Release, Holds, mq
  <1>2. TrainerTypeOK'
    BY <1>1 DEF TypeInv, TypeOK, TrainerTypeOK, trainer
  <1>3. ProcessorTypeOK'
    <2>1. lockq' \in Seq(Clients)
      <3>1. lockq \in Seq(Clients) /\ "main" \in Clients
        BY DEF TypeInv, TypeOK, ProcessorTypeOK, Clients
      <3>2. Append(lockq, "main") \in Seq(Clients)
        BY ONLY <3>1, AppendProperties
      <3>3. lockq # <<>> => Tail(lockq) \in Seq(Clients)
        BY ONLY <3>1, HeadTailProperties
      <3> QED
        BY <1>1, <3>1, <3>2, <3>3
    <2> QED
      BY <1>1, <2>1 DEF TypeInv, TypeOK, ProcessorTypeOK, rollout, Done, Clients
  <1>4. RolloutTypeOK'
    BY <1>1 DEF TypeInv, TypeOK, RolloutTypeOK, control, sync
  <1>5. QueueTypeOK'
    <2>1. CASE UNCHANGED mq
      BY <2>1 DEF TypeInv, TypeOK, QueueTypeOK, mq
    <2>2. CASE MQ!PutSample(Nothing)
      <3>1. /\ queue \in Seq(Samples) /\ Nothing \in Samples
            /\ totalProduced \in Nat /\ droppedSamples \in Nat
        BY DEF TypeInv, TypeOK, QueueTypeOK, Samples
      <3>2. /\ queue' \in Seq(Samples) /\ totalProduced' = totalProduced + 1
            /\ droppedSamples' \in Nat
            /\ UNCHANGED <<valQueue, open, currentParamVersion, totalConsumed, cleared>>
        BY <2>2, <3>1, PutEffect
      <3> QED
        BY <3>1, <3>2 DEF TypeInv, TypeOK, QueueTypeOK, Samples
    <2> QED
      BY <1>1, <2>1, <2>2
  <1>6. LockInv'
    <2>1. lockq \in Seq(Clients)
      BY DEF TypeInv, TypeOK, ProcessorTypeOK, Clients
    <2> QED
      BY <1>1, <2>1, LockMoves, LockKept DEF TypeInv, LockInv, Clients, sync, trainer
  <1> QED
    BY <1>1, <1>2, <1>3, <1>4, <1>5, <1>6 DEF TypeInv, TypeOK, Done

LEMMA MonitorType == TypeInv /\ Monitor => TypeInv'
  <1> SUFFICES ASSUME TypeInv, Monitor PROVE TypeInv'
    OBVIOUS
  <1>1. /\ UNCHANGED <<mq, taken, bound, interrupted, rollout, resultQueue, consuming,
                       mainpc, monitorTrigger, serversPaused, staleness, sync, trainer>>
        /\ mpc' \in {"sleep", "lock", "check", "done"}
        /\ \/ UNCHANGED <<paused, resumedBy, ppc>>
           \/ paused' = FALSE /\ resumedBy' \in {resumedBy, "monitor"} /\ ppc' = Notified
        /\ \/ lockq' = lockq \/ lockq' = Append(lockq, "monitor")
           \/ lockq' = <<>>
           \/ lockq # <<>> /\ lockq' = Tail(lockq)
           \/ lockq # <<>> /\ lockq' = Append(Tail(lockq), "monitor")
    BY DEF Monitor, MonitorTick, MonitorUnpause, MonitorChecked, CheckRunning, Unpause,
           Want, Release, Holds, control
  <1>2. TrainerTypeOK' /\ QueueTypeOK'
    BY <1>1 DEF TypeInv, TypeOK, TrainerTypeOK, QueueTypeOK, mq, trainer
  <1>3. /\ ppc' \in {"loop", "mark", "drain", "idle", "idleCond", "idleWoken", "full",
                     "start", "startCond", "startWoken", "final", "end", "dead"}
        /\ taken = Done => ppc' \in {"final", "end", "dead"}
    BY <1>1 DEF TypeInv, TypeOK, ProcessorTypeOK, Notified
  <1>4. ProcessorTypeOK'
    <2>1. lockq' \in Seq(Clients)
      <3>1. lockq \in Seq(Clients) /\ "monitor" \in Clients
        BY DEF TypeInv, TypeOK, ProcessorTypeOK, Clients
      <3>2. lockq # <<>> => Tail(lockq) \in Seq(Clients)
        BY <3>1, HeadTailProperties
      <3>3. /\ Append(lockq, "monitor") \in Seq(Clients) /\ <<>> \in Seq(Clients)
            /\ lockq # <<>> => Append(Tail(lockq), "monitor") \in Seq(Clients)
        BY <3>1, <3>2, AppendProperties, EmptySeq
      <3> QED
        BY <1>1, <3>1, <3>2, <3>3
    <2> QED
      BY <1>1, <1>3, <2>1 DEF TypeInv, TypeOK, ProcessorTypeOK, rollout, Done, Clients
  <1>5. RolloutTypeOK'
    <2>1. RolloutTypeOK
      BY DEF TypeInv, TypeOK
    <2>2. paused' \in BOOLEAN /\ resumedBy' \in {"sync", "monitor", "nobody"}
      BY <1>1, <2>1 DEF RolloutTypeOK
    <2>3. UNCHANGED <<resultQueue, consuming, mainpc, monitorTrigger, serversPaused,
                      staleness, version, weights, upc, acc, lastUpdate>>
      BY <1>1 DEF sync
    <2> QED
      BY ONLY <1>1, <2>1, <2>2, <2>3 DEF RolloutTypeOK
  <1>6. LockInv'
    <2>1. lockq \in Seq(Clients)
      BY DEF TypeInv, TypeOK, ProcessorTypeOK, Clients
    <2> QED
      BY <1>1, <2>1, LockMoves, LockKept DEF TypeInv, LockInv, Clients, sync, trainer
  <1> QED
    BY <1>1, <1>2, <1>3, <1>4, <1>5, <1>6 DEF TypeInv, TypeOK, Done

\* What the trainer may change besides the queue and its own state.
TrainerEffects ==
    /\ lockq' \in Seq(Clients) /\ unreaped' \in Nat
    /\ paused' \in BOOLEAN /\ monitorTrigger' \in BOOLEAN
    /\ serversPaused' \in BOOLEAN /\ resumedBy' \in {"sync", "monitor", "nobody"}
    /\ weights' \in Nat /\ lastUpdate' \in BOOLEAN
    /\ upc' \in {"none", "update", "updateLock", "count", "updated", "resume"}

LEMMA TrainerType == TypeInv /\ Trainer => TypeInv'
  <1> SUFFICES ASSUME TypeInv, Trainer PROVE TypeInv'
    OBVIOUS
  <1> DEFINE Good == TrainerEffects /\ TrainerTypeOK' /\ QueueTypeOK'
  <1>1. /\ lockq \in Seq(Clients) /\ unreaped \in Nat
        /\ paused \in BOOLEAN /\ monitorTrigger \in BOOLEAN
        /\ serversPaused \in BOOLEAN /\ resumedBy \in {"sync", "monitor", "nobody"}
        /\ weights \in Nat /\ lastUpdate \in BOOLEAN
        /\ upc \in {"none", "update", "updateLock", "count", "updated", "resume"}
    BY DEF TypeInv, TypeOK, ProcessorTypeOK, RolloutTypeOK, Clients
  <1>2. TrainerTypeOK /\ QueueTypeOK
    BY DEF TypeInv, TypeOK
  <1>3. /\ Required \in Nat \ {0} /\ Trigger \in Nat \ {0} /\ Partial \in BOOLEAN
        /\ 1 \in 1..Trigger
    BY ConfigAssumption
  <1>4. UNCHANGED <<control, sync, lockq, unreaped>> => TrainerEffects
    BY <1>1 DEF TrainerEffects, control, sync
  <1>5. UNCHANGED mq => QueueTypeOK'
    BY <1>2 DEF QueueTypeOK, mq
  <1>6. valQueue # <<>> => /\ Head(valQueue) \in [version : Nat, metrics : BOOLEAN]
                           /\ Tail(valQueue) \in Seq([version : Nat, metrics : BOOLEAN])
    BY <1>2, HeadTailProperties DEF QueueTypeOK
  <1>7. ASSUME TrainerGet PROVE Good
    <2>1. QueueTypeOK'
      BY <1>2, <1>7, HeadTailProperties DEF TrainerGet, MQ!TakeSample, QueueTypeOK
    <2>2. TrainerTypeOK'
      BY <1>2, <1>7 DEF TrainerGet, TrainerTypeOK
    <2> QED
      BY <1>4, <1>7, <2>1, <2>2 DEF TrainerGet, rollout
  <1>8. ASSUME TrainerStep PROVE Good
    <2>1. TrainerTypeOK'
      <3>1. localStep' \in 1..Trigger
        BY <1>2, <1>3, <1>8 DEF TrainerStep, StepsLeft, TrainerTypeOK
      <3>2. trained' \in Nat /\ trainVersion' \in Nat /\ got' \in Nat
        BY <1>2, <1>3, <1>8 DEF TrainerStep, TrainerTypeOK
      <3> QED
        BY <1>2, <1>8, <3>1, <3>2 DEF TrainerStep, TrainerTypeOK
    <2> QED
      BY <1>4, <1>5, <1>8, <2>1 DEF TrainerStep, rollout
  <1>9. ASSUME TrainerFinish PROVE Good
    <2>1. /\ trainVersion' \in {trainVersion, trainVersion + 1}
          /\ localStep' \in {localStep, 1} /\ validate' \in {validate, TRUE}
          /\ tpc' \in {"waitLast", "done"} /\ UNCHANGED <<got, valData, trained>>
      BY <1>9 DEF TrainerFinish
    <2>2. TrainerTypeOK'
      <3>1. trainVersion' \in Nat
        BY <1>2, <2>1 DEF TrainerTypeOK
      <3>2. localStep' \in 1..Trigger
        BY <1>2, <1>3, <2>1 DEF TrainerTypeOK
      <3>3. validate' \in BOOLEAN
        BY <1>2, <2>1 DEF TrainerTypeOK
      <3> QED
        BY <1>2, <2>1, <3>1, <3>2, <3>3 DEF TrainerTypeOK
    <2> QED
      BY <1>4, <1>5, <1>9, <2>2 DEF TrainerFinish, rollout
  <1>10. ASSUME SyncPause PROVE Good
    <2>1. lockq' \in Seq(Clients)
      BY <1>1, <1>10, AppendProperties DEF SyncPause, Want, Clients
    <2>2. TrainerTypeOK'
      BY <1>2, <1>10 DEF SyncPause, BeginPause, TrainerTypeOK
    <2>3. TrainerEffects
      BY <1>1, <1>3, <1>10, <2>1 DEF SyncPause, BeginPause, TrainerEffects, rollout, sync
    <2> QED
      BY <1>5, <1>10, <2>2, <2>3 DEF SyncPause
  <1>11. ASSUME PauseGranted PROVE Good
    <2>1. TrainerTypeOK'
      BY <1>2, <1>11 DEF PauseGranted, BeginPause, TrainerTypeOK
    <2>2. TrainerEffects
      BY <1>1, <1>3, <1>11 DEF PauseGranted, BeginPause, TrainerEffects, rollout, sync
    <2> QED
      BY <1>5, <1>11, <2>1, <2>2 DEF PauseGranted
  <1>12. ASSUME PauseEnd, lockq # <<>> PROVE Good
    <2>1. lockq' \in Seq(Clients)
      BY <1>1, <1>12, HeadTailProperties DEF PauseEnd, Release
    <2>2. TrainerTypeOK'
      BY <1>2, <1>12 DEF PauseEnd, TrainerTypeOK
    <2>3. TrainerEffects
      BY <1>1, <1>12, <2>1 DEF PauseEnd, TrainerEffects, sync
    <2> QED
      BY <1>5, <1>12, <2>2, <2>3 DEF PauseEnd
  <1>13. ASSUME SyncWeights PROVE Good
    <2>1. QueueTypeOK'
      BY <1>2, <1>13 DEF SyncWeights, MQ!UpdateParamVersion, QueueTypeOK, TrainerTypeOK
    <2>2. TrainerTypeOK'
      BY <1>2, <1>13 DEF SyncWeights, TrainerTypeOK
    <2>3. TrainerEffects
      BY <1>1, <1>2, <1>13 DEF SyncWeights, TrainerEffects, TrainerTypeOK, rollout, control
    <2> QED
      BY <2>1, <2>2, <2>3
  <1>14. ASSUME TrainerValidation \/ TrainerFinal PROVE Good
    <2>1. /\ MQ!GetValidate /\ UNCHANGED <<rollout, lockq, control, sync, got, localStep,
                                          trainVersion, validate, trained>>
          /\ valData' = IF valQueue = <<>> THEN Nothing ELSE Head(valQueue)
          /\ tpc' \in {"collect", "done"}
      BY <1>14 DEF TrainerValidation, TrainerFinal
    <2>2. QueueTypeOK'
      BY <1>2, <1>6, <2>1, EmptySeq DEF MQ!GetValidate, QueueTypeOK
    <2>3. TrainerTypeOK'
      BY <1>2, <1>6, <2>1 DEF TrainerTypeOK
    <2> QED
      BY <1>4, <2>1, <2>2, <2>3 DEF rollout
  <1>15. Good
    <2>1. tpc = "gather" => lockq # <<>>
      BY DEF TypeInv, LockInv, Holds
    <2> QED
      BY <1>7, <1>8, <1>9, <1>10, <1>11, <1>12, <1>13, <1>14, <2>1 DEF Trainer, PauseEnd
  <1>16. UNCHANGED <<taken, ppc, bound, interrupted, running, cancelQueue, resultQueue,
                     consuming, mainpc, mpc, staleness, version, acc>>
    BY DEF Trainer, TrainerGet, TrainerStep, TrainerFinish, SyncPause, PauseGranted,
           PauseEnd, SyncWeights, TrainerValidation, TrainerFinal, rollout, sync
  <1>17. ProcessorTypeOK'
    BY <1>15, <1>16 DEF TypeInv, TypeOK, TrainerEffects, ProcessorTypeOK, Clients, Done
  <1>18. RolloutTypeOK'
    BY <1>15, <1>16 DEF TypeInv, TypeOK, TrainerEffects, RolloutTypeOK
  <1>19. LockInv'
    <2>1. LockMove("pause")
      <3>1. CASE SyncPause
        BY <3>1 DEF SyncPause, Want, LockMove
      <3>2. CASE PauseEnd
        BY <3>2 DEF PauseEnd, TypeInv, LockInv, LockMove
      <3>3. CASE ~SyncPause /\ ~PauseEnd
        BY <3>3 DEF Trainer, TrainerGet, TrainerStep, TrainerFinish, PauseGranted,
                    SyncWeights, TrainerValidation, TrainerFinal, LockMove
      <3> QED
        BY <3>1, <3>2, <3>3
    <2>2. upc' = "count" => Holds("update")
      BY DEF Trainer, TrainerGet, TrainerStep, TrainerFinish, SyncPause, PauseGranted,
             PauseEnd, SyncWeights, TrainerValidation, TrainerFinal, sync, TypeInv, LockInv
    <2>3. tpc' = "gather" => Holds("pause")'
      <3>1. CASE SyncPause
        BY <3>1 DEF SyncPause, Want, Holds
      <3>2. CASE PauseGranted
        BY <3>2 DEF PauseGranted, Holds
      <3>3. CASE ~SyncPause /\ ~PauseGranted
        BY <3>3 DEF Trainer, TrainerGet, TrainerStep, TrainerFinish, PauseEnd,
                    SyncWeights, TrainerValidation, TrainerFinal
      <3> QED
        BY <3>1, <3>2, <3>3
    <2>4. upc' = "count" => Holds("update")'
      BY <1>1, <2>1, <2>2, LockKept DEF Clients
    <2> QED
      BY <2>3, <2>4 DEF LockInv
  <1> QED
    BY <1>15, <1>16, <1>17, <1>18, <1>19 DEF TypeInv, TypeOK, Done

LEMMA UpdateType == TypeInv /\ Update => TypeInv'
  <1> SUFFICES ASSUME TypeInv, Update PROVE TypeInv'
    OBVIOUS
  <1>1. /\ lockq \in Seq(Clients) /\ Active \in Nat
        /\ version \in Nat /\ weights \in Nat /\ acc \in Nat /\ staleness \in Nat
        /\ running \in Nat /\ unreaped \in Nat /\ cancelQueue \in Nat
        /\ valQueue \in Seq([version : Nat, metrics : BOOLEAN])
        /\ Len(resultQueue) \in Nat /\ Len(queue) \in Nat
        /\ upc \in {"none", "update", "updateLock", "count", "updated", "resume"}
    BY LenProperties DEF TypeInv, TypeOK, QueueTypeOK, ProcessorTypeOK, RolloutTypeOK,
                         Active, Clients
  <1> DEFINE Kept == /\ UNCHANGED <<queue, open, currentParamVersion, totalProduced,
                                   totalConsumed, droppedSamples, cleared, taken, bound,
                                   interrupted, rollout, resultQueue, consuming, mainpc, mpc,
                                   weights, lastUpdate, trainer>>
                     /\ valQueue' \in Seq([version : Nat, metrics : BOOLEAN])
             Lock == /\ lockq' \in Seq(Clients)
                     /\ LockMove("update") \/ LockMove("resume")
                     /\ upc' = "count" => Holds("update")'
             Moved == /\ UNCHANGED <<paused, monitorTrigger, serversPaused, resumedBy, ppc>>
                         \/ /\ paused' = FALSE /\ monitorTrigger' = TRUE
                            /\ serversPaused' = FALSE /\ resumedBy' = "sync"
                            /\ ppc' = Notified
                      /\ version' \in Nat /\ acc' \in Nat /\ staleness' \in Nat
                      /\ upc' \in {"none", "update", "updateLock", "count", "updated",
                                   "resume"}
  <1>2. /\ lockq # <<>> => Release \in Seq(Clients)
        /\ Want("update") \in Seq(Clients) /\ Want("resume") \in Seq(Clients)
    BY <1>1, HeadTailProperties, AppendProperties DEF Release, Want, Clients
  <1>3. ASSUME UpdateCall PROVE Kept /\ Lock /\ Moved
    <2>1. Kept
      BY <1>1, <1>3 DEF UpdateCall, mq
    <2>2. Lock
      BY <1>2, <1>3 DEF UpdateCall, ReadCounts, LockMove, Want, Holds
    <2>3. Moved
      BY <1>1, <1>3 DEF UpdateCall, ReadCounts, control
    <2> QED
      BY <2>1, <2>2, <2>3
  <1>4. ASSUME UpdateGranted PROVE Kept /\ Lock /\ Moved
    <2>1. Kept
      BY <1>1, <1>4 DEF UpdateGranted, mq
    <2>2. Lock
      BY <1>1, <1>4 DEF UpdateGranted, ReadCounts, LockMove, Holds
    <2>3. Moved
      BY <1>1, <1>4 DEF UpdateGranted, ReadCounts, control
    <2> QED
      BY <2>1, <2>2, <2>3
  <1>5. ASSUME UpdateWrite PROVE Kept /\ Lock /\ Moved
    <2>1. Kept
      <3>1. [version |-> version, metrics |-> Validates] \in [version : Nat, metrics : BOOLEAN]
        BY <1>1 DEF Validates
      <3> QED
        BY <1>1, <1>5, <3>1, AppendProperties DEF UpdateWrite, MQ!PutValidate
    <2>2. Lock
      BY <1>2, <1>5 DEF UpdateWrite, LockMove, Holds, TypeInv, LockInv
    <2>3. Moved
      BY <1>1, <1>5 DEF UpdateWrite, control
    <2> QED
      BY <2>1, <2>2, <2>3
  <1>6. ASSUME ResumeCall \/ ResumeGranted PROVE Kept /\ Lock /\ Moved
    <2>1. Kept
      BY <1>1, <1>6 DEF ResumeCall, ResumeGranted, mq
    <2>2. Lock
      BY <1>2, <1>6, EmptySeq DEF ResumeCall, ResumeGranted, EndPause, LockMove, Want, Holds
    <2>3. Moved
      BY <1>1, <1>6 DEF ResumeCall, ResumeGranted, EndPause, control
    <2> QED
      BY <2>1, <2>2, <2>3
  <1>7. Kept /\ Lock /\ Moved
    BY <1>3, <1>4, <1>5, <1>6 DEF Update
  <1>8. QueueTypeOK' /\ TrainerTypeOK'
    BY <1>7 DEF TypeInv, TypeOK, QueueTypeOK, TrainerTypeOK, trainer
  <1>9. /\ ppc' \in {"loop", "mark", "drain", "idle", "idleCond", "idleWoken", "full",
                     "start", "startCond", "startWoken", "final", "end", "dead"}
        /\ taken = Done => ppc' \in {"final", "end", "dead"}
    BY <1>7 DEF TypeInv, TypeOK, ProcessorTypeOK, Notified
  <1>10. ProcessorTypeOK'
    BY <1>7, <1>9 DEF TypeInv, TypeOK, ProcessorTypeOK, rollout, Done, Clients
  <1>11. RolloutTypeOK'
    <2>1. RolloutTypeOK
      BY DEF TypeInv, TypeOK
    <2>2. /\ paused' \in BOOLEAN /\ monitorTrigger' \in BOOLEAN
          /\ serversPaused' \in BOOLEAN /\ resumedBy' \in {"sync", "monitor", "nobody"}
      BY <1>7, <2>1 DEF RolloutTypeOK
    <2> QED
      BY <1>7, <2>1, <2>2 DEF RolloutTypeOK
  <1>12. LockInv'
    <2>1. tpc' = "gather" => Holds("pause")'
      BY <1>1, <1>7, LockKept DEF TypeInv, LockInv, Clients, trainer
    <2> QED
      BY <1>7, <2>1 DEF LockInv
  <1> QED
    BY <1>7, <1>8, <1>9, <1>10, <1>11, <1>12 DEF TypeInv, TypeOK, Done

LEMMA StutterType == TypeInv /\ UNCHANGED vars => TypeInv'
  BY DEF TypeInv, TypeOK, QueueTypeOK, ProcessorTypeOK, RolloutTypeOK, TrainerTypeOK,
         LockInv, Holds, Done, vars, mq, rollout, control, sync, trainer

LEMMA NextType == TypeInv /\ [Next]_vars => TypeInv'
  BY ProcessorType, TaskType, ConsumerType, MainType, MonitorType, TrainerType,
     UpdateType, StutterType DEF Next, Terminated

LEMMA SpecType == Spec => []TypeInv
  BY InitType, NextType, PTL DEF Spec

\* Every variable of the rollouter, the trainer, the synchronizer and their
\* queue keeps its type, for every configuration.
THEOREM TypeCorrect == Spec => []TypeOK
  <1>1. TypeInv => TypeOK
    BY DEF TypeInv
  <1> QED
    BY <1>1, SpecType, PTL

-----------------------------------------------------------------------------
(* The staleness budget.  The samples in flight never exceed what the       *)
(* rollouter has counted as stale by more than the one in the processor's   *)
(* hands and the one in the consumer's; between the two reads of            *)
(* update_param_version the first of them has to be read off acc.           *)

Hand == IF InHand THEN 1 ELSE 0
Carrying == IF consuming # Nothing THEN 1 ELSE 0
Sentinels == IF HasSentinel THEN 1 ELSE 0
Held == Hand + running
Results == Len(resultQueue)
Queued == Len(queue)
Carried == Carrying + Results
InFlight == Held + cancelQueue + Carried + Queued - Sentinels

BacklogInv ==
    /\ InFlight <= staleness + 2
    /\ InFlight <= MaxRequired + 2
    /\ upc = "count" => ppc # "loop" /\ running + cancelQueue + Carried <= acc + 1

\* The quantities BacklogInv speaks of.  Inequalities between a primed and an
\* unprimed sum are within the SMT backend's reach when both are typed this way.
Quantities ==
    /\ {running, unreaped, cancelQueue, Active, staleness, acc, Queued, Results,
        Hand, Carrying, Sentinels, Held, Carried,
        MaxRequired} \subseteq Nat
    /\ {Carrying} \subseteq {0, 1}
    /\ {InFlight} \subseteq Int
    /\ queue \in Seq(Samples) /\ resultQueue \in Seq(Nat)

LEMMA QuantityTypes == TypeInv => Quantities
  <1> SUFFICES ASSUME TypeInv PROVE Quantities
    OBVIOUS
  <1>1. /\ running \in Nat /\ unreaped \in Nat /\ cancelQueue \in Nat
        /\ staleness \in Nat /\ acc \in Nat
        /\ queue \in Seq(Samples) /\ resultQueue \in Seq(Nat)
    BY DEF TypeInv, TypeOK, QueueTypeOK, ProcessorTypeOK, RolloutTypeOK, Samples
  <1>2. Queued \in Nat /\ Results \in Nat
    BY ONLY <1>1, LenProperties DEF Queued, Results
  <1>3. Hand \in {0, 1} /\ Carrying \in {0, 1} /\ Sentinels \in {0, 1}
    BY ONLY DEF Hand, Carrying, Sentinels
  <1>4. Held \in Nat /\ Carried \in Nat /\ Active \in Nat
    BY ONLY <1>1, <1>2, <1>3 DEF Held, Carried, Active
  <1>5. InFlight \in Int
    BY ONLY <1>1, <1>2, <1>3, <1>4 DEF InFlight
  <1>6. MaxRequired \in Nat
    BY ConfigAssumption
  <1> QED
    BY ONLY <1>1, <1>2, <1>3, <1>4, <1>5, <1>6 DEF Quantities

LEMMA QuantityTypesNext == TypeInv' => Quantities'
  BY QuantityTypes, PTL

\* A sample on its way through the processor stays one sample.
LEMMA EnterHeld ==
    ASSUME NEW point \in Points, NEW q \in Seq(Clients), NEW isPaused \in BOOLEAN,
           running \in Nat, Enter(point, q, isPaused)
    PROVE  Held' = running + (IF point \in {"full", "start"} THEN 1 ELSE 0)
  <1>1. \/ ppc' \in {"full", "start", "startCond"} /\ point \in {"full", "start"}
           /\ running' = running
        \/ ppc' = "loop" /\ point = "start" /\ running' = running + 1
        \/ ppc' \in {"drain", "idle", "idleCond", "loop", "final", "end"}
           /\ point \notin {"full", "start"} /\ running' = running
    BY EnterEffect DEF Points
  <1> QED
    BY <1>1 DEF Held, Hand, InHand

\* None of it at a point where the processor holds no sample.
LEMMA EnterEmptyHanded ==
    ASSUME NEW point \in Points \ {"full", "start"}, NEW q \in Seq(Clients),
           NEW isPaused \in BOOLEAN, running \in Nat, Enter(point, q, isPaused)
    PROVE  Held' = running
  <1>1. Held' = running + (IF point \in {"full", "start"} THEN 1 ELSE 0)
    BY EnterHeld
  <1> QED
    BY <1>1

\* The processor keeps the samples it has, unless it dies with one in its hands, and
\* adds those it fetches.
LEMMA ProcessorHeld ==
    ASSUME TypeInv, Processor
    PROVE  \/ /\ Held' + cancelQueue' = Held + cancelQueue
              /\ UNCHANGED <<staleness, taken>>
           \/ /\ ppc' = "dead" /\ Held' + cancelQueue' <= Held + cancelQueue
              /\ UNCHANGED <<staleness, taken>>
           \/ /\ ppc = "loop" /\ ~ShouldPause
              /\ Held' + cancelQueue' =
                   Held + cancelQueue + (IF taken' = Done THEN 0 ELSE 1)
              /\ taken # Done /\ taken' = taken + 1 /\ staleness' = staleness + 1
  <1>1. /\ running \in Nat /\ cancelQueue \in Nat /\ lockq \in Seq(Clients)
        /\ paused \in BOOLEAN /\ Active \in Nat
    BY DEF TypeInv, TypeOK, ProcessorTypeOK, RolloutTypeOK, Active, Clients
  <1>2. Held = running + (IF InHand THEN 1 ELSE 0)
    BY <1>1 DEF Held, Hand
  <1>3. lockq # <<>> => Release \in Seq(Clients)
    BY <1>1, HeadTailProperties DEF Release
  <1> DEFINE Same == Held' + cancelQueue' = Held + cancelQueue
                     /\ staleness' = staleness /\ taken' = taken
  <1>4. ASSUME ProcPause PROVE Same
    <2>1. CASE lockq = <<>>
      <3>1. Enter(Continue("drain", Active), <<>>, TRUE)
            /\ cancelQueue' = cancelQueue /\ staleness' = staleness /\ taken' = taken
            /\ ppc = "loop"
        BY <1>4, <2>1 DEF ProcPause
      <3>2. Continue("drain", Active) \in Points \ {"full", "start"}
        BY <1>1, ContinuePoints DEF Points
      <3>3. Held' = running
        BY <1>1, <3>1, <3>2, EnterEmptyHanded, EmptySeq
      <3> QED
        BY <1>1, <1>2, <3>1, <3>3 DEF InHand
    <2>2. CASE lockq # <<>>
      <3>1. ppc = "loop" /\ ppc' = "mark" /\ running' = running
            /\ cancelQueue' = cancelQueue /\ staleness' = staleness /\ taken' = taken
        BY <1>4, <2>2 DEF ProcPause, Enter
      <3> QED
        BY <1>1, <3>1 DEF Held, Hand, InHand
    <2> QED
      BY <2>1, <2>2
  <1>5. ASSUME ProcMark PROVE Same
    <2>1. Enter(Continue("drain", Active), Release, TRUE) /\ lockq # <<>>
          /\ cancelQueue' = cancelQueue /\ staleness' = staleness /\ taken' = taken
          /\ ppc = "mark"
      BY <1>5 DEF ProcMark, Holds
    <2>2. Continue("drain", Active) \in Points \ {"full", "start"}
      BY <1>1, ContinuePoints DEF Points
    <2>3. Held' = running
      BY <1>1, <1>3, <2>1, <2>2, EnterEmptyHanded
    <2> QED
      BY <1>1, <1>2, <2>1, <2>3 DEF InHand
  <1>6. ASSUME ProcReap \/ (ProcNothingToReap /\ bound) PROVE Same
    <2>1. /\ ppc \in {"drain", "full", "final"} /\ lockq # <<>>
          /\ \E active \in Nat : Enter(Continue(ppc, active), Release, paused)
          /\ cancelQueue' = cancelQueue /\ staleness' = staleness /\ taken' = taken
      BY <1>1, <1>6 DEF ProcReap, ProcNothingToReap, Holds
    <2>2. PICK active \in Nat : Enter(Continue(ppc, active), Release, paused)
      BY <2>1
    <2>3. /\ Continue(ppc, active) \in Points
          /\ Continue(ppc, active) \in {"full", "start"} <=> ppc = "full"
      BY <2>1, ContinuePoints DEF Points
    <2>4. Held' = running + (IF ppc = "full" THEN 1 ELSE 0)
      BY <1>1, <1>3, <2>1, <2>2, <2>3, EnterHeld
    <2> QED
      BY <1>1, <1>2, <2>1, <2>4 DEF InHand
  <1>7. ASSUME ProcNothingToReap, ~bound
        PROVE  /\ ppc' = "dead" /\ Held' + cancelQueue' <= Held + cancelQueue
               /\ UNCHANGED <<staleness, taken>>
    <2>1. ppc' = "dead" /\ running' = running /\ cancelQueue' = cancelQueue
          /\ staleness' = staleness /\ taken' = taken
      BY <1>7 DEF ProcNothingToReap
    <2>2. Held' = running
      BY <1>1, <2>1 DEF Held, Hand, InHand
    <2> QED
      BY <1>1, <1>2, <2>1, <2>2
  <1>8. ASSUME ProcGranted PROVE Same
    <2>1. /\ cancelQueue' = cancelQueue /\ staleness' = staleness /\ taken' = taken
          /\ \/ ppc = "idle" /\ ppc' \in {"idleCond", "loop"} /\ running' = running
             \/ ppc = "start" /\ ppc' = "startCond" /\ running' = running
             \/ ppc = "start" /\ ppc' = "loop" /\ running' = running + 1
      BY <1>8 DEF ProcGranted, Granted
    <2> QED
      BY <1>1, <2>1 DEF Held, Hand, InHand
  <1>9. ASSUME ProcWake PROVE Same
    <2> DEFINE point == IF ppc = "idleWoken" THEN "idle" ELSE "start"
    <2>1. /\ Enter(point, lockq, paused) /\ ppc \in {"idleWoken", "startWoken"}
          /\ cancelQueue' = cancelQueue /\ staleness' = staleness /\ taken' = taken
      BY <1>9 DEF ProcWake
    <2>2. Held' = running + (IF point \in {"full", "start"} THEN 1 ELSE 0)
      BY <1>1, <2>1, EnterHeld DEF Points
    <2> QED
      BY <1>1, <1>2, <2>1, <2>2 DEF InHand
  <1>10. ASSUME ProcResume PROVE Same
    <2>1. /\ Enter(Continue("full", Active), lockq, paused) /\ ppc = "loop"
          /\ cancelQueue' = cancelQueue - 1 /\ cancelQueue > 0
          /\ staleness' = staleness /\ taken' = taken
      BY <1>10 DEF ProcResume
    <2>2. Continue("full", Active) \in Points \cap {"full", "start"}
      BY <1>1, ContinuePoints DEF Points
    <2>3. Held' = running + 1
      BY <1>1, <2>1, <2>2, EnterHeld
    <2> QED
      BY <1>1, <1>2, <2>1, <2>3 DEF InHand
  <1>11. ASSUME ProcFetch
         PROVE  /\ ppc = "loop" /\ ~ShouldPause
                /\ Held' + cancelQueue' =
                     Held + cancelQueue + (IF taken' = Done THEN 0 ELSE 1)
                /\ taken # Done /\ taken' = taken + 1 /\ staleness' = staleness + 1
    <2> DEFINE loop == IF taken' = Done THEN "final" ELSE "full"
    <2>1. /\ Enter(Continue(loop, Active), lockq, paused) /\ ppc = "loop" /\ ~ShouldPause
          /\ cancelQueue' = cancelQueue /\ staleness' = staleness + 1
          /\ taken' = taken + 1 /\ taken # Done
      BY <1>11 DEF ProcFetch, TypeInv
    <2>2. PICK point : point = Continue(loop, Active)
      OBVIOUS
    <2>3. point \in Points /\ (point \in {"full", "start"} <=> taken' # Done)
      BY <1>1, <2>2, ContinuePoints DEF Points
    <2>4. Held' = running + (IF point \in {"full", "start"} THEN 1 ELSE 0)
      BY <1>1, <2>1, <2>2, <2>3, EnterHeld
    <2> QED
      BY <1>1, <1>2, <2>1, <2>3, <2>4 DEF InHand
  <1> QED
    BY <1>4, <1>5, <1>6, <1>7, <1>8, <1>9, <1>10, <1>11 DEF Processor

LEMMA BacklogInit == Init => BacklogInv
  <1> SUFFICES ASSUME Init PROVE BacklogInv
    OBVIOUS
  <1>1. /\ ppc = "loop" /\ running = 0 /\ cancelQueue = 0 /\ resultQueue = <<>>
        /\ consuming = Nothing /\ queue = <<>> /\ staleness = 0 /\ upc = "none"
        /\ mainpc = "wait"
    BY DEF Init, MQ!MQInit
  <1>2. Queued = 0 /\ Results = 0
    BY ONLY <1>1 DEF Queued, Results
  <1>3. InFlight = 0
    BY ONLY <1>1, <1>2
       DEF InFlight, Held, Carried, Hand, Carrying, Sentinels, InHand, HasSentinel
  <1>4. MaxRequired \in Nat
    BY ConfigAssumption
  <1> QED
    BY ONLY <1>1, <1>3, <1>4 DEF BacklogInv

\* While update_param_version counts, the processor cannot get hold of the lock.
LEMMA ProcessorWaits ==
    ASSUME TypeInv, Processor, upc = "count", ppc # "loop"
    PROVE  ppc' # "loop" /\ UNCHANGED <<running, cancelQueue>>
  <1>1. lockq # <<>> /\ ~Holds("proc")
    BY DEF TypeInv, LockInv, Holds
  <1>2. ProcWake
    BY <1>1 DEF Processor, ProcPause, ProcMark, ProcReap, ProcNothingToReap,
                ProcGranted, ProcResume, ProcFetch
  <1> QED
    BY <1>1, <1>2 DEF ProcWake, Enter

\* What a step may do to the samples in flight that leaves BacklogInv true.
LEMMA BacklogKept ==
    ASSUME Quantities, Quantities', BacklogInv,
           InFlight' <= InFlight, staleness' >= staleness,
           upc' = "count" => /\ upc = "count" /\ ppc' # "loop" /\ acc' = acc
                             /\ running' + cancelQueue' + Carried'
                                   <= running + cancelQueue + Carried
    PROVE  BacklogInv'
  <1>1. /\ {InFlight, InFlight'} \subseteq Int
        /\ {staleness, staleness', running, cancelQueue, Carried, acc, running',
            cancelQueue', Carried', MaxRequired} \subseteq Nat
    BY DEF Quantities
  <1>2. InFlight <= staleness + 2 /\ InFlight <= MaxRequired + 2
    BY DEF BacklogInv
  <1>3. InFlight' <= staleness' + 2
    BY ONLY <1>1, <1>2, InFlight' <= InFlight, staleness' >= staleness
  <1>4. InFlight' <= MaxRequired + 2
    BY ONLY <1>1, <1>2, InFlight' <= InFlight
  <1>5. ASSUME upc' = "count"
        PROVE  ppc' # "loop" /\ running' + cancelQueue' + Carried' <= acc' + 1
    BY <1>1, <1>5 DEF BacklogInv
  <1> QED
    BY <1>3, <1>4, <1>5 DEF BacklogInv

LEMMA BacklogProcessor == TypeInv /\ BacklogInv /\ Processor => BacklogInv'
  <1> SUFFICES ASSUME TypeInv, BacklogInv, Processor PROVE BacklogInv'
    OBVIOUS
  <1>0. Quantities /\ Quantities'
    BY ProcessorType, QuantityTypes, QuantityTypesNext
  <1>1. /\ {Held, Held', cancelQueue, cancelQueue', Carried, Queued, staleness,
            running, MaxRequired, Sentinels} \subseteq Nat
        /\ {InFlight, InFlight'} \subseteq Int
    BY <1>0 DEF Quantities
  <1>2. UNCHANGED <<queue, resultQueue, consuming, mainpc, upc, acc>>
    BY ProcessorFrame DEF mq, sync
  <1>3. Carried' = Carried /\ Sentinels' = Sentinels /\ Queued' = Queued
    BY <1>2 DEF Carried, Carrying, Results, Queued, Sentinels, HasSentinel
  <1>4. upc' = "count" => /\ upc = "count" /\ ppc' # "loop" /\ acc' = acc
                          /\ running' = running /\ cancelQueue' = cancelQueue
    BY <1>2, ProcessorWaits DEF BacklogInv
  <1>5. CASE /\ \/ Held' + cancelQueue' = Held + cancelQueue
                \/ Held' + cancelQueue' <= Held + cancelQueue
             /\ staleness' = staleness
    <2>1. InFlight' <= InFlight
      BY ONLY <1>1, <1>3, <1>5 DEF InFlight
    <2> QED
      BY <1>0, <1>1, <1>3, <1>4, <1>5, <2>1, BacklogKept
  <1>6. CASE /\ ppc = "loop" /\ ~ShouldPause
             /\ Held' + cancelQueue' =
                  Held + cancelQueue + (IF taken' = Done THEN 0 ELSE 1)
             /\ staleness' = staleness + 1
    <2>0. Held' + cancelQueue' <= Held + cancelQueue + 1
      BY <1>1, <1>6
    <2>1. InFlight' <= InFlight + 1
      BY ONLY <1>1, <1>3, <2>0 DEF InFlight
    <2>2. staleness + 1 <= MaxRequired
      BY <1>1, <1>6 DEF ShouldPause
    <2>3. upc' # "count"
      BY <1>2, <1>6 DEF BacklogInv
    <2>4. InFlight <= staleness + 2 /\ staleness' = staleness + 1
      BY <1>6 DEF BacklogInv
    <2>5. InFlight' <= staleness' + 2 /\ InFlight' <= MaxRequired + 2
      BY ONLY <1>1, <2>1, <2>2, <2>4
    <2> QED
      BY <2>3, <2>5 DEF BacklogInv
  <1> QED
    BY <1>5, <1>6, ProcessorHeld

LEMMA BacklogReturn ==
  TypeInv /\ BacklogInv /\ (TaskFinish \/ TaskCancel) => BacklogInv'
  <1> SUFFICES ASSUME TypeInv, BacklogInv, TaskFinish \/ TaskCancel PROVE BacklogInv'
    OBVIOUS
  <1>0. Quantities /\ Quantities'
    BY TaskType, QuantityTypes, QuantityTypesNext DEF Task
  <1>1. /\ UNCHANGED <<queue, ppc, consuming, mainpc, staleness, upc, acc>>
        /\ running > 0 /\ running' = running - 1
        /\ \/ cancelQueue' = cancelQueue + 1 /\ resultQueue' = resultQueue
           \/ cancelQueue' = cancelQueue /\ resultQueue' = Append(resultQueue, version)
    <2>1. running \in Nat /\ interrupted \in 0..running
      BY DEF TypeInv, TypeOK, ProcessorTypeOK
    <2>2. running > 0
      <3>1. running > interrupted \/ interrupted > 0
        BY DEF TaskFinish, TaskCancel
      <3> QED
        BY ONLY <2>1, <3>1
    <2> QED
      BY <2>2 DEF TaskFinish, TaskCancel, mq, sync
  <1>2. /\ resultQueue \in Seq(Nat)
        /\ {Results, Results', running, cancelQueue, Queued, Hand, Carrying, Sentinels,
            staleness, Carried, running', cancelQueue', Carried', Held, Held'} \subseteq Nat
        /\ {InFlight, InFlight'} \subseteq Int
    BY <1>0 DEF Quantities
  <1>3. /\ Hand' = Hand /\ Carrying' = Carrying /\ Sentinels' = Sentinels
        /\ Queued' = Queued
    BY <1>1 DEF Hand, Carrying, Sentinels, Queued, InHand, HasSentinel
  <1>4. \/ cancelQueue' = cancelQueue + 1 /\ Results' = Results
        \/ cancelQueue' = cancelQueue /\ Results' = Results + 1
    <2>1. Len(Append(resultQueue, version)) = Len(resultQueue) + 1
      BY <1>2
    <2> QED
      BY <1>1, <2>1 DEF Results
  <1>5. cancelQueue' + Results' = cancelQueue + Results + 1
    <2>1. {cancelQueue, Results} \subseteq Nat
      BY <1>2
    <2> QED
      BY ONLY <1>4, <2>1
  <1>6. running' + cancelQueue' + Carried' = running + cancelQueue + Carried
    <2>1. {running, running', cancelQueue, cancelQueue', Results, Results', Carrying}
            \subseteq Nat /\ running' = running - 1
      BY <1>1, <1>2
    <2> QED
      BY ONLY <1>3, <1>5, <2>1 DEF Carried
  <1>7. Held' + cancelQueue' + Carried' = Held + cancelQueue + Carried
    <2>1. {running, running', cancelQueue, cancelQueue', Carried, Carried', Hand}
            \subseteq Nat
      BY <1>2
    <2> QED
      BY ONLY <1>3, <1>6, <2>1 DEF Held
  <1>8. InFlight' = InFlight
    <2>1. {Held, Held', cancelQueue, cancelQueue', Carried, Carried', Queued, Sentinels}
            \subseteq Nat
      BY <1>2
    <2> QED
      BY ONLY <1>3, <1>7, <2>1 DEF InFlight
  <1>9. InFlight' <= InFlight
    <2>1. {InFlight} \subseteq Int
      BY <1>2
    <2> QED
      BY ONLY <1>8, <2>1
  <1>10. staleness' >= staleness
    <2>1. staleness' = staleness /\ staleness \in Nat
      BY <1>1, <1>2
    <2> QED
      BY ONLY <2>1
  <1>11. running' + cancelQueue' + Carried' <= running + cancelQueue + Carried
    <2>1. {running, cancelQueue, Carried} \subseteq Nat
      BY <1>2
    <2> QED
      BY ONLY <1>6, <2>1
  <1> QED
    BY <1>0, <1>1, <1>9, <1>10, <1>11, BacklogKept DEF BacklogInv

LEMMA BacklogTask == TypeInv /\ BacklogInv /\ Task => BacklogInv'
  <1> SUFFICES ASSUME TypeInv, BacklogInv, TaskInterrupt PROVE BacklogInv'
    BY BacklogReturn DEF Task
  <1>1. UNCHANGED <<queue, ppc, running, cancelQueue, resultQueue, consuming, mainpc,
                    staleness, upc, acc>>
    BY DEF TaskInterrupt, mq, rollout, sync
  <1> QED
    BY <1>1 DEF BacklogInv, InFlight, Held, Hand, InHand, Carried, Carrying, Results,
                Queued, Sentinels, HasSentinel

LEMMA BacklogConsumer == TypeInv /\ BacklogInv /\ Consumer => BacklogInv'
  <1> SUFFICES ASSUME TypeInv, BacklogInv, Consumer PROVE BacklogInv'
    OBVIOUS
  <1>0. Quantities /\ Quantities'
    BY ConsumerType, QuantityTypes, QuantityTypesNext
  <1>1. UNCHANGED <<ppc, running, cancelQueue, mainpc, staleness, upc, acc>>
    BY DEF Consumer, ConsumerGet, ConsumerPut, rollout, sync
  <1>2. /\ queue \in Seq(Samples) /\ resultQueue \in Seq(Nat)
        /\ {Results, Results', Queued, Queued', running,
            cancelQueue, staleness, Hand, Sentinels, Held, Carried, Carried', Carrying,
            Carrying'} \subseteq Nat
        /\ {Carrying, Carrying'} \subseteq {0, 1}
    BY <1>0 DEF Quantities
  <1>3. Carried' <= Carried /\ Carried' + Queued' <= Carried + Queued
    <2>1. CASE ConsumerGet
      <3>1. resultQueue # <<>> /\ resultQueue' = Tail(resultQueue) /\ queue' = queue
        BY <2>1 DEF ConsumerGet, mq
      <3>2. resultQueue \in Seq(Nat)
        BY <1>2
      <3>3. Results' = Results - 1
        BY ONLY <3>1, <3>2, HeadTailProperties DEF Results
      <3>4. Queued' = Queued
        BY ONLY <3>1 DEF Queued
      <3>5. Carrying = 0 /\ Carrying' \in {0, 1}
        BY <2>1 DEF ConsumerGet, Carrying
      <3>6. {Results, Results', Queued, Queued'} \subseteq Nat
        BY <1>2
      <3> QED
        BY ONLY <3>3, <3>4, <3>5, <3>6 DEF Carried
    <2>2. CASE ConsumerPut
      <3>1. consuming \in Samples /\ totalProduced \in Nat /\ droppedSamples \in Nat
        BY DEF TypeInv, TypeOK, QueueTypeOK, RolloutTypeOK, Samples
      <3>2. Queued' <= Queued + 1
        BY <1>2, <2>2, <3>1, PutEffect DEF ConsumerPut, Queued
      <3>3. Carrying = 1 /\ Carrying' = 0 /\ Results' = Results
        BY <2>2 DEF ConsumerPut, Carrying, Results
      <3> QED
        BY ONLY <1>2, <3>2, <3>3 DEF Carried
    <2> QED
      BY <2>1, <2>2 DEF Consumer
  <1>4. Hand' = Hand /\ Sentinels' = Sentinels
    BY <1>1 DEF Hand, Sentinels, InHand, HasSentinel
  <1>5. InFlight' <= InFlight
    <2>1. Held' = Held /\ cancelQueue' = cancelQueue
      BY <1>1, <1>4 DEF Held
    <2>2. {Held, cancelQueue, Carried, Carried', Queued, Queued', Sentinels} \subseteq Nat
      BY <1>2
    <2> QED
      BY ONLY <1>3, <1>4, <2>1, <2>2 DEF InFlight
  <1>6. staleness' >= staleness
    BY <1>1, <1>2
  <1>7. running' + cancelQueue' + Carried' <= running + cancelQueue + Carried
    <2>1. {running, cancelQueue, Carried, Carried'} \subseteq Nat
          /\ running' = running /\ cancelQueue' = cancelQueue
      BY <1>1, <1>2
    <2> QED
      BY ONLY <1>3, <2>1
  <1> QED
    BY <1>0, <1>1, <1>5, <1>6, <1>7, BacklogKept DEF BacklogInv

\* A step that only moves entries of the queue, or takes some away.
LEMMA BacklogQueue ==
    ASSUME Quantities, Quantities', BacklogInv,
           UNCHANGED <<running, cancelQueue, resultQueue, consuming, staleness, acc>>,
           Hand' = Hand, Queued' + Sentinels <= Queued + Sentinels',
           upc' = "count" => upc = "count" /\ ppc' # "loop"
    PROVE  BacklogInv'
  <1>1. Held' = Held /\ Carried' = Carried /\ cancelQueue' = cancelQueue
    BY DEF Held, Carried, Carrying, Results
  <1>2. InFlight' <= InFlight
    <2>1. {Held, cancelQueue, Carried, Queued, Queued', Sentinels, Sentinels'} \subseteq Nat
      BY DEF Quantities
    <2> QED
      BY ONLY <1>1, <2>1, Queued' + Sentinels <= Queued + Sentinels' DEF InFlight
  <1>3. staleness' >= staleness
        /\ running' + cancelQueue' + Carried' <= running + cancelQueue + Carried
    <2>1. {staleness, running, cancelQueue, Carried} \subseteq Nat
      BY DEF Quantities
    <2> QED
      BY <1>1, <2>1
  <1> QED
    BY <1>2, <1>3, BacklogKept

LEMMA BacklogMain == TypeInv /\ BacklogInv /\ Main => BacklogInv'
  <1> SUFFICES ASSUME TypeInv, BacklogInv, Main PROVE BacklogInv'
    OBVIOUS
  <1>1. Quantities /\ Quantities'
    BY MainType, QuantityTypes, QuantityTypesNext
  <1>2. UNCHANGED <<ppc, running, cancelQueue, resultQueue, consuming, staleness, acc, upc>>
    BY DEF Main, MainStreamed, MainSentinel, MainStop, MainStopped, rollout, sync
  <1>3. Queued' + Sentinels <= Queued + Sentinels'
    <2>1. {Queued, Queued', Sentinels, Sentinels'} \subseteq Nat
      BY <1>1 DEF Quantities
    <2>2. CASE MainSentinel
      <3>1. queue \in Seq(Samples) /\ Nothing \in Samples /\ totalProduced \in Nat
            /\ droppedSamples \in Nat
        BY DEF TypeInv, TypeOK, QueueTypeOK, Samples
      <3>2. Queued' <= Queued + 1
        BY <2>2, <3>1, PutEffect DEF MainSentinel, Queued
      <3>3. Sentinels = 0 /\ Sentinels' = 1
        BY <2>2 DEF MainSentinel, Sentinels, HasSentinel
      <3> QED
        BY ONLY <2>1, <3>2, <3>3
    <2>3. CASE MainStreamed \/ MainStop \/ MainStopped
      <3>1. Queued' = Queued /\ Sentinels' = Sentinels
        BY <2>3 DEF MainStreamed, MainStop, MainStopped, mq, Queued, Sentinels, HasSentinel
      <3> QED
        BY ONLY <2>1, <3>1
    <2> QED
      BY <2>2, <2>3 DEF Main
  <1>4. Hand' = Hand
    BY <1>2 DEF Hand, InHand
  <1> QED
    BY <1>1, <1>2, <1>3, <1>4, BacklogQueue DEF BacklogInv

LEMMA BacklogMonitor == TypeInv /\ BacklogInv /\ Monitor => BacklogInv'
  <1> SUFFICES ASSUME TypeInv, BacklogInv, Monitor PROVE BacklogInv'
    OBVIOUS
  <1>1. Quantities /\ Quantities'
    BY MonitorType, QuantityTypes, QuantityTypesNext
  <1>2. /\ UNCHANGED <<queue, running, cancelQueue, resultQueue, consuming, mainpc,
                       staleness, acc, upc>>
        /\ ppc' = ppc \/ ppc' = Notified
    BY DEF Monitor, MonitorTick, MonitorUnpause, MonitorChecked, Unpause, CheckRunning,
           mq, rollout, sync
  <1>3. Queued' + Sentinels <= Queued + Sentinels'
    <2>1. {Queued, Sentinels} \subseteq Nat
      BY <1>1 DEF Quantities
    <2>2. Queued' = Queued /\ Sentinels' = Sentinels
      BY <1>2 DEF Queued, Sentinels, HasSentinel
    <2> QED
      BY ONLY <2>1, <2>2
  <1>4. Hand' = Hand /\ (ppc # "loop" => ppc' # "loop")
    BY <1>2 DEF Hand, InHand, Notified
  <1> QED
    BY <1>1, <1>2, <1>3, <1>4, BacklogQueue DEF BacklogInv

LEMMA BacklogTrainer == TypeInv /\ BacklogInv /\ Trainer => BacklogInv'
  <1> SUFFICES ASSUME TypeInv, BacklogInv, Trainer PROVE BacklogInv'
    OBVIOUS
  <1>1. Quantities /\ Quantities'
    BY TrainerType, QuantityTypes, QuantityTypesNext
  <1>2. /\ UNCHANGED <<ppc, running, cancelQueue, resultQueue, consuming, mainpc,
                       staleness, acc>>
        /\ upc' = upc \/ upc' = "update"
        /\ queue' = queue \/ (queue # <<>> /\ queue' = Tail(queue))
    BY DEF Trainer, TrainerGet, TrainerStep, TrainerFinish, SyncPause, PauseGranted,
           PauseEnd, SyncWeights, TrainerValidation, TrainerFinal, MQ!TakeSample,
           MQ!UpdateParamVersion, MQ!GetValidate, mq, rollout, sync
  <1>3. Queued' + Sentinels <= Queued + Sentinels'
    <2>1. {Queued, Queued', Sentinels} \subseteq Nat
      BY <1>1 DEF Quantities
    <2>2. Queued' <= Queued
      <3>1. queue \in Seq(Samples)
        BY <1>1 DEF Quantities
      <3>2. queue # <<>> => Len(Tail(queue)) = Len(queue) - 1
        BY ONLY <3>1, HeadTailProperties
      <3>3. Queued' = Queued \/ Queued' = Queued - 1
        BY <1>2, <3>2 DEF Queued
      <3> QED
        BY ONLY <2>1, <3>3
    <2>3. Sentinels' = Sentinels
      BY <1>2 DEF Sentinels, HasSentinel
    <2> QED
      BY ONLY <2>1, <2>2, <2>3
  <1>4. Hand' = Hand
    BY <1>2 DEF Hand, InHand
  <1> QED
    BY <1>1, <1>2, <1>3, <1>4, BacklogQueue DEF BacklogInv

LEMMA BacklogUpdate == TypeInv /\ BacklogInv /\ Update => BacklogInv'
  <1> SUFFICES ASSUME TypeInv, BacklogInv, Update PROVE BacklogInv'
    OBVIOUS
  <1>1. Quantities /\ Quantities'
    BY UpdateType, QuantityTypes, QuantityTypesNext
  <1>2. /\ UNCHANGED <<queue, running, cancelQueue, resultQueue, consuming, mainpc>>
        /\ ppc' = ppc \/ ppc' = Notified
    BY DEF Update, UpdateCall, UpdateGranted, UpdateWrite, ResumeCall, ResumeGranted,
           ReadCounts, EndPause, MQ!PutValidate, mq, rollout
  <1>3. /\ Hand' = Hand /\ Held' = Held /\ Carried' = Carried /\ Queued' = Queued
        /\ Sentinels' = Sentinels /\ cancelQueue' = cancelQueue /\ running' = running
        /\ ppc # "loop" => ppc' # "loop"
    BY <1>2 DEF Hand, Held, InHand, Notified, Carried, Carrying, Results, Queued, Sentinels,
                HasSentinel
  <1>4. InFlight' = InFlight
    BY <1>3 DEF InFlight
  <1>5. CASE ReadCounts /\ staleness' = staleness /\ Yielded
    <2>1. acc' = running + unreaped + Results + cancelQueue
      BY <1>5 DEF ReadCounts, Active, Results
    <2>2. running + cancelQueue + Carried <= acc' + 1
      <3>1. {running, unreaped, Results, cancelQueue} \subseteq Nat
            /\ Carrying \in {0, 1}
        BY <1>1 DEF Quantities
      <3> QED
        BY ONLY <2>1, <3>1 DEF Carried
    <2>3. InFlight' <= staleness' + 2 /\ InFlight' <= MaxRequired + 2
      BY <1>4, <1>5 DEF BacklogInv
    <2> QED
      BY <1>3, <1>5, <2>2, <2>3 DEF BacklogInv, Yielded
  <1>6. CASE UpdateWrite
    <2>1. staleness' = acc + Queued /\ upc' = "updated"
      BY <1>6 DEF UpdateWrite, Queued
    <2>2. running + cancelQueue + Carried <= acc + 1
      BY <1>6 DEF UpdateWrite, BacklogInv
    <2>3. InFlight <= acc + Queued + 2
      <3>1. {running, cancelQueue, Carried, acc, Queued, Sentinels} \subseteq Nat
            /\ Hand \in {0, 1}
        BY <1>1 DEF Quantities, Hand
      <3> QED
        BY ONLY <2>2, <3>1 DEF InFlight, Held
    <2> QED
      BY <1>4, <2>1, <2>3 DEF BacklogInv
  <1>7. CASE staleness' = staleness /\ acc' = acc /\ (upc' = "count" => upc = "count")
    BY <1>3, <1>4, <1>7 DEF BacklogInv
  <1> QED
    BY <1>5, <1>6, <1>7
       DEF Update, UpdateCall, UpdateGranted, ResumeCall, ResumeGranted, EndPause

LEMMA BacklogStutter == TypeInv /\ BacklogInv /\ UNCHANGED vars => BacklogInv'
  BY DEF BacklogInv, InFlight, Held, Hand, InHand, Carried, Carrying, Results, Queued,
         Sentinels, HasSentinel, vars, mq, rollout, sync

LEMMA BacklogNext == TypeInv /\ BacklogInv /\ [Next]_vars => BacklogInv'
  BY BacklogProcessor, BacklogTask, BacklogConsumer, BacklogMain, BacklogMonitor,
     BacklogTrainer, BacklogUpdate, BacklogStutter DEF Next, Terminated

\* max_required_samples: for every configuration the samples in flight exceed
\* the staleness budget by two at most, the one in the processor's hands and the
\* one in the consumer's.
THEOREM BudgetKept == Spec => []BacklogBounded
  <1>1. TypeInv /\ BacklogInv => BacklogBounded
    <2> SUFFICES ASSUME TypeInv, BacklogInv PROVE BacklogBounded
      OBVIOUS
    <2>1. Backlog - Count(HasSentinel) = InFlight
      <3>1. Quantities
        BY QuantityTypes
      <3>2. /\ Count(InHand) = Hand /\ Count(consuming # Nothing) = Carrying
            /\ Count(HasSentinel) = Sentinels
        BY DEF Count, Hand, Carrying, Sentinels
      <3>3. Backlog = Hand + running + cancelQueue + (Results + Carrying + Queued)
        BY <3>2 DEF Backlog, Produced, Results, Queued
      <3>4. {Hand, running, cancelQueue, Results, Carrying, Queued, Sentinels} \subseteq Nat
        BY <3>1 DEF Quantities
      <3> QED
        BY ONLY <3>2, <3>3, <3>4 DEF InFlight, Held, Carried
    <2> QED
      BY <2>1 DEF BacklogInv, BacklogBounded
  <1> QED
    BY <1>1, BacklogInit, BacklogNext, SpecType, PTL DEF Spec

-----------------------------------------------------------------------------
(* What happens to the samples on their way to the trainer, and to the     *)
(* weights on theirs to the servers.                                        *)


\* What each part of the program leaves alone.
LEMMA Frames ==
    /\ Task => UNCHANGED <<mq, taken, ppc, bound, consuming, mainpc, mpc, lockq, control,
                           staleness, sync, trainer>>
    /\ Consumer => UNCHANGED <<taken, ppc, bound, interrupted, rollout, mainpc, mpc, lockq,
                               control, staleness, sync, trainer>>
    /\ Main => UNCHANGED <<taken, ppc, bound, interrupted, rollout, resultQueue, consuming,
                           mpc, control, staleness, sync, trainer>>
    /\ Monitor => /\ UNCHANGED <<mq, taken, bound, interrupted, rollout, resultQueue,
                                consuming, mainpc, monitorTrigger, serversPaused,
                                staleness, sync, trainer>>
                  /\ ppc' \in {ppc, Notified}
    /\ Trainer => UNCHANGED <<taken, ppc, bound, interrupted, running, cancelQueue,
                              resultQueue, consuming, mainpc, mpc, staleness, version, acc>>
    /\ Update => /\ UNCHANGED <<queue, open, currentParamVersion, totalProduced,
                                totalConsumed, droppedSamples, cleared, taken, bound,
                                interrupted, rollout, resultQueue, consuming, mainpc, mpc,
                                weights, lastUpdate, trainer>>
                 /\ ppc' \in {ppc, Notified}
  <1>1. Task => UNCHANGED <<mq, taken, ppc, bound, consuming, mainpc, mpc, lockq, control,
                            staleness, sync, trainer>>
    BY DEF Task, TaskFinish, TaskInterrupt, TaskCancel
  <1>2. Consumer => UNCHANGED <<taken, ppc, bound, interrupted, rollout, mainpc, mpc, lockq,
                                control, staleness, sync, trainer>>
    BY DEF Consumer, ConsumerGet, ConsumerPut
  <1>3. Main => UNCHANGED <<taken, ppc, bound, interrupted, rollout, resultQueue, consuming,
                            mpc, control, staleness, sync, trainer>>
    BY DEF Main, MainStreamed, MainSentinel, MainStop, MainStopped
  <1>4. Monitor => /\ UNCHANGED <<mq, taken, bound, interrupted, rollout, resultQueue,
                                consuming, mainpc, monitorTrigger, serversPaused,
                                staleness, sync, trainer>>
                   /\ ppc' \in {ppc, Notified}
    BY DEF Monitor, MonitorTick, MonitorUnpause, MonitorChecked, CheckRunning, Unpause,
           control
  <1>5. Trainer => UNCHANGED <<taken, ppc, bound, interrupted, running, cancelQueue,
                               resultQueue, consuming, mainpc, mpc, staleness, version, acc>>
    BY DEF Trainer, TrainerGet, TrainerStep, TrainerFinish, SyncPause, PauseGranted,
           PauseEnd, SyncWeights, TrainerValidation, TrainerFinal, rollout, sync
  <1>6. Update => /\ UNCHANGED <<queue, open, currentParamVersion, totalProduced,
                                 totalConsumed, droppedSamples, cleared, taken, bound,
                                 interrupted, rollout, resultQueue, consuming, mainpc, mpc,
                                 weights, lastUpdate, trainer>>
                  /\ ppc' \in {ppc, Notified}
    BY DEF Update, UpdateCall, UpdateGranted, UpdateWrite, ResumeCall, ResumeGranted,
           ReadCounts, EndPause, MQ!PutValidate, mq, rollout
  <1> QED
    BY <1>1, <1>2, <1>3, <1>4, <1>5, <1>6

-----------------------------------------------------------------------------
(* The trainer's batches, steps and versions.                               *)

\* The final synchronization is the last thing the trainer does, and every step
\* trains on one batch.
TrainInv ==
    /\ validate => tpc \in {"waitLast", "pause", "gather", "sync", "waitFinal", "done"}
    /\ tpc = "train" => got = Required
    /\ TrainedPerVersion

\* A product grows by a factor when the other grows by one.
LEMMA Products ==
    ASSUME NEW a \in Int, NEW b \in Int
    PROVE  /\ a * b \in Int
           /\ (a + 1) * b = a * b + b
           /\ 0 * b = 0
  OBVIOUS

\* Fewer factors, a smaller product.
LEMMA ProductsBounded ==
    ASSUME NEW a \in Nat, NEW n \in Nat, NEW b \in Nat, a < n, b > 0
    PROVE  0 <= a * b /\ a * b < n * b
  OBVIOUS

LEMMA TrainInit == Init => TrainInv
  <1> SUFFICES ASSUME Init
               PROVE  TrainInv
    OBVIOUS
  <1>1. /\ tpc = "collect" /\ ~validate /\ trained = 0 /\ trainVersion = 0 /\ localStep = 1
        /\ Required \in Nat /\ Trigger \in Nat
    BY ConfigAssumption DEF Init
  <1>2. 0 * (Trigger * Required) = 0 /\ (1 - 1) * Required = 0
    BY <1>1, Products
  <1> QED
    BY <1>1, <1>2 DEF TrainInv, TrainedPerVersion

LEMMA TrainTrainer == TypeInv /\ TrainInv /\ Trainer => TrainInv'
  <1> SUFFICES ASSUME TypeInv, TrainInv, Trainer
               PROVE  TrainInv'
    OBVIOUS
  <1>1. /\ Required \in Nat /\ Required > 0 /\ Trigger \in Nat /\ Trigger > 0
        /\ trained \in Nat /\ trainVersion \in Nat /\ localStep \in 1..Trigger
        /\ validate \in BOOLEAN
    BY ConfigAssumption DEF TypeInv, TypeOK, TrainerTypeOK
  <1>2. PICK perVersion \in Nat : perVersion = Trigger * Required
    <2>1. Trigger * Required \in Nat
      BY <1>1
    <2> QED
      BY <2>1
  <1>3. TrainedPerVersion <=>
          IF validate THEN (trainVersion - 1) * perVersion <= trained
                           /\ trained < trainVersion * perVersion
                      ELSE trained = trainVersion * perVersion + (localStep - 1) * Required
    BY <1>2 DEF TrainedPerVersion
  <1>4. TrainedPerVersion' <=>
          IF validate' THEN (trainVersion' - 1) * perVersion <= trained'
                            /\ trained' < trainVersion' * perVersion
                       ELSE trained' = trainVersion' * perVersion + (localStep' - 1) * Required
    BY <1>2 DEF TrainedPerVersion
  <1>5. /\ {trainVersion * perVersion, (localStep - 1) * Required} \subseteq Int
        /\ (trainVersion + 1) * perVersion = trainVersion * perVersion + perVersion
        /\ 0 * Required = 0
    BY <1>1, Products
  <1>6. 0 <= (localStep - 1) * Required /\ (localStep - 1) * Required < perVersion
    BY <1>1, <1>2, ProductsBounded
  <1>7. CASE TrainerStep
    <2>1. ~validate /\ UNCHANGED validate /\ trained' = trained + Required
      BY <1>7 DEF TrainerStep, TrainInv
    <2>2. trained = trainVersion * perVersion + (localStep - 1) * Required
      BY <1>3, <2>1 DEF TrainInv
    <2>3. CASE StepsLeft
      <3>1. localStep' = localStep + 1 /\ trainVersion' = trainVersion /\ tpc' = "validation"
        BY <1>7, <2>3 DEF TrainerStep
      <3>2. (localStep' - 1) * Required = (localStep - 1) * Required + Required
        <4>1. localStep - 1 \in Int /\ localStep' - 1 = (localStep - 1) + 1
          BY <1>1, <3>1
        <4> QED
          BY <1>1, <4>1, Products
      <3>3. trained' = trainVersion' * perVersion + (localStep' - 1) * Required
        <4>1. {trainVersion * perVersion, (localStep - 1) * Required, Required} \subseteq Int
          BY <1>1, <1>5
        <4> QED
          BY ONLY <4>1, <2>1, <2>2, <3>1, <3>2
      <3> QED
        BY <1>4, <2>1, <3>1, <3>3 DEF TrainInv
    <2>4. CASE ~StepsLeft
      <3>1. localStep' = 1 /\ trainVersion' = trainVersion + 1 /\ tpc' = "waitLast"
        BY <1>7, <2>4 DEF TrainerStep
      <3>2. (localStep - 1) * Required + Required = perVersion
        <4>1. localStep = Trigger /\ localStep - 1 \in Int /\ (localStep - 1) + 1 = Trigger
          BY <1>1, <2>4 DEF StepsLeft
        <4> QED
          BY <1>1, <1>2, <4>1, Products
      <3>3. trained' = trainVersion' * perVersion + 0 * Required
        <4>1. {trainVersion * perVersion, (localStep - 1) * Required, Required, perVersion}
                \subseteq Int
          BY <1>1, <1>5
        <4> QED
          BY ONLY <1>5, <4>1, <2>1, <2>2, <3>1, <3>2
      <3> QED
        BY <1>4, <2>1, <3>1, <3>3 DEF TrainInv
    <2> QED
      BY <2>3, <2>4
  <1>8. CASE TrainerFinish
    <2>1. ~validate /\ UNCHANGED trained
      BY <1>8 DEF TrainerFinish, TrainInv
    <2>2. trained = trainVersion * perVersion + (localStep - 1) * Required
      BY <1>3, <2>1 DEF TrainInv
    <2>3. CASE UNCHANGED <<trainVersion, localStep, validate>> /\ tpc' = "done"
      BY <1>3, <1>4, <2>1, <2>2, <2>3 DEF TrainInv
    <2>4. CASE trainVersion' = trainVersion + 1 /\ validate' = TRUE /\ tpc' = "waitLast"
      <3>1. trainVersion' - 1 = trainVersion
        BY <1>1, <2>4
      <3>2. trainVersion * perVersion <= trained /\ trained < (trainVersion + 1) * perVersion
        BY ONLY <1>5, <1>6, <2>2, perVersion \in Nat
      <3> QED
        BY <1>4, <2>1, <2>4, <3>1, <3>2 DEF TrainInv
    <2> QED
      BY <1>8, <2>3, <2>4 DEF TrainerFinish
  <1>9. CASE ~TrainerStep /\ ~TrainerFinish
    <2>1. UNCHANGED <<localStep, trainVersion, validate, trained>>
      BY <1>9 DEF Trainer, TrainerGet, SyncPause, PauseGranted, PauseEnd, SyncWeights,
                  TrainerValidation, TrainerFinal
    <2>2. /\ validate => tpc' \in {"waitLast", "pause", "gather", "sync", "waitFinal", "done"}
          /\ tpc' = "train" => got' = Required
      BY <1>9 DEF Trainer, TrainerGet, SyncPause, BeginPause, PauseGranted, PauseEnd,
                  SyncWeights, TrainerValidation, TrainerFinal, TrainInv
    <2> QED
      BY <1>3, <1>4, <2>1, <2>2 DEF TrainInv
  <1> QED
    BY <1>7, <1>8, <1>9

LEMMA TrainNext == TypeInv /\ TrainInv /\ [Next]_vars => TrainInv'
  <1>1. TrainInv /\ UNCHANGED trainer => TrainInv'
    BY DEF TrainInv, TrainedPerVersion, trainer
  <1> QED
    BY <1>1, TrainTrainer, Frames, ProcessorFrame DEF Next, Terminated, vars

\* _trigger_parameter_sync_after_step: for every configuration the trainer consumes
\* exactly trigger * required samples between two synchronizations.
THEOREM ExactlyTrained == Spec => []TrainedPerVersion
  <1>1. TrainInv => TrainedPerVersion
    BY DEF TrainInv
  <1> QED
    BY <1>1, TrainInit, TrainNext, SpecType, PTL DEF Spec

-----------------------------------------------------------------------------
(* The end of the stream.                                                   *)

\* The processor ends with nothing running, and main goes on from there.
EndInv ==
    /\ ppc = "end" => running = 0
    /\ mainpc # "wait" => ppc = "end"
    /\ ppc \in {"final", "end"} => taken = Done
    /\ SentinelIsLast

\* Only the loops that reap lead to the end of the processor.
LEMMA EnterEnds ==
    ASSUME NEW point \in Points, NEW q \in Seq(Clients), NEW isPaused \in BOOLEAN,
           Enter(point, q, isPaused)
    PROVE  /\ ppc' # "dead"
           /\ ppc' \in {"final", "end"} => ppc' = point /\ running' = running
  BY EnterEffect DEF Points

\* The processor comes to its end from "DONE" only, when all tasks have returned.
LEMMA ProcessorEnds ==
    ASSUME TypeInv, EndInv, Processor
    PROVE  /\ ppc # "end"
           /\ ppc' = "end" => running' = 0
           /\ ppc' \in {"final", "end"} => taken' = Done
  <1>1. /\ running \in Nat /\ lockq \in Seq(Clients) /\ paused \in BOOLEAN /\ Active \in Nat
        /\ unreaped \in Nat
    BY DEF TypeInv, TypeOK, ProcessorTypeOK, RolloutTypeOK, Active, Clients
  <1>2. lockq # <<>> => Release \in Seq(Clients)
    BY <1>1, HeadTailProperties DEF Release
  <1>3. ppc # "end"
    BY DEF Processor, ProcPause, ProcMark, ProcReap, ProcNothingToReap, ProcGranted,
           ProcWake, ProcResume, ProcFetch
  <1>4. CASE ProcPause \/ ProcMark \/ ProcGranted \/ ProcWake \/ ProcResume
    <2>1. CASE ProcGranted
      BY <1>3, <2>1 DEF ProcGranted, Granted
    <2>2. CASE ProcPause /\ lockq # <<>>
      BY <1>3, <2>2 DEF ProcPause, Enter
    <2>3. CASE ProcPause /\ lockq = <<>>
      <3>1. Enter(Continue("drain", Active), <<>>, TRUE)
        BY <2>3 DEF ProcPause
      <3>2. Continue("drain", Active) \in Points \ {"final", "end"}
        BY <1>1, ContinuePoints DEF Points
      <3> QED
        BY <1>3, <3>1, <3>2, EnterEnds, EmptySeq
    <2>4. CASE ProcMark
      <3>1. Enter(Continue("drain", Active), Release, TRUE) /\ lockq # <<>>
        BY <2>4 DEF ProcMark, Holds
      <3>2. Continue("drain", Active) \in Points \ {"final", "end"}
        BY <1>1, ContinuePoints DEF Points
      <3> QED
        BY <1>2, <1>3, <3>1, <3>2, EnterEnds
    <2>5. CASE ProcWake
      <3>1. Enter(IF ppc = "idleWoken" THEN "idle" ELSE "start", lockq, paused)
        BY <2>5 DEF ProcWake
      <3> QED
        BY <1>1, <1>3, <3>1, EnterEnds DEF Points
    <2>6. CASE ProcResume
      <3>1. Enter(Continue("full", Active), lockq, paused)
        BY <2>6 DEF ProcResume
      <3>2. Continue("full", Active) \in Points \ {"final", "end"}
        BY <1>1, ContinuePoints DEF Points
      <3> QED
        BY <1>1, <1>3, <3>1, <3>2, EnterEnds
    <2> QED
      BY <1>4, <2>1, <2>2, <2>3, <2>4, <2>5, <2>6
  <1>5. CASE ProcReap \/ ProcNothingToReap
    <2>1. taken' = taken /\ lockq # <<>> /\ ppc \in {"drain", "full", "final"}
      BY <1>5 DEF ProcReap, ProcNothingToReap, Holds
    <2>2. CASE ppc' = "dead"
      BY <1>3, <2>2
    <2>3. CASE ppc' # "dead"
      <3>1. PICK active \in Nat : /\ Enter(Continue(ppc, active), Release, paused)
                                  /\ active = 0 => running = 0
        BY <1>1, <1>5, <2>3 DEF ProcReap, ProcNothingToReap, Active
      <3>2. /\ Continue(ppc, active) \in Points
            /\ Continue(ppc, active) \in {"final", "end"} => ppc = "final"
            /\ Continue(ppc, active) = "end" => active = 0
        BY <2>1, ContinuePoints DEF Points, Continue
      <3>3. ppc' \in {"final", "end"} => ppc' = Continue(ppc, active) /\ running' = running
        BY <1>1, <1>2, <2>1, <3>1, <3>2, EnterEnds
      <3> QED
        BY <1>3, <2>1, <3>1, <3>2, <3>3 DEF EndInv
    <2> QED
      BY <2>2, <2>3
  <1>6. CASE ProcFetch
    <2>1. Enter(Continue(IF taken' = Done THEN "final" ELSE "full", Active), lockq, paused)
      BY <1>6 DEF ProcFetch
    <2>2. PICK loop \in {"final", "full"} : /\ Enter(Continue(loop, Active), lockq, paused)
                                            /\ loop = "final" => taken' = Done
      BY <2>1
    <2>3. /\ Continue(loop, Active) \in Points
          /\ Continue(loop, Active) \in {"final", "end"} => loop = "final"
          /\ Continue(loop, Active) = "end" => Active = 0
      BY <1>1, <2>2, ContinuePoints DEF Points, Continue
    <2>4. ppc' \in {"final", "end"} => ppc' = Continue(loop, Active) /\ running' = running
      BY <1>1, <2>2, <2>3, EnterEnds
    <2>5. Active = 0 => running = 0
      BY <1>1 DEF Active
    <2> QED
      BY <1>3, <2>2, <2>3, <2>4, <2>5
  <1> QED
    BY <1>4, <1>5, <1>6 DEF Processor

LEMMA EndNext == TypeInv /\ EndInv /\ [Next]_vars => EndInv'
  <1> SUFFICES ASSUME TypeInv, EndInv, [Next]_vars
               PROVE  EndInv'
    OBVIOUS
  <1>1. /\ running \in Nat /\ interrupted \in 0..running
        /\ mainpc \in {"wait", "join", "sent", "stop", "done"}
    BY DEF TypeInv, TypeOK, ProcessorTypeOK, RolloutTypeOK
  <1>2. Notified = "end" => ppc = "end"
    BY DEF Notified
  <1>3. /\ Notified \in {"final", "end"} => ppc \in {"final", "end"}
        /\ ppc = "end" => Notified = "end"
    BY DEF Notified
  <1>4. ASSUME UNCHANGED <<running, mainpc, taken, resultQueue, consuming>>,
               ppc' \in {ppc, Notified}
        PROVE  EndInv'
    BY <1>2, <1>3, <1>4 DEF EndInv, SentinelIsLast, HasSentinel
  <1>5. CASE Processor
    BY <1>5, ProcessorEnds, ProcessorFrame DEF EndInv, SentinelIsLast, HasSentinel
  <1>6. CASE Task
    <2>1. /\ UNCHANGED <<ppc, mainpc, taken, consuming>>
          /\ running = 0 => UNCHANGED <<running, resultQueue>>
      BY <1>1, <1>6, Frames DEF Task, TaskFinish, TaskInterrupt, TaskCancel, rollout
    <2>2. ppc = "end" => UNCHANGED <<running, resultQueue>>
      BY <2>1 DEF EndInv
    <2> QED
      BY <2>1, <2>2 DEF EndInv, SentinelIsLast, HasSentinel
  <1>7. CASE Consumer
    <2>1. /\ UNCHANGED <<running, ppc, mainpc, taken>>
          /\ resultQueue' = resultQueue \/ (resultQueue # <<>> /\ ~HasSentinel)
          /\ consuming' = Nothing \/ ~HasSentinel
      BY <1>1, <1>7, Frames
      DEF Consumer, ConsumerGet, ConsumerPut, rollout, HasSentinel
    <2> QED
      BY <2>1 DEF EndInv, SentinelIsLast, HasSentinel
  <1>8. CASE Main
    <2>1. UNCHANGED <<running, ppc, taken, resultQueue, consuming>>
      BY <1>8, Frames DEF rollout
    <2>2. mainpc' # "wait" => ppc = "end"
      BY <1>8 DEF Main, MainStreamed, MainSentinel, MainStop, MainStopped, EndInv
    <2>3. HasSentinel' => running = 0 /\ resultQueue = <<>> /\ consuming = Nothing
      BY <1>8 DEF Main, MainStreamed, MainSentinel, MainStop, MainStopped, EndInv,
                  HasSentinel, SentinelIsLast
    <2> QED
      BY <2>1, <2>2, <2>3 DEF EndInv, SentinelIsLast
  <1>9. CASE Monitor \/ Trainer \/ Update
    BY <1>4, <1>9, Frames DEF rollout
  <1>10. CASE UNCHANGED vars
    BY <1>4, <1>10 DEF vars, rollout
  <1> QED
    BY <1>5, <1>6, <1>7, <1>8, <1>9, <1>10 DEF Next, Terminated

LEMMA EndInit == Init => EndInv
  BY ConfigAssumption DEF Init, EndInv, SentinelIsLast, HasSentinel

LEMMA SpecEnd == Spec => []EndInv
  BY EndInit, EndNext, SpecType, PTL DEF Spec

\* _streaming_generation_main: for every configuration, once None is in the queue no
\* sample is being generated, waits for the consumer or is in its hands.
THEOREM SentinelComesLast == Spec => []SentinelIsLast
  <1>1. EndInv => SentinelIsLast
    BY DEF EndInv
  <1> QED
    BY <1>1, SpecEnd, PTL

-----------------------------------------------------------------------------
(* done_tasks.  Before it is assigned the first time, nobody comes between  *)
(* the start of the processor and its first wait for a task: it does not    *)
(* yield before, and holds the lock while it waits.                         *)

NothingYet == /\ taken = 0 /\ staleness = 0
              /\ queue = <<>> /\ consuming = Nothing /\ mainpc = "wait"

FirstInv ==
    /\ ppc # "dead"
    /\ ~bound => \/ /\ ppc = "loop" /\ lockq = <<>> /\ ~paused
                    /\ Active > 0 \/ NothingYet
                 \/ ppc \in {"drain", "full", "final"} /\ Holds("proc") /\ Active > 0

\* The trainer's and the update's steps on the lock.
LEMMA CallsMoveLock ==
    /\ TypeInv /\ Trainer => LockMove("pause")
    /\ TypeInv /\ Update => LockMove("update") \/ LockMove("resume")
  <1>1. TypeInv /\ Trainer => LockMove("pause")
    BY DEF Trainer, TrainerGet, TrainerStep, TrainerFinish, SyncPause, PauseGranted,
           PauseEnd, SyncWeights, TrainerValidation, TrainerFinal, Want, LockMove,
           TypeInv, LockInv
  <1>2. TypeInv /\ Update => LockMove("update") \/ LockMove("resume")
    BY DEF Update, UpdateCall, UpdateGranted, UpdateWrite, ResumeCall, ResumeGranted,
           EndPause, Want, LockMove, TypeInv, LockInv
  <1> QED
    BY <1>1, <1>2

\* Once done_tasks is bound, the processor does not die.
LEMMA BoundSurvives ==
    ASSUME TypeInv, Processor, bound
    PROVE  ppc' # "dead"
  <1>1. /\ lockq \in Seq(Clients) /\ paused \in BOOLEAN /\ Active \in Nat
        /\ running \in Nat
    BY DEF TypeInv, TypeOK, ProcessorTypeOK, RolloutTypeOK, Active, Clients
  <1>2. lockq # <<>> => Release \in Seq(Clients)
    BY <1>1, HeadTailProperties DEF Release
  <1>3. CASE ProcPause /\ lockq = <<>>
    <2>1. Enter(Continue("drain", Active), <<>>, TRUE)
      BY <1>3 DEF ProcPause
    <2> QED
      BY <1>1, <2>1, ContinuePoints, EnterEnds, EmptySeq DEF Points
  <1>4. CASE ProcPause /\ lockq # <<>>
    BY <1>4 DEF ProcPause, Enter
  <1>5. CASE ProcMark
    <2>1. Enter(Continue("drain", Active), Release, TRUE) /\ lockq # <<>>
      BY <1>5 DEF ProcMark, Holds
    <2> QED
      BY <1>1, <1>2, <2>1, ContinuePoints, EnterEnds DEF Points
  <1>6. CASE ProcReap \/ ProcNothingToReap
    <2>1. /\ ppc \in {"drain", "full", "final"} /\ lockq # <<>>
          /\ \E active \in Nat : Enter(Continue(ppc, active), Release, paused)
      BY <1>1, <1>6, bound DEF ProcReap, ProcNothingToReap, Holds
    <2>2. PICK active \in Nat : Enter(Continue(ppc, active), Release, paused)
      BY <2>1
    <2>3. Continue(ppc, active) \in Points
      BY <2>1, ContinuePoints DEF Points
    <2> QED
      BY <1>1, <1>2, <2>1, <2>2, <2>3, EnterEnds
  <1>7. CASE ProcGranted
    BY <1>7 DEF ProcGranted, Granted
  <1>8. CASE ProcWake
    <2>1. Enter(IF ppc = "idleWoken" THEN "idle" ELSE "start", lockq, paused)
      BY <1>8 DEF ProcWake
    <2> QED
      BY <1>1, <2>1, EnterEnds DEF Points
  <1>9. CASE ProcResume \/ ProcFetch
    <2>1. PICK loop \in {"full", "final"} : Enter(Continue(loop, Active), lockq, paused)
      BY <1>9 DEF ProcResume, ProcFetch
    <2>2. Continue(loop, Active) \in Points
      BY <1>1, <2>1, ContinuePoints DEF Points
    <2> QED
      BY <1>1, <2>1, <2>2, EnterEnds
  <1> QED
    BY <1>3, <1>4, <1>5, <1>6, <1>7, <1>8, <1>9 DEF Processor

\* Before done_tasks is bound, the processor only starts tasks or waits for one.
LEMMA FirstProcessor ==
    ASSUME TypeInv, FirstInv, Processor, ~bound'
    PROVE  FirstInv'
  <1>1. /\ running \in Nat /\ unreaped \in Nat /\ paused \in BOOLEAN /\ Active \in Nat
        /\ staleness \in Nat /\ NumSamples > 0 /\ NumSamples \in Nat
        /\ MaxRequired > 0 /\ MaxRequired \in Nat /\ MaxConcurrent > 0 /\ MaxConcurrent \in Nat
    BY ConfigAssumption DEF TypeInv, TypeOK, ProcessorTypeOK, RolloutTypeOK, Active
  <1>2. ~bound
    BY DEF Processor, ProcPause, ProcMark, ProcReap, ProcNothingToReap, ProcGranted,
           ProcWake, ProcResume, ProcFetch, AssignDone
  <1>3. ppc = "loop" /\ lockq = <<>> /\ ~paused /\ (Active > 0 \/ NothingYet)
    <2>1. ASSUME ppc \in {"drain", "full", "final"}, Holds("proc"), Active > 0
          PROVE  FALSE
      <3>1. ~ProcNothingToReap
        BY <2>1, <1>1 DEF ProcNothingToReap
      <3>2. ProcReap
        BY <2>1, <3>1 DEF Processor, ProcPause, ProcMark, ProcGranted, ProcWake, ProcResume,
                          ProcFetch
      <3> QED
        BY <1>2, <3>2, ~bound' DEF ProcReap, AssignDone
    <2> QED
      BY <1>2, <2>1 DEF FirstInv
  <1>4. ProcPause \/ ProcResume \/ ProcFetch
    BY <1>3 DEF Processor, ProcMark, ProcReap, ProcNothingToReap, ProcGranted, ProcWake
  <1> DEFINE Goes(point) ==
               /\ Enter(point, <<>>, paused) \/ (point = "drain" /\ Enter(point, <<>>, TRUE))
               /\ point # "start" => Active > 0
               /\ unreaped' = unreaped
               /\ point = "start" => paused' = paused
  <1>5. \E point \in {"drain", "full", "final", "start"} : Goes(point)
    <2>1. CASE ProcPause
      <3>1. Active > 0
        BY <1>1, <1>3, <2>1 DEF ProcPause, ShouldPause, NothingYet
      <3>2. Enter("drain", <<>>, TRUE) /\ unreaped' = unreaped
        BY <1>1, <1>3, <2>1, <3>1 DEF ProcPause, Continue
      <3>3. Goes("drain")
        BY <3>1, <3>2
      <3> HIDE DEF Goes
      <3> QED
        BY <3>3
    <2>2. CASE ProcResume
      <3>1. /\ Enter(Continue("full", Active), <<>>, paused) /\ unreaped' = unreaped
            /\ paused' = paused
        BY <1>3, <2>2 DEF ProcResume, control
      <3>2. Continue("full", Active) = IF Active >= MaxConcurrent THEN "full" ELSE "start"
        BY DEF Continue
      <3>3. Goes("full") \/ Goes("start")
        BY <1>1, <3>1, <3>2
      <3> HIDE DEF Goes
      <3> QED
        BY <3>3
    <2>3. CASE ProcFetch
      <3>1. /\ Enter(Continue(IF taken' = Done THEN "final" ELSE "full", Active), <<>>, paused)
            /\ unreaped' = unreaped /\ paused' = paused /\ taken' = taken + 1
        BY <1>3, <2>3 DEF ProcFetch, control
      <3>2. taken' = Done => Active > 0
        BY <1>1, <1>3, <3>1 DEF NothingYet, Done
      <3>3. CASE taken' = Done
        <4>1. Continue("final", Active) = "final" /\ Active > 0
          BY <1>1, <3>2, <3>3 DEF Continue
        <4>2. Goes("final")
          BY <3>1, <3>3, <4>1
        <4> HIDE DEF Goes
        <4> QED
          BY <4>2
      <3>4. CASE taken' # Done
        <4>1. Enter(Continue("full", Active), <<>>, paused)
          BY <3>1, <3>4
        <4>2. Continue("full", Active) = IF Active >= MaxConcurrent THEN "full" ELSE "start"
          BY DEF Continue
        <4>3. Goes("full") \/ Goes("start")
          BY <1>1, <3>1, <4>1, <4>2
        <4> HIDE DEF Goes
        <4> QED
          BY <4>3
      <3> QED
        BY <3>3, <3>4
    <2> QED
      BY <1>4, <2>1, <2>2, <2>3
  <1>6. PICK point \in {"drain", "full", "final", "start"} : Goes(point)
    BY <1>5
  <1>7. CASE point = "start"
    <2>1. ppc' = "loop" /\ lockq' = <<>> /\ running' = running + 1 /\ ~paused'
      BY <1>3, <1>6, <1>7 DEF Enter, Granted
    <2>2. Active' > 0
      BY <1>1, <1>6, <2>1 DEF Active
    <2> QED
      BY <2>1, <2>2 DEF FirstInv
  <1>8. CASE point # "start"
    <2>1. ppc' = point /\ lockq' = Append(<<>>, "proc") /\ running' = running /\ Active > 0
      BY <1>6, <1>8 DEF Enter
    <2>2. Holds("proc")' /\ Active' > 0
      BY <1>6, <2>1 DEF Holds, Active
    <2> QED
      BY <1>6, <1>8, <2>1, <2>2 DEF FirstInv
  <1> QED
    BY <1>7, <1>8

LEMMA FirstNext == TypeInv /\ FirstInv /\ [Next]_vars => FirstInv'
  <1> SUFFICES ASSUME TypeInv, FirstInv, [Next]_vars
               PROVE  FirstInv'
    OBVIOUS
  <1>1. CASE Processor
    <2>1. CASE bound'
      <3>1. CASE bound
        BY <1>1, <2>1, <3>1, BoundSurvives DEF FirstInv
      <3>2. CASE ~bound
        <4>1. ProcReap
          BY <1>1, <2>1, <3>2 DEF Processor, ProcPause, ProcMark, ProcNothingToReap,
                                  ProcGranted, ProcWake, ProcResume, ProcFetch
        <4>2. /\ lockq \in Seq(Clients) /\ paused \in BOOLEAN /\ running \in Nat
              /\ lockq # <<>>
          BY <4>1 DEF TypeInv, TypeOK, ProcessorTypeOK, RolloutTypeOK, Clients, ProcReap, Holds
        <4>3. /\ Release \in Seq(Clients) /\ Continue(ppc, running) \in Points
              /\ Enter(Continue(ppc, running), Release, paused)
          BY <4>1, <4>2, HeadTailProperties, ContinuePoints DEF ProcReap, Release, Points
        <4> QED
          BY <2>1, <4>2, <4>3, EnterEnds DEF FirstInv
      <3> QED
        BY <3>1, <3>2
    <2>2. CASE ~bound'
      BY <1>1, <2>2, FirstProcessor
    <2> QED
      BY <2>1, <2>2
  <1>2. CASE ~Processor
    <2>1. /\ lockq \in Seq(Clients) /\ running \in Nat /\ unreaped \in Nat
          /\ interrupted \in 0..running
      BY DEF TypeInv, TypeOK, ProcessorTypeOK, Clients
    <2>2. bound' = bound /\ ppc' \in {ppc, Notified} /\ taken' = taken
      BY <1>2, Frames DEF Next, Terminated, vars
    <2>3. ppc' # "dead" /\ (ppc \in {"loop", "drain", "full", "final"} => ppc' = ppc)
      BY <2>2 DEF FirstInv, Notified
    <2>4. ASSUME ~bound, ppc = "loop", lockq = <<>>, ~paused, Active > 0 \/ NothingYet
          PROVE  UNCHANGED <<lockq, paused, running, unreaped>> /\ (NothingYet => NothingYet')
      <3>1. CASE Task \/ UNCHANGED vars
        BY <2>4, <3>1 DEF Task, TaskFinish, TaskInterrupt, TaskCancel, Yielded, vars, mq,
                          rollout, control, NothingYet
      <3>2. CASE Consumer
        BY <2>4, <3>2 DEF Consumer, ConsumerGet, ConsumerPut, Yielded, rollout, control,
                          NothingYet
      <3>3. CASE Main
        BY <2>4, <3>3 DEF Main, MainStreamed, MainSentinel, MainStop, MainStopped, Yielded,
                          rollout, control, NothingYet
      <3>4. CASE Trainer
        BY <2>4, <3>4 DEF Trainer, TrainerGet, TrainerStep, TrainerFinish, SyncPause,
             PauseGranted, PauseEnd, SyncWeights, TrainerValidation, TrainerFinal, Yielded,
             MQ!TakeSample, MQ!UpdateParamVersion, MQ!GetValidate, mq, rollout, control,
             NothingYet
      <3>5. ~Monitor /\ ~Update
        BY <2>4 DEF Monitor, MonitorTick, MonitorUnpause, MonitorChecked, Update, UpdateCall,
                    UpdateGranted, UpdateWrite, ResumeCall, ResumeGranted, Yielded
      <3> QED
        BY <1>2, <3>1, <3>2, <3>3, <3>4, <3>5 DEF Next, Terminated
    <2>5. ASSUME ~bound, ppc \in {"drain", "full", "final"}, Holds("proc"), Active > 0
          PROVE  Holds("proc")' /\ Active' > 0
      <3>1. tpc # "gather"
        BY <2>5 DEF TypeInv, LockInv, Holds
      <3>2. Active' = Active
        <4>1. CASE Task
          BY <2>1, <4>1 DEF Task, TaskFinish, TaskInterrupt, TaskCancel, Active, rollout
        <4>2. CASE ~Task
          <5>1. UNCHANGED <<running, unreaped>>
            BY <1>2, <3>1, <4>2, Frames
            DEF Next, Terminated, Trainer, TrainerGet, TrainerStep, TrainerFinish, SyncPause,
                PauseGranted, PauseEnd, SyncWeights, TrainerValidation, TrainerFinal, vars,
                rollout
          <5> QED
            BY <5>1 DEF Active
        <4> QED
          BY <4>1, <4>2
      <3>3. \/ UNCHANGED lockq
            \/ \E client \in Clients \ {"proc"} : LockMove(client)
        BY <1>2, LockMoves, CallsMoveLock DEF Next, Terminated, vars, Clients
      <3>4. Holds("proc")'
        BY <2>1, <2>5, <3>3, LockKept DEF Clients, Holds
      <3> QED
        BY <2>5, <3>2, <3>4
    <2> QED
      BY <2>2, <2>3, <2>4, <2>5 DEF FirstInv, Active
  <1> QED
    BY <1>1, <1>2

LEMMA FirstInit == Init => FirstInv
  BY DEF Init, MQ!MQInit, FirstInv, NothingYet

LEMMA SpecFirst == Spec => []FirstInv
  BY FirstInit, FirstNext, SpecType, PTL DEF Spec

\* _processor_worker: for every configuration done_tasks is assigned before it is read,
\* although pause() may empty active_tasks while the processor waits for the lock.
THEOREM ProcessorSurvivesAlways == Spec => []ProcessorSurvives
  <1>1. FirstInv => ProcessorSurvives
    BY DEF FirstInv, ProcessorSurvives
  <1> QED
    BY <1>1, SpecFirst, PTL

-----------------------------------------------------------------------------
(* The synchronization window: from the end of pause() to resume().         *)

Updating == upc # "none"
Window == tpc \in {"gather", "sync"} \/ Updating

\* The servers are paused during the window if anything cancels them at all; the
\* rollouter stays paused unless the monitor comes; and the versions differ only
\* from the arrival of the weights to update_param_version.
SyncInv ==
    /\ tpc \in {"pause", "gather", "sync"} => upc = "none"
    /\ serversPaused = (Partial /\ Window)
    /\ Window => resumedBy = "monitor" \/ (resumedBy = "nobody" /\ paused)
    /\ ~Partial /\ (tpc = "sync" \/ Updating) /\ resumedBy # "monitor" => running = 0
    /\ version # weights => upc \in {"update", "updateLock"}

\* A processor that finds the rollouter paused leaves it so and starts no task.
LEMMA PausedStartsNothing ==
    ASSUME TypeInv, Processor
    PROVE  /\ paused => paused' /\ running' = running
           /\ UNCHANGED <<tpc, upc, serversPaused, resumedBy, version, weights>>
  <1>1. UNCHANGED <<tpc, upc, serversPaused, resumedBy, version, weights>>
    BY ProcessorFrame DEF sync, trainer
  <1>2. ASSUME paused
        PROVE  paused' /\ running' = running
    <2>1. paused = TRUE
      BY <1>2 DEF TypeInv, TypeOK, RolloutTypeOK
    <2>2. ProcPause \/ ProcMark => paused' /\ running' = running
      BY <2>1 DEF ProcPause, ProcMark, Enter, Granted
    <2>3. ProcReap \/ ProcNothingToReap \/ ProcGranted \/ ProcWake =>
            paused' /\ running' = running
      BY <2>1 DEF ProcReap, ProcNothingToReap, ProcGranted, ProcWake, Enter, Granted, control
    <2>4. ~ProcResume /\ ~ProcFetch
      BY <2>1 DEF ProcResume, ProcFetch
    <2> QED
      BY <2>2, <2>3, <2>4 DEF Processor
  <1> QED
    BY <1>1, <1>2

LEMMA SyncTrainer == TypeInv /\ SyncInv /\ Trainer => SyncInv'
  <1> SUFFICES ASSUME TypeInv, SyncInv, Trainer
               PROVE  SyncInv'
    OBVIOUS
  <1>1. Partial \in BOOLEAN /\ serversPaused \in BOOLEAN /\ running' = running /\ version' = version
    BY ConfigAssumption, Frames DEF TypeInv, TypeOK, RolloutTypeOK
  <1>2. CASE SyncPause \/ PauseGranted
    <2>1. upc = "none" /\ upc' = upc /\ weights' = weights /\ tpc \in {"waitLast", "pause"}
      BY <1>2 DEF SyncPause, PauseGranted, SyncInv, sync
    <2>2. \/ /\ paused' = TRUE /\ serversPaused' = Partial /\ resumedBy' = "nobody"
             /\ tpc' = "gather"
          \/ tpc' = "pause" /\ UNCHANGED <<paused, serversPaused, resumedBy>>
      BY <1>2 DEF SyncPause, PauseGranted, BeginPause
    <2> QED
      BY <1>1, <2>1, <2>2 DEF SyncInv, Window, Updating
  <1>3. CASE PauseEnd
    <2>1. /\ tpc = "gather" /\ running = 0 /\ tpc' = "sync"
          /\ UNCHANGED <<paused, serversPaused, resumedBy, upc, weights>>
      BY <1>3 DEF PauseEnd, sync
    <2> QED
      BY <1>1, <2>1 DEF SyncInv, Window, Updating
  <1>4. CASE SyncWeights
    <2>1. /\ tpc = "sync" /\ upc' = "update" /\ tpc' \in {"waitFinal", "validation"}
          /\ UNCHANGED <<paused, serversPaused, resumedBy>>
      BY <1>4 DEF SyncWeights, control
    <2> QED
      BY <1>1, <2>1 DEF SyncInv, Window, Updating
  <1>5. CASE TrainerGet \/ TrainerStep \/ TrainerFinish \/ TrainerValidation \/ TrainerFinal
    <2>1. /\ UNCHANGED <<paused, serversPaused, resumedBy, upc, weights>>
          /\ {tpc, tpc'} \cap {"pause", "gather", "sync"} = {}
      BY <1>5 DEF TrainerGet, TrainerStep, TrainerFinish, TrainerValidation, TrainerFinal,
                  control, sync
    <2> QED
      BY <1>1, <2>1 DEF SyncInv, Window, Updating
  <1> QED
    BY <1>2, <1>3, <1>4, <1>5 DEF Trainer

LEMMA SyncUpdate == TypeInv /\ SyncInv /\ Update => SyncInv'
  <1> SUFFICES ASSUME TypeInv, SyncInv, Update
               PROVE  SyncInv'
    OBVIOUS
  <1>1. /\ Partial \in BOOLEAN /\ serversPaused \in BOOLEAN
        /\ UNCHANGED <<running, weights, tpc>>
    BY ConfigAssumption, Frames DEF TypeInv, TypeOK, RolloutTypeOK, rollout, trainer
  <1>2. upc # "none" /\ tpc \notin {"pause", "gather", "sync"}
    BY DEF Update, UpdateCall, UpdateGranted, UpdateWrite, ResumeCall, ResumeGranted, SyncInv
  <1>3. CASE UpdateCall \/ UpdateGranted
    <2>1. /\ UNCHANGED <<paused, serversPaused, resumedBy>>
          /\ \/ version' = weights /\ upc' = "count"
             \/ version' = version /\ upc' = "updateLock"
      BY <1>3 DEF UpdateCall, UpdateGranted, ReadCounts, control
    <2> QED
      BY <1>1, <1>2, <2>1 DEF SyncInv, Window, Updating
  <1>4. CASE UpdateWrite
    <2>1. /\ UNCHANGED <<paused, serversPaused, resumedBy, version>>
          /\ upc = "count" /\ upc' = "updated"
      BY <1>4 DEF UpdateWrite, control
    <2> QED
      BY <1>1, <1>2, <2>1 DEF SyncInv, Window, Updating
  <1>5. CASE ResumeCall \/ ResumeGranted
    <2>1. /\ upc \in {"updated", "resume"} /\ version' = version
          /\ \/ /\ serversPaused' = FALSE /\ upc' = "none"
             \/ upc' = "resume" /\ UNCHANGED <<paused, serversPaused, resumedBy>>
      BY <1>5 DEF ResumeCall, ResumeGranted, EndPause, control
    <2>2. version' = weights' /\ tpc' \notin {"pause", "gather", "sync"}
      BY <1>1, <1>2, <2>1 DEF SyncInv
    <2>3. CASE serversPaused' = FALSE /\ upc' = "none"
      <3>1. ~Window' /\ ~Updating'
        BY <2>2, <2>3 DEF Window, Updating
      <3> QED
        BY <2>2, <2>3, <3>1 DEF SyncInv
    <2>4. CASE upc' = "resume" /\ UNCHANGED <<paused, serversPaused, resumedBy>>
      BY <1>1, <1>2, <2>1, <2>2, <2>4 DEF SyncInv, Window, Updating
    <2> QED
      BY <2>1, <2>3, <2>4
  <1> QED
    BY <1>3, <1>4, <1>5 DEF Update

LEMMA SyncNext == TypeInv /\ SyncInv /\ [Next]_vars => SyncInv'
  <1> SUFFICES ASSUME TypeInv, SyncInv, [Next]_vars
               PROVE  SyncInv'
    OBVIOUS
  <1>1. ASSUME UNCHANGED <<tpc, upc, serversPaused, resumedBy, version, weights>>,
               paused => paused', running = 0 => running' = 0 \/ (~Partial /\ ~paused)
        PROVE  SyncInv'
    BY <1>1 DEF SyncInv, Window, Updating
  <1>2. running \in Nat /\ interrupted \in 0..running /\ paused \in BOOLEAN
    BY DEF TypeInv, TypeOK, ProcessorTypeOK, RolloutTypeOK
  <1>3. CASE Processor
    <2>1. /\ paused => paused' /\ running' = running
          /\ UNCHANGED <<tpc, upc, serversPaused, resumedBy, version, weights>>
      BY <1>3, PausedStartsNothing
    <2> QED
      BY <2>1 DEF SyncInv, Window, Updating
  <1>4. CASE Task \/ Consumer \/ Main \/ UNCHANGED vars
    <2>1. UNCHANGED <<tpc, upc, serversPaused, resumedBy, version, weights, paused>>
      BY <1>4, Frames DEF vars, control, sync, trainer
    <2>2. running = 0 => running' = 0
      BY <1>2, <1>4, Frames DEF Task, TaskFinish, TaskInterrupt, TaskCancel, rollout, vars
    <2> QED
      BY <1>1, <2>1, <2>2
  <1>5. CASE Monitor
    <2>1. UNCHANGED <<tpc, upc, serversPaused, version, weights, running>>
      BY <1>5, Frames DEF rollout, sync, trainer
    <2>2. \/ UNCHANGED <<paused, resumedBy>>
          \/ resumedBy' = IF paused THEN "monitor" ELSE resumedBy
      BY <1>5 DEF Monitor, MonitorTick, MonitorUnpause, MonitorChecked, Unpause, control
    <2> QED
      BY <2>1, <2>2 DEF SyncInv, Window, Updating
  <1>6. CASE Trainer
    BY <1>6, SyncTrainer
  <1>7. CASE Update
    BY <1>7, SyncUpdate
  <1> QED
    BY <1>3, <1>4, <1>5, <1>6, <1>7 DEF Next, Terminated

LEMMA SyncInit == Init => SyncInv
  BY ConfigAssumption DEF Init, SyncInv, Window, Updating

LEMMA SpecSync == Spec => []SyncInv
  BY SyncInit, SyncNext, SpecType, PTL DEF Spec

\* sync_weights: for every configuration nothing is generated while the weights are
\* replaced, unless the monitor has cleared paused after pause() had set it.
THEOREM QuietBarMonitor == Spec => []QuietUnlessMonitor
  <1>1. TypeInv /\ SyncInv => QuietUnlessMonitor
    BY ConfigAssumption
    DEF SyncInv, QuietUnlessMonitor, SyncWindow, Generating, Window, Updating, TypeInv,
        TypeOK, RolloutTypeOK
  <1> QED
    BY <1>1, SpecType, SpecSync, PTL

\* The same without exception when partial rollout cancels the servers.
THEOREM QuietWhenPartial == ASSUME Partial PROVE Spec => []QuietDuringSync
  <1>1. TypeInv /\ SyncInv => QuietDuringSync
    BY Partial
    DEF SyncInv, QuietDuringSync, SyncWindow, Generating, Window, Updating, TypeInv, TypeOK,
        RolloutTypeOK
  <1> QED
    BY <1>1, SpecType, SpecSync, PTL

\* param_version: with partial rollout, for every configuration, a sample is labelled
\* with the version that the servers hold when it finishes.
THEOREM LabelledByWeights == ASSUME Partial PROVE Spec => LabelMatchesWeights
  <1>1. TypeInv /\ SyncInv /\ [Next]_vars =>
          [Len(resultQueue') > Len(resultQueue) => version = weights]_vars
    <2> SUFFICES ASSUME TypeInv, SyncInv, [Next]_vars, Len(resultQueue') > Len(resultQueue)
                 PROVE  version = weights
      OBVIOUS
    <2>1. resultQueue \in Seq(Nat) /\ Len(resultQueue) \in Nat
      BY LenProperties DEF TypeInv, TypeOK, RolloutTypeOK
    <2>2. resultQueue' # resultQueue /\ ~(resultQueue # <<>> /\ resultQueue' = Tail(resultQueue))
      BY <2>1, HeadTailProperties
    <2>3. Task
      BY <2>2, Frames, ProcessorFrame
      DEF Next, Terminated, vars, Consumer, ConsumerGet, ConsumerPut
    <2>4. TaskFinish
      BY <2>2, <2>3 DEF Task, TaskInterrupt, TaskCancel
    <2>5. serversPaused => tpc = "gather"
      BY <2>4 DEF TaskFinish, Gathering
    <2> QED
      BY Partial, <2>5 DEF SyncInv, Window, Updating
  <1> QED
    BY <1>1, SpecType, SpecSync, PTL DEF Spec, LabelMatchesWeights

-----------------------------------------------------------------------------
(* The balance of the samples: what has been fetched is still on its way,   *)
(* dropped, collected or trained on, and None comes behind all of it.       *)

\* The trainer has met None; its final synchronization comes after that.
SentinelTaken == tpc \in {"finish", "waitFinal", "done"} \/ validate
Pending == HasSentinel /\ ~SentinelTaken
Awaited == IF Pending THEN 1 ELSE 0
Fetched == IF taken = Done THEN NumSamples ELSE taken

Balanced ==
    Fetched + Awaited =
        Held + cancelQueue + Carried + Queued + droppedSamples + trained + got

NoneIsLast ==
    /\ \A i \in 1..Len(queue) : queue[i] = Nothing <=> i = Len(queue) /\ Pending
    /\ Pending => queue # <<>>

FlowInv ==
    /\ Balanced
    /\ NoneIsLast
    /\ SentinelTaken => HasSentinel

\* Without partial rollout nothing is ever interrupted.
WholeInv == ~Partial => interrupted = 0 /\ cancelQueue = 0

FlowQuantities ==
    {Fetched, Awaited, Held, cancelQueue, Carried, Queued, Carrying, Results, Hand, running,
     droppedSamples, trained, got, NumSamples, taken} \subseteq Nat

LEMMA FlowTypes == TypeInv => FlowQuantities
  <1> SUFFICES ASSUME TypeInv
               PROVE  FlowQuantities
    OBVIOUS
  <1>1. Quantities
    BY QuantityTypes
  <1>2. /\ {Held, cancelQueue, Carried, Queued, Carrying, Results, Hand, running} \subseteq Nat
        /\ {droppedSamples, trained, got, NumSamples, taken} \subseteq Nat
    BY <1>1, ConfigAssumption
    DEF Quantities, TypeInv, TypeOK, QueueTypeOK, ProcessorTypeOK, TrainerTypeOK, Done
  <1>3. Fetched \in Nat /\ Awaited \in Nat
    BY <1>2 DEF Fetched, Awaited
  <1> QED
    BY <1>2, <1>3 DEF FlowQuantities

LEMMA FlowTypesNext == TypeInv' => FlowQuantities'
  BY FlowTypes, PTL

LEMMA WholeNext == TypeInv /\ SyncInv /\ WholeInv /\ [Next]_vars => WholeInv'
  <1> SUFFICES ASSUME TypeInv, SyncInv, WholeInv, [Next]_vars, ~Partial
               PROVE  interrupted' = 0 /\ cancelQueue' = 0
    BY DEF WholeInv
  <1>1. interrupted = 0 /\ cancelQueue = 0 /\ serversPaused = FALSE
    BY DEF WholeInv, SyncInv
  <1>2. CASE Processor
    <2>1. ~ProcResume
      BY <1>1 DEF ProcResume
    <2>2. UNCHANGED <<interrupted, cancelQueue>>
      BY <1>2, <2>1
      DEF Processor, ProcPause, ProcMark, ProcReap, ProcNothingToReap, ProcGranted, ProcWake,
          ProcFetch
    <2> QED
      BY <1>1, <2>2
  <1>3. CASE Task
    BY <1>1, <1>3 DEF Task, TaskFinish, TaskInterrupt, TaskCancel
  <1>4. CASE ~Processor /\ ~Task
    BY <1>1, <1>4, Frames DEF Next, Terminated, vars, rollout
  <1> QED
    BY <1>2, <1>3, <1>4

\* put_sample: what enters the full queue pushes the oldest entry out.
LEMMA PutFlow ==
    ASSUME NEW sample \in Samples, queue \in Seq(Samples), droppedSamples \in Nat,
           MQ!PutSample(sample)
    PROVE  /\ Len(queue') + droppedSamples' = Len(queue) + droppedSamples + 1
           /\ Len(queue') > 0
           /\ queue'[Len(queue')] = sample
           /\ \A i \in 1..Len(queue') :
                i # Len(queue') => \E j \in 1..Len(queue) : queue'[i] = queue[j]
  <1>1. CASE MQ!Full
    <2>1. queue # <<>> /\ Len(queue) \in Nat
      BY <1>1, ConfigAssumption, LenProperties DEF MQ!Full
    <2>2. PICK kept \in Seq(Samples) : kept = Tail(queue)
      BY <2>1, HeadTailProperties
    <2>3. Len(kept) = Len(queue) - 1 /\ \A i \in 1..Len(kept) : kept[i] = queue[i + 1]
      BY <2>1, <2>2, HeadTailProperties
    <2>4. queue' = Append(kept, sample) /\ droppedSamples' = droppedSamples + 1
      BY <1>1, <2>2 DEF MQ!PutSample
    <2>5. /\ Len(queue') = Len(kept) + 1
          /\ \A i \in 1..Len(kept) : queue'[i] = kept[i]
          /\ queue'[Len(kept) + 1] = sample
      BY <2>4, AppendProperties
    <2>6. ASSUME NEW i \in 1..Len(queue'), i # Len(queue')
          PROVE  \E j \in 1..Len(queue) : queue'[i] = queue[j]
      <3>1. i \in 1..Len(kept) /\ i + 1 \in 1..Len(queue)
        BY <2>1, <2>3, <2>5, <2>6
      <3>2. queue'[i] = queue[i + 1]
        BY <2>3, <2>5, <3>1
      <3> QED
        BY <3>1, <3>2
    <2> QED
      BY <2>1, <2>3, <2>4, <2>5, <2>6
  <1>2. CASE ~MQ!Full
    <2>1. queue' = Append(queue, sample) /\ droppedSamples' = droppedSamples
      BY <1>2 DEF MQ!PutSample
    <2>2. /\ Len(queue') = Len(queue) + 1 /\ Len(queue) \in Nat
          /\ \A i \in 1..Len(queue) : queue'[i] = queue[i]
          /\ queue'[Len(queue) + 1] = sample
      BY <2>1, AppendProperties, LenProperties
    <2> QED
      BY <2>1, <2>2
  <1> QED
    BY <1>1, <1>2

LEMMA FlowInit == Init => FlowInv /\ WholeInv
  <1> SUFFICES ASSUME Init
               PROVE  FlowInv /\ WholeInv
    OBVIOUS
  <1>1. /\ ppc = "loop" /\ running = 0 /\ cancelQueue = 0 /\ resultQueue = <<>> /\ taken = 0
        /\ consuming = Nothing /\ queue = <<>> /\ mainpc = "wait" /\ tpc = "collect"
        /\ ~validate /\ droppedSamples = 0 /\ trained = 0 /\ got = 0 /\ interrupted = 0
    BY DEF Init, MQ!MQInit
  <1>2. Queued = 0 /\ Results = 0 /\ Hand = 0 /\ Carrying = 0 /\ Awaited = 0
    BY <1>1 DEF Queued, Results, Hand, InHand, Carrying, Awaited, Pending, HasSentinel
  <1>3. Fetched = 0
    BY <1>1, ConfigAssumption DEF Fetched, Done
  <1>4. Balanced
    BY <1>1, <1>2, <1>3 DEF Balanced, Held, Carried
  <1> QED
    BY <1>1, <1>4 DEF FlowInv, WholeInv, NoneIsLast, SentinelTaken, Pending, HasSentinel

\* What the processor fetches it holds.
LEMMA FlowFetched ==
    ASSUME TypeInv, Processor, ppc' # "dead"
    PROVE  Held' + cancelQueue' + Fetched = Held + cancelQueue + Fetched'
  <1>1. {Held, Held', cancelQueue, cancelQueue', Fetched, Fetched', NumSamples, taken}
          \subseteq Nat
    BY ProcessorType, FlowTypes, FlowTypesNext DEF FlowQuantities
  <1>2. CASE Held' + cancelQueue' = Held + cancelQueue /\ taken' = taken
    <2>1. Fetched' = Fetched
      BY <1>2 DEF Fetched
    <2> QED
      BY ONLY <1>1, <1>2, <2>1
  <1>3. CASE /\ Held' + cancelQueue' = Held + cancelQueue + (IF taken' = Done THEN 0 ELSE 1)
             /\ taken # Done /\ taken' = taken + 1
    <2>1. Fetched' = Fetched + (IF taken' = Done THEN 0 ELSE 1)
      BY <1>1, <1>3 DEF Fetched, Done
    <2> QED
      BY ONLY <1>1, <1>3, <2>1
  <1> QED
    BY <1>2, <1>3, ProcessorHeld

LEMMA FlowProcessor == TypeInv /\ FlowInv /\ FirstInv' /\ Processor => FlowInv'
  <1> SUFFICES ASSUME TypeInv, FlowInv, FirstInv', Processor
               PROVE  FlowInv'
    OBVIOUS
  <1>1. FlowQuantities /\ FlowQuantities'
    BY ProcessorType, FlowTypes, FlowTypesNext
  <1>2. UNCHANGED <<queue, droppedSamples, resultQueue, consuming, mainpc, tpc, validate,
                    trained, got>>
    BY ProcessorFrame DEF mq, trainer
  <1>3. /\ UNCHANGED <<SentinelTaken, Pending, HasSentinel>>
        /\ Carried' = Carried /\ Queued' = Queued /\ Awaited' = Awaited
    BY <1>2 DEF Carried, Carrying, Results, Queued, Awaited, Pending, SentinelTaken, HasSentinel
  <1>4. Held' + cancelQueue' + Fetched = Held + cancelQueue + Fetched'
    BY FlowFetched DEF FirstInv
  <1>5. Balanced'
    <2>1. {Held, Held', cancelQueue, cancelQueue', Fetched, Fetched', Awaited, Carried, Queued,
           droppedSamples, trained, got} \subseteq Nat
      BY <1>1 DEF FlowQuantities
    <2>2. Balanced
      BY DEF FlowInv
    <2> QED
      BY ONLY <1>2, <1>3, <1>4, <2>1, <2>2 DEF Balanced
  <1> QED
    BY <1>2, <1>3, <1>5 DEF FlowInv, NoneIsLast

\* What a task returns is a result or waits to be resumed.
LEMMA FlowReturned ==
    ASSUME TypeInv, Task
    PROVE  Held' + cancelQueue' + Carried' = Held + cancelQueue + Carried
  <1>1. FlowQuantities /\ FlowQuantities'
    BY TaskType, FlowTypes, FlowTypesNext
  <1>2. Hand' = Hand /\ Carrying' = Carrying
    BY Frames DEF Hand, InHand, Carrying
  <1>3. running' + cancelQueue' + Results' = running + cancelQueue + Results
    <2>1. {running, running', cancelQueue, cancelQueue', Results, Results'} \subseteq Nat
      BY <1>1 DEF FlowQuantities
    <2>2. CASE TaskFinish
      <3>1. resultQueue \in Seq(Nat)
        BY DEF TypeInv, TypeOK, RolloutTypeOK
      <3>2. Results' = Results + 1 /\ running' = running - 1 /\ cancelQueue' = cancelQueue
        BY <2>2, <3>1, AppendProperties DEF TaskFinish, Results
      <3> QED
        BY ONLY <2>1, <3>2
    <2>3. CASE TaskInterrupt
      BY <2>3 DEF TaskInterrupt, rollout, Results
    <2>4. CASE TaskCancel
      <3>1. Results' = Results /\ running' = running - 1 /\ cancelQueue' = cancelQueue + 1
        BY <2>4 DEF TaskCancel, Results
      <3> QED
        BY ONLY <2>1, <3>1
    <2> QED
      BY <2>2, <2>3, <2>4 DEF Task
  <1>4. Held' + cancelQueue' + Carried' = Held + cancelQueue + Carried
    <2>1. {running, running', cancelQueue, cancelQueue', Results, Results', Carrying, Hand}
            \subseteq Nat
      BY <1>1 DEF FlowQuantities
    <2> QED
      BY ONLY <1>2, <1>3, <2>1 DEF Held, Carried
  <1> QED
    BY <1>4

LEMMA FlowTask == TypeInv /\ FlowInv /\ Task => FlowInv'
  <1> SUFFICES ASSUME TypeInv, FlowInv, Task
               PROVE  FlowInv'
    OBVIOUS
  <1>1. FlowQuantities /\ FlowQuantities'
    BY TaskType, FlowTypes, FlowTypesNext
  <1>2. UNCHANGED <<queue, droppedSamples, ppc, consuming, mainpc, tpc, validate, trained,
                    got, taken>>
    BY Frames DEF mq, trainer
  <1>3. /\ UNCHANGED <<SentinelTaken, Pending, HasSentinel>>
        /\ Queued' = Queued /\ Awaited' = Awaited /\ Hand' = Hand /\ Carrying' = Carrying
        /\ Fetched' = Fetched
    BY <1>2 DEF Carrying, Queued, Awaited, Pending, SentinelTaken, HasSentinel, Hand, InHand,
                Fetched
  <1>4. Held' + cancelQueue' + Carried' = Held + cancelQueue + Carried
    BY FlowReturned
  <1>5. Balanced'
    <2>1. {Held, Held', cancelQueue, cancelQueue', Carried, Carried', Fetched, Awaited, Queued,
           droppedSamples, trained, got} \subseteq Nat
      BY <1>1 DEF FlowQuantities
    <2>2. Balanced
      BY DEF FlowInv
    <2> QED
      BY ONLY <1>2, <1>3, <1>4, <2>1, <2>2 DEF Balanced
  <1> QED
    BY <1>2, <1>3, <1>5 DEF FlowInv, NoneIsLast

\* A sample that goes from the result queue through the consumer to the message queue.
LEMMA FlowConsumer == TypeInv /\ EndInv /\ FlowInv /\ Consumer => FlowInv'
  <1> SUFFICES ASSUME TypeInv, EndInv, FlowInv, Consumer
               PROVE  FlowInv'
    OBVIOUS
  <1>1. FlowQuantities /\ FlowQuantities'
    BY ConsumerType, FlowTypes, FlowTypesNext
  <1>2. UNCHANGED <<ppc, running, cancelQueue, mainpc, tpc, validate, trained, got, taken>>
    BY Frames DEF rollout, trainer
  <1>3. /\ UNCHANGED <<SentinelTaken, Pending, HasSentinel>>
        /\ Awaited' = Awaited /\ Held' = Held /\ Fetched' = Fetched
    BY <1>2 DEF Awaited, Pending, SentinelTaken, HasSentinel, Held, Hand, InHand, Fetched
  <1>4. resultQueue \in Seq(Nat) /\ queue \in Seq(Samples) /\ consuming \in Samples
        /\ Nothing \notin Nat
    BY ConfigAssumption DEF TypeInv, TypeOK, QueueTypeOK, RolloutTypeOK, Samples
  <1>5. NoneIsLast' /\ Carried' + Queued' + droppedSamples' = Carried + Queued + droppedSamples
    <2>1. {Carrying, Carrying', Results, Results', Queued, Queued', droppedSamples,
           droppedSamples'} \subseteq Nat
      BY <1>1 DEF FlowQuantities
    <2>2. CASE ConsumerGet
      <3>1. Results' = Results - 1
        BY <1>4, <2>2, HeadTailProperties DEF ConsumerGet, Results
      <3>2. Carrying = 0 /\ Carrying' = 1
        <4>1. consuming = Nothing /\ consuming' \in Nat
          BY <1>4, <2>2, HeadTailProperties DEF ConsumerGet
        <4> QED
          BY <1>4, <4>1 DEF Carrying
      <3>3. Queued' = Queued /\ UNCHANGED <<queue, droppedSamples>>
        BY <2>2 DEF ConsumerGet, Queued, mq
      <3>4. NoneIsLast'
        BY <1>3, <3>3 DEF FlowInv, NoneIsLast
      <3> QED
        BY ONLY <2>1, <3>1, <3>2, <3>3, <3>4 DEF Carried
    <2>3. CASE ConsumerPut
      <3>1. consuming # Nothing /\ consuming' = Nothing /\ MQ!PutSample(consuming)
            /\ resultQueue' = resultQueue
        BY <2>3 DEF ConsumerPut
      <3>2. Carrying = 1 /\ Carrying' = 0 /\ Results' = Results
        BY <3>1 DEF Carrying, Results
      <3>3. /\ Len(queue') + droppedSamples' = Len(queue) + droppedSamples + 1
            /\ queue'[Len(queue')] = consuming
            /\ \A i \in 1..Len(queue') :
                 i # Len(queue') => \E j \in 1..Len(queue) : queue'[i] = queue[j]
        BY <1>1, <1>4, <3>1, PutFlow DEF FlowQuantities
      <3>4. ~Pending /\ ~Pending'
        BY <1>3, <3>1 DEF EndInv, SentinelIsLast, Pending
      <3>5. \A j \in 1..Len(queue) : queue[j] # Nothing
        BY <3>4 DEF FlowInv, NoneIsLast
      <3>6. ASSUME NEW i \in 1..Len(queue')
            PROVE  queue'[i] # Nothing
        BY ONLY <3>1, <3>3, <3>5, <3>6
      <3>7. NoneIsLast'
        BY <3>4, <3>6 DEF NoneIsLast
      <3>8. Queued' + droppedSamples' = Queued + droppedSamples + 1
        BY <3>3 DEF Queued
      <3>9. Carried' + Queued' + droppedSamples' = Carried + Queued + droppedSamples
        BY ONLY <2>1, <3>2, <3>8 DEF Carried
      <3> QED
        BY <3>7, <3>9
    <2> QED
      BY <2>2, <2>3 DEF Consumer
  <1>6. Balanced'
    <2>1. {Held, cancelQueue, Carried, Carried', Fetched, Awaited, Queued, Queued',
           droppedSamples, droppedSamples', trained, got} \subseteq Nat
      BY <1>1 DEF FlowQuantities
    <2>2. Balanced
      BY DEF FlowInv
    <2> QED
      BY ONLY <1>2, <1>3, <1>5, <2>1, <2>2 DEF Balanced
  <1> QED
    BY <1>3, <1>5, <1>6 DEF FlowInv

LEMMA FlowMain == TypeInv /\ FlowInv /\ Main => FlowInv'
  <1> SUFFICES ASSUME TypeInv, FlowInv, Main
               PROVE  FlowInv'
    OBVIOUS
  <1>1. FlowQuantities /\ FlowQuantities'
    BY MainType, FlowTypes, FlowTypesNext
  <1>2. UNCHANGED <<ppc, running, cancelQueue, resultQueue, consuming, tpc, validate, trained,
                    got, taken>>
    BY Frames DEF rollout, trainer
  <1>3. /\ SentinelTaken' = SentinelTaken
        /\ Held' = Held /\ Carried' = Carried /\ Fetched' = Fetched
    BY <1>2 DEF SentinelTaken, Held, Hand, InHand, Fetched, Carried, Carrying, Results
  <1>4. queue \in Seq(Samples) /\ Nothing \in Samples
    BY DEF TypeInv, TypeOK, QueueTypeOK, Samples
  <1>5. /\ NoneIsLast'
        /\ SentinelTaken' => HasSentinel'
        /\ Queued' + droppedSamples' + Awaited = Queued + droppedSamples + Awaited'
    <2>1. {Queued, Queued', droppedSamples, droppedSamples', Awaited, Awaited'} \subseteq Nat
      BY <1>1 DEF FlowQuantities
    <2>2. CASE MainSentinel
      <3>1. /\ Len(queue') + droppedSamples' = Len(queue) + droppedSamples + 1
            /\ Len(queue') > 0
            /\ queue'[Len(queue')] = Nothing
            /\ \A i \in 1..Len(queue') :
                 i # Len(queue') => \E j \in 1..Len(queue) : queue'[i] = queue[j]
        BY <1>1, <1>4, <2>2, PutFlow DEF MainSentinel, FlowQuantities
      <3>2. ~HasSentinel /\ HasSentinel'
        BY <2>2 DEF MainSentinel, HasSentinel
      <3>3. ~Pending /\ Pending'
        BY <1>3, <3>2 DEF FlowInv, Pending
      <3>4. Awaited = 0 /\ Awaited' = 1
        BY <3>3 DEF Awaited
      <3>5. NoneIsLast'
        BY <3>1, <3>3 DEF FlowInv, NoneIsLast
      <3> QED
        BY ONLY <2>1, <3>1, <3>2, <3>4, <3>5 DEF Queued
    <2>3. CASE MainStreamed \/ MainStop \/ MainStopped
      <3>1. UNCHANGED <<queue, droppedSamples>> /\ HasSentinel' = HasSentinel
        BY <2>3 DEF MainStreamed, MainStop, MainStopped, mq, HasSentinel
      <3>2. Pending' = Pending /\ Awaited' = Awaited /\ Queued' = Queued
        BY <1>3, <3>1 DEF Pending, Awaited, Queued
      <3> QED
        BY <1>3, <2>1, <3>1, <3>2 DEF FlowInv, NoneIsLast
    <2> QED
      BY <2>2, <2>3 DEF Main
  <1>6. Balanced'
    <2>1. {Held, cancelQueue, Carried, Fetched, Awaited, Awaited', Queued, Queued',
           droppedSamples, droppedSamples', trained, got} \subseteq Nat
      BY <1>1 DEF FlowQuantities
    <2>2. Balanced
      BY DEF FlowInv
    <2> QED
      BY ONLY <1>2, <1>3, <1>5, <2>1, <2>2 DEF Balanced
  <1> QED
    BY <1>5, <1>6 DEF FlowInv

\* The trainer takes the sentinel only when it is the last entry.
LEMMA FlowTrainer == TypeInv /\ TrainInv /\ FlowInv /\ Trainer => FlowInv'
  <1> SUFFICES ASSUME TypeInv, TrainInv, FlowInv, Trainer
               PROVE  FlowInv'
    OBVIOUS
  <1>1. FlowQuantities /\ FlowQuantities'
    BY TrainerType, FlowTypes, FlowTypesNext
  <1>2. UNCHANGED <<ppc, running, cancelQueue, resultQueue, consuming, mainpc, taken>>
    BY Frames
  <1>3. /\ HasSentinel' = HasSentinel
        /\ Held' = Held /\ Carried' = Carried /\ Fetched' = Fetched
    BY <1>2 DEF HasSentinel, Held, Hand, InHand, Fetched, Carried, Carrying, Results
  <1>4. queue \in Seq(Samples) /\ Nothing \notin Nat
    BY ConfigAssumption DEF TypeInv, TypeOK, QueueTypeOK, Samples
  <1>5. /\ NoneIsLast' /\ (SentinelTaken' => HasSentinel') /\ droppedSamples' = droppedSamples
        /\ Queued' + trained' + got' + Awaited = Queued + trained + got + Awaited'
    <2>1. {Queued, Queued', trained, trained', got, got', Awaited, Awaited'} \subseteq Nat
      BY <1>1 DEF FlowQuantities
    <2>2. CASE TrainerGet
      <3>1. /\ tpc = "collect" /\ queue # <<>> /\ queue' = Tail(queue) /\ ~validate
            /\ UNCHANGED <<trained, validate, droppedSamples>>
        BY <2>2 DEF TrainerGet, MQ!TakeSample, TrainInv
      <3>2. /\ Len(queue) \in Nat /\ Len(queue) > 0 /\ Len(queue') = Len(queue) - 1
            /\ Head(queue) = queue[1]
            /\ \A i \in 1..Len(queue') : queue'[i] = queue[i + 1]
        BY <1>4, <3>1, HeadTailProperties, LenProperties
      <3>3. Queued' = Queued - 1 /\ ~SentinelTaken
        BY <3>1, <3>2 DEF Queued, SentinelTaken
      <3>4. CASE Head(queue) = Nothing
        <4>1. Len(queue) = 1 /\ Pending
          BY <3>2, <3>4 DEF FlowInv, NoneIsLast
        <4>2. tpc' = "finish" /\ got' = got
          BY <2>2, <3>4 DEF TrainerGet
        <4>3. SentinelTaken' /\ ~Pending' /\ HasSentinel' /\ Awaited = 1 /\ Awaited' = 0
          BY <1>3, <4>1, <4>2 DEF SentinelTaken, Pending, Awaited
        <4>4. NoneIsLast'
          BY <3>2, <4>1, <4>3 DEF NoneIsLast
        <4> QED
          BY ONLY <2>1, <3>1, <3>3, <4>2, <4>3, <4>4
      <3>5. CASE Head(queue) # Nothing
        <4>1. tpc' \in {"train", "collect"} /\ got' = got + 1
          BY <2>2, <3>5 DEF TrainerGet
        <4>2. ~SentinelTaken' /\ Pending' = Pending /\ Awaited' = Awaited
          BY <1>3, <3>1, <3>3, <4>1 DEF SentinelTaken, Pending, Awaited
        <4>3. ASSUME NEW i \in 1..Len(queue')
              PROVE  queue'[i] = Nothing <=> i = Len(queue') /\ Pending'
          <5>1. i + 1 \in 1..Len(queue) /\ (i + 1 = Len(queue) <=> i = Len(queue'))
            BY <3>2
          <5> QED
            BY <3>2, <4>2, <5>1 DEF FlowInv, NoneIsLast
        <4>4. Pending' => queue' # <<>>
          <5>1. Pending' => Len(queue) # 1
            BY <3>2, <3>5, <4>2 DEF FlowInv, NoneIsLast
          <5> QED
            BY <3>2, <5>1
        <4>5. NoneIsLast'
          BY <4>3, <4>4 DEF NoneIsLast
        <4> QED
          BY <2>1, <3>1, <3>3, <4>1, <4>2, <4>5
      <3> QED
        BY <3>4, <3>5
    <2>3. CASE ~TrainerGet
      <3>1. UNCHANGED <<queue, droppedSamples>> /\ SentinelTaken' = SentinelTaken
        BY <2>3
        DEF Trainer, TrainerStep, TrainerFinish, SyncPause, BeginPause, PauseGranted, PauseEnd,
            SyncWeights, TrainerValidation, TrainerFinal, MQ!UpdateParamVersion,
            MQ!GetValidate, mq, SentinelTaken
      <3>2. Pending' = Pending /\ Awaited' = Awaited /\ Queued' = Queued
        BY <1>3, <3>1 DEF Pending, Awaited, Queued
      <3>3. trained' + got' = trained + got
        <4>1. CASE TrainerStep
          <5>1. got = Required /\ got' = 0 /\ trained' = trained + Required
            BY <4>1 DEF TrainerStep, TrainInv
          <5> QED
            BY ONLY <2>1, <5>1
        <4>2. CASE ~TrainerStep
          BY <2>3, <4>2
          DEF Trainer, TrainerFinish, SyncPause, PauseGranted, PauseEnd, SyncWeights,
              TrainerValidation, TrainerFinal
        <4> QED
          BY <4>1, <4>2
      <3>4. NoneIsLast' /\ (SentinelTaken' => HasSentinel')
        BY <1>3, <3>1, <3>2 DEF FlowInv, NoneIsLast
      <3> QED
        BY ONLY <2>1, <3>1, <3>2, <3>3, <3>4
    <2> QED
      BY <2>2, <2>3
  <1>6. Balanced'
    <2>1. {Held, cancelQueue, Carried, Fetched, Awaited, Awaited', Queued, Queued',
           droppedSamples, trained, trained', got, got'} \subseteq Nat
      BY <1>1 DEF FlowQuantities
    <2>2. Balanced
      BY DEF FlowInv
    <2> QED
      BY ONLY <1>2, <1>3, <1>5, <2>1, <2>2 DEF Balanced
  <1> QED
    BY <1>5, <1>6 DEF FlowInv

LEMMA FlowOthers == FlowInv /\ (Monitor \/ Update \/ UNCHANGED vars) => FlowInv'
  <1> SUFFICES ASSUME FlowInv, Monitor \/ Update \/ UNCHANGED vars
               PROVE  FlowInv'
    OBVIOUS
  <1>1. /\ UNCHANGED <<queue, droppedSamples, resultQueue, consuming, running, cancelQueue,
                       mainpc, tpc, validate, trained, got, taken>>
        /\ ppc' \in {ppc, Notified}
    BY Frames DEF vars, mq, rollout, trainer
  <1>2. Hand' = Hand
    BY <1>1 DEF Hand, InHand, Notified
  <1> QED
    BY <1>1, <1>2
    DEF FlowInv, Balanced, NoneIsLast, Fetched, Awaited, Pending, SentinelTaken, HasSentinel,
        Held, Carried, Carrying, Results, Queued

LEMMA FlowNext ==
    TypeInv /\ TrainInv /\ EndInv /\ FlowInv /\ FirstInv' /\ [Next]_vars => FlowInv'
  BY FlowProcessor, FlowTask, FlowConsumer, FlowMain, FlowTrainer, FlowOthers
  DEF Next, Terminated

\* The sentinel is the last entry of the message queue that is ever read: nothing is
\* left behind it, and nothing is put after it.
TakenLast == SentinelTaken => queue = <<>>

LEMMA TakenNext ==
    TypeInv /\ TrainInv /\ EndInv /\ FlowInv /\ TakenLast /\ [Next]_vars => TakenLast'
  <1> SUFFICES ASSUME TypeInv, TrainInv, EndInv, FlowInv, TakenLast, [Next]_vars
               PROVE  TakenLast'
    OBVIOUS
  <1>1. CASE UNCHANGED <<queue, tpc, validate>>
    BY <1>1 DEF TakenLast, SentinelTaken
  <1>2. CASE Processor \/ Task \/ Monitor \/ Update \/ UNCHANGED vars
    <2>1. UNCHANGED <<queue, tpc, validate>>
      BY <1>2, ProcessorFrame, Frames DEF mq, trainer, vars
    <2> QED
      BY <1>1, <2>1
  <1>3. CASE Consumer
    <2>1. UNCHANGED <<tpc, validate>>
      BY <1>3, Frames DEF trainer
    <2>2. CASE ConsumerGet
      BY <1>1, <2>1, <2>2 DEF ConsumerGet, mq
    <2>3. CASE ConsumerPut
      <3>1. ~HasSentinel
        BY <2>3 DEF ConsumerPut, EndInv, SentinelIsLast
      <3>2. ~SentinelTaken'
        BY <2>1, <3>1 DEF FlowInv, SentinelTaken
      <3> QED
        BY <3>2 DEF TakenLast
    <2> QED
      BY <1>3, <2>2, <2>3 DEF Consumer
  <1>4. CASE Main
    <2>1. UNCHANGED <<tpc, validate>>
      BY <1>4, Frames DEF trainer
    <2>2. CASE MainSentinel
      <3>1. ~HasSentinel
        BY <2>2 DEF MainSentinel, HasSentinel
      <3>2. ~SentinelTaken'
        BY <2>1, <3>1 DEF FlowInv, SentinelTaken
      <3> QED
        BY <3>2 DEF TakenLast
    <2>3. CASE MainStreamed \/ MainStop \/ MainStopped
      BY <1>1, <2>1, <2>3 DEF MainStreamed, MainStop, MainStopped, mq
    <2> QED
      BY <1>4, <2>2, <2>3 DEF Main
  <1>5. CASE Trainer
    <2>1. CASE TrainerGet
      <3>1. /\ tpc = "collect" /\ queue # <<>> /\ queue' = Tail(queue) /\ ~validate
            /\ validate' = validate
        BY <2>1 DEF TrainerGet, MQ!TakeSample, TrainInv
      <3>2. /\ queue \in Seq(Samples) /\ Len(queue) \in Nat /\ Len(queue) > 0
            /\ Head(queue) = queue[1] /\ Len(Tail(queue)) = Len(queue) - 1
            /\ Tail(queue) \in Seq(Samples)
        BY <3>1, HeadTailProperties, LenProperties DEF TypeInv, TypeOK, QueueTypeOK, Samples
      <3>3. CASE Head(queue) = Nothing
        <4>1. Len(queue) = 1
          <5>1. 1 \in 1..Len(queue) /\ queue[1] = Nothing
            BY <3>2, <3>3
          <5>2. NoneIsLast
            BY DEF FlowInv
          <5> QED
            BY ONLY <5>1, <5>2 DEF NoneIsLast
        <4>2. queue' = <<>>
          <5>1. Len(Tail(queue)) = 0 /\ Tail(queue) \in Seq(Samples)
            BY <3>2, <4>1
          <5>2. Tail(queue) = <<>>
            BY ONLY <5>1, EmptySeq
          <5> QED
            BY <3>1, <5>2
        <4> QED
          BY <4>2 DEF TakenLast
      <3>4. CASE Head(queue) # Nothing
        <4>1. tpc' \in {"train", "collect"}
          BY <2>1, <3>4 DEF TrainerGet
        <4>2. ~SentinelTaken'
          BY <3>1, <4>1 DEF SentinelTaken
        <4> QED
          BY <4>2 DEF TakenLast
      <3> QED
        BY <3>3, <3>4
    <2>2. CASE ~TrainerGet
      <3>1. queue' = queue /\ SentinelTaken' = SentinelTaken
        BY <1>5, <2>2
        DEF Trainer, TrainerStep, TrainerFinish, SyncPause, BeginPause, PauseGranted, PauseEnd,
            SyncWeights, TrainerValidation, TrainerFinal, MQ!UpdateParamVersion,
            MQ!GetValidate, mq, SentinelTaken
      <3> QED
        BY <3>1 DEF TakenLast
    <2> QED
      BY <2>1, <2>2
  <1> QED
    BY <1>2, <1>3, <1>4, <1>5 DEF Next, Terminated

LEMMA SpecTrain == Spec => []TrainInv
  BY TrainInit, TrainNext, SpecType, PTL DEF Spec

LEMMA SpecFlow == Spec => [](FlowInv /\ WholeInv)
  BY FlowInit, FlowNext, WholeNext, SpecType, SpecTrain, SpecEnd, SpecFirst, SpecSync, PTL
  DEF Spec

LEMMA SpecTaken == Spec => []TakenLast
  <1>1. Init => TakenLast
    BY DEF Init, MQ!MQInit, TakenLast
  <1> QED
    BY <1>1, TakenNext, SpecType, SpecTrain, SpecEnd, SpecFlow, PTL DEF Spec

\* The samples that have an end, and those left in cancel_queue.
Accounted == trained + got + droppedSamples + cancelQueue = NumSamples

\* _streaming_generation_main: for every configuration, once both sides are done, what has
\* not been trained on, dropped or thrown away with the last batch was interrupted and is
\* still in cancel_queue.
THEOREM OnlyInterruptedLost == Spec => [](Finished => Accounted)
  <1>1. TypeInv /\ EndInv /\ FlowInv /\ TakenLast /\ Finished => Accounted
    <2> SUFFICES ASSUME TypeInv, EndInv, FlowInv, TakenLast, Finished
                 PROVE  Accounted
      OBVIOUS
    <2>1. ppc = "end" /\ HasSentinel /\ running = 0
      BY DEF Finished, EndInv, HasSentinel
    <2>2. Fetched = NumSamples /\ Hand = 0 /\ Carrying = 0 /\ Results = 0
      BY <2>1 DEF EndInv, SentinelIsLast, Fetched, Hand, InHand, Carrying, Results
    <2>3. Awaited = 0 /\ Queued = 0
      BY DEF Finished, Awaited, Pending, SentinelTaken, TakenLast, Queued
    <2>4. {Queued, droppedSamples, trained, got, NumSamples, cancelQueue} \subseteq Nat
      BY FlowTypes DEF FlowQuantities
    <2>5. Balanced
      BY DEF FlowInv
    <2> QED
      BY ONLY <2>1, <2>2, <2>3, <2>4, <2>5 DEF Balanced, Held, Carried, Accounted
  <1> QED
    BY <1>1, SpecType, SpecEnd, SpecFlow, SpecTaken, PTL

LEMMA AccountedWhole == TypeInv /\ (Finished => Accounted) /\ cancelQueue = 0 => NoSampleLost
  <1> SUFFICES ASSUME TypeInv, Finished, Accounted, cancelQueue = 0
               PROVE  trained + got + droppedSamples = NumSamples
    BY DEF NoSampleLost
  <1>1. {droppedSamples, trained, got} \subseteq Nat
    BY FlowTypes DEF FlowQuantities
  <1> QED
    BY <1>1 DEF Accounted

\* _streaming_generation_main: without partial rollout, for every configuration, each
\* sample fed has been trained on, dropped or thrown away once both sides are done.
THEOREM EverySampleAccounted == ASSUME ~Partial PROVE Spec => []NoSampleLost
  <1>1. WholeInv => cancelQueue = 0
    BY ~Partial DEF WholeInv
  <1> QED
    BY <1>1, OnlyInterruptedLost, AccountedWhole, SpecType, SpecFlow, PTL

=============================================================================
