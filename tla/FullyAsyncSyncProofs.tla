------------------------ MODULE FullyAsyncSyncProofs ------------------------
(***************************************************************************)
(* With staleness_threshold = 0 the fully asynchronous recipe is           *)
(* synchronous training, for every number of samples, batch size, steps    *)
(* per version and concurrent samples, and partial rollout has no effect.  *)
(***************************************************************************)
EXTENDS FullyAsyncSync, FullyAsyncProofs

\* int(required * (staleness_threshold + 1) * trigger) for a threshold of 0
ZeroStaleness == MaxRequired = Required * Trigger

PerVersion == Trigger * Required

\* What the versions before the present weights are trained on.
Before == weights * PerVersion

\* From the last batch of a version to the arrival of the next weights.
Syncing == tpc \in {"waitLast", "pause", "gather", "sync"}

\* update_param_version has not reset staleness yet.
Unwritten == upc \in {"update", "updateLock", "count"}

\* A version's quota is fetched under that version, and no more.
QuotaInv ==
    ~validate =>
        /\ taken + (IF Unwritten THEN PerVersion ELSE 0) = Before + staleness
        /\ staleness <= PerVersion
        /\ Updating => taken = Before
        /\ tpc = "sync" \/ Unwritten => unreaped = 0
        /\ upc = "count" => acc = 0

VersionInv ==
    /\ trainVersion = weights + (IF Syncing THEN 1 ELSE 0)
    /\ Syncing => localStep = 1

\* Everything on its way to the trainer is of the present weights.
LabelInv ==
    /\ \A i \in 1..Len(queue) : queue[i] \in {weights, Nothing}
    /\ \A i \in 1..Len(resultQueue) : resultQueue[i] = weights
    /\ consuming \in {weights, Nothing}
    /\ SentinelTaken => queue = <<>>

\* The budget is used up when a version ends, so the monitor has no occasion to
\* resume the rollouter, unless it waited for the lock before.
WindowInv ==
    ~validate /\ Window => paused /\ mpc # "lock" /\ (tpc = "gather" \/ ~monitorTrigger)

PauseOnce(q) == \A i, j \in 1..Len(q) : q[i] = "pause" /\ q[j] = "pause" => i = j
HasPause(q) == \E i \in 1..Len(q) : q[i] = "pause"
MonitorFirst(q) ==
    \E j \in 1..Len(q) : q[j] = "monitor" /\ \A i \in 1..(j - 1) : q[i] # "pause"

\* In which case it comes before pause().
OrderInv ==
    /\ PauseOnce(lockq)
    /\ HasPause(lockq) => tpc \in {"pause", "gather"}
    /\ mpc = "lock" /\ ~validate => MonitorFirst(lockq)

UninterruptedInv == interrupted = 0 /\ cancelQueue = 0

ZeroInv ==
    QuotaInv /\ VersionInv /\ LabelInv /\ WindowInv /\ OrderInv /\ UninterruptedInv

\* What holds of every configuration.
FullInv == TypeInv /\ TrainInv /\ EndInv /\ FirstInv /\ SyncInv /\ FlowInv

LEMMA ZeroTypes ==
    ASSUME TypeInv
    PROVE  /\ {PerVersion, Before, taken, staleness, weights, trained, got, NumSamples, Done,
               unreaped, acc, Required, Trigger, trainVersion, localStep} \subseteq Nat
           /\ PerVersion > 0 /\ Required > 0
           /\ ZeroStaleness => MaxRequired = PerVersion
  <1>1. {taken, staleness, weights, trained, got, NumSamples, Done, unreaped, acc, Required,
         Trigger, trainVersion, localStep} \subseteq Nat
    BY ConfigAssumption
    DEF TypeInv, TypeOK, ProcessorTypeOK, RolloutTypeOK, TrainerTypeOK, Done
  <1>2. Required > 0 /\ Trigger > 0
    BY ConfigAssumption
  <1>3. PerVersion \in Nat /\ PerVersion > 0 /\ PerVersion = Required * Trigger
    BY <1>1, <1>2 DEF PerVersion
  <1>4. Before \in Nat
    BY <1>1, <1>3 DEF Before
  <1> QED
    BY <1>1, <1>2, <1>3, <1>4 DEF ZeroStaleness

\* The versions before the present one have been trained on.
LEMMA TrainedBefore ==
    ASSUME FullInv, VersionInv, ~validate
    PROVE  trained >= Before
  <1>1. {PerVersion, Before, weights, trained, Required, trainVersion, localStep} \subseteq Nat
    BY ZeroTypes DEF FullInv
  <1>2. trained = trainVersion * PerVersion + (localStep - 1) * Required
    BY DEF FullInv, TrainInv, TrainedPerVersion, PerVersion
  <1>3. CASE Syncing
    <2>1. (weights + 1) * PerVersion = Before + PerVersion /\ (1 - 1) * Required = 0
      BY <1>1, Products DEF Before
    <2> QED
      BY <1>1, <1>2, <1>3, <2>1 DEF VersionInv
  <1>4. CASE ~Syncing
    <2>1. (localStep - 1) * Required >= 0 /\ (localStep - 1) * Required \in Int
      <3>1. localStep - 1 \in Nat
        BY DEF FullInv, TypeInv, TypeOK, TrainerTypeOK
      <3> QED
        BY <1>1, <3>1
    <2>2. trainVersion * PerVersion = Before
      BY <1>1, <1>4 DEF VersionInv, Before
    <2> QED
      BY <1>1, <1>2, <2>1, <2>2
  <1> QED
    BY <1>3, <1>4

\* While a version ends and the next one begins nothing is on its way.
LEMMA Emptied ==
    ASSUME ZeroStaleness, FullInv, QuotaInv, VersionInv, ~validate, Syncing \/ Updating
    PROVE  /\ Held = 0 /\ cancelQueue = 0 /\ Carried = 0 /\ Queued = 0 /\ got = 0
           /\ droppedSamples = 0 /\ Fetched = taken /\ trained = taken
           /\ Syncing => /\ upc = "none" /\ staleness = MaxRequired
                         /\ taken = Before + PerVersion
  <1>1. /\ {PerVersion, Before, taken, staleness, weights, trained, got, NumSamples, Done,
            Required, Trigger, trainVersion, localStep} \subseteq Nat
        /\ PerVersion > 0 /\ MaxRequired = PerVersion
    BY ZeroTypes DEF FullInv
  <1>2. {Fetched, Awaited, Held, cancelQueue, Carried, Queued, droppedSamples} \subseteq Nat
    BY FlowTypes DEF FullInv, FlowQuantities
  <1>3. trained = trainVersion * PerVersion + (localStep - 1) * Required
    BY DEF FullInv, TrainInv, TrainedPerVersion, PerVersion
  <1>4. Syncing => trained = Before + PerVersion
    <2>1. (weights + 1) * PerVersion = Before + PerVersion /\ (1 - 1) * Required = 0
      BY <1>1, Products DEF Before
    <2> QED
      BY <1>1, <1>3, <2>1 DEF VersionInv
  <1>5. trained >= Before
    BY TrainedBefore
  <1>6. /\ taken + (IF Unwritten THEN PerVersion ELSE 0) = Before + staleness
        /\ staleness <= PerVersion /\ (Updating => taken = Before)
    BY DEF QuotaInv
  <1>7. Syncing /\ upc = "none" => taken <= Before + PerVersion
    BY <1>1, <1>6 DEF Unwritten
  <1>8. Fetched <= taken /\ (Awaited > 0 => Queued > 0) /\ (Fetched # taken => Fetched < taken)
    <2>1. Fetched <= taken /\ (Fetched # taken => Fetched < taken)
      BY <1>1 DEF Fetched, Done
    <2>2. Awaited > 0 => Queued > 0
      <3>1. queue \in Seq(Samples)
        BY DEF FullInv, TypeInv, TypeOK, QueueTypeOK, Samples
      <3> QED
        BY <3>1 DEF Awaited, Queued, FullInv, FlowInv, NoneIsLast
    <2> QED
      BY <2>1, <2>2
  <1>9. Awaited <= 1
    BY DEF Awaited
  <1>10. Fetched + Awaited =
           Held + cancelQueue + Carried + Queued + droppedSamples + trained + got
    BY DEF FullInv, FlowInv, Balanced
  <1>11. Syncing => upc = "none"
    BY <1>1, <1>2, <1>4, <1>6, <1>8, <1>9, <1>10 DEF Updating
  <1>12. taken <= trained
    BY <1>1, <1>4, <1>5, <1>6, <1>7, <1>11
  <1>13. /\ Held = 0 /\ cancelQueue = 0 /\ Carried = 0 /\ Queued <= 1 /\ got = 0
         /\ droppedSamples = 0 /\ Queued = Awaited /\ Fetched = taken /\ trained = taken
    BY ONLY <1>1, <1>2, <1>8, <1>9, <1>10, <1>12
  <1>14. Awaited = 0
    <2>1. Awaited # 0 => taken = Done
      BY DEF Awaited, Pending, HasSentinel, FullInv, EndInv
    <2> QED
      BY <1>1, <1>13, <2>1 DEF Fetched, Done
  <1>15. Syncing => staleness = MaxRequired /\ taken = Before + PerVersion
    BY ONLY <1>1, <1>4, <1>6, <1>11, <1>13 DEF Unwritten
  <1> QED
    BY <1>11, <1>13, <1>14, <1>15

LEMMA NothingOnItsWay ==
    ASSUME ZeroStaleness, FullInv, ZeroInv,
           Syncing \/ Updating \/ SentinelTaken
    PROVE  /\ running = 0 /\ resultQueue = <<>> /\ consuming = Nothing /\ queue = <<>>
           /\ ~validate => ~InHand
  <1>1. /\ queue \in Seq(Samples) /\ resultQueue \in Seq(Nat) /\ running \in Nat
        /\ consuming \in Samples
    BY DEF FullInv, TypeInv, TypeOK, QueueTypeOK, ProcessorTypeOK, RolloutTypeOK, Samples
  <1>2. CASE ~validate /\ (Syncing \/ Updating)
    <2>1. Held = 0 /\ Carried = 0 /\ Queued = 0
      BY <1>2, Emptied DEF ZeroInv
    <2>2. Hand \in Nat /\ Carrying \in Nat /\ Results \in Nat
      BY <1>1 DEF Hand, Carrying, Results
    <2>3. Hand = 0 /\ running = 0 /\ Carrying = 0 /\ Results = 0
      BY <1>1, <2>1, <2>2 DEF Held, Carried
    <2> QED
      BY <1>1, <2>1, <2>3 DEF Hand, Carrying, Results, Queued
  <1>3. CASE SentinelTaken
    <2>1. HasSentinel /\ queue = <<>>
      BY <1>3 DEF FullInv, FlowInv, ZeroInv, LabelInv
    <2>2. ppc = "end"
      BY <2>1 DEF FullInv, EndInv, HasSentinel
    <2> QED
      BY <2>1, <2>2 DEF FullInv, EndInv, SentinelIsLast, InHand
  <1> QED
    BY <1>2, <1>3 DEF SentinelTaken

-----------------------------------------------------------------------------
(* The order of the lock.                                                   *)

LEMMA AppendOrder ==
    ASSUME NEW q \in Seq(Clients), NEW client \in Clients
    PROVE  /\ HasPause(Append(q, client)) <=> HasPause(q) \/ client = "pause"
           /\ PauseOnce(q) /\ (client = "pause" => ~HasPause(q)) => PauseOnce(Append(q, client))
           /\ MonitorFirst(q) \/ (client = "monitor" /\ ~HasPause(q)) =>
                MonitorFirst(Append(q, client))
  <1>1. PICK r : r = Append(q, client)
    OBVIOUS
  <1>2. /\ Len(r) = Len(q) + 1 /\ Len(q) \in Nat /\ r[Len(q) + 1] = client
        /\ \A i \in 1..Len(q) : r[i] = q[i]
    BY <1>1, AppendProperties
  <1>3. 1..Len(r) = 1..Len(q) \union {Len(q) + 1} /\ Len(q) + 1 \notin 1..Len(q)
    BY <1>2
  <1>4. HasPause(r) <=> HasPause(q) \/ client = "pause"
    BY <1>2, <1>3 DEF HasPause
  <1>5. PauseOnce(q) /\ (client = "pause" => ~HasPause(q)) => PauseOnce(r)
    BY <1>2, <1>3 DEF PauseOnce, HasPause
  <1>6. MonitorFirst(q) => MonitorFirst(r)
    BY <1>2 DEF MonitorFirst
  <1>7. client = "monitor" /\ ~HasPause(q) => MonitorFirst(r)
    BY <1>2 DEF MonitorFirst, HasPause
  <1> QED
    BY <1>1, <1>4, <1>5, <1>6, <1>7

LEMMA TailOrder ==
    ASSUME NEW q \in Seq(Clients), q # <<>>
    PROVE  /\ Tail(q) \in Seq(Clients)
           /\ HasPause(Tail(q)) => HasPause(q)
           /\ PauseOnce(q) => /\ PauseOnce(Tail(q))
                              /\ Head(q) = "pause" => ~HasPause(Tail(q))
           /\ MonitorFirst(q) => /\ Head(q) # "pause"
                                 /\ Head(q) # "monitor" => MonitorFirst(Tail(q))
  <1>1. PICK r \in Seq(Clients) : r = Tail(q)
    BY HeadTailProperties
  <1>2. /\ Len(q) \in Nat /\ Len(q) > 0 /\ Len(r) = Len(q) - 1 /\ Head(q) = q[1]
        /\ \A i \in 1..Len(r) : r[i] = q[i + 1]
    BY <1>1, HeadTailProperties, LenProperties
  <1>3. HasPause(r) => HasPause(q)
    BY <1>2 DEF HasPause
  <1>4. PauseOnce(q) => PauseOnce(r)
    BY <1>2 DEF PauseOnce
  <1>5. PauseOnce(q) /\ Head(q) = "pause" => ~HasPause(r)
    BY <1>2 DEF PauseOnce, HasPause
  <1>6. ASSUME MonitorFirst(q)
        PROVE  Head(q) # "pause" /\ (Head(q) # "monitor" => MonitorFirst(r))
    <2>1. PICK j \in 1..Len(q) : q[j] = "monitor" /\ \A i \in 1..(j - 1) : q[i] # "pause"
      BY <1>6 DEF MonitorFirst
    <2>2. Head(q) # "pause"
      BY <1>2, <2>1
    <2>3. CASE Head(q) # "monitor"
      <3>1. j - 1 \in 1..Len(r) /\ r[j - 1] = "monitor"
        BY <1>2, <2>1, <2>3
      <3>2. \A i \in 1..((j - 1) - 1) : r[i] # "pause"
        BY <1>2, <2>1
      <3> QED
        BY <2>2, <3>1, <3>2 DEF MonitorFirst
    <2> QED
      BY <2>2, <2>3
  <1> QED
    BY <1>1, <1>3, <1>4, <1>5, <1>6

\* What a step for one client makes of the lock's queue.
Moved(client) ==
    \/ lockq' = lockq
    \/ lockq' = Append(lockq, client)
    \/ Holds(client) /\ lockq' \in {Release, Append(Release, client)}

\* The order of pause() and the monitor is theirs to change.
LEMMA OrderKept ==
    ASSUME lockq \in Seq(Clients), OrderInv, NEW client \in Clients \ {"pause", "monitor"},
           Moved(client), UNCHANGED <<tpc, mpc, validate>>
    PROVE  OrderInv'
  <1>1. CASE lockq' = lockq
    BY <1>1 DEF OrderInv
  <1>2. CASE lockq' = Append(lockq, client)
    BY <1>2, AppendOrder DEF OrderInv
  <1>3. CASE Holds(client) /\ lockq' \in {Release, Append(Release, client)}
    <2>1. lockq # <<>> /\ Head(lockq) = client
      BY <1>3 DEF Holds
    <2>2. /\ Release \in Seq(Clients) /\ PauseOnce(Release)
          /\ HasPause(Release) => tpc \in {"pause", "gather"}
          /\ mpc = "lock" /\ ~validate => MonitorFirst(Release)
      BY <2>1, TailOrder DEF OrderInv, Release
    <2>3. /\ PauseOnce(Append(Release, client))
          /\ HasPause(Append(Release, client)) => tpc \in {"pause", "gather"}
          /\ mpc = "lock" /\ ~validate => MonitorFirst(Append(Release, client))
      BY <2>2, AppendOrder
    <2> QED
      BY <1>3, <2>2, <2>3 DEF OrderInv
  <1> QED
    BY <1>1, <1>2, <1>3 DEF Moved

-----------------------------------------------------------------------------
(* The steps.                                                               *)

\* The processor's steps on the lock, and the one that fetches.
LEMMA ProcessorMoves ==
    ASSUME TypeInv, Processor
    PROVE  /\ Moved("proc")
           /\ unreaped' \in {unreaped, 0}
           /\ cancelQueue' = cancelQueue \/ cancelQueue > 0
           /\ \/ UNCHANGED <<taken, staleness>>
              \/ /\ ~paused /\ ~ShouldPause
                 /\ taken' = taken + 1 /\ staleness' = staleness + 1
  <1>1. lockq = <<>> \/ lockq # <<>>
    OBVIOUS
  <1>2. CASE ProcPause \/ ProcWake \/ ProcResume \/ ProcFetch
    <2>1. Moved("proc")
      BY <1>2 DEF ProcPause, ProcWake, ProcResume, ProcFetch, Enter, Granted, Moved
    <2>2. unreaped' = unreaped
      BY <1>2 DEF ProcPause, ProcWake, ProcResume, ProcFetch
    <2> QED
      BY <1>2, <2>1, <2>2 DEF ProcPause, ProcWake, ProcResume, ProcFetch
  <1>3. CASE ProcMark \/ ProcReap \/ ProcNothingToReap \/ ProcGranted
    <2>1. Moved("proc")
      BY <1>3 DEF ProcMark, ProcReap, ProcNothingToReap, ProcGranted, Enter, Granted, Moved
    <2> QED
      BY <1>3, <2>1 DEF ProcMark, ProcReap, ProcNothingToReap, ProcGranted
  <1> QED
    BY <1>2, <1>3 DEF Processor

LEMMA ZeroProcessor ==
    ASSUME ZeroStaleness, FullInv, ZeroInv, Processor
    PROVE  ZeroInv'
  <1>1. /\ UNCHANGED <<queue, resultQueue, consuming, mainpc, mpc, interrupted, monitorTrigger,
                       weights, upc, acc, tpc, trainVersion, localStep, validate>>
        /\ paused => paused'
    BY ProcessorFrame, PausedStartsNothing DEF mq, sync, trainer, FullInv
  <1>2. /\ Moved("proc") /\ unreaped' \in {unreaped, 0} /\ cancelQueue' = cancelQueue
        /\ \/ UNCHANGED <<taken, staleness>>
           \/ /\ ~paused /\ ~ShouldPause
              /\ taken' = taken + 1 /\ staleness' = staleness + 1
    BY ProcessorMoves DEF FullInv, ZeroInv, UninterruptedInv
  <1>3. UNCHANGED <<SentinelTaken, Syncing, Window, Updating, Unwritten, Before>>
    BY <1>1 DEF SentinelTaken, Syncing, Window, Updating, Unwritten, Before
  <1>4. LabelInv' /\ VersionInv' /\ WindowInv' /\ UninterruptedInv'
    BY <1>1, <1>2, <1>3
    DEF ZeroInv, LabelInv, VersionInv, WindowInv, UninterruptedInv
  <1>5. OrderInv'
    <2>1. lockq \in Seq(Clients) /\ "proc" \in Clients \ {"pause", "monitor"}
      BY DEF FullInv, TypeInv, TypeOK, ProcessorTypeOK, Clients
    <2> QED
      BY <1>1, <1>2, <2>1, OrderKept DEF ZeroInv
  <1>6. QuotaInv'
    <2>1. CASE UNCHANGED <<taken, staleness>>
      BY <1>1, <1>2, <1>3, <2>1 DEF ZeroInv, QuotaInv
    <2>2. CASE ~paused /\ ~ShouldPause /\ taken' = taken + 1 /\ staleness' = staleness + 1
      <3>1. /\ {PerVersion, Before, taken, staleness} \subseteq Nat /\ MaxRequired = PerVersion
        BY ZeroTypes DEF FullInv
      <3>2. staleness' <= PerVersion
        BY <2>2, <3>1 DEF ShouldPause
      <3>3. ~validate => ~Updating
        BY <2>2 DEF ZeroInv, WindowInv, Window
      <3> QED
        BY <1>1, <1>2, <1>3, <2>2, <3>1, <3>2, <3>3 DEF ZeroInv, QuotaInv
    <2> QED
      BY <1>2, <2>1, <2>2
  <1> QED
    BY <1>4, <1>5, <1>6 DEF ZeroInv

\* A sample finishes under the weights it is labelled with.
LEMMA ZeroTask ==
    ASSUME ZeroStaleness, FullInv, ZeroInv, Task
    PROVE  ZeroInv' /\ TaskFinish /\ ~Syncing /\ ~Updating /\ ~SentinelTaken
  <1>1. interrupted = 0 /\ cancelQueue = 0 /\ running \in Nat
    BY DEF ZeroInv, UninterruptedInv, FullInv, TypeInv, TypeOK, ProcessorTypeOK
  <1>2. running > 0
    BY <1>1 DEF Task, TaskFinish, TaskInterrupt, TaskCancel
  <1>3. ~Syncing /\ ~Updating /\ ~SentinelTaken
    BY <1>1, <1>2, NothingOnItsWay
  <1>4. ~serversPaused /\ version = weights
    BY <1>3 DEF FullInv, SyncInv, Window, Syncing, Updating
  <1>5. TaskFinish
    BY <1>1, <1>4 DEF Task, TaskInterrupt, TaskCancel
  <1>6. /\ UNCHANGED <<queue, consuming, mainpc, mpc, interrupted, cancelQueue, monitorTrigger,
                       paused, lockq, weights, upc, acc, tpc, trainVersion, localStep, validate,
                       taken, staleness>>
        /\ resultQueue' = Append(resultQueue, weights)
    BY <1>4, <1>5 DEF TaskFinish, mq, control, sync, trainer
  <1>7. UNCHANGED <<SentinelTaken, Syncing, Window, Updating, Unwritten, Before>>
    BY <1>6 DEF SentinelTaken, Syncing, Window, Updating, Unwritten, Before
  <1>8. VersionInv' /\ WindowInv' /\ UninterruptedInv' /\ OrderInv'
    BY <1>6, <1>7 DEF ZeroInv, VersionInv, WindowInv, UninterruptedInv, OrderInv
  <1>9. QuotaInv'
    BY <1>3, <1>6, <1>7 DEF ZeroInv, QuotaInv, Syncing, Updating, Unwritten
  <1>10. LabelInv'
    <2>1. resultQueue \in Seq(Nat) /\ weights \in Nat
      BY DEF FullInv, TypeInv, TypeOK, RolloutTypeOK
    <2>2. /\ Len(resultQueue') = Len(resultQueue) + 1
          /\ \A i \in 1..Len(resultQueue) : resultQueue'[i] = resultQueue[i]
          /\ resultQueue'[Len(resultQueue) + 1] = weights
      BY <1>6, <2>1, AppendProperties
    <2>3. \A i \in 1..Len(resultQueue') : resultQueue'[i] = weights'
      BY <1>6, <2>1, <2>2 DEF ZeroInv, LabelInv
    <2> QED
      BY <1>6, <1>7, <2>3 DEF ZeroInv, LabelInv
  <1> QED
    BY <1>3, <1>5, <1>8, <1>9, <1>10 DEF ZeroInv

\* put_sample keeps the labels.
LEMMA PutLabels ==
    ASSUME FullInv, ZeroInv, NEW sample \in Samples, sample \in {weights, Nothing},
           MQ!PutSample(sample)
    PROVE  \A i \in 1..Len(queue') : queue'[i] \in {weights, Nothing}
  <1>1. queue \in Seq(Samples) /\ droppedSamples \in Nat
    BY DEF FullInv, TypeInv, TypeOK, QueueTypeOK, Samples
  <1>2. /\ queue'[Len(queue')] = sample
        /\ \A i \in 1..Len(queue') :
             i # Len(queue') => \E j \in 1..Len(queue) : queue'[i] = queue[j]
    BY <1>1, PutFlow
  <1> QED
    BY <1>2 DEF ZeroInv, LabelInv

LEMMA ZeroConsumer ==
    ASSUME ZeroStaleness, FullInv, ZeroInv, Consumer \/ Main
    PROVE  ZeroInv'
  <1>1. UNCHANGED <<taken, ppc, interrupted, rollout, mpc, control, staleness, sync, trainer>>
    BY Frames
  <1>2. UNCHANGED <<Syncing, Window, Updating, Unwritten, Before, SentinelTaken>>
    BY <1>1 DEF Syncing, Window, Updating, Unwritten, Before, SentinelTaken, sync, trainer
  <1>3. QuotaInv' /\ VersionInv' /\ WindowInv' /\ UninterruptedInv'
    BY <1>1, <1>2
    DEF ZeroInv, QuotaInv, VersionInv, WindowInv, UninterruptedInv, rollout, control, sync,
        trainer
  <1>4. OrderInv'
    <2>1. Moved("main")
      <3>1. CASE Consumer
        BY <3>1, Frames DEF Moved
      <3>2. CASE Main
        BY <3>2 DEF Main, MainStreamed, MainSentinel, MainStop, MainStopped, Want, Moved
      <3> QED
        BY <3>1, <3>2
    <2>2. lockq \in Seq(Clients) /\ "main" \in Clients \ {"pause", "monitor"}
      BY DEF FullInv, TypeInv, TypeOK, ProcessorTypeOK, Clients
    <2> QED
      BY <1>1, <2>1, <2>2, OrderKept DEF ZeroInv, trainer
  <1>5. resultQueue \in Seq(Nat) /\ weights' = weights /\ consuming \in Samples
    BY <1>1 DEF FullInv, TypeInv, TypeOK, RolloutTypeOK, sync, Samples
  <1>6. LabelInv'
    <2>1. CASE ConsumerGet
      <3>1. /\ consuming' = Head(resultQueue) /\ resultQueue' = Tail(resultQueue)
            /\ queue' = queue /\ resultQueue # <<>>
        BY <2>1 DEF ConsumerGet, mq
      <3>2. /\ Head(resultQueue) = resultQueue[1] /\ 1 \in 1..Len(resultQueue)
            /\ \A i \in 1..Len(resultQueue') :
                 i + 1 \in 1..Len(resultQueue) /\ resultQueue'[i] = resultQueue[i + 1]
        BY <1>5, <3>1, HeadTailProperties
      <3> QED
        BY <1>2, <1>5, <3>1, <3>2 DEF ZeroInv, LabelInv
    <2>2. CASE ConsumerPut
      <3>1. /\ consuming \in {weights, Nothing} /\ consuming # Nothing /\ consuming' = Nothing
            /\ MQ!PutSample(consuming) /\ resultQueue' = resultQueue
        BY <2>2 DEF ConsumerPut, ZeroInv, LabelInv
      <3>2. ~SentinelTaken
        BY <3>1, NothingOnItsWay
      <3> QED
        BY <1>2, <1>5, <3>1, <3>2, PutLabels DEF ZeroInv, LabelInv
    <2>3. CASE MainSentinel
      <3>1. MQ!PutSample(Nothing) /\ UNCHANGED <<resultQueue, consuming>> /\ ~HasSentinel
        BY <2>3 DEF MainSentinel, HasSentinel
      <3>2. ~SentinelTaken
        BY <3>1 DEF FullInv, FlowInv
      <3>3. Nothing \in Samples
        BY DEF Samples
      <3> QED
        BY <1>2, <1>5, <3>1, <3>2, <3>3, PutLabels DEF ZeroInv, LabelInv
    <2>4. CASE MainStreamed \/ MainStop \/ MainStopped
      <3>1. UNCHANGED <<queue, resultQueue, consuming>>
        BY <2>4 DEF MainStreamed, MainStop, MainStopped, mq
      <3> QED
        BY <1>2, <1>5, <3>1 DEF ZeroInv, LabelInv
    <2> QED
      BY <2>1, <2>2, <2>3, <2>4 DEF Consumer, Main
  <1> QED
    BY <1>3, <1>4, <1>6 DEF ZeroInv

\* The monitor finds the budget used up, or comes before pause().
LEMMA ZeroMonitor ==
    ASSUME ZeroStaleness, FullInv, ZeroInv, Monitor
    PROVE  ZeroInv'
  <1>1. UNCHANGED <<mq, taken, interrupted, rollout, resultQueue, consuming, mainpc,
                    monitorTrigger, staleness, sync, trainer>>
    BY Frames
  <1>2. UNCHANGED <<Syncing, Window, Updating, Unwritten, Before, SentinelTaken>>
    BY <1>1 DEF Syncing, Window, Updating, Unwritten, Before, SentinelTaken, sync, trainer
  <1>3. QuotaInv' /\ VersionInv' /\ LabelInv' /\ UninterruptedInv'
    BY <1>1, <1>2
    DEF ZeroInv, QuotaInv, VersionInv, LabelInv, UninterruptedInv, mq, rollout, sync, trainer
  <1>4. ~validate /\ (Syncing \/ (Window /\ monitorTrigger)) => ShouldPause
    <2>1. ~validate /\ Syncing => staleness = MaxRequired /\ staleness \in Nat
      BY Emptied, ZeroTypes DEF FullInv, ZeroInv
    <2>2. ~validate /\ Window /\ monitorTrigger => Syncing
      BY DEF ZeroInv, WindowInv, Syncing
    <2> QED
      BY <2>1, <2>2 DEF ShouldPause
  <1>5. WindowInv'
    <2>1. CASE MonitorTick
      <3>1. UNCHANGED <<tpc, validate>>
        BY <1>1 DEF trainer
      <3>2. CASE ~monitorTrigger \/ ShouldPause
        <4>1. mpc' # "lock" /\ UNCHANGED <<paused, monitorTrigger>>
          BY <2>1, <3>2 DEF MonitorTick, CheckRunning
        <4> QED
          BY <1>2, <3>1, <4>1 DEF ZeroInv, WindowInv
      <3>3. CASE ~(~monitorTrigger \/ ShouldPause)
        BY <1>2, <1>4, <3>1, <3>3 DEF WindowInv
      <3> QED
        BY <3>2, <3>3
    <2>2. CASE MonitorUnpause
      BY <1>1, <1>2, <2>2 DEF MonitorUnpause, ZeroInv, WindowInv, trainer
    <2>3. CASE MonitorChecked
      BY <1>1, <1>2, <2>3 DEF MonitorChecked, ZeroInv, WindowInv, control, trainer
    <2> QED
      BY <2>1, <2>2, <2>3 DEF Monitor
  <1>6. OrderInv'
    <2>1. lockq \in Seq(Clients) /\ "monitor" \in Clients /\ UNCHANGED <<tpc, validate>>
      BY <1>1 DEF FullInv, TypeInv, TypeOK, ProcessorTypeOK, Clients, trainer
    <2>2. CASE lockq' = lockq /\ mpc' # "lock"
      BY <2>1, <2>2 DEF ZeroInv, OrderInv
    <2>3. CASE /\ lockq' = Append(lockq, "monitor")
               /\ mpc' # "lock" \/ ~(~monitorTrigger \/ ShouldPause)
      <3>1. mpc' = "lock" /\ ~validate => ~HasPause(lockq)
        BY <1>4, <2>3 DEF ZeroInv, OrderInv, Syncing
      <3> QED
        BY <2>1, <2>3, <3>1, AppendOrder DEF ZeroInv, OrderInv
    <2>4. CASE /\ Holds("monitor") /\ mpc' # "lock"
               /\ lockq' \in {Release, Append(Release, "monitor")}
      <3>1. lockq # <<>>
        BY <2>4 DEF Holds
      <3>2. /\ Release \in Seq(Clients) /\ PauseOnce(Release)
            /\ HasPause(Release) => HasPause(lockq)
        BY <2>1, <3>1, TailOrder DEF ZeroInv, OrderInv, Release
      <3>3. /\ PauseOnce(Append(Release, "monitor"))
            /\ HasPause(Append(Release, "monitor")) => HasPause(lockq)
        BY <2>1, <3>2, AppendOrder
      <3> QED
        BY <2>1, <2>4, <3>2, <3>3 DEF ZeroInv, OrderInv
    <2>5. CASE MonitorTick
      BY <2>2, <2>3, <2>5 DEF MonitorTick, CheckRunning, Unpause, Want
    <2>6. CASE MonitorUnpause \/ MonitorChecked
      BY <2>4, <2>6 DEF MonitorUnpause, MonitorChecked, CheckRunning
    <2> QED
      BY <2>5, <2>6 DEF Monitor
  <1> QED
    BY <1>3, <1>5, <1>6 DEF ZeroInv

\* A step of the trainer outside the pause and the arrival of the weights.
LEMMA ZeroTraining ==
    ASSUME ZeroStaleness, FullInv, ZeroInv,
           TrainerGet \/ TrainerStep \/ TrainerFinish \/ TrainerValidation \/ TrainerFinal
    PROVE  ZeroInv'
  <1>1. /\ UNCHANGED <<taken, interrupted, rollout, resultQueue, consuming, mpc, lockq, control,
                       staleness, sync>>
        /\ validate' \in {validate, TRUE}
        /\ {tpc, tpc'} \cap {"pause", "gather", "sync"} = {}
    <2>1. CASE TrainerGet \/ TrainerValidation \/ TrainerFinal
      BY <2>1 DEF TrainerGet, TrainerValidation, TrainerFinal
    <2>2. CASE TrainerStep
      BY <2>2 DEF TrainerStep
    <2>3. CASE TrainerFinish
      BY <2>3 DEF TrainerFinish
    <2> QED
      BY <2>1, <2>2, <2>3
  <1>2. UNCHANGED <<Window, Updating, Unwritten, Before>> /\ (validate => validate')
    <2>1. Window' = Window
      BY <1>1 DEF Window, Updating, sync
    <2>2. UNCHANGED <<Updating, Unwritten, Before>>
      BY <1>1 DEF Updating, Unwritten, Before, sync
    <2>3. validate => validate'
      BY <1>1, Zenon DEF FullInv, TypeInv, TypeOK, TrainerTypeOK
    <2> QED
      BY <2>1, <2>2, <2>3
  <1>3. QuotaInv'
    BY <1>1, <1>2 DEF ZeroInv, QuotaInv, rollout, sync
  <1>4. WindowInv'
    BY <1>1, <1>2 DEF ZeroInv, WindowInv, control
  <1>5. OrderInv' /\ UninterruptedInv'
    BY <1>1, <1>2 DEF ZeroInv, OrderInv, UninterruptedInv, rollout
  <1>6. VersionInv'
    <2>1. trainVersion \in Nat /\ weights \in Nat /\ weights' = weights
      BY <1>1 DEF FullInv, TypeInv, TypeOK, RolloutTypeOK, TrainerTypeOK, sync
    <2>2. CASE TrainerGet \/ TrainerValidation \/ TrainerFinal
      BY <2>1, <2>2
      DEF TrainerGet, TrainerValidation, TrainerFinal, ZeroInv, VersionInv, Syncing
    <2>3. CASE TrainerStep
      BY <2>1, <2>3 DEF TrainerStep, ZeroInv, VersionInv, Syncing
    <2>4. CASE TrainerFinish
      BY <2>1, <2>4 DEF TrainerFinish, ZeroInv, VersionInv, Syncing
    <2> QED
      BY <2>2, <2>3, <2>4
  <1>7. LabelInv'
    <2>1. weights' = weights /\ queue \in Seq(Samples)
      BY <1>1 DEF FullInv, TypeInv, TypeOK, QueueTypeOK, Samples, sync
    <2>2. CASE TrainerGet
      <3>1. /\ queue # <<>> /\ queue' = Tail(queue) /\ tpc = "collect"
            /\ validate' = validate
        BY <2>2 DEF TrainerGet, MQ!TakeSample
      <3>2. /\ Len(queue) \in Nat /\ Len(queue) > 0 /\ Len(queue') = Len(queue) - 1
            /\ Head(queue) = queue[1] /\ queue' \in Seq(Samples)
            /\ \A i \in 1..Len(queue') : i + 1 \in 1..Len(queue) /\ queue'[i] = queue[i + 1]
        BY <2>1, <3>1, HeadTailProperties, LenProperties
      <3>3. SentinelTaken' => Head(queue) = Nothing
        BY <2>2, <3>1 DEF TrainerGet, SentinelTaken, FullInv, TrainInv
      <3>4. Head(queue) = Nothing => queue' = <<>>
        <4>1. Head(queue) = Nothing => Len(queue) = 1
          BY <3>2 DEF FullInv, FlowInv, NoneIsLast
        <4> QED
          BY <3>2, <4>1
      <3> QED
        BY <1>1, <2>1, <3>2, <3>3, <3>4 DEF ZeroInv, LabelInv
    <2>3. CASE ~TrainerGet
      <3>1. queue' = queue /\ (SentinelTaken' => SentinelTaken)
        BY <2>3
        DEF TrainerStep, TrainerFinish, TrainerValidation, TrainerFinal, MQ!GetValidate, mq,
            SentinelTaken
      <3> QED
        BY <1>1, <2>1, <3>1 DEF ZeroInv, LabelInv
    <2> QED
      BY <2>2, <2>3
  <1> QED
    BY <1>3, <1>4, <1>5, <1>6, <1>7 DEF ZeroInv

\* pause() comes when the budget is used up and the monitor has passed.
LEMMA ZeroPause ==
    ASSUME ZeroStaleness, FullInv, ZeroInv, SyncPause \/ PauseGranted \/ PauseEnd
    PROVE  ZeroInv'
  <1>1. /\ UNCHANGED <<mq, taken, interrupted, running, cancelQueue, resultQueue, consuming,
                       mpc, staleness, sync, localStep, trainVersion, validate>>
        /\ {tpc, tpc'} \subseteq {"waitLast", "pause", "gather", "sync"}
        /\ unreaped' \in {unreaped, 0}
        /\ tpc' = "sync" => unreaped' = 0
    BY DEF SyncPause, PauseGranted, PauseEnd, BeginPause, rollout
  <1>2. /\ UNCHANGED <<Updating, Unwritten, Before>>
        /\ Syncing /\ Syncing' /\ SentinelTaken' = SentinelTaken
    BY <1>1 DEF Syncing, Updating, Unwritten, Before, SentinelTaken, sync
  <1>3. VersionInv' /\ LabelInv' /\ UninterruptedInv'
    BY <1>1, <1>2 DEF ZeroInv, VersionInv, LabelInv, UninterruptedInv, mq, sync
  <1>4. ~validate => ~Updating /\ ~Unwritten
    BY <1>2, Emptied DEF ZeroInv, Updating, Unwritten
  <1>5. QuotaInv'
    BY <1>1, <1>2, <1>4 DEF ZeroInv, QuotaInv, sync, Unwritten
  <1>6. lockq \in Seq(Clients) /\ "pause" \in Clients
    BY DEF FullInv, TypeInv, TypeOK, ProcessorTypeOK, Clients
  <1>7. Holds("pause") \/ lockq = <<>> => mpc # "lock" \/ validate
    <2>1. ~MonitorFirst(<<>>)
      BY DEF MonitorFirst
    <2>2. Holds("pause") => ~MonitorFirst(lockq)
      BY <1>6, TailOrder DEF Holds
    <2> QED
      BY <2>1, <2>2 DEF ZeroInv, OrderInv
  <1>8. CASE SyncPause
    <2>1. /\ lockq' = Append(lockq, "pause") /\ tpc = "waitLast" /\ tpc' \in {"pause", "gather"}
          /\ tpc' = "gather" => lockq = <<>> /\ paused' = TRUE
      BY <1>8 DEF SyncPause, Want, BeginPause
    <2>2. ~HasPause(lockq)
      BY <2>1 DEF ZeroInv, OrderInv
    <2>3. OrderInv'
      BY <1>1, <1>6, <2>1, <2>2, AppendOrder DEF ZeroInv, OrderInv
    <2>4. WindowInv'
      BY <1>1, <1>2, <1>4, <1>7, <2>1 DEF WindowInv, Window, Updating
    <2> QED
      BY <1>3, <1>5, <2>3, <2>4 DEF ZeroInv
  <1>9. CASE PauseGranted
    <2>1. /\ lockq' = lockq /\ tpc = "pause" /\ tpc' = "gather" /\ Holds("pause")
          /\ paused' = TRUE
      BY <1>9 DEF PauseGranted, BeginPause
    <2>2. OrderInv'
      BY <1>1, <2>1 DEF ZeroInv, OrderInv
    <2>3. WindowInv'
      BY <1>1, <1>7, <2>1 DEF WindowInv
    <2> QED
      BY <1>3, <1>5, <2>2, <2>3 DEF ZeroInv
  <1>10. CASE PauseEnd
    <2>1. /\ lockq' = Release /\ tpc = "gather" /\ tpc' = "sync" /\ paused' = paused
          /\ monitorTrigger' = FALSE
      BY <1>10 DEF PauseEnd
    <2>2. Holds("pause")
      BY <2>1 DEF FullInv, TypeInv, LockInv
    <2>3. PauseOnce(Release) /\ ~HasPause(Release)
      BY <1>6, <2>2, TailOrder DEF ZeroInv, OrderInv, Holds, Release
    <2>4. OrderInv'
      BY <1>1, <1>7, <2>1, <2>2, <2>3 DEF OrderInv
    <2>5. ~validate => paused
      BY <2>1 DEF ZeroInv, WindowInv, Window
    <2>6. WindowInv'
      BY <1>1, <1>7, <2>1, <2>2, <2>5 DEF WindowInv
    <2> QED
      BY <1>3, <1>5, <2>4, <2>6 DEF ZeroInv
  <1> QED
    BY <1>8, <1>9, <1>10

\* New weights arrive when nothing is on its way.
LEMMA ZeroWeights ==
    ASSUME ZeroStaleness, FullInv, ZeroInv, SyncWeights
    PROVE  ZeroInv'
  <1>1. /\ UNCHANGED <<queue, taken, interrupted, rollout, resultQueue, consuming, mpc, lockq,
                       control, staleness, acc, localStep, trainVersion, validate>>
        /\ tpc = "sync" /\ tpc' = (IF validate THEN "waitFinal" ELSE "validation")
        /\ weights' = trainVersion /\ upc' = "update"
    BY DEF SyncWeights, MQ!UpdateParamVersion
  <1>2. Syncing /\ ~Syncing' /\ Unwritten' /\ Window
    BY <1>1 DEF Syncing, Unwritten, Window
  <1>3. /\ resultQueue = <<>> /\ consuming = Nothing /\ queue = <<>>
    BY <1>2, NothingOnItsWay
  <1>4. /\ {PerVersion, Before, taken, staleness, weights} \subseteq Nat
        /\ MaxRequired = PerVersion
    BY ZeroTypes DEF FullInv
  <1>5. trainVersion = weights + 1 /\ VersionInv'
    BY <1>1, <1>2, <1>4 DEF ZeroInv, VersionInv
  <1>6. LabelInv' /\ UninterruptedInv'
    BY <1>1, <1>3 DEF LabelInv, ZeroInv, UninterruptedInv, rollout
  <1>7. OrderInv'
    BY <1>1 DEF ZeroInv, OrderInv
  <1>8. WindowInv'
    BY <1>1, <1>2 DEF ZeroInv, WindowInv, control
  <1>9. QuotaInv'
    <2>1. CASE validate
      BY <1>1, <2>1 DEF QuotaInv
    <2>2. CASE ~validate
      <3>1. staleness = PerVersion /\ taken = Before + PerVersion
        BY <1>2, <1>4, <2>2, Emptied DEF ZeroInv
      <3>2. Before' = Before + PerVersion
        <4>1. weights' = weights + 1
          BY <1>1, <1>5
        <4>2. (weights + 1) * PerVersion = weights * PerVersion + PerVersion
          BY <1>4, Products
        <4> QED
          BY <4>1, <4>2 DEF Before, PerVersion
      <3>3. unreaped' = 0
        BY <1>1, <2>2 DEF ZeroInv, QuotaInv, rollout
      <3>4. UNCHANGED PerVersion
        BY DEF PerVersion
      <3> QED
        BY <1>1, <1>2, <1>4, <2>2, <3>1, <3>2, <3>3, <3>4 DEF QuotaInv
    <2> QED
      BY <2>1, <2>2
  <1> QED
    BY <1>5, <1>6, <1>7, <1>8, <1>9 DEF ZeroInv

\* update_param_version finds nothing left over.
LEMMA ZeroUpdate ==
    ASSUME ZeroStaleness, FullInv, ZeroInv, Update
    PROVE  ZeroInv'
  <1>1. UNCHANGED <<queue, taken, interrupted, rollout, resultQueue, consuming, mpc, weights,
                    trainer>>
    BY Frames
  <1>2. UNCHANGED <<Syncing, SentinelTaken, Before>> /\ Updating
    BY <1>1
    DEF Syncing, SentinelTaken, Before, trainer, Updating, Update, UpdateCall, UpdateGranted,
        UpdateWrite, ResumeCall, ResumeGranted
  <1>3. VersionInv' /\ LabelInv' /\ UninterruptedInv'
    BY <1>1, <1>2 DEF ZeroInv, VersionInv, LabelInv, UninterruptedInv, trainer, rollout
  <1>4. OrderInv'
    <2>1. Moved("update") \/ Moved("resume")
      BY DEF Update, UpdateCall, UpdateGranted, UpdateWrite, ResumeCall, ResumeGranted, EndPause,
             Want, Moved, FullInv, TypeInv, LockInv
    <2>2. lockq \in Seq(Clients) /\ {"update", "resume"} \subseteq Clients \ {"pause", "monitor"}
      BY DEF FullInv, TypeInv, TypeOK, ProcessorTypeOK, Clients
    <2>3. UNCHANGED <<tpc, mpc, validate>>
      BY <1>1 DEF trainer
    <2> QED
      BY <2>1, <2>2, <2>3, OrderKept DEF ZeroInv
  <1>5. /\ {PerVersion, Before, taken, staleness} \subseteq Nat
        /\ {running, unreaped, cancelQueue} \subseteq Nat
    BY ZeroTypes DEF FullInv, TypeInv, TypeOK, ProcessorTypeOK
  <1>6. tpc \notin {"gather", "sync"}
    BY <1>2 DEF FullInv, SyncInv, Updating
  <1>7. QuotaInv'
    <2>1. CASE validate
      BY <1>1, <2>1 DEF QuotaInv, trainer
    <2>2. CASE ~validate
      <3>1. /\ taken + (IF Unwritten THEN PerVersion ELSE 0) = Before + staleness
            /\ staleness <= PerVersion /\ taken = Before
            /\ Unwritten => unreaped = 0
            /\ upc = "count" => acc = 0
        BY <1>2, <2>2 DEF ZeroInv, QuotaInv
      <3>2. running = 0 /\ resultQueue = <<>> /\ queue = <<>> /\ cancelQueue = 0
        BY <1>2, NothingOnItsWay DEF ZeroInv, UninterruptedInv
      <3>3. UNCHANGED <<PerVersion, validate, tpc, unreaped>>
        BY <1>1 DEF PerVersion, trainer, rollout
      <3>4. CASE UpdateCall \/ UpdateGranted
        <4>1. Unwritten /\ Unwritten' /\ staleness' = staleness
          BY <3>4 DEF UpdateCall, UpdateGranted, ReadCounts, Unwritten
        <4>2. upc' = "count" => acc' = 0
          <5>1. upc' = "count" => acc' = Active + Len(resultQueue) + cancelQueue
            BY <3>4 DEF UpdateCall, UpdateGranted, ReadCounts
          <5> QED
            BY <3>1, <3>2, <4>1, <5>1 DEF Active
        <4> QED
          BY <1>1, <1>2, <3>1, <3>3, <4>1, <4>2 DEF QuotaInv
      <3>5. CASE UpdateWrite
        <4>1. ~Unwritten' /\ staleness' = 0 /\ upc' = "updated"
          BY <3>1, <3>2, <3>5 DEF UpdateWrite, Unwritten
        <4> QED
          BY <1>1, <1>2, <1>5, <1>6, <3>1, <3>3, <4>1 DEF QuotaInv
      <3>6. CASE ResumeCall \/ ResumeGranted
        <4>1. ~Unwritten /\ ~Unwritten' /\ staleness' = staleness /\ upc' # "count"
          BY <3>6 DEF ResumeCall, ResumeGranted, EndPause, Unwritten
        <4> QED
          BY <1>1, <1>2, <1>6, <3>1, <3>3, <4>1 DEF QuotaInv
      <3> QED
        BY <3>4, <3>5, <3>6 DEF Update
    <2> QED
      BY <2>1, <2>2
  <1>8. WindowInv'
    <2>1. UNCHANGED <<tpc, mpc, validate>>
      BY <1>1 DEF trainer
    <2>2. CASE upc' = "none"
      BY <1>6, <2>1, <2>2 DEF WindowInv, Window, Updating
    <2>3. CASE upc' # "none"
      <3>1. UNCHANGED control
        BY <2>3
        DEF Update, UpdateCall, UpdateGranted, UpdateWrite, ResumeCall, ResumeGranted, EndPause
      <3> QED
        BY <1>2, <2>1, <3>1 DEF ZeroInv, WindowInv, Window, control
    <2> QED
      BY <2>2, <2>3
  <1> QED
    BY <1>3, <1>4, <1>7, <1>8 DEF ZeroInv

LEMMA ZeroStutter == ZeroInv /\ UNCHANGED vars => ZeroInv'
  BY DEF ZeroInv, QuotaInv, VersionInv, LabelInv, WindowInv, OrderInv, UninterruptedInv, Before,
         Unwritten, Updating, Syncing, Window, SentinelTaken, vars, mq, rollout, control, sync,
         trainer

LEMMA ZeroNext == ASSUME ZeroStaleness PROVE FullInv /\ ZeroInv /\ [Next]_vars => ZeroInv'
  BY ZeroProcessor, ZeroTask, ZeroConsumer, ZeroMonitor, ZeroTraining, ZeroPause, ZeroWeights,
     ZeroUpdate, ZeroStutter
  DEF Next, Terminated, Trainer

LEMMA ZeroInit == ASSUME ZeroStaleness PROVE Init => ZeroInv
  <1> SUFFICES ASSUME Init
               PROVE  ZeroInv
    OBVIOUS
  <1>1. PerVersion \in Nat
    BY ConfigAssumption DEF PerVersion
  <1>2. Before = 0
    BY <1>1, Products DEF Before, Init
  <1>3. QuotaInv /\ VersionInv
    BY <1>1, <1>2 DEF Init, QuotaInv, VersionInv, Unwritten, Updating, Syncing
  <1>4. LabelInv /\ WindowInv /\ UninterruptedInv
    BY DEF Init, MQ!MQInit, LabelInv, WindowInv, UninterruptedInv, Window, Updating,
           SentinelTaken
  <1>5. OrderInv
    BY DEF Init, OrderInv, PauseOnce, HasPause
  <1> QED
    BY <1>3, <1>4, <1>5 DEF ZeroInv

LEMMA SpecFull == Spec => []FullInv
  BY SpecType, SpecTrain, SpecEnd, SpecFirst, SpecSync, SpecFlow, PTL DEF FullInv

LEMMA SpecZero == ASSUME ZeroStaleness PROVE Spec => []ZeroInv
  BY ZeroInit, ZeroNext, SpecFull, PTL DEF Spec

-----------------------------------------------------------------------------
(* What is counted.                                                         *)

\* Nothing overflows the queue, and a batch is trained on as soon as it is whole.
CountInv ==
    /\ totalProduced + Carried + Held + cancelQueue = Fetched + Sentinels
    /\ droppedSamples = 0
    /\ tpc # "train" => got < Required

CountTypes ==
    {totalProduced, Carried, Held, cancelQueue, Fetched, Sentinels, Queued, droppedSamples,
     trained, got, Required, Awaited, NumSamples, taken} \subseteq Nat

LEMMA CountTypesHold == TypeInv => CountTypes
  BY FlowTypes, ZeroTypes
  DEF FlowQuantities, CountTypes, Sentinels, TypeInv, TypeOK, QueueTypeOK

LEMMA CountTypesNext == TypeInv' => CountTypes'
  BY CountTypesHold, PTL

\* The queue has room for whatever the rollouter still holds.
LEMMA RoomLeft ==
    ASSUME ZeroStaleness, FullInv, ZeroInv, CountInv, ~HasSentinel,
           Carried > 0 \/ taken = Done
    PROVE  Len(queue) < MaxRequired
  <1>1. /\ {PerVersion, Before, taken, staleness, trained, got, NumSamples} \subseteq Nat
        /\ MaxRequired = PerVersion
    BY ZeroTypes DEF FullInv
  <1>2. CountTypes
    BY CountTypesHold DEF FullInv
  <1>3. ~SentinelTaken /\ Awaited = 0
    BY DEF FullInv, FlowInv, Awaited, Pending
  <1>4. taken <= Before + PerVersion
    BY <1>1, <1>3 DEF ZeroInv, QuotaInv, SentinelTaken, Unwritten
  <1>5. Fetched <= taken /\ (taken = Done => Fetched < taken)
    BY <1>1 DEF Fetched, Done
  <1>6. trained >= Before
    BY <1>3, TrainedBefore DEF ZeroInv, SentinelTaken
  <1>7. Balanced
    BY DEF FullInv, FlowInv
  <1>8. Queued < PerVersion
    BY <1>1, <1>2, <1>3, <1>4, <1>5, <1>6, <1>7 DEF Balanced, CountTypes
  <1> QED
    BY <1>1, <1>8 DEF Queued

LEMMA CountNext ==
    ASSUME ZeroStaleness, FullInv, FullInv', ZeroInv, CountInv, [Next]_vars
    PROVE  CountInv'
  <1>1. CountTypes /\ CountTypes'
    BY CountTypesHold, CountTypesNext DEF FullInv
  <1>2. totalProduced + Carried + Held + cancelQueue = Fetched + Sentinels
    BY DEF CountInv
  <1>3. CASE Processor
    <2>1. UNCHANGED <<totalProduced, droppedSamples, resultQueue, consuming, mainpc, tpc, got>>
      BY <1>3, ProcessorFrame DEF mq, trainer
    <2>2. Held' + cancelQueue' + Fetched = Held + cancelQueue + Fetched'
      BY <1>3, FlowFetched DEF FullInv, FirstInv
    <2>3. Carried' = Carried /\ Sentinels' = Sentinels
      BY <2>1 DEF Carried, Carrying, Results, Sentinels, HasSentinel
    <2>4. totalProduced' + Carried' + Held' + cancelQueue' = Fetched' + Sentinels'
      BY ONLY <1>1, <1>2, <2>1, <2>2, <2>3 DEF CountTypes
    <2> QED
      BY <2>1, <2>4 DEF CountInv
  <1>4. CASE Task
    <2>1. UNCHANGED <<totalProduced, droppedSamples, mainpc, tpc, got, taken>>
      BY <1>4, Frames DEF mq, trainer
    <2>2. Held' + cancelQueue' + Carried' = Held + cancelQueue + Carried
      BY <1>4, FlowReturned DEF FullInv
    <2>3. Fetched' = Fetched /\ Sentinels' = Sentinels
      BY <2>1 DEF Fetched, Sentinels, HasSentinel
    <2>4. totalProduced' + Carried' + Held' + cancelQueue' = Fetched' + Sentinels'
      BY ONLY <1>1, <1>2, <2>1, <2>2, <2>3 DEF CountTypes
    <2> QED
      BY <2>1, <2>4 DEF CountInv
  <1>5. CASE Consumer \/ Main
    <2>1. UNCHANGED <<taken, ppc, running, cancelQueue, tpc, got>>
      BY <1>5, Frames DEF rollout, trainer
    <2>2. Held' = Held /\ Fetched' = Fetched
      BY <2>1 DEF Held, Hand, InHand, Fetched
    <2>3. resultQueue \in Seq(Nat) /\ consuming \in Samples /\ Nothing \notin Nat
      BY ConfigAssumption DEF FullInv, TypeInv, TypeOK, RolloutTypeOK, Samples
    <2>4. CASE ConsumerGet
      <3>1. UNCHANGED <<totalProduced, droppedSamples, mainpc>>
        BY <2>4 DEF ConsumerGet, mq
      <3>2. Sentinels' = Sentinels
        BY <3>1 DEF Sentinels, HasSentinel
      <3>3. Carried' = Carried
        <4>1. /\ Len(resultQueue) \in Nat /\ Len(resultQueue') = Len(resultQueue) - 1
              /\ consuming = Nothing /\ consuming' \in Nat
          BY <2>3, <2>4, HeadTailProperties, LenProperties DEF ConsumerGet
        <4> QED
          BY <2>3, <4>1 DEF Carried, Carrying, Results
      <3> QED
        BY <1>2, <2>1, <2>2, <3>1, <3>2, <3>3 DEF CountInv
    <2>5. CASE ConsumerPut
      <3>1. consuming # Nothing /\ consuming' = Nothing /\ MQ!PutSample(consuming)
            /\ UNCHANGED <<resultQueue, mainpc>>
        BY <2>5 DEF ConsumerPut
      <3>2. Carried = Carried' + 1 /\ Sentinels' = Sentinels
        <4>1. Len(resultQueue) \in Nat
          BY <2>3
        <4> QED
          BY <3>1, <4>1 DEF Carried, Carrying, Results, Sentinels, HasSentinel
      <3>3. ~HasSentinel
        BY <3>1 DEF FullInv, EndInv, SentinelIsLast
      <3>4. Len(queue) < MaxRequired
        <4>1. {Carried, Carried'} \subseteq Nat
          BY <1>1 DEF CountTypes
        <4>2. Carried > 0
          BY ONLY <3>2, <4>1
        <4> QED
          BY <3>3, <4>2, RoomLeft
      <3>5. droppedSamples' = droppedSamples /\ totalProduced' = totalProduced + 1
        <4>1. ~MQ!Full
          <5>1. Len(queue) \in Nat /\ MaxRequired \in Nat
            BY ConfigAssumption DEF FullInv, TypeInv, TypeOK, QueueTypeOK
          <5> QED
            BY <3>4, <5>1 DEF MQ!Full
        <4> QED
          BY <3>1, <4>1 DEF MQ!PutSample
      <3>6. totalProduced' + Carried' + Held' + cancelQueue' = Fetched' + Sentinels'
        BY ONLY <1>1, <1>2, <2>1, <2>2, <3>2, <3>5 DEF CountTypes
      <3> QED
        BY <2>1, <3>5, <3>6 DEF CountInv
    <2>6. CASE MainSentinel
      <3>1. MQ!PutSample(Nothing) /\ mainpc = "join" /\ mainpc' = "sent"
            /\ UNCHANGED <<resultQueue, consuming>>
        BY <2>6 DEF MainSentinel
      <3>2. Sentinels = 0 /\ Sentinels' = 1 /\ Carried' = Carried /\ ~HasSentinel
        BY <3>1 DEF Sentinels, HasSentinel, Carried, Carrying, Results
      <3>3. taken = Done
        BY <3>1 DEF FullInv, EndInv
      <3>4. Len(queue) < MaxRequired
        BY <3>2, <3>3, RoomLeft
      <3>5. droppedSamples' = droppedSamples /\ totalProduced' = totalProduced + 1
        <4>1. ~MQ!Full
          <5>1. Len(queue) \in Nat /\ MaxRequired \in Nat
            BY ConfigAssumption DEF FullInv, TypeInv, TypeOK, QueueTypeOK
          <5> QED
            BY <3>4, <5>1 DEF MQ!Full
        <4> QED
          BY <3>1, <4>1 DEF MQ!PutSample
      <3>6. totalProduced' + Carried' + Held' + cancelQueue' = Fetched' + Sentinels'
        BY ONLY <1>1, <1>2, <2>1, <2>2, <3>2, <3>5 DEF CountTypes
      <3> QED
        BY <2>1, <3>5, <3>6 DEF CountInv
    <2>7. CASE MainStreamed \/ MainStop \/ MainStopped
      <3>1. /\ UNCHANGED <<totalProduced, droppedSamples, resultQueue, consuming>>
            /\ HasSentinel' = HasSentinel
        BY <2>7 DEF MainStreamed, MainStop, MainStopped, mq, HasSentinel
      <3>2. Sentinels' = Sentinels /\ Carried' = Carried
        BY <3>1 DEF Sentinels, Carried, Carrying, Results
      <3> QED
        BY <1>2, <2>1, <2>2, <3>1, <3>2 DEF CountInv
    <2> QED
      BY <1>5, <2>4, <2>5, <2>6, <2>7 DEF Consumer, Main
  <1>6. CASE Trainer
    <2>1. UNCHANGED <<taken, ppc, running, cancelQueue, resultQueue, consuming, mainpc>>
      BY <1>6, Frames
    <2>2. Held' = Held /\ Fetched' = Fetched /\ Carried' = Carried /\ Sentinels' = Sentinels
      BY <2>1 DEF Held, Hand, InHand, Fetched, Carried, Carrying, Results, Sentinels, HasSentinel
    <2>3. UNCHANGED <<totalProduced, droppedSamples>>
      BY <1>6
      DEF Trainer, TrainerGet, TrainerStep, TrainerFinish, SyncPause, PauseGranted, PauseEnd,
          SyncWeights, TrainerValidation, TrainerFinal, MQ!TakeSample, MQ!UpdateParamVersion,
          MQ!GetValidate, mq
    <2>4. tpc' # "train" => got' < Required
      <3>1. CASE TrainerGet
        <4>1. got < Required /\ got \in Nat /\ Required \in Nat
          BY <1>1, <3>1 DEF TrainerGet, CountInv, CountTypes
        <4>2. got' = got \/ (got' = got + 1 /\ (tpc' # "train" => got' # Required))
          BY <3>1 DEF TrainerGet
        <4> QED
          BY <4>1, <4>2
      <3>2. CASE TrainerStep
        BY <3>2, ConfigAssumption DEF TrainerStep
      <3>3. CASE ~TrainerGet /\ ~TrainerStep
        BY <1>6, <3>3
        DEF Trainer, TrainerFinish, SyncPause, PauseGranted, PauseEnd, SyncWeights,
            TrainerValidation, TrainerFinal, CountInv
      <3> QED
        BY <3>1, <3>2, <3>3
    <2> QED
      BY <1>2, <2>1, <2>2, <2>3, <2>4 DEF CountInv
  <1>7. CASE Monitor \/ Update \/ UNCHANGED vars
    <2>1. /\ UNCHANGED <<totalProduced, droppedSamples, taken, running, cancelQueue, resultQueue,
                         consuming, mainpc, tpc, got>>
          /\ ppc' \in {ppc, Notified}
      BY <1>7, Frames DEF vars, mq, rollout, trainer
    <2>2. Hand' = Hand
      BY <2>1 DEF Hand, InHand, Notified
    <2> QED
      BY <2>1, <2>2
      DEF CountInv, Held, Fetched, Carried, Carrying, Results, Sentinels, HasSentinel
  <1> QED
    BY <1>3, <1>4, <1>5, <1>6, <1>7 DEF Next, Terminated

LEMMA CountInit == Init => CountInv
  BY ConfigAssumption
  DEF Init, MQ!MQInit, CountInv, Carried, Carrying, Results, Held, Hand, InHand, Fetched, Done,
      Sentinels, HasSentinel

LEMMA SpecCount == ASSUME ZeroStaleness PROVE Spec => []CountInv
  BY CountInit, CountNext, SpecFull, SpecZero, PTL DEF Spec

-----------------------------------------------------------------------------
(* The theorems.                                                            *)

\* README, staleness_threshold: for every configuration whose threshold is 0 a sample
\* is trained on by the very version that generated it.
THEOREM OnPolicyAlways == Spec => OnPolicy
  <1>1. ASSUME ZeroStaleness, FullInv, ZeroInv, [Next]_vars,
               totalConsumed' # totalConsumed, Head(queue) # Nothing
        PROVE  Head(queue) = trainVersion
    <2>1. TrainerGet
      <3>1. Trainer
        BY <1>1, Frames, ProcessorFrame
        DEF Next, Terminated, vars, mq, Consumer, ConsumerGet, ConsumerPut, Main, MainStreamed,
            MainSentinel, MainStop, MainStopped, MQ!PutSample
      <3> QED
        BY <1>1, <3>1
        DEF Trainer, TrainerStep, TrainerFinish, SyncPause, PauseGranted, PauseEnd, SyncWeights,
            TrainerValidation, TrainerFinal, MQ!UpdateParamVersion, MQ!GetValidate, mq
    <2>2. tpc = "collect" /\ queue # <<>> /\ queue \in Seq(Samples)
      BY <1>1, <2>1
      DEF TrainerGet, MQ!TakeSample, FullInv, TypeInv, TypeOK, QueueTypeOK, Samples
    <2>3. Head(queue) = queue[1] /\ 1 \in 1..Len(queue)
      BY <2>2, HeadTailProperties, LenProperties
    <2>4. Head(queue) = weights
      BY <1>1, <2>3 DEF ZeroInv, LabelInv
    <2>5. trainVersion = weights
      <3>1. ~Syncing /\ weights \in Nat
        BY <1>1, <2>2 DEF Syncing, FullInv, TypeInv, TypeOK, RolloutTypeOK
      <3> QED
        BY <1>1, <3>1 DEF ZeroInv, VersionInv
    <2> QED
      BY <2>4, <2>5
  <1>2. ASSUME ZeroStaleness
        PROVE  Spec => OnPolicy
    <2>1. FullInv /\ ZeroInv /\ [Next]_vars =>
            [(/\ MaxRequired = Required * Trigger
              /\ totalConsumed' # totalConsumed
              /\ Head(queue) # Nothing) => Head(queue) = trainVersion]_vars
      BY <1>1, <1>2
    <2> QED
      BY <1>2, <2>1, SpecFull, SpecZero, PTL DEF Spec, OnPolicy
  <1>3. ASSUME ~ZeroStaleness
        PROVE  Spec => OnPolicy
    <2>1. [Next]_vars =>
            [(/\ MaxRequired = Required * Trigger
              /\ totalConsumed' # totalConsumed
              /\ Head(queue) # Nothing) => Head(queue) = trainVersion]_vars
      BY <1>3 DEF ZeroStaleness
    <2> QED
      BY <2>1, PTL DEF Spec, OnPolicy
  <1> QED
    BY <1>2, <1>3

\* Recipe's README, partial_rollout: it takes effect for a threshold above 0 only; with 0
\* no sample is ever interrupted, and none is dropped by the queue.
THEOREM PartialHasNoEffect ==
    ASSUME ZeroStaleness
    PROVE  Spec => [](interrupted = 0 /\ cancelQueue = 0 /\ droppedSamples = 0)
  BY SpecZero, SpecCount, PTL DEF ZeroInv, UninterruptedInv, CountInv

\* _streaming_generation_main: so with a threshold of 0 every sample is accounted for, in
\* partial mode too, and none of them by the queue: when both fit calls have returned all
\* have been trained on or thrown away with the last, incomplete batch.
THEOREM EverySampleAccountedAtZero ==
    ASSUME ZeroStaleness
    PROVE  Spec => [](NoSampleLost /\ (Finished => trained + got = NumSamples))
  <1>1. ZeroInv => cancelQueue = 0
    BY DEF ZeroInv, UninterruptedInv
  <1>2. TypeInv /\ NoSampleLost /\ droppedSamples = 0 => (Finished => trained + got = NumSamples)
    BY FlowTypes DEF NoSampleLost, FlowQuantities
  <1> QED
    BY <1>1, <1>2, OnlyInterruptedLost, AccountedWhole, PartialHasNoEffect,
       SpecType, SpecZero, PTL

\* What has been generated is what was fetched and is no longer held.
GeneratedSum == Generated \in Int /\ {Fetched, Held} \subseteq Nat /\ Generated + Held = Fetched

LEMMA GeneratedCount == TypeInv /\ ZeroInv /\ CountInv => GeneratedSum
  <1> SUFFICES ASSUME TypeInv, ZeroInv, CountInv
               PROVE  GeneratedSum
    OBVIOUS
  <1>1. CountTypes /\ Carrying \in Nat /\ Results \in Nat
    BY CountTypesHold, FlowTypes DEF FlowQuantities
  <1>2. Generated = totalProduced - Sentinels + Carrying + Results
    BY DEF Generated, Count, Sentinels, Carrying, Results
  <1>3. totalProduced + (Carrying + Results) + Held = Fetched + Sentinels
    BY <1>1 DEF ZeroInv, UninterruptedInv, CountInv, Carried, CountTypes
  <1> QED
    BY <1>1, <1>2, <1>3 DEF CountTypes, GeneratedSum

LEMMA GeneratedCountNext == TypeInv' /\ ZeroInv' /\ CountInv' => GeneratedSum'
  BY GeneratedCount, PTL

LEMMA ProductsRegroup ==
    ASSUME NEW a \in Int, NEW b \in Int, NEW c \in Int
    PROVE  (a * b) * c = a * (b * c)
  OBVIOUS

LEMMA QuotaSum == ASSUME TypeInv PROVE Synchronous!Quota = Before + PerVersion
  <1>1. {weights, Trigger, Required, PerVersion} \subseteq Nat
    BY ZeroTypes
  <1>2. ((weights + 1) * Trigger) * Required = (weights + 1) * PerVersion
    BY <1>1, ProductsRegroup DEF PerVersion
  <1>3. (weights + 1) * PerVersion = Before + PerVersion
    BY <1>1, Products DEF Before
  <1> QED
    BY <1>2, <1>3 DEF Synchronous!Quota

\* Generated only changes when a sample finishes, whoever has it afterwards.
LEMMA GeneratedKept ==
    ASSUME TypeInv, TypeInv', ZeroInv, ZeroInv', CountInv, CountInv',
           Fetched' + Held = Fetched + Held'
    PROVE  Generated' = Generated
  <1>1. GeneratedSum /\ GeneratedSum'
    BY GeneratedCount, GeneratedCountNext
  <1> QED
    BY ONLY <1>1, Fetched' + Held = Fetched + Held' DEF GeneratedSum

\* Each step is a step of synchronous training, or none.
LEMMA SynchronousStep ==
    ASSUME ZeroStaleness, FullInv, FullInv', ZeroInv, ZeroInv', CountInv, CountInv', [Next]_vars
    PROVE  [Synchronous!Next]_(Synchronous!vars)
  <1>1. TypeInv /\ TypeInv'
    BY DEF FullInv
  <1>2. /\ {PerVersion, Before, taken, staleness, weights, trained, got, NumSamples, Required}
             \subseteq Nat
        /\ Required > 0 /\ MaxRequired = PerVersion
    BY <1>1, ZeroTypes
  <1>3. Generated \in Int /\ {Fetched, Held} \subseteq Nat /\ Generated + Held = Fetched
    BY <1>1, GeneratedCount DEF GeneratedSum
  <1>4. CountTypes /\ cancelQueue = 0 /\ droppedSamples = 0
    BY <1>1, CountTypesHold DEF ZeroInv, UninterruptedInv, CountInv
  <1>5. Synchronous!Quota = Before + PerVersion
    BY <1>1, QuotaSum
  <1>6. ASSUME UNCHANGED <<weights, trained>>, Fetched' + Held = Fetched + Held'
        PROVE  [Synchronous!Next]_(Synchronous!vars)
    BY <1>1, <1>6, GeneratedKept DEF Synchronous!vars
  <1>7. CASE Processor
    <2>1. UNCHANGED <<weights, trained>>
      BY <1>7, ProcessorFrame DEF sync, trainer
    <2>2. Held' + cancelQueue' + Fetched = Held + cancelQueue + Fetched'
      BY <1>1, <1>7, FlowFetched DEF FullInv, FirstInv
    <2>3. {Held, Held', Fetched, Fetched'} \subseteq Nat
      BY <1>1, CountTypesHold, CountTypesNext DEF CountTypes
    <2>4. cancelQueue = 0 /\ cancelQueue' = 0
      BY DEF ZeroInv, UninterruptedInv
    <2>5. Fetched' + Held = Fetched + Held'
      BY ONLY <2>2, <2>3, <2>4
    <2> QED
      BY <1>6, <2>1, <2>5
  <1>8. CASE Task
    <2>1. TaskFinish /\ ~SentinelTaken
      BY <1>8, ZeroTask
    <2>2. UNCHANGED <<weights, trained, taken, ppc>> /\ running > 0 /\ running' = running - 1
          /\ running \in Nat
      BY <1>1, <1>8, <2>1, Frames
      DEF sync, trainer, TaskFinish, TypeInv, TypeOK, ProcessorTypeOK
    <2>3. Fetched' = Fetched /\ Hand' = Hand /\ Hand \in Nat
      BY <2>2 DEF Fetched, Hand, InHand
    <2>4. Held' = Held - 1 /\ Held > 0
      BY <2>2, <2>3 DEF Held
    <2>5. Generated' = Generated + 1
      <3>1. Generated' \in Int /\ Generated' + Held' = Fetched'
        BY <1>1, GeneratedCountNext DEF GeneratedSum
      <3> QED
        BY ONLY <1>3, <2>3, <2>4, <3>1
    <2>6. Generated < Synchronous!Quota /\ Generated < NumSamples
      <3>1. taken <= Before + PerVersion
        BY <1>2, <2>1 DEF ZeroInv, QuotaInv, SentinelTaken, Unwritten
      <3>2. Fetched <= taken /\ Fetched <= NumSamples
        <4>1. taken \in 0..(NumSamples + 1)
          BY <1>1 DEF TypeInv, TypeOK, ProcessorTypeOK, Done
        <4> QED
          BY <1>2, <4>1 DEF Fetched, Done
      <3> QED
        BY <1>2, <1>3, <1>5, <2>4, <3>1, <3>2
    <2> QED
      BY <2>2, <2>5, <2>6 DEF Synchronous!Next, Synchronous!Generate
  <1>9. CASE Consumer \/ Main \/ Monitor \/ Update \/ UNCHANGED vars
    <2>1. /\ UNCHANGED <<weights, trained, taken, running>>
          /\ ppc' \in {ppc, Notified}
      BY <1>9, Frames DEF vars, sync, trainer, rollout
    <2>2. Fetched' = Fetched /\ Hand' = Hand
      BY <2>1 DEF Fetched, Hand, InHand, Notified
    <2>3. Held' = Held
      BY <2>1, <2>2 DEF Held
    <2> QED
      BY <1>6, <2>1, <2>2, <2>3
  <1>10. CASE Trainer
    <2>1. Fetched' = Fetched /\ Held' = Held
      BY <1>10, Frames DEF Fetched, Held, Hand, InHand
    <2>2. Generated' = Generated
      BY <1>1, <2>1, GeneratedKept
    <2>3. Balanced
      BY DEF FullInv, FlowInv
    <2>4. CASE TrainerStep
      <3>1. weights' = weights /\ trained' = trained + Required /\ got = Required
        BY <2>4 DEF TrainerStep, sync, FullInv, TrainInv
      <3>2. Awaited <= Queued
        <4>1. queue \in Seq(Samples)
          BY <1>1 DEF TypeInv, TypeOK, QueueTypeOK, Samples
        <4> QED
          BY <4>1 DEF Awaited, Queued, FullInv, FlowInv, NoneIsLast
      <3>3. trained + Required <= Generated
        BY <1>2, <1>3, <1>4, <2>3, <3>1, <3>2 DEF Balanced, CountTypes
      <3> QED
        BY <2>2, <3>1, <3>3 DEF Synchronous!Next, Synchronous!Train
    <2>5. CASE SyncWeights
      <3>1. /\ tpc = "sync" /\ weights' = trainVersion /\ trained' = trained /\ Syncing
        BY <2>5 DEF SyncWeights, Syncing
      <3>2. weights' = weights + 1
        BY <1>2, <3>1 DEF ZeroInv, VersionInv
      <3>3. CASE ~validate
        <4>1. Generated = trained /\ trained = Synchronous!Quota
          BY <1>2, <1>3, <1>5, <3>1, <3>3, Emptied DEF ZeroInv
        <4> QED
          BY <2>2, <3>1, <3>2, <4>1 DEF Synchronous!Next, Synchronous!Publish
      <3>4. CASE validate
        <4>1. HasSentinel /\ SentinelTaken
          BY <3>4 DEF FullInv, FlowInv, SentinelTaken
        <4>2. ppc = "end" /\ taken = Done /\ running = 0 /\ resultQueue = <<>>
              /\ consuming = Nothing /\ queue = <<>>
          BY <4>1, NothingOnItsWay DEF FullInv, EndInv, HasSentinel
        <4>3. Held = 0 /\ Carried = 0 /\ Queued = 0 /\ Awaited = 0 /\ Fetched = NumSamples
          BY <4>1, <4>2
          DEF Held, Hand, InHand, Carried, Carrying, Results, Queued, Awaited, Pending, Fetched
        <4>4. got < Required
          BY <3>1 DEF CountInv
        <4>5. Generated = NumSamples /\ trained + Required > Generated
          BY <1>2, <1>3, <1>4, <2>3, <4>3, <4>4 DEF Balanced
        <4> QED
          BY <2>2, <3>1, <3>2, <4>5 DEF Synchronous!Next, Synchronous!PublishFinal
      <3> QED
        BY <3>3, <3>4
    <2>6. CASE ~TrainerStep /\ ~SyncWeights
      <3>1. UNCHANGED <<weights, trained>>
        BY <1>10, <2>6
        DEF Trainer, TrainerGet, TrainerFinish, SyncPause, PauseGranted, PauseEnd,
            TrainerValidation, TrainerFinal, sync
      <3> QED
        BY <2>2, <3>1 DEF Synchronous!vars
    <2> QED
      BY <2>4, <2>5, <2>6
  <1> QED
    BY <1>7, <1>8, <1>9, <1>10 DEF Next, Terminated

\* README, modes 1 and 2: for every configuration whose threshold is 0 the rollouter, the
\* trainer and the synchronizer together implement synchronous training.
THEOREM SynchronousAtZero == ASSUME ZeroStaleness PROVE Spec => ImplementsSynchronous
  <1>1. Init => Synchronous!Init
    BY DEF Init, MQ!MQInit, Synchronous!Init, Generated, Count, HasSentinel
  <1>2. FullInv /\ FullInv' /\ ZeroInv /\ ZeroInv' /\ CountInv /\ CountInv' /\ [Next]_vars =>
          [Synchronous!Next]_(Synchronous!vars)
    BY SynchronousStep
  <1> QED
    BY <1>1, <1>2, SpecFull, SpecZero, SpecCount, PTL
    DEF Spec, ImplementsSynchronous, Synchronous!Spec

=============================================================================
