---------------------------- MODULE MessageQueue ----------------------------
(***************************************************************************)
(* The Ray actor MessageQueue of recipe/fully_async_policy: a bounded      *)
(* deque between the rollouter and the trainer that discards its oldest    *)
(* entry when it is full, a second unbounded deque for validation results, *)
(* and counters.  Every method runs under one asyncio lock and awaits      *)
(* nothing while it holds it (get_sample excepted, see MessageQueueWait),  *)
(* so each operation is one step.                                          *)
(***************************************************************************)
EXTENDS Naturals, Sequences

CONSTANTS
    Nothing,        \* Python's None: the end-of-stream sample
    MaxQueueSize    \* max_queue_size

ASSUME MaxQueueSizeAssumption == MaxQueueSize \in Nat \ {0}

VARIABLES
    queue,                \* deque of samples
    valQueue,             \* deque of validation results
    open,                 \* running
    currentParamVersion,
    totalProduced,
    totalConsumed,
    droppedSamples,
    cleared               \* history: samples removed by clear_queue

mqVars == <<queue, valQueue, open, currentParamVersion, totalProduced,
            totalConsumed, droppedSamples, cleared>>

MQInit ==
    /\ queue = <<>>
    /\ valQueue = <<>>
    /\ open = TRUE
    /\ currentParamVersion = 0
    /\ totalProduced = 0
    /\ totalConsumed = 0
    /\ droppedSamples = 0
    /\ cleared = 0

\* A variant the runs must reject: the bound tested with > instead of >=.
FullLate == Len(queue) > MaxQueueSize

Full == Len(queue) >= MaxQueueSize

\* A variant the runs must reject: what overflow discards is not counted.
PutSampleUncounted(sample) ==
    /\ queue' = Append(IF Full THEN Tail(queue) ELSE queue, sample)
    /\ totalProduced' = totalProduced + 1
    /\ UNCHANGED <<valQueue, open, currentParamVersion, totalConsumed,
                   droppedSamples, cleared>>

\* put_sample returns FALSE exactly when it had to drop the oldest sample.
PutSample(sample) ==
    /\ queue' = Append(IF Full THEN Tail(queue) ELSE queue, sample)
    /\ droppedSamples' = IF Full THEN droppedSamples + 1 ELSE droppedSamples
    /\ totalProduced' = totalProduced + 1
    /\ UNCHANGED <<valQueue, open, currentParamVersion, totalConsumed, cleared>>

\* The part of get_sample that runs once a sample is there.
TakeSample ==
    /\ queue # <<>>
    /\ queue' = Tail(queue)
    /\ totalConsumed' = totalConsumed + 1
    /\ UNCHANGED <<valQueue, open, currentParamVersion, totalProduced,
                   droppedSamples, cleared>>

UpdateParamVersion(version) ==
    /\ currentParamVersion' = version
    /\ UNCHANGED <<queue, valQueue, open, totalProduced, totalConsumed,
                   droppedSamples, cleared>>

ClearQueue ==
    /\ cleared' = cleared + Len(queue)
    /\ queue' = <<>>
    /\ UNCHANGED <<valQueue, open, currentParamVersion, totalProduced,
                   totalConsumed, droppedSamples>>

Shutdown ==
    /\ open' = FALSE
    /\ UNCHANGED <<queue, valQueue, currentParamVersion, totalProduced,
                   totalConsumed, droppedSamples, cleared>>

PutValidate(data) ==
    /\ valQueue' = Append(valQueue, data)
    /\ UNCHANGED <<queue, open, currentParamVersion, totalProduced,
                   totalConsumed, droppedSamples, cleared>>

\* get_validate never waits: on an empty deque it answers None.
GetValidate ==
    /\ valQueue' = IF valQueue = <<>> THEN <<>> ELSE Tail(valQueue)
    /\ UNCHANGED <<queue, open, currentParamVersion, totalProduced,
                   totalConsumed, droppedSamples, cleared>>
=============================================================================
