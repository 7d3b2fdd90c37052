-------------------------- MODULE MessageQueueWait --------------------------
(***************************************************************************)
(* MessageQueue with its consumers: get_sample waits on _consumer_condition*)
(* while the queue is empty and the actor runs, put_sample and shutdown    *)
(* notify all waiters, and a notified waiter runs again only later, when   *)
(* another consumer may already have taken the sample.  Samples are serial *)
(* numbers: the i-th sample put is i.                                      *)
(***************************************************************************)
EXTENDS MessageQueue, FiniteSets

CONSTANTS
    Consumers,      \* callers of get_sample
    MaxPuts         \* bound on the samples put

ASSUME MaxPutsAssumption == MaxPuts \in Nat

VARIABLES
    getter,         \* per consumer: "idle", "waiting" (in wait()), "woken"
    lastGot         \* history: the sample handed out last

vars == <<mqVars, getter, lastGot>>

Init ==
    /\ MQInit
    /\ getter = [c \in Consumers |-> "idle"]
    /\ lastGot = 0

Waiting == {c \in Consumers : getter[c] = "waiting"}

\* A variant the runs must reject: notify() instead of notify_all().
NotifyOne ==
    \/ Waiting = {} /\ UNCHANGED getter
    \/ \E c \in Waiting : getter' = [getter EXCEPT ![c] = "woken"]

\* _consumer_condition.notify_all
NotifyAll == getter' = [c \in Consumers |->
                          IF getter[c] = "waiting" THEN "woken" ELSE getter[c]]

Put ==
    /\ totalProduced < MaxPuts
    /\ PutSample(totalProduced + 1)
    /\ NotifyAll
    /\ UNCHANGED lastGot

\* A variant the runs must reject: the sample handed out stays in the queue.
GetReturnsPeek(c) ==
    /\ getter[c] \in {"idle", "woken"}
    /\ queue # <<>>
    /\ totalConsumed' = totalConsumed + 1
    /\ lastGot' = Head(queue)
    /\ getter' = [getter EXCEPT ![c] = "idle"]
    /\ UNCHANGED <<queue, valQueue, open, currentParamVersion, totalProduced,
                   droppedSamples, cleared>>

\* get_sample up to its return, or up to the wait on the condition.
GetReturns(c) ==
    /\ getter[c] \in {"idle", "woken"}
    /\ TakeSample
    /\ lastGot' = Head(queue)
    /\ getter' = [getter EXCEPT ![c] = "idle"]

GetWaits(c) ==
    /\ getter[c] \in {"idle", "woken"}
    /\ queue = <<>> /\ open
    /\ getter' = [getter EXCEPT ![c] = "waiting"]
    /\ UNCHANGED <<mqVars, lastGot>>

\* A variant the runs must reject: a caller that met the closed queue is done.
GetClosedForGood(c) ==
    /\ getter[c] \in {"idle", "woken"}
    /\ queue = <<>> /\ ~open
    /\ getter' = [getter EXCEPT ![c] = "closed"]
    /\ UNCHANGED <<mqVars, lastGot>>

\* the queue is closed and empty: get_sample returns None
GetClosed(c) ==
    /\ getter[c] \in {"idle", "woken"}
    /\ queue = <<>> /\ ~open
    /\ getter' = [getter EXCEPT ![c] = "idle"]
    /\ UNCHANGED <<mqVars, lastGot>>

Close == open /\ Shutdown /\ NotifyAll /\ UNCHANGED lastGot

Clear == queue # <<>> /\ ClearQueue /\ UNCHANGED <<getter, lastGot>>

Get(c) == GetReturns(c) \/ GetWaits(c) \/ GetClosed(c)

Next ==
    \/ Put
    \/ \E c \in Consumers : Get(c)
    \/ Close
    \/ Clear

Spec == Init /\ [][Next]_vars

\* The event loop runs every consumer that has been woken.
FairSpec ==
    /\ Spec
    /\ \A c \in Consumers : WF_vars(getter[c] = "woken" /\ Get(c))

-----------------------------------------------------------------------------
TypeOK ==
    /\ queue \in Seq(Nat)
    /\ valQueue = <<>>
    /\ open \in BOOLEAN
    /\ currentParamVersion = 0
    /\ totalProduced \in Nat /\ totalConsumed \in Nat
    /\ droppedSamples \in Nat /\ cleared \in Nat
    /\ getter \in [Consumers -> {"idle", "waiting", "woken"}]
    /\ lastGot \in Nat

\* put_sample, get_sample: the deque never grows past max_queue_size and holds
\* the newest samples put, contiguous and in order: what overflow discards is
\* always the oldest.
HoldsNewest ==
    /\ Len(queue) <= MaxQueueSize
    /\ \A i \in 1..Len(queue) : queue[i] = totalProduced - Len(queue) + i

\* The counters of get_statistics account for every sample: what was produced
\* has been consumed, dropped or cleared, or is still queued.
CountersBalance ==
    totalProduced = totalConsumed + droppedSamples + cleared + Len(queue)

\* get_sample: no lost wakeup.  A consumer stays in wait() only while there is
\* nothing to take and the queue is open.
NoLostWakeup == Waiting # {} => queue = <<>> /\ open

\* get_sample: every sample it returns, which is what total_consumed counts, was put
\* after the one returned before: samples are handed out in order and never twice,
\* whichever consumer takes them and whatever was dropped in between.
InOrderDelivery == [][totalConsumed' # totalConsumed => lastGot' > lastGot]_vars

\* shutdown: every consumer blocked in get_sample eventually returns, or is
\* served, once the queue is closed.
ShutdownReleases == ~open ~> (\A c \in Consumers : getter[c] = "idle")
=============================================================================
