------------------------- MODULE MessageQueueProofs -------------------------
(***************************************************************************)
(* What MessageQueueWait guarantees for every queue size, every set of     *)
(* consumers and every number of samples.                                  *)
(***************************************************************************)
EXTENDS MessageQueueWait, SequenceTheorems, TLAPS

\* Everything still queued is newer than what has been handed out.
HandedOut ==
    /\ lastGot <= totalProduced
    /\ \A i \in 1..Len(queue) : queue[i] > lastGot

\* HandedOut is what makes in-order delivery inductive.
IInv == TypeOK /\ HoldsNewest /\ CountersBalance /\ NoLostWakeup /\ HandedOut

LEMMA InitIInv == Init => IInv
  BY MaxQueueSizeAssumption
     DEF Init, MQInit, IInv, TypeOK, HoldsNewest, CountersBalance, NoLostWakeup,
         HandedOut, Waiting

\* put_sample on the queue alone: it keeps the newest samples in order, whether or
\* not the oldest had to go.
LEMMA PutIInv == IInv /\ Put => IInv'
  <1> SUFFICES ASSUME IInv, Put PROVE IInv'
    OBVIOUS
  <1> DEFINE kept == IF Full THEN Tail(queue) ELSE queue
  <1>1. /\ queue \in Seq(Nat) /\ Len(queue) \in Nat
        /\ totalProduced \in Nat /\ totalConsumed \in Nat
        /\ droppedSamples \in Nat /\ cleared \in Nat
        /\ lastGot \in Nat /\ lastGot <= totalProduced
        /\ MaxQueueSize \in Nat \ {0}
        /\ totalProduced = totalConsumed + droppedSamples + cleared + Len(queue)
    BY MaxQueueSizeAssumption DEF IInv, TypeOK, HandedOut, CountersBalance
  <1>2. /\ Len(queue) <= MaxQueueSize
        /\ \A i \in 1..Len(queue) : /\ queue[i] = totalProduced - Len(queue) + i
                                   /\ queue[i] > lastGot
    BY DEF IInv, HoldsNewest, HandedOut
  <1>3. /\ queue' = Append(kept, totalProduced + 1)
        /\ totalProduced' = totalProduced + 1
        /\ UNCHANGED <<totalConsumed, cleared, lastGot>>
        /\ Full => droppedSamples' = droppedSamples + 1
        /\ ~Full => droppedSamples' = droppedSamples
    BY DEF Put, PutSample
  <1>4. /\ kept \in Seq(Nat) /\ Len(kept) \in Nat /\ Len(kept) < MaxQueueSize
        /\ Full => Len(kept) = Len(queue) - 1
        /\ ~Full => Len(kept) = Len(queue)
        /\ \A i \in 1..Len(kept) : /\ kept[i] = totalProduced - Len(kept) + i
                                  /\ kept[i] > lastGot
    <2>1. CASE Full
      <3>1. queue # <<>> /\ Len(queue) = MaxQueueSize
        BY <1>1, <1>2, <2>1 DEF Full
      <3>2. /\ kept \in Seq(Nat) /\ Len(kept) = Len(queue) - 1
            /\ \A i \in 1..Len(kept) : kept[i] = queue[i + 1]
        BY <1>1, <2>1, <3>1, HeadTailProperties
      <3>3. ASSUME NEW i \in 1..Len(kept)
            PROVE  kept[i] = totalProduced - Len(kept) + i /\ kept[i] > lastGot
        <4>1. i \in Int /\ i + 1 \in 1..Len(queue)
          BY <1>1, <3>2
        <4>2. queue[i + 1] = totalProduced - Len(queue) + (i + 1)
          BY <1>2, <4>1
        <4>3. queue[i + 1] > lastGot
          BY <1>2, <4>1
        <4>4. totalProduced - Len(queue) + (i + 1) = totalProduced - (Len(queue) - 1) + i
          BY <1>1, <4>1
        <4> QED
          BY <3>2, <4>2, <4>3, <4>4
      <3> QED
        BY <1>1, <2>1, <3>1, <3>2, <3>3
    <2>2. CASE ~Full
      <3>1. kept = queue /\ Len(queue) < MaxQueueSize
        BY <1>1, <2>2 DEF Full
      <3> QED
        BY <1>1, <1>2, <2>2, <3>1
    <2> QED
      BY <2>1, <2>2
  <1> HIDE DEF kept
  <1>5. /\ queue' \in Seq(Nat) /\ Len(queue') = Len(kept) + 1
        /\ queue'[Len(kept) + 1] = totalProduced + 1
        /\ \A i \in 1..Len(kept) : queue'[i] = kept[i]
    BY <1>1, <1>3, <1>4, AppendProperties
  <1>6. TypeOK'
    BY <1>5 DEF IInv, TypeOK, Put, PutSample, NotifyAll
  <1>7. ASSUME NEW i \in 1..Len(queue')
        PROVE  queue'[i] = totalProduced' - Len(queue') + i /\ queue'[i] > lastGot'
    <2>1. CASE i \in 1..Len(kept)
      <3>1. queue'[i] = totalProduced - Len(kept) + i /\ queue'[i] > lastGot
        BY <1>4, <1>5, <2>1
      <3>2. totalProduced - Len(kept) + i = (totalProduced + 1) - (Len(kept) + 1) + i
        BY <1>1, <1>4, <2>1
      <3> QED
        BY <1>3, <1>5, <3>1, <3>2
    <2>2. CASE i = Len(kept) + 1
      <3>1. queue'[i] = totalProduced + 1 /\ totalProduced + 1 > lastGot
        BY <1>1, <1>5, <2>2
      <3>2. totalProduced + 1 = (totalProduced + 1) - (Len(kept) + 1) + (Len(kept) + 1)
        BY <1>1, <1>4
      <3> QED
        BY <1>3, <1>5, <2>2, <3>1, <3>2
    <2>3. i \in 1..(Len(kept) + 1)
      BY <1>5
    <2> QED
      BY <1>4, <2>1, <2>2, <2>3
  <1>8. HoldsNewest'
    <2>1. Len(queue') <= MaxQueueSize
      BY <1>1, <1>4, <1>5
    <2> QED
      BY <1>7, <2>1 DEF HoldsNewest
  <1>9. CountersBalance'
    <2>1. /\ Len(kept) \in Nat /\ Len(queue') = Len(kept) + 1
          /\ totalProduced' = totalProduced + 1
          /\ UNCHANGED <<totalConsumed, cleared>>
      BY <1>1, <1>3, <1>4, <1>5
    <2>2. CASE Full
      <3>1. Len(kept) = Len(queue) - 1 /\ droppedSamples' = droppedSamples + 1
        BY <1>3, <1>4, <2>2
      <3> QED
        BY ONLY <1>1, <2>1, <3>1 DEF CountersBalance
    <2>3. CASE ~Full
      <3>1. Len(kept) = Len(queue) /\ droppedSamples' = droppedSamples
        BY <1>3, <1>4, <2>3
      <3> QED
        BY ONLY <1>1, <2>1, <3>1 DEF CountersBalance
    <2> QED
      BY <2>2, <2>3
  <1>10. NoLostWakeup'
    BY DEF Put, NotifyAll, NoLostWakeup, Waiting, IInv, TypeOK
  <1>11. HandedOut'
    BY <1>1, <1>3, <1>7 DEF HandedOut
  <1> QED
    BY <1>6, <1>8, <1>9, <1>10, <1>11 DEF IInv

LEMMA GetIInv == ASSUME NEW c \in Consumers, IInv, GetReturns(c)
                 PROVE  IInv' /\ lastGot' > lastGot
  <1> USE MaxQueueSizeAssumption DEF IInv, TypeOK
  <1>1. /\ queue # <<>> /\ Len(queue) \in Nat \ {0}
        /\ queue' = Tail(queue) /\ lastGot' = queue[1]
        /\ totalConsumed' = totalConsumed + 1
        /\ UNCHANGED <<valQueue, open, currentParamVersion, totalProduced,
                       droppedSamples, cleared>>
    BY HeadTailProperties, EmptySeq DEF GetReturns, TakeSample
  <1>2. /\ queue' \in Seq(Nat) /\ Len(queue') = Len(queue) - 1
        /\ \A i \in 1..Len(queue') : i + 1 \in 1..Len(queue) /\ queue'[i] = queue[i + 1]
        /\ queue[1] \in Nat
    BY <1>1, HeadTailProperties, ElementOfSeq
  <1>3. TypeOK'
    BY <1>1, <1>2 DEF GetReturns
  <1>4. HoldsNewest'
    <2>1. ASSUME NEW i \in 1..Len(queue')
          PROVE  queue'[i] = totalProduced' - Len(queue') + i
      <3>1. i \in Int /\ i + 1 \in 1..Len(queue) /\ queue'[i] = queue[i + 1]
        BY <1>2
      <3> QED
        BY <1>1, <1>2, <3>1 DEF HoldsNewest
    <2> QED
      BY <1>1, <1>2, <2>1 DEF HoldsNewest
  <1>5. CountersBalance'
    BY <1>1, <1>2 DEF CountersBalance
  <1>6. NoLostWakeup'
    BY <1>1 DEF GetReturns, NoLostWakeup, Waiting
  <1>7. HandedOut'
    BY <1>1, <1>2 DEF HandedOut, HoldsNewest
  <1>8. lastGot' > lastGot
    BY <1>1 DEF HandedOut
  <1> QED
    BY <1>3, <1>4, <1>5, <1>6, <1>7, <1>8

LEMMA NextIInv == IInv /\ [Next]_vars => IInv'
  <1> SUFFICES ASSUME IInv, [Next]_vars PROVE IInv'
    OBVIOUS
  <1> USE DEF IInv, TypeOK
  <1>1. CASE Put
    BY <1>1, PutIInv
  <1>2. ASSUME NEW c \in Consumers, GetReturns(c) PROVE IInv'
    BY <1>2, GetIInv
  <1>3. ASSUME NEW c \in Consumers, GetWaits(c) PROVE IInv'
    BY <1>3 DEF GetWaits, mqVars, HoldsNewest, CountersBalance, NoLostWakeup,
                Waiting, HandedOut
  <1>4. ASSUME NEW c \in Consumers, GetClosed(c) PROVE IInv'
    BY <1>4 DEF GetClosed, mqVars, HoldsNewest, CountersBalance, NoLostWakeup,
                Waiting, HandedOut
  <1>5. CASE Close
    BY <1>5 DEF Close, Shutdown, NotifyAll, HoldsNewest, CountersBalance,
                NoLostWakeup, Waiting, HandedOut
  <1>6. CASE Clear
    <2>1. /\ queue' = <<>> /\ Len(queue') = 0
          /\ cleared' = cleared + Len(queue) /\ Len(queue) \in Nat
          /\ UNCHANGED <<valQueue, open, currentParamVersion, totalProduced,
                         totalConsumed, droppedSamples, getter, lastGot>>
      BY <1>6 DEF Clear, ClearQueue
    <2>2. TypeOK'
      BY <2>1
    <2>3. HoldsNewest' /\ HandedOut'
      BY <2>1, MaxQueueSizeAssumption DEF HoldsNewest, HandedOut
    <2>4. CountersBalance'
      BY <2>1 DEF CountersBalance
    <2>5. NoLostWakeup'
      BY <1>6 DEF Clear, ClearQueue, NoLostWakeup, Waiting
    <2> QED
      BY <2>2, <2>3, <2>4, <2>5
  <1>7. CASE UNCHANGED vars
    BY <1>7 DEF vars, mqVars, HoldsNewest, CountersBalance, NoLostWakeup, Waiting,
                HandedOut
  <1> QED
    BY <1>1, <1>2, <1>3, <1>4, <1>5, <1>6, <1>7 DEF Next, Get

LEMMA SpecIInv == Spec => []IInv
  BY InitIInv, NextIInv, PTL DEF Spec

-----------------------------------------------------------------------------
\* Every variable of the queue and its consumers keeps its type.
THEOREM TypeCorrect == Spec => []TypeOK
  BY SpecIInv, PTL DEF IInv

\* put_sample, get_sample: the deque stays within max_queue_size and holds exactly
\* the newest samples, in order.
THEOREM NewestKept == Spec => []HoldsNewest
  BY SpecIInv, PTL DEF IInv

\* get_statistics: no sample disappears from the books.
THEOREM CountersCorrect == Spec => []CountersBalance
  BY SpecIInv, PTL DEF IInv

\* get_sample, put_sample, shutdown: nobody stays in wait() while there is a reason
\* to return.
THEOREM NoWakeupLost == Spec => []NoLostWakeup
  BY SpecIInv, PTL DEF IInv

\* get_sample: each sample it returns was put after the one returned before, so the
\* samples come out in the order they went in, each at most once.
THEOREM DeliveredInOrder == Spec => InOrderDelivery
  <1>1. IInv /\ [Next]_vars =>
          [totalConsumed' # totalConsumed => lastGot' > lastGot]_vars
    <2> SUFFICES ASSUME IInv, [Next]_vars, totalConsumed' # totalConsumed
                 PROVE  lastGot' > lastGot
      OBVIOUS
    <2>1. ASSUME NEW c \in Consumers, Get(c)
          PROVE  GetReturns(c)
      BY <2>1 DEF Get, GetWaits, GetClosed, mqVars
    <2>2. \E c \in Consumers : GetReturns(c)
      BY <2>1 DEF Next, Put, PutSample, Close, Shutdown, Clear, ClearQueue, vars, mqVars
    <2> QED
      BY <2>2, GetIInv
  <1> QED
    BY <1>1, SpecIInv, PTL DEF Spec, InOrderDelivery
=============================================================================
