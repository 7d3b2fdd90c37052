--------------------------- MODULE FullyAsyncSync ---------------------------
(* FullyAsync with staleness_threshold = 0 against SynchronousTraining.     *)
EXTENDS FullyAsync

\* Samples that have finished generation: in result_queue, in the consumer's
\* hands, or already put into the message queue.
Generated ==
    totalProduced - Count(HasSentinel) + Count(consuming # Nothing) + Len(resultQueue)

Synchronous == INSTANCE SynchronousTraining
    WITH version <- weights, generated <- Generated

\* README, modes 1 and 2: with staleness_threshold = 0 the rollouter, the
\* trainer and the synchronizer together implement synchronous training, however
\* their coroutines interleave.
ImplementsSynchronous == Synchronous!Spec
=============================================================================
