------------------------ MODULE SynchronousTraining ------------------------
(***************************************************************************)
(* What fully_async_policy promises for staleness_threshold = 0 (README,   *)
(* modes 1 and 2): for each parameter version the rollouter generates one  *)
(* fixed number of samples, the trainer trains on exactly those, and only  *)
(* then the next version is published.                                     *)
(***************************************************************************)
EXTENDS Naturals

CONSTANTS
    NumSamples,     \* samples in the whole run
    Required,       \* samples per training step
    Trigger         \* training steps per parameter version

VARIABLES
    version,        \* the version the servers generate with
    generated,      \* samples generated so far
    trained         \* samples trained on so far

vars == <<version, generated, trained>>

Quota == (version + 1) * Trigger * Required

Init == version = 0 /\ generated = 0 /\ trained = 0

Generate ==
    /\ generated < Quota /\ generated < NumSamples
    /\ generated' = generated + 1
    /\ UNCHANGED <<version, trained>>

Train ==
    /\ trained + Required <= generated
    /\ trained' = trained + Required
    /\ UNCHANGED <<version, generated>>

Publish ==
    /\ generated = trained /\ trained = Quota
    /\ version' = version + 1
    /\ UNCHANGED <<generated, trained>>

\* At the end fewer samples than a version takes may be left.
PublishFinal ==
    /\ generated = NumSamples /\ trained + Required > generated
    /\ version' = version + 1
    /\ UNCHANGED <<generated, trained>>

Next == Generate \/ Train \/ Publish \/ PublishFinal

Spec == Init /\ [][Next]_vars
=============================================================================
