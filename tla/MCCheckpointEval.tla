--------------------------- MODULE MCCheckpointEval --------------------------
(* Instance of CheckpointEval for TLC. *)
EXTENDS CheckpointEval
=============================================================================
