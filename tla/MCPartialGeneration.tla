------------------------ MODULE MCPartialGeneration -------------------------
(* Instance of PartialGeneration for TLC. *)
EXTENDS PartialGeneration
=============================================================================
