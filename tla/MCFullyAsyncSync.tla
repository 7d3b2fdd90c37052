-------------------------- MODULE MCFullyAsyncSync --------------------------
(* Instance of FullyAsyncSync for TLC. *)
EXTENDS FullyAsyncSync
=============================================================================
