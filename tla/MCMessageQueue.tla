--------------------------- MODULE MCMessageQueue ---------------------------
(* Instance of MessageQueueWait for TLC. *)
EXTENDS MessageQueueWait
=============================================================================
