-------------------------- MODULE MCReceiverRuntime --------------------------
(* Small instances of ReceiverRuntime for TLC. *)
EXTENDS ReceiverRuntime
==============================================================================
