--------------------------- MODULE MCRaopControl ----------------------------
(* Small instances of RaopControl for TLC.  Nothing is symmetric:           *)
(* DestroyReturns is a liveness property.                                   *)
EXTENDS RaopControl
==============================================================================
