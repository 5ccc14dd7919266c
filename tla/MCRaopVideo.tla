----------------------------- MODULE MCRaopVideo -----------------------------
(* Small instances of RaopVideo for TLC. *)
EXTENDS RaopVideo
==============================================================================
