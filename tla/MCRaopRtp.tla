----------------------------- MODULE MCRaopRtp -----------------------------
(* Small instances of RaopRtp for TLC: three fields in the code's order. *)
EXTENDS RaopRtp

MCMailbox == <<"volume", "flush", "metadata">>
=============================================================================
