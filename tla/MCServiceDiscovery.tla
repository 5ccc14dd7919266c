-------------------------- MODULE MCServiceDiscovery --------------------------
(* Instances of ServiceDiscovery; the constants are given in the .cfg files. *)
EXTENDS ServiceDiscovery
==============================================================================
