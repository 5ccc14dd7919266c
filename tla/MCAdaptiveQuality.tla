-------------------------- MODULE MCAdaptiveQuality --------------------------
(* Instances of AdaptiveQuality; the constants are given in the .cfg files.  *)
EXTENDS AdaptiveQuality
==============================================================================
