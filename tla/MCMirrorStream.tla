--------------------------- MODULE MCMirrorStream ----------------------------
(* Payload sizes for MirrorStream: the longest rest of a block, one block   *)
(* and the sizes around it, and the sizes around two and three blocks.      *)
EXTENDS MirrorStream

MCLengths == {15, 16, 17, 24, 31, 32, 33, 47, 49}
==============================================================================
