---------------------------- MODULE MCAudioPlayer ----------------------------
(* Small instances of AudioPlayer for TLC. *)
EXTENDS AudioPlayer
(* A packet and a half too late, on time, one unit too early. *)
LateOrEarly == {-3, 0, 1}
==============================================================================
