---------------------------- MODULE MCVideoPlayer ----------------------------
(* Small instances of VideoPlayer for TLC. *)
EXTENDS VideoPlayer
=============================================================================
