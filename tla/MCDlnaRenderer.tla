--------------------------- MODULE MCDlnaRenderer ---------------------------
(* Small instances of DlnaRenderer for TLC. *)
EXTENDS DlnaRenderer
==============================================================================
