--------------------------- MODULE MCAlertTracker ---------------------------
(* Model-checking instance of AlertTracker. *)
EXTENDS AlertTracker
=============================================================================
