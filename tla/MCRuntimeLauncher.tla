-------------------------- MODULE MCRuntimeLauncher --------------------------
(* Model-checking instance of RuntimeLauncher. *)
EXTENDS RuntimeLauncher
=============================================================================
