-------------------------- MODULE MCServiceEndpoint --------------------------
(* Model-checking instance of ServiceEndpoint. *)
EXTENDS ServiceEndpoint
=============================================================================
