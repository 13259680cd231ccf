--------------------------- MODULE MCRequestLedger ---------------------------
(* Model-checking instance of RequestLedger. *)
EXTENDS RequestLedger, TLC

Symmetry == Permutations(Handlers) \cup Permutations(Ids) \cup Permutations(Prints)
=============================================================================
