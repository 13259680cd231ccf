------------------------- MODULE MCPluginQuarantine -------------------------
(* Model-checking instance of PluginQuarantine: p1 requires p2. *)
EXTENDS PluginQuarantine

CONSTANTS p1, p2

MCDeps == [p \in Plugins |-> IF p = p1 THEN {p2} ELSE {}]
=============================================================================
