------------------------- MODULE MCConfigTransaction -------------------------
(* Model-checking instance of ConfigTransaction: a key of a Bundle that may be *)
(* restarted online, and a key of one that may not.                            *)
EXTENDS ConfigTransaction

CONSTANTS own, other, gateway, core

MCOwner == [k \in {own, other} |-> IF k = own THEN gateway ELSE core]
=============================================================================
