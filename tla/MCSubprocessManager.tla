------------------------ MODULE MCSubprocessManager -------------------------
(* Model-checking instance of SubprocessManager. *)
EXTENDS SubprocessManager

CONSTANTS a, b, r, w1, w2

Local(n) == [name |-> n, local |-> TRUE]
MCSlots == <<Local(a), [name |-> r, local |-> FALSE], Local(b)>>
MCSameName == <<Local(a), Local(a)>>
=============================================================================
