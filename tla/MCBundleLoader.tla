--------------------------- MODULE MCBundleLoader ---------------------------
(* Model-checking instance of BundleLoader: bb requires ba, and bc itself,   *)
(* so that it never resolves; the run level of the Host bh is between        *)
(* theirs, as SystemMonitoring's is between those of the gateways and those  *)
(* of the other services.  bb is also the Console: requests come while it is *)
(* active.                                                                   *)
EXTENDS BundleLoader

CONSTANTS ba, bb, bc, bh

MCRequires == [x \in Bundles |-> IF x = bb THEN {ba} ELSE IF x = bc THEN {bc} ELSE {}]
MCLevel == [x \in Bundles |-> CASE x = ba -> 1 [] x = bh -> 2 [] x = bb -> 3 [] OTHER -> 4]
=============================================================================
