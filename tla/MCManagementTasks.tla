-------------------------- MODULE MCManagementTasks --------------------------
(* Model-checking instance of ManagementTasks. *)
EXTENDS ManagementTasks

\* Three tasks, two on one resource and one on another; nobody cancels, no
\* deadline passes and the Runtime stays up.  Every such behaviour is one of
\* BlockingSpec.
ParallelSpec ==
    /\ Init /\ key[1] = key[2] /\ key[3] # key[1]
    /\ [][Next /\ mgr' = "up" /\ UNCHANGED <<cancelReq, late, overrun>>]_vars
    /\ SchedulerFairness
=============================================================================
