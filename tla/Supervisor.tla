---------------------------- MODULE Supervisor ------------------------------
(***************************************************************************)
(* What a supervisor of child processes promises, whatever the threads     *)
(* that call it do: a name has at most one child that has not been killed, *)
(* a child is killed only after it was asked to end, no process id is used *)
(* twice, and a supervisor that has closed leaves no child behind but      *)
(* killed ones.  SubprocessManager implements it.                          *)
(***************************************************************************)
CONSTANTS Names, Pids, NoName

VARIABLES
    name,    \* [Pids -> Names \cup {NoName}]: whose child a process is
    state,   \* [Pids -> ProcessState]
    closed   \* the supervisor has gone

vars == <<name, state, closed>>

ProcessState == {"unborn", "alive", "asked", "killed", "gone"}
Unkilled == {"alive", "asked"}

Init ==
    /\ name = [p \in Pids |-> NoName]
    /\ state = [p \in Pids |-> "unborn"]
    /\ closed = FALSE

Launch(n, p) ==
    /\ ~closed /\ state[p] = "unborn"
    /\ \A q \in Pids : name[q] = n => state[q] \notin Unkilled
    /\ name' = [name EXCEPT ![p] = n]
    /\ state' = [state EXCEPT ![p] = "alive"]
    /\ UNCHANGED closed

Ask(p) ==
    /\ ~closed /\ state[p] = "alive"
    /\ state' = [state EXCEPT ![p] = "asked"]
    /\ UNCHANGED <<name, closed>>

Kill(p) ==
    /\ ~closed /\ state[p] = "asked"
    /\ state' = [state EXCEPT ![p] = "killed"]
    /\ UNCHANGED <<name, closed>>

\* A child ends, by itself, because it was asked to, or killed.
Die(p) ==
    /\ state[p] \in Unkilled \cup {"killed"}
    /\ state' = [state EXCEPT ![p] = "gone"]
    /\ UNCHANGED <<name, closed>>

Close ==
    /\ ~closed /\ \A p \in Pids : state[p] \notin Unkilled
    /\ closed' = TRUE
    /\ UNCHANGED <<name, state>>

Next ==
    \/ Close
    \/ \E p \in Pids :
          \/ Ask(p) \/ Kill(p) \/ Die(p)
          \/ \E n \in Names : Launch(n, p)

Spec == Init /\ [][Next]_vars
=============================================================================
