------------------------- MODULE SubprocessManager --------------------------
(***************************************************************************)
(* The manager of the runtime's child processes and the threads that use   *)
(* it: main() starts the configured children and stops them at the end,    *)
(* the workers of the management task queue start, stop and restart one by *)
(* name, and a child may end or ignore a request to end at any moment.     *)
(* Every public operation holds one mutex, but restart() releases it       *)
(* between its stop and its start, and a stop holds it while it waits for  *)
(* the child to end.                                                       *)
(* Source: src/platform/ProcessManagement/src/SubprocessManager.cpp, main  *)
(* in src/server/src/MacchinaServer.cpp, ProcessLifecycleHandler in        *)
(* src/platform/OSP/SystemMonitoring/src/SystemMonitoring.cpp.             *)
(***************************************************************************)
EXTENDS Naturals, Sequences, SequencesExt, FiniteSets

CONSTANTS
    Names, NoName,
    Slots,       \* the enabled entries of the file, in order: [name, local]
    Workers,     \* threads of the management task queue
    Main,        \* the thread of main()
    Nobody,      \* no holder of the mutex
    MaxPids,     \* bound: processes ever launched
    MaxOps,      \* bound: operations the workers begin
    MaxFaults    \* bound: launches that fail

Threads == Workers \cup {Main}
Pids == 1..MaxPids

ASSUME SlotsAssumption ==
    Slots \in Seq([name : Names, local : BOOLEAN]) /\ NoName \notin Names

ASSUME ThreadsAssumption ==
    Main \notin Workers /\ Nobody \notin Workers \cup {Main}

ASSUME BoundsAssumption == MaxPids \in Nat /\ MaxOps \in Nat /\ MaxFaults \in Nat

VARIABLES
    configured,  \* _configured
    running,     \* _running: sequence of [name, pid]
    mutex,       \* the holder of _mutex
    child,       \* [Pids -> Supervisor's state of a process]
    childName,   \* history: the name a process was launched under
    server,      \* where main() is
    th,          \* what every thread is doing
    ops, faults  \* bounds

vars == <<configured, running, mutex, child, childName, server, th, ops, faults>>

NoTask == [op |-> "none", at |-> "idle", name |-> NoName, todo |-> <<>>, mark |-> 0]

Init ==
    /\ configured = <<>> /\ running = <<>> /\ mutex = Nobody
    /\ child = [p \in Pids |-> "unborn"] /\ childName = [p \in Pids |-> NoName]
    /\ server = "booting"
    /\ th = [t \in Threads |-> IF t = Main THEN [NoTask EXCEPT !.op = "boot", !.at = "lock"]
                                           ELSE NoTask]
    /\ ops = 0 /\ faults = 0

isRunning(p) == child[p] \in {"alive", "asked", "killed"}
Born == {p \in Pids : child[p] # "unborn"}
findRunning(n) == {i \in DOMAIN running : running[i].name = n}
FirstRunning(n) == CHOOSE i \in findRunning(n) : \A j \in findRunning(n) : i <= j
isConfigured(n) == \E i \in DOMAIN configured : configured[i].name = n
isLocal(n) == \E i \in DOMAIN configured :
                 /\ configured[i].name = n /\ configured[i].local
                 /\ \A j \in 1..(i - 1) : configured[j].name # n

CanLaunch == Cardinality(Born) < MaxPids

\* launch(): the process exists and is the last entry of the given list.
launch(n, list) ==
    LET p == Cardinality(Born) + 1
    IN  /\ CanLaunch
        /\ child' = [child EXCEPT ![p] = "alive"]
        /\ childName' = [childName EXCEPT ![p] = n]
        /\ running' = Append(list, [name |-> n, pid |-> p])

(***************************************************************************)
(* startFromConfiguration.                                                 *)
(***************************************************************************)
\* stopAll() finds nothing, then the mutex is taken again.
BootBegins ==
    /\ th[Main].op = "boot" /\ th[Main].at = "lock" /\ mutex = Nobody
    /\ mutex' = Main /\ configured' = <<>>
    /\ th' = [th EXCEPT ![Main].at = "loop"]
    /\ UNCHANGED <<running, child, childName, server, ops, faults>>

Booting == th[Main].op = "boot" /\ th[Main].at = "loop"
NextSlot == Slots[Len(configured) + 1]

BootSlot ==
    /\ Booting /\ Len(configured) < Len(Slots)
    /\ configured' = Append(configured, NextSlot)
    /\ \/ NextSlot.local /\ launch(NextSlot.name, running)
       \/ ~NextSlot.local /\ UNCHANGED <<running, child, childName>>
    /\ UNCHANGED <<mutex, server, th, ops, faults>>

StopOrderForward(list) == list        \* mutant: from the first one
StopOrder(list) == Reverse(list)      \* rbegin() to rend()

\* A bad entry (left out of _configured) or a launch that fails (kept in it):
\* what was started is stopped again and the exception leaves main().
BootFails ==
    /\ Booting /\ Len(configured) < Len(Slots) /\ faults < MaxFaults
    /\ faults' = faults + 1
    /\ configured' \in {configured} \cup
          {Append(configured, s) : s \in {x \in {NextSlot} : x.local}}
    /\ th' = [th EXCEPT ![Main].op = "rollback", ![Main].at = "next", ![Main].todo = StopOrder(running)]
    /\ UNCHANGED <<running, mutex, child, childName, server, ops>>

BootEnds ==
    /\ Booting /\ Len(configured) = Len(Slots)
    /\ mutex' = Nobody /\ server' = "up"
    /\ th' = [th EXCEPT ![Main] = NoTask]
    /\ UNCHANGED <<configured, running, child, childName, ops, faults>>

(***************************************************************************)
(* stopProcess, under the mutex, for each process of todo: ask the child   *)
(* to end, wait for it up to the timeout, kill it.                         *)
(***************************************************************************)
Stopping(t, at) == th[t].at = at /\ th[t].todo # <<>>
Pid(t) == Head(th[t].todo).pid
StopNext(t) == th' = [th EXCEPT ![t].at = "next", ![t].todo = Tail(@)]

StopAsk(t) ==
    /\ Stopping(t, "next")
    /\ \/ ~isRunning(Pid(t)) /\ StopNext(t) /\ UNCHANGED child
       \/ /\ isRunning(Pid(t))
          /\ child' = [child EXCEPT ![Pid(t)] = IF @ = "alive" THEN "asked" ELSE @]
          /\ th' = [th EXCEPT ![t].at = "wait"]
    /\ UNCHANGED <<configured, running, mutex, childName, server, ops, faults>>

\* The loop ends because the child has ended or the time is over.
GivesUpNever(t) == FALSE                  \* mutant: no timeout
GivesUp(t) == isRunning(Pid(t))

StopWaited(t) ==
    /\ Stopping(t, "wait")
    /\ \/ ~isRunning(Pid(t)) /\ StopNext(t)
       \/ GivesUp(t) /\ th' = [th EXCEPT ![t].at = "kill"]
    /\ UNCHANGED <<configured, running, mutex, child, childName, server, ops, faults>>

\* The child is killed; nobody waits for its end.
StopKill(t) ==
    /\ Stopping(t, "kill") /\ StopNext(t)
    /\ child' = [child EXCEPT ![Pid(t)] = IF @ = "gone" THEN @ ELSE "killed"]
    /\ UNCHANGED <<configured, running, mutex, childName, server, ops, faults>>

\* Where main() is after an operation of its own, and how it ends.
Leaves(op, thrown) ==
    CASE op = "destroy" -> IF thrown THEN "aborted" ELSE "destroyed"
      [] OTHER          -> "ending"

\* A child that ended by itself between the last look and kill(): on the
\* platforms where that is an error the exception leaves the operation with
\* the entries as they are (out of the destructor it ends the process).
StopThrows(t) ==
    /\ Stopping(t, "kill") /\ child[Pid(t)] = "gone"
    /\ mutex' = Nobody /\ th' = [th EXCEPT ![t] = NoTask]
    /\ server' = IF t = Main THEN Leaves(th[t].op, TRUE) ELSE server
    /\ UNCHANGED <<configured, running, child, childName, ops, faults>>

(***************************************************************************)
(* Operations of the workers: start(), stop() and restart() by name.       *)
(***************************************************************************)
Begin(t, op, n) ==
    /\ t \in Workers /\ th[t].at = "idle" /\ ops < MaxOps
    /\ server \in {"booting", "up", "stopping", "ending"}  \* the OSP is up
    /\ ops' = ops + 1
    /\ th' = [th EXCEPT ![t] = [op |-> op, at |-> IF op = "start" THEN "start" ELSE "stop",
                                name |-> n, todo |-> <<>>, mark |-> Cardinality(Born)]]
    /\ UNCHANGED <<configured, running, mutex, child, childName, server, faults>>

\* stopOne takes the mutex; a name without an entry is answered at once, and
\* restart goes on unless the name is unknown.
StopBegins(t) ==
    /\ th[t].at = "stop" /\ mutex = Nobody
    /\ LET n == th[t].name
       IN  \/ /\ findRunning(n) # {}
              /\ mutex' = t
              /\ th' = [th EXCEPT ![t].at = "next", ![t].todo = <<running[FirstRunning(n)]>>]
           \/ /\ findRunning(n) = {} /\ UNCHANGED mutex
              /\ th' = [th EXCEPT ![t] = IF @.op = "restart" /\ isConfigured(n)
                                            THEN [@ EXCEPT !.at = "start"] ELSE NoTask]
    /\ UNCHANGED <<configured, running, child, childName, server, ops, faults>>

WithoutNot(n) == running                  \* mutant: the entry stays
Without(n) == RemoveAt(running, FirstRunning(n))

\* The stop is done: the entry goes and the mutex is released.
StopEnds(t) ==
    /\ th[t].op \in {"stop", "restart"} /\ th[t].at = "next" /\ th[t].todo = <<>>
    /\ running' = Without(th[t].name) /\ mutex' = Nobody
    /\ th' = [th EXCEPT ![t] = IF @.op = "restart" THEN [@ EXCEPT !.at = "start"] ELSE NoTask]
    /\ UNCHANGED <<configured, child, childName, server, ops, faults>>

PresentNever(n) == FALSE                  \* mutant: every start launches
Present(n) == findRunning(n) # {} /\ isRunning(running[FirstRunning(n)].pid)

\* startOne, one critical section: a running child is enough; an entry whose
\* child has ended goes; launch, which may throw.
StartOne(t) ==
    LET n    == th[t].name
        kept == IF findRunning(n) = {} THEN running ELSE RemoveAt(running, FirstRunning(n))
    IN  /\ th[t].at = "start" /\ mutex = Nobody
        /\ th' = [th EXCEPT ![t] = NoTask]
        /\ \/ (~isLocal(n) \/ Present(n)) /\ UNCHANGED <<running, child, childName, faults>>
           \/ isLocal(n) /\ ~Present(n) /\ launch(n, kept) /\ UNCHANGED faults
           \/ /\ isLocal(n) /\ ~Present(n) /\ faults < MaxFaults /\ faults' = faults + 1
              /\ running' = kept /\ UNCHANGED <<child, childName>>
        /\ UNCHANGED <<configured, mutex, server, ops>>

(***************************************************************************)
(* The end of the process: stopAll() by main(), the OSP stops and joins    *)
(* the workers, and the destructor stops what was started in between.      *)
(***************************************************************************)
\* stopAll takes the mutex.
StopAllBegins(op, from, to) ==
    /\ server = from /\ th[Main].at = "idle" /\ mutex = Nobody
    /\ server' = to /\ mutex' = Main
    /\ th' = [th EXCEPT ![Main] = [NoTask EXCEPT !.op = op, !.at = "next", !.todo = StopOrder(running)]]
    /\ UNCHANGED <<configured, running, child, childName, ops, faults>>

mainStops == StopAllBegins("stopAll", "up", "stopping")
destructorStops == StopAllBegins("destroy", "joined", "destroying")

\* Everything is stopped: _running.clear().
StopAllEnds ==
    /\ th[Main].op \in {"stopAll", "rollback", "destroy"}
    /\ th[Main].at = "next" /\ th[Main].todo = <<>>
    /\ running' = <<>> /\ mutex' = Nobody
    /\ server' = Leaves(th[Main].op, FALSE)
    /\ th' = [th EXCEPT ![Main] = NoTask]
    /\ UNCHANGED <<configured, child, childName, ops, faults>>

OspStops ==
    /\ server = "ending" /\ \A t \in Workers : th[t].at = "idle"
    /\ server' = "joined"
    /\ UNCHANGED <<configured, running, mutex, child, childName, th, ops, faults>>

ChildEnds(p) ==
    /\ isRunning(p)
    /\ child' = [child EXCEPT ![p] = "gone"]
    /\ UNCHANGED <<configured, running, mutex, childName, server, th, ops, faults>>

Over == server \in {"destroyed", "aborted"} /\ UNCHANGED vars
-----------------------------------------------------------------------------
Step(t) ==
    \/ StopAsk(t) \/ StopWaited(t) \/ StopKill(t) \/ StopThrows(t)
    \/ StopBegins(t) \/ StopEnds(t) \/ StartOne(t)

MainStep == BootBegins \/ BootSlot \/ BootFails \/ BootEnds \/ destructorStops \/ StopAllEnds \/ OspStops

Next ==
    \/ MainStep \/ mainStops \/ Over
    \/ \E t \in Threads : Step(t)
    \/ \E t \in Workers, op \in {"start", "stop", "restart"}, n \in Names : Begin(t, op, n)
    \/ \E p \in Pids : ChildEnds(p)

(* Threads that can run do run; a termination signal comes in the end.       *)
(* Nothing is assumed of the children.                                       *)
Fairness ==
    /\ WF_vars(MainStep) /\ WF_vars(mainStops)
    /\ \A t \in Threads : WF_vars(Step(t))

Spec == Init /\ [][Next]_vars /\ Fairness
-----------------------------------------------------------------------------
(* Type invariant. *)
TypeOK ==
    /\ configured \in Seq([name : Names, local : BOOLEAN])
    /\ running \in Seq([name : Names, pid : Pids])
    /\ mutex \in Threads \cup {Nobody}
    /\ child \in [Pids -> {"unborn", "alive", "asked", "killed", "gone"}]
    /\ childName \in [Pids -> Names \cup {NoName}]
    /\ server \in {"booting", "up", "stopping", "ending", "joined", "destroying",
                   "destroyed", "aborted"}
    /\ DOMAIN th = Threads /\ ops \in 0..MaxOps /\ faults \in 0..MaxFaults

S == INSTANCE Supervisor WITH
        Names <- Names, Pids <- Pids, NoName <- NoName,
        name <- childName, state <- child, closed <- (server = "destroyed")

(* The manager is a supervisor: whatever the interleaving of start, stop,    *)
(* restart, a failed boot and the shutdown, a name never has two children    *)
(* that were not killed, nobody is killed unasked, and the destructor leaves *)
(* no child behind but killed ones.                                          *)
Supervises == S!Spec

(* restart() never passes an old child off as the new one: when it ends with *)
(* success, the child it leaves under the name was launched after the        *)
(* restart began, by itself or by a start that came between its stop and its *)
(* start.                                                                    *)
RestartIsFresh ==
    [][\A t \in Workers : th[t].op = "restart" /\ StartOne(t) =>
         \A i \in DOMAIN running' :
            running'[i].name = th[t].name => running'[i].pid > th[t].mark]_vars

(* The shutdown stops the children in the reverse of the order they were     *)
(* launched in: none is asked to end while a younger one is neither dead nor *)
(* killed.                                                                   *)
Asked(p) == child[p] = "alive" /\ child'[p] = "asked"
Dealt == {"unborn", "killed", "gone"}
YoungestFirst ==
    [][\A p, q \in Pids :
         server \in {"stopping", "destroying"} /\ Asked(p) /\ q > p => child[q] \in Dealt]_vars

(* The shutdown ends, with children that ignore the request to end and with  *)
(* workers in the middle of a restart.                                       *)
ShutdownEnds == server = "stopping" ~> server \in {"destroyed", "aborted"}

(* The children are stopped in the reverse of the order of the file.         *)
Before(p, q) ==
    \E i, j \in DOMAIN Slots : i < j /\ Slots[i].name = childName[p] /\ Slots[j].name = childName[q]
FileOrder ==
    [][\A p, q \in Pids :
         server = "stopping" /\ Asked(p) /\ child[q] = "alive" /\ q # p => Before(q, p)]_vars
=============================================================================
