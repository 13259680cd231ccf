--------------------------- MODULE ManagementTasks ---------------------------
(***************************************************************************)
(* The asynchronous management tasks of the SystemMonitoring bundle:       *)
(* ManagementTaskManager in                                                *)
(* platform/OSP/SystemMonitoring/src/SystemMonitoring.cpp.                 *)
(* HTTP threads submit and cancel; a pool of workers takes tasks from the  *)
(* queue, serialises them per resource key and calls the operation; every  *)
(* change is saved to a snapshot file that a restarted Runtime loads.      *)
(* One _mutex and one condition variable serve the queue and the resource  *)
(* waiters alike; a critical section is one step.                          *)
(*                                                                         *)
(* Deadlines are flags the clock raises: due (notBefore reached), late     *)
(* (start deadline passed), overrun (execution deadline passed).           *)
(***************************************************************************)
EXTENDS Naturals, Sequences, FiniteSets

CONSTANTS
    Workers,    \* pdr.management.tasks.workerCount threads
    Keys,       \* resource keys, operation:target
    NoTask,     \* no task: a free resource, an idle worker
    Corrupt,    \* snapshot file that fails to parse or its SHA-256 check
    Capacity,   \* pdr.management.tasks.capacity
    Retention,  \* pdr.management.tasks.retention
    MaxTasks,   \* bound: submit calls
    MaxFaults   \* bound: failed writes of the snapshot, damage to it, crashes

Tasks == 1..MaxTasks

ASSUME TasksAssumption ==
    /\ NoTask \notin Nat
    /\ Capacity \in Nat \ {0} /\ Retention \in Nat \ {0}
    /\ MaxTasks \in Nat /\ MaxFaults \in Nat

Active == {"queued", "running"}
Terminal == {"succeeded", "failed", "cancelled", "timed-out", "interrupted"}

\* What the snapshot keeps of a task.
TaskRecord == [id : Tasks, st : Active \cup Terminal]

ASSUME CorruptAssumption == Corrupt \notin Seq(TaskRecord)

VARIABLES
    mgr,        \* "down", "up", "stopping" (_started, _stopping)
    st,         \* ManagementTask::state
    key,        \* ManagementTask::resourceKey
    cancelReq,  \* tasks with cancellationRequested and the signal set
    due, late, overrun,  \* deadlines reached
    queue,      \* _queue
    order,      \* _order, and with it the keys of _tasks
    owner,      \* _resourceOwners
    waiters,    \* _resourceWaiters
    pc, cur, outcome,    \* per worker: position in run(), its task, how it ended
    disk,       \* the snapshot file: a sequence of records, or Corrupt
    unhealthy,  \* _lastPersistenceError is set
    recovery,   \* _persistenceRecoveryRequired
    submitted, faults,  \* counters for the bounds
    acked,      \* history: tasks whose submit returned
    calls,      \* history: underlying calls made for each task
    final       \* history: first terminal state each task showed

deadlines == <<due, late, overrun>>
resources == <<owner, waiters>>
threads == <<pc, cur, outcome>>
store == <<disk, unhealthy, recovery, faults>>
hist == <<acked, calls, final>>
vars == <<mgr, st, key, cancelReq, deadlines, queue, order, resources, threads,
          store, submitted, hist>>

Sleeping == {"idle", "timer", "resWait"}

Init ==
    /\ mgr = "down"
    /\ st = [t \in Tasks |-> "none"] /\ key \in [Tasks -> Keys]
    /\ cancelReq = {} /\ due = {} /\ late = {} /\ overrun = {}
    /\ queue = <<>> /\ order = <<>>
    /\ owner = [k \in Keys |-> NoTask] /\ waiters = [k \in Keys |-> <<>>]
    /\ pc = [w \in Workers |-> "none"] /\ cur = [w \in Workers |-> NoTask]
    /\ outcome = [w \in Workers |-> "none"]
    /\ disk = <<>> /\ unhealthy = FALSE /\ recovery = FALSE
    /\ submitted = 0 /\ faults = 0
    /\ acked = {} /\ calls = [t \in Tasks |-> 0] /\ final = [t \in Tasks |-> "none"]

-----------------------------------------------------------------------------
(* Snapshot file and retention. *)

\* What erasing the elements of gone leaves of a list.
Remaining(s, gone) ==
    LET upTo[n \in 0..Len(s)] ==
            IF n = 0 THEN <<>>
            ELSE IF s[n] \in gone THEN upTo[n - 1] ELSE Append(upTo[n - 1], s[n])
    IN upTo[Len(s)]

Snapshot(o, s) == [i \in 1..Len(o) |-> [id |-> o[i], st |-> s[o[i]]]]

\* persistLocked refuses while recovery is required; preservePreviousSnapshot
\* refuses to replace a file that does not validate.
MaySave == ~recovery /\ disk # Corrupt

\* A write that fails although it is allowed (disk full, permissions).
Fault == MaySave /\ faults < MaxFaults /\ faults' = faults + 1

\* persistLockedNoThrow
Save(o, s) ==
    \/ /\ MaySave /\ disk' = Snapshot(o, s)
       /\ unhealthy' = FALSE /\ UNCHANGED <<recovery, faults>>
    \/ /\ Fault \/ (~MaySave /\ UNCHANGED faults)
       /\ unhealthy' = TRUE /\ UNCHANGED <<disk, recovery>>

\* pruneLocked: while there are more than Retention tasks, drop the oldest one
\* that is neither queued nor running.
Pruned(o, s) ==
    LET done == {i \in 1..Len(o) : s[o[i]] \notin Active}
        gone == {o[i] : i \in {j \in done : Cardinality({h \in done : h <= j}) + Retention <= Len(o)}}
    IN Remaining(o, gone)

\* The terminal states in s become visible.
Show(s) == final' = [t \in Tasks |-> IF final[t] = "none" /\ s[t] \in Terminal THEN s[t] ELSE final[t]]

-----------------------------------------------------------------------------
(* Condition variable. *)

\* A notified worker leaves the wait: one waiting for work rescans the queue,
\* one waiting for a resource looks at its resource again.
Woken(p) == IF p \in {"idle", "timer"} THEN "scan" ELSE IF p = "resWait" THEN "retry" ELSE p

\* notify_all
WakeAll == [w \in Workers |-> Woken(pc[w])]

\* notify_one wakes some sleeper, whatever it waits for.
WakeOne ==
    IF \A w \in Workers : pc[w] \notin Sleeping THEN UNCHANGED pc
    ELSE \E w \in Workers : pc[w] \in Sleeping /\ pc' = [pc EXCEPT ![w] = Woken(@)]

-----------------------------------------------------------------------------
(* start, stop, crash. *)

\* Records loaded from the snapshot: the last Retention ones, unfinished tasks
\* turned into interrupted ones.
LoadedStateReplay(s) == IF s \in Active THEN "queued" ELSE s
LoadedState(s) == IF s \in Active THEN "interrupted" ELSE s

LoadedOffByOne == SubSeq(disk, (IF Len(disk) >= Retention THEN Len(disk) - Retention + 1 ELSE 0) + 1, Len(disk))
Loaded == SubSeq(disk, (IF Len(disk) > Retention THEN Len(disk) - Retention ELSE 0) + 1, Len(disk))
LoadedOrder == [i \in 1..Len(Loaded) |-> Loaded[i].id]
LoadedSt ==
    [t \in Tasks |-> IF \E i \in 1..Len(Loaded) : Loaded[i].id = t
                     THEN LoadedState(Loaded[CHOOSE i \in 1..Len(Loaded) : Loaded[i].id = t].st)
                     ELSE "none"]

\* loadLocked leaves _queue empty: no loaded task is queued any more.
LoadedQueue == Remaining(LoadedOrder, {t \in Tasks : LoadedSt[t] # "queued"})

start ==
    /\ mgr = "down" /\ mgr' = "up"
    /\ owner' = [k \in Keys |-> NoTask] /\ waiters' = [k \in Keys |-> <<>>]
    /\ pc' = [w \in Workers |-> "scan"]
    /\ \/ /\ disk # Corrupt
          /\ queue' = LoadedQueue
          /\ order' = Pruned(LoadedOrder, LoadedSt) /\ st' = LoadedSt
          /\ Show(LoadedSt)
          /\ recovery' = FALSE
          /\ \/ disk' = Snapshot(order', st') /\ unhealthy' = FALSE /\ UNCHANGED faults
             \/ faults < MaxFaults /\ faults' = faults + 1 /\ unhealthy' = TRUE /\ UNCHANGED disk
       \/ /\ disk = Corrupt
          /\ queue' = <<>> /\ order' = <<>>
          /\ st' = [t \in Tasks |-> "none"]
          /\ recovery' = TRUE /\ unhealthy' = TRUE
          /\ UNCHANGED <<final, disk, faults>>
    /\ UNCHANGED <<key, cancelReq, deadlines, cur, outcome, submitted, acked, calls>>

\* stop(), first part: queued tasks are cancelled, running ones asked to stop.
stop ==
    /\ mgr = "up" /\ mgr' = "stopping"
    /\ st' = [t \in Tasks |-> IF \E i \in 1..Len(queue) : queue[i] = t THEN "cancelled" ELSE st[t]]
    /\ cancelReq' = cancelReq \cup {order[i] : i \in {j \in 1..Len(order) : st[order[j]] = "running"}}
    /\ queue' = <<>>
    /\ Show(st') /\ Save(order, st')
    /\ pc' = WakeAll
    /\ UNCHANGED <<key, deadlines, order, resources, cur, outcome, submitted, acked, calls>>

\* stop(), second part: all workers are joined.
joined ==
    /\ mgr = "stopping" /\ \A w \in Workers : pc[w] = "exit"
    /\ mgr' = "down" /\ pc' = [w \in Workers |-> "none"]
    /\ UNCHANGED <<st, key, cancelReq, deadlines, queue, order, resources, cur, outcome,
                   store, submitted, hist>>

Crash ==
    /\ mgr # "down" /\ faults < MaxFaults /\ faults' = faults + 1
    /\ mgr' = "down"
    /\ queue' = <<>> /\ order' = <<>>
    /\ owner' = [k \in Keys |-> NoTask] /\ waiters' = [k \in Keys |-> <<>>]
    /\ pc' = [w \in Workers |-> "none"] /\ cur' = [w \in Workers |-> NoTask]
    /\ outcome' = [w \in Workers |-> "none"]
    /\ UNCHANGED <<st, key, cancelReq, deadlines, disk, unhealthy, recovery, submitted, hist>>

\* The file is damaged from outside; whatever it promised is void.
DiskCorrupts ==
    /\ disk # Corrupt /\ faults < MaxFaults /\ faults' = faults + 1
    /\ disk' = Corrupt /\ acked' = {}
    /\ UNCHANGED <<mgr, st, key, cancelReq, deadlines, queue, order, resources, threads,
                   unhealthy, recovery, submitted, calls, final>>

-----------------------------------------------------------------------------
(* submit and cancel. *)

ActiveTasks == {order[i] : i \in {j \in 1..Len(order) : st[order[j]] \in Active}}

HasRoom == Cardinality(ActiveTasks) < Capacity

\* A full queue or a stopping manager throws before anything changes; a failed
\* save is rolled back (what pruneLocked dropped stays dropped).
submit(k, isDue) ==
    LET t == submitted + 1
        newSt == [st EXCEPT ![t] = "queued"]
        newOrder == Pruned(Append(order, t), newSt)
    IN
    /\ mgr = "up" /\ submitted < MaxTasks /\ HasRoom
    /\ key[t] = k
    /\ submitted' = t
    /\ due' = IF isDue THEN due \cup {t} ELSE due
    /\ \/ /\ MaySave /\ disk' = Snapshot(newOrder, newSt) /\ unhealthy' = FALSE
          /\ UNCHANGED faults
          /\ st' = newSt /\ order' = newOrder /\ queue' = Append(queue, t)
          /\ acked' = acked \cup {t}
          /\ WakeOne
       \/ /\ Fault \/ (~MaySave /\ UNCHANGED faults)
          /\ order' = SubSeq(newOrder, 1, Len(newOrder) - 1)
          /\ UNCHANGED <<disk, unhealthy, st, queue, acked, pc>>
    /\ UNCHANGED <<mgr, key, cancelReq, late, overrun, resources, cur, outcome,
                   recovery, calls, final>>

Dequeued(t) == Remaining(queue, {t})

\* A task that is already over is only saved again.
cancel(t) ==
    /\ \E i \in 1..Len(order) : order[i] = t
    /\ \/ /\ st[t] = "queued"
          /\ st' = [st EXCEPT ![t] = "cancelled"] /\ cancelReq' = cancelReq \cup {t}
          /\ queue' = Dequeued(t)
       \/ /\ st[t] = "running"
          /\ cancelReq' = cancelReq \cup {t}
          /\ UNCHANGED <<st, queue>>
       \/ st[t] \in Terminal /\ UNCHANGED <<st, queue, cancelReq>>
    /\ Show(st') /\ Save(order, st')
    /\ pc' = WakeAll
    /\ UNCHANGED <<mgr, key, deadlines, order, resources, cur, outcome, submitted, acked, calls>>

-----------------------------------------------------------------------------
(* Workers: run, acquireResource, releaseResource. *)

Goto(w, label) == pc' = [pc EXCEPT ![w] = label]

\* The scan of the queue: expired tasks time out, the first one that is due is
\* taken, delayed ones are skipped.
ReadyAt(q) == {i \in 1..Len(q) : q[i] \in due /\ q[i] \notin late}
FirstReady(q) == IF ReadyAt(q) = {} THEN Len(q) + 1
                 ELSE CHOOSE i \in ReadyAt(q) : \A j \in ReadyAt(q) : i <= j
ExpiredIn(q) == {q[i] : i \in {j \in 1..Len(q) : j < FirstReady(q) /\ q[j] \in late}}

WorkerTake(w) ==
    /\ pc[w] = "scan" /\ ReadyAt(queue) # {}
    /\ LET t == queue[FirstReady(queue)]
           gone == ExpiredIn(queue) \cup {t}
       IN /\ queue' = Remaining(queue, gone)
          /\ st' = [s \in Tasks |-> IF s = t THEN "running"
                                    ELSE IF s \in gone THEN "timed-out" ELSE st[s]]
          /\ cur' = [cur EXCEPT ![w] = t]
    /\ Show(st') /\ Save(order, st')
    /\ Goto(w, "check")
    /\ UNCHANGED <<mgr, key, cancelReq, deadlines, order, resources, outcome,
                   submitted, acked, calls>>

\* Where an unsuccessful scan that leaves rest in the queue ends.
NextWaitForever(rest) == IF rest # <<>> THEN "timer" ELSE "idle"
NextWait(rest) == IF rest # <<>> THEN "timer" ELSE IF mgr = "stopping" THEN "exit" ELSE "idle"

WorkerWait(w) ==
    /\ pc[w] = "scan" /\ ReadyAt(queue) = {}
    /\ LET gone == ExpiredIn(queue)
           rest == Remaining(queue, gone)
       IN /\ queue' = rest
          /\ st' = [s \in Tasks |-> IF s \in gone THEN "timed-out" ELSE st[s]]
          /\ IF gone = {} THEN UNCHANGED store ELSE Save(order, st')
          /\ Goto(w, NextWait(rest))
    /\ Show(st')
    /\ UNCHANGED <<mgr, key, cancelReq, deadlines, order, resources, cur, outcome,
                   submitted, acked, calls>>

\* The timed wait for the next notBefore ends.
WorkerTimer(w) ==
    /\ pc[w] = "timer"
    /\ Goto(w, "scan")
    /\ UNCHANGED <<mgr, st, key, cancelReq, deadlines, queue, order, resources, cur, outcome,
                   store, submitted, hist>>

\* ManagementTaskContext::checkpoint
MustStop(t) == t \in cancelReq \/ t \in overrun
Stopped(t) == IF t \in cancelReq THEN "cancelled" ELSE "timed-out"

\* A checkpoint outside the lock; ok is the next position when it passes.
Checkpoint(w, ok) ==
    IF MustStop(cur[w])
    THEN Goto(w, "finish") /\ outcome' = [outcome EXCEPT ![w] = Stopped(cur[w])]
    ELSE Goto(w, ok) /\ UNCHANGED outcome

WorkerCheck(w) ==
    /\ pc[w] = "check" /\ Checkpoint(w, "enter")
    /\ UNCHANGED <<mgr, st, key, cancelReq, deadlines, queue, order, resources, cur,
                   store, submitted, hist>>

\* The catch block of acquireResource takes the task off the waiters.
WithoutForgotten(ws, t) == ws
Without(ws, t) == Remaining(ws, {t})

CanOwnBarging(k, ws, t) == Head(ws) = t
CanOwn(k, ws, t) == owner[k] = NoTask /\ Head(ws) = t

\* One iteration of the loop in acquireResource, with waiters ws.
TryOwn(w, ws) ==
    LET t == cur[w]
        k == key[t]
    IN \/ /\ MustStop(t)
          /\ waiters' = [waiters EXCEPT ![k] = Without(ws, t)]
          /\ outcome' = [outcome EXCEPT ![w] = Stopped(t)]
          /\ Goto(w, "finish") /\ UNCHANGED owner
       \/ /\ ~MustStop(t) /\ CanOwn(k, ws, t)
          /\ waiters' = [waiters EXCEPT ![k] = Without(ws, t)]
          /\ owner' = [owner EXCEPT ![k] = t]
          /\ Goto(w, "owned") /\ UNCHANGED outcome
       \/ /\ ~MustStop(t) /\ ~CanOwn(k, ws, t)
          /\ waiters' = [waiters EXCEPT ![k] = ws]
          /\ Goto(w, "resWait") /\ UNCHANGED <<owner, outcome>>

WorkerEnter(w) ==
    /\ pc[w] = "enter"
    /\ TryOwn(w, Append(waiters[key[cur[w]]], cur[w]))
    /\ Save(order, st)
    /\ UNCHANGED <<mgr, st, key, cancelReq, deadlines, queue, order, cur, submitted, hist>>

\* After a notification or 25 ms; a poll that changes nothing is a stuttering step.
WorkerPoll(w) ==
    /\ pc[w] \in {"resWait", "retry"}
    /\ TryOwn(w, waiters[key[cur[w]]])
    /\ IF pc'[w] = "owned" THEN Save(order, st) ELSE UNCHANGED store
    /\ UNCHANGED <<mgr, st, key, cancelReq, deadlines, queue, order, cur, submitted, hist>>

\* task->execute: its first checkpoint, then the underlying call.
WorkerCall(w) ==
    /\ pc[w] = "owned" /\ Checkpoint(w, "call")
    /\ calls' = IF pc'[w] = "call" THEN [calls EXCEPT ![cur[w]] = @ + 1] ELSE calls
    /\ UNCHANGED <<mgr, st, key, cancelReq, deadlines, queue, order, resources, cur,
                   store, submitted, acked, final>>

WorkerCallReturns(w) ==
    /\ pc[w] = "call"
    /\ \/ Goto(w, "final") /\ UNCHANGED outcome
       \/ Goto(w, "finish") /\ outcome' = [outcome EXCEPT ![w] = "failed"]
    /\ UNCHANGED <<mgr, st, key, cancelReq, deadlines, queue, order, resources, cur,
                   store, submitted, hist>>

WorkerFinalCheck(w) ==
    /\ pc[w] = "final" /\ Goto(w, "finish")
    /\ outcome' = [outcome EXCEPT ![w] = IF MustStop(cur[w]) THEN Stopped(cur[w]) ELSE "succeeded"]
    /\ UNCHANGED <<mgr, st, key, cancelReq, deadlines, queue, order, resources, cur,
                   store, submitted, hist>>

\* The three critical sections that end a task.
WorkerFinish(w) ==
    /\ pc[w] = "finish" /\ Goto(w, "release")
    /\ st' = [st EXCEPT ![cur[w]] = outcome[w]]
    /\ Show(st')
    /\ outcome' = [outcome EXCEPT ![w] = "none"]
    /\ UNCHANGED <<mgr, key, cancelReq, deadlines, queue, order, resources, cur,
                   store, submitted, acked, calls>>

Released(t) == IF owner[key[t]] = t THEN [owner EXCEPT ![key[t]] = NoTask] ELSE owner

WorkerRelease(w) ==
    /\ pc[w] = "release"
    /\ owner' = Released(cur[w])
    /\ pc' = [WakeAll EXCEPT ![w] = "cleanup"]
    /\ UNCHANGED <<mgr, st, key, cancelReq, deadlines, queue, order, waiters, cur, outcome,
                   store, submitted, hist>>

WorkerCleanup(w) ==
    /\ pc[w] = "cleanup" /\ Goto(w, "scan")
    /\ cur' = [cur EXCEPT ![w] = NoTask]
    /\ order' = Pruned(order, st)
    /\ Save(order', st)
    /\ UNCHANGED <<mgr, st, key, cancelReq, deadlines, queue, resources, outcome,
                   submitted, hist>>

-----------------------------------------------------------------------------
(* The clock. *)

ClockDue(t) ==
    /\ mgr # "down" /\ st[t] = "queued" /\ t \notin due /\ due' = due \cup {t}
    /\ UNCHANGED <<mgr, st, key, cancelReq, late, overrun, queue, order, resources, threads,
                   store, submitted, hist>>

\* notBefore lies before the start deadline, so a late task is also due.
ClockLate(t) ==
    /\ mgr # "down" /\ st[t] = "queued" /\ t \in due /\ t \notin late /\ late' = late \cup {t}
    /\ UNCHANGED <<mgr, st, key, cancelReq, due, overrun, queue, order, resources, threads,
                   store, submitted, hist>>

ClockOverrun(t) ==
    /\ mgr # "down" /\ st[t] = "running" /\ t \notin overrun /\ overrun' = overrun \cup {t}
    /\ UNCHANGED <<mgr, st, key, cancelReq, due, late, queue, order, resources, threads,
                   store, submitted, hist>>

-----------------------------------------------------------------------------
WorkerStep(w) ==
    \/ WorkerTake(w) \/ WorkerWait(w) \/ WorkerTimer(w) \/ WorkerCheck(w)
    \/ WorkerEnter(w) \/ WorkerPoll(w) \/ WorkerCall(w) \/ WorkerFinalCheck(w)
    \/ WorkerFinish(w) \/ WorkerRelease(w) \/ WorkerCleanup(w)

Next ==
    \/ start \/ stop \/ joined \/ Crash \/ DiskCorrupts
    \/ \E k \in Keys, isDue \in BOOLEAN : submit(k, isDue)
    \/ \E t \in Tasks : cancel(t) \/ ClockDue(t) \/ ClockLate(t) \/ ClockOverrun(t)
    \/ \E w \in Workers : WorkerStep(w) \/ WorkerCallReturns(w)

Spec == Init /\ [][Next]_vars

\* Workers are scheduled and stop() joins them; the clock reaches notBefore.
SchedulerFairness ==
    /\ \A w \in Workers : WF_vars(WorkerStep(w))
    /\ \A t \in Tasks : WF_vars(ClockDue(t))
    /\ WF_vars(joined)

\* The underlying calls may block for ever ...
BlockingSpec == Spec /\ SchedulerFairness

\* ... or all return.
FairSpec == BlockingSpec /\ \A w \in Workers : WF_vars(WorkerCallReturns(w))

-----------------------------------------------------------------------------
\* Type invariant; _queue holds exactly the queued tasks, each once, and no more
\* tasks are active than the capacity allows.
TypeOK ==
    /\ mgr \in {"down", "up", "stopping"}
    /\ st \in [Tasks -> Active \cup Terminal \cup {"none"}] /\ key \in [Tasks -> Keys]
    /\ cancelReq \subseteq Tasks /\ due \subseteq Tasks /\ late \subseteq Tasks
    /\ overrun \subseteq Tasks
    /\ queue \in Seq(Tasks) /\ mgr # "down" =>
         /\ {queue[i] : i \in 1..Len(queue)} = {t \in Tasks : st[t] = "queued"}
         /\ Cardinality({t \in Tasks : st[t] = "queued"}) = Len(queue)
    /\ order \in Seq(Tasks)
    /\ owner \in [Keys -> Tasks \cup {NoTask}] /\ waiters \in [Keys -> Seq(Tasks)]
    /\ pc \in [Workers -> {"none", "scan", "idle", "timer", "check", "enter", "resWait", "retry", "owned",
                           "call", "final", "finish", "release", "cleanup", "exit"}]
    /\ cur \in [Workers -> Tasks \cup {NoTask}]
    /\ outcome \in [Workers -> Terminal \cup {"none"}]
    /\ unhealthy \in BOOLEAN /\ recovery \in BOOLEAN
    /\ Cardinality(ActiveTasks) <= Capacity
    /\ submitted \in 0..MaxTasks /\ acked \subseteq Tasks
    /\ calls \in [Tasks -> Nat] /\ final \in [Tasks -> Terminal \cup {"none"}]

\* Lifecycle operations on one resource are strictly serial: two workers are
\* never inside the underlying call for the same resource key.
ResourceExclusive ==
    \A v, w \in Workers :
        v # w /\ pc[v] = "call" /\ pc[w] = "call" => key[cur[v]] # key[cur[w]]

Holding == {"owned", "call", "final", "finish", "release"}

\* No resource is owned by, and no waiting line is headed by, a task nobody
\* works on: such a ghost would block its resource for ever.
NoGhost ==
    \A k \in Keys :
        /\ owner[k] # NoTask => \E w \in Workers : cur[w] = owner[k] /\ pc[w] \in Holding
        /\ \A i \in 1..Len(waiters[k]) :
             \E w \in Workers : cur[w] = waiters[k][i] /\ pc[w] \in {"resWait", "retry"}

\* Tasks are never replayed: across crashes and restarts the underlying call of
\* a task is made at most once.
NeverReplayed == \A t \in Tasks : calls[t] <= 1

\* A task whose submit returned does not vanish: until it has shown a terminal
\* state it is listed, and it is in the snapshot a restart would load.
InDisk(t) == \E i \in 1..Len(disk) : disk[i].id = t
Listed(t) == \E i \in 1..Len(order) : order[i] = t
AckedNotLost ==
    \A t \in acked : final[t] = "none" => /\ mgr # "down" => Listed(t)
                                          /\ InDisk(t)

\* A damaged snapshot is evidence: the Runtime never overwrites it.
CorruptKept == [][disk = Corrupt => disk' = Corrupt]_vars

\* stop() returns, once the calls in progress return.
StopCompletes == mgr = "stopping" ~> mgr = "down"

\* Every task the manager accepted reaches a terminal state, unless the Runtime
\* goes down before.
TaskFinishes == \A t \in Tasks : st[t] \in Active ~> (st[t] \in Terminal \/ mgr = "down")

\* A running task whose cancellation was accepted is not reported as succeeded.
CancelHonoured == mgr = "up" => \A t \in cancelReq : st[t] # "succeeded"

\* A terminal state once shown is what the task list keeps showing.
FinalIsFinal == \A t \in Tasks : final[t] # "none" /\ Listed(t) => st[t] = final[t]

\* Different resources proceed in parallel: while a worker is idle, a task that
\* is due is taken even if the tasks being executed never return.
IdleWorkerServes ==
    \A t \in Tasks : (st[t] = "queued" /\ t \in due /\ \E w \in Workers : pc[w] = "idle")
                     ~> (st[t] # "queued" \/ mgr # "up")
=============================================================================
