--------------------------- MODULE RuntimeLauncher ---------------------------
(***************************************************************************)
(* The watchdog wrapper SubSystem/launcher/src/RuntimeLauncher.cpp: three  *)
(* threads and the supervised child process.                               *)
(*   main    waits for the termination request, then shuts down,           *)
(*   launch  starts the child, waits for it, relaunches within a budget,   *)
(*   watch   kills the child when its heartbeat file is stale.             *)
(* The threads share only atomics: _pid, _launchedAtMicroseconds,          *)
(* _watchdogKilledPid, _stopped; every load and store is a step.           *)
(*                                                                         *)
(* Clocks are ages: how many ticks ago something happened, counted up to   *)
(* the limit the code compares it with, so time itself is not bounded.     *)
(* A new child gets a pid no variable still remembers.                     *)
(***************************************************************************)
EXTENDS Naturals, Sequences, FiniteSets

CONSTANTS
    Pids,          \* process ids (recycled once nothing remembers them)
    NoPid,         \* 0 in _pid
    None,          \* 0 in _launchedAtMicroseconds; no heartbeat file
    MaxRestarts,   \* restartBudget.maxRestarts
    Window,        \* restartBudget.windowMilliseconds, in ticks
    Grace,         \* watchdog.startupGraceMilliseconds, in ticks
    Timeout,       \* watchdog.timeout, in ticks
    RequireFile    \* watchdog.requireFile

ASSUME LauncherAssumption ==
    /\ NoPid \notin Pids
    /\ None \notin Nat
    /\ MaxRestarts \in Nat /\ Window \in Nat \ {0}
    /\ Grace \in Nat /\ Timeout \in Nat \ {0}
    /\ RequireFile \in BOOLEAN

VARIABLES
    terminate,   \* a termination request (signal, or ServerApplication::terminate)
    stopped,     \* _stopped
    exhausted,   \* _restartBudgetExhausted
    pid,         \* _pid
    launchedAt,  \* _launchedAtMicroseconds, as an age
    killedPid,   \* _watchdogKilledPid
    restarts,    \* launch(): the deque of restart times, as ages
    child,       \* the child process: "none", "up" or "hung"
    childPid,    \* its process id
    childAge,    \* external: time since Process::launch created it
    beat,        \* age of the heartbeat file, None if absent
    lpc, mpc, wpc,  \* positions of launch(), main() and watch()
    wPid, wGrace,   \* watch(): pid and graceElapsed
    mPid,           \* main(): pid or activePid
    launches     \* history: calls of Process::launch in the last Window, as ages

shared == <<stopped, exhausted, pid, launchedAt, killedPid>>
childVars == <<child, childPid, childAge>>
vars == <<terminate, shared, restarts, childVars, beat, lpc, mpc, wpc, wPid, wGrace, mPid, launches>>

Init ==
    /\ terminate = FALSE /\ stopped = FALSE /\ exhausted = FALSE
    /\ pid = NoPid /\ launchedAt = None /\ killedPid = NoPid
    /\ restarts = <<>>
    /\ child = "none" /\ childPid = NoPid /\ childAge = 0
    /\ beat \in {None, Timeout}    \* the file may be left over from an earlier run
    /\ lpc = "loop" /\ mpc = "wait" /\ wpc = "sleep"
    /\ wPid = NoPid /\ wGrace = FALSE /\ mPid = NoPid
    /\ launches = <<>>

-----------------------------------------------------------------------------
(* Time and the child process (external). *)

Older(age, limit) == IF age < limit THEN age + 1 ELSE limit
OlderOrNone(age, limit) == IF age = None THEN None ELSE Older(age, limit)

\* Leading entries that left the window: what the pop_front loop removes.
Expired(ages) ==
    CHOOSE k \in 0..Len(ages) :
        /\ \A i \in 1..k : ages[i] >= Window
        /\ k < Len(ages) => ages[k + 1] < Window
Recent(ages) == SubSeq(ages, Expired(ages) + 1, Len(ages))

Tick ==
    /\ childAge' = Older(childAge, Grace)
    /\ launchedAt' = OlderOrNone(launchedAt, Grace)
    /\ beat' = OlderOrNone(beat, Timeout)
    /\ restarts' = [i \in 1..Len(restarts) |-> Older(restarts[i], Window)]
    /\ launches' = Recent([i \in 1..Len(launches) |-> Older(launches[i], Window)])
    /\ UNCHANGED <<terminate, stopped, exhausted, pid, killedPid, child, childPid,
                   lpc, mpc, wpc, wPid, wGrace, mPid>>

ChildBeats ==
    /\ child = "up" /\ beat' = 0
    /\ UNCHANGED <<terminate, shared, restarts, childVars, lpc, mpc, wpc, wPid, wGrace, mPid, launches>>

ChildHangs ==
    /\ child = "up" /\ child' = "hung"
    /\ UNCHANGED <<terminate, shared, restarts, childPid, childAge, beat,
                   lpc, mpc, wpc, wPid, wGrace, mPid, launches>>

ChildExits ==
    /\ child # "none" /\ child' = "none"
    /\ UNCHANGED <<terminate, shared, restarts, childPid, childAge, beat,
                   lpc, mpc, wpc, wPid, wGrace, mPid, launches>>

\* Poco::Process::kill: throws, and changes nothing, when there is no such process.
Kill(p) == child' = IF childPid = p THEN "none" ELSE child

Signal ==
    /\ ~terminate /\ terminate' = TRUE
    /\ UNCHANGED <<shared, restarts, childVars, beat, lpc, mpc, wpc, wPid, wGrace, mPid, launches>>

-----------------------------------------------------------------------------
(* launch(). *)

LaunchLoop ==
    /\ lpc = "loop"
    /\ lpc' = IF stopped THEN "done" ELSE "launch"
    /\ UNCHANGED <<terminate, shared, restarts, childVars, beat, mpc, wpc, wPid, wGrace, mPid, launches>>

Launch ==
    /\ lpc = "launch"
    /\ launches' = Append(launches, 0)
    /\ \/ /\ \E p \in Pids \ {pid, killedPid, wPid, mPid} : childPid' = p
          /\ child' = "up" /\ childAge' = 0
          /\ lpc' = "assign"
       \/ /\ lpc' = "budget"                        \* Process::launch throws
          /\ UNCHANGED childVars
    /\ UNCHANGED <<terminate, shared, restarts, beat, mpc, wpc, wPid, wGrace, mPid>>

AfterFailedAssign == "none"

\* assignResourceBoundary; when it throws the child is killed and the error logged.
AssignBoundary ==
    /\ lpc = "assign"
    /\ \/ lpc' = "storePid" /\ UNCHANGED child
       \/ lpc' = "budget" /\ child' = AfterFailedAssign
    /\ UNCHANGED <<terminate, shared, restarts, childPid, childAge, beat,
                   mpc, wpc, wPid, wGrace, mPid, launches>>

StorePid ==
    /\ lpc = "storePid"
    /\ pid' = childPid /\ lpc' = "storeTime"
    /\ UNCHANGED <<terminate, stopped, exhausted, launchedAt, killedPid, restarts, childVars, beat,
                   mpc, wpc, wPid, wGrace, mPid, launches>>

StoreTime ==
    /\ lpc = "storeTime"
    /\ launchedAt' = 0 /\ lpc' = "storeKilled"
    /\ UNCHANGED <<terminate, stopped, exhausted, pid, killedPid, restarts, childVars, beat,
                   mpc, wpc, wPid, wGrace, mPid, launches>>

StoreKilled ==
    /\ lpc = "storeKilled"
    /\ killedPid' = NoPid /\ lpc' = "wait"
    /\ UNCHANGED <<terminate, stopped, exhausted, pid, launchedAt, restarts, childVars, beat,
                   mpc, wpc, wPid, wGrace, mPid, launches>>

\* ph.wait() returns.
WaitChild ==
    /\ lpc = "wait" /\ child = "none"
    /\ pid' = NoPid /\ lpc' = "clearTime"
    /\ UNCHANGED <<terminate, stopped, exhausted, launchedAt, killedPid, restarts, childVars, beat,
                   mpc, wpc, wPid, wGrace, mPid, launches>>

ClearedTimeForgotten == launchedAt
ClearedTime == None

ClearTime ==
    /\ lpc = "clearTime"
    /\ launchedAt' = ClearedTime /\ lpc' = "budget"
    /\ UNCHANGED <<terminate, stopped, exhausted, pid, killedPid, restarts, childVars, beat,
                   mpc, wpc, wPid, wGrace, mPid, launches>>

BudgetLeftOffByOne(recent) == MaxRestarts # 0 /\ Len(recent) <= MaxRestarts
BudgetLeft(recent) == MaxRestarts # 0 /\ Len(recent) < MaxRestarts

\* Sliding-window restart budget; when it is used up the launcher terminates itself.
Budget ==
    /\ lpc = "budget"
    /\ \/ /\ stopped
          /\ lpc' = "loop" /\ UNCHANGED <<restarts, exhausted, terminate>>
       \/ /\ ~stopped /\ ~BudgetLeft(Recent(restarts))
          /\ restarts' = Recent(restarts)
          /\ exhausted' = TRUE /\ terminate' = TRUE /\ lpc' = "done"
       \/ /\ ~stopped /\ BudgetLeft(Recent(restarts))
          /\ restarts' = Append(Recent(restarts), 0)
          /\ lpc' = "delay" /\ UNCHANGED <<exhausted, terminate>>
    /\ UNCHANGED <<stopped, pid, launchedAt, killedPid, childVars, beat,
                   mpc, wpc, wPid, wGrace, mPid, launches>>

\* relaunchDelay elapses, or _stopped is seen.
Delay ==
    /\ lpc = "delay" /\ lpc' = "loop"
    /\ UNCHANGED <<terminate, shared, restarts, childVars, beat, mpc, wpc, wPid, wGrace, mPid, launches>>

-----------------------------------------------------------------------------
(* watch(). *)

\* The interval elapses and _pid is loaded, or _stopWatching is set.
WatchWake ==
    /\ wpc = "sleep"
    /\ \/ mpc = "wait" /\ wpc' = "time" /\ wPid' = pid
       \/ mpc # "wait" /\ wpc' = "done" /\ UNCHANGED wPid
    /\ UNCHANGED <<terminate, shared, restarts, childVars, beat, lpc, mpc, wGrace, mPid, launches>>

GraceElapsedNow == wPid # NoPid /\ launchedAt # None
GraceElapsed == wPid # NoPid /\ launchedAt # None /\ launchedAt = Grace

WatchTime ==
    /\ wpc = "time"
    /\ wGrace' = GraceElapsed /\ wpc' = "file"
    /\ UNCHANGED <<terminate, shared, restarts, childVars, beat, lpc, mpc, wPid, mPid, launches>>

UnhealthyIfStale == wGrace /\ beat = Timeout
Unhealthy == wGrace /\ IF beat = None THEN RequireFile ELSE beat = Timeout

WatchFile ==
    /\ wpc = "file"
    /\ \/ /\ Unhealthy /\ killedPid # wPid
          /\ killedPid' = wPid /\ wpc' = "kill" /\ UNCHANGED wPid
       \/ /\ ~(Unhealthy /\ killedPid # wPid)
          /\ killedPid' = IF Unhealthy THEN wPid ELSE killedPid
          /\ wpc' = "sleep" /\ wPid' = NoPid
    /\ UNCHANGED <<terminate, stopped, exhausted, pid, launchedAt, restarts, childVars, beat,
                   lpc, mpc, wGrace, mPid, launches>>

WatchKill ==
    /\ wpc = "kill"
    /\ Kill(wPid)
    /\ wpc' = "sleep" /\ wPid' = NoPid
    /\ UNCHANGED <<terminate, shared, restarts, childPid, childAge, beat, lpc, mpc, wGrace, mPid, launches>>

-----------------------------------------------------------------------------
(* main(), from waitForTerminationRequest on. *)

MainStep(from, to) == mpc = from /\ mpc' = to

MainTerminate ==                  \* _stopWatching.set()
    /\ terminate /\ MainStep("wait", "joinWatch")
    /\ UNCHANGED <<terminate, shared, restarts, childVars, beat, lpc, wpc, wPid, wGrace, mPid, launches>>

MainJoinWatch ==                  \* watchThread.join(); pid = _pid
    /\ wpc = "done" /\ MainStep("joinWatch", "request")
    /\ mPid' = pid
    /\ UNCHANGED <<terminate, shared, restarts, childVars, beat, lpc, wpc, wPid, wGrace, launches>>

MainRequest ==                    \* requestTermination: the child may obey
    /\ MainStep("request", "stop")
    /\ child' \in IF childPid = mPid THEN {child, "none"} ELSE {child}
    /\ UNCHANGED <<terminate, shared, restarts, childPid, childAge, beat,
                   lpc, wpc, wPid, wGrace, mPid, launches>>

StoppedForgotten == FALSE
StoppedValue == TRUE

MainStop ==
    /\ MainStep("stop", "tryJoin")
    /\ stopped' = StoppedValue
    /\ UNCHANGED <<terminate, exhausted, pid, launchedAt, killedPid, restarts, childVars, beat,
                   lpc, wpc, wPid, wGrace, mPid, launches>>

MainJoined ==
    /\ lpc = "done" /\ (MainStep("tryJoin", "exit") \/ MainStep("join", "exit"))
    /\ UNCHANGED <<terminate, shared, restarts, childVars, beat, lpc, wpc, wPid, wGrace, mPid, launches>>

MainTryJoinTimeout ==             \* activePid = _pid
    /\ lpc # "done" /\ MainStep("tryJoin", "kill")
    /\ mPid' = pid
    /\ UNCHANGED <<terminate, shared, restarts, childVars, beat, lpc, wpc, wPid, wGrace, launches>>

MainKillForgotten == UNCHANGED child
KillActive == IF mPid # NoPid THEN Kill(mPid) ELSE UNCHANGED child

MainKill ==
    /\ MainStep("kill", "join")
    /\ KillActive
    /\ UNCHANGED <<terminate, shared, restarts, childPid, childAge, beat,
                   lpc, wpc, wPid, wGrace, mPid, launches>>

-----------------------------------------------------------------------------
LaunchThread == \/ LaunchLoop \/ Launch \/ AssignBoundary \/ StorePid \/ StoreTime \/ StoreKilled
                \/ WaitChild \/ ClearTime \/ Budget \/ Delay
WatchThread == WatchWake \/ WatchTime \/ WatchFile \/ WatchKill
MainThread == \/ MainTerminate \/ MainJoinWatch \/ MainRequest \/ MainStop
              \/ MainJoined \/ MainTryJoinTimeout \/ MainKill
Environment == Tick \/ ChildBeats \/ ChildHangs \/ ChildExits \/ Signal

Next == LaunchThread \/ WatchThread \/ MainThread \/ Environment
Spec == Init /\ [][Next]_vars

\* The threads are scheduled and time passes; a child need not exit, nor beat.
FairSpec ==
    /\ Spec
    /\ WF_vars(LaunchThread) /\ WF_vars(MainThread) /\ WF_vars(Tick)
    /\ WF_vars(WatchThread)

-----------------------------------------------------------------------------
TypeOK ==
    /\ terminate \in BOOLEAN /\ stopped \in BOOLEAN /\ exhausted \in BOOLEAN
    /\ pid \in Pids \cup {NoPid} /\ killedPid \in Pids \cup {NoPid}
    /\ wPid \in Pids \cup {NoPid} /\ mPid \in Pids \cup {NoPid} /\ childPid \in Pids \cup {NoPid}
    /\ launchedAt \in 0..Grace \cup {None} /\ childAge \in 0..Grace
    /\ beat \in 0..Timeout \cup {None}
    /\ restarts \in Seq(0..Window) /\ Len(restarts) <= MaxRestarts /\ launches \in Seq(0..Window)
    /\ child \in {"none", "up", "hung"} /\ wGrace \in BOOLEAN
    /\ lpc \in {"loop", "launch", "assign", "storePid", "storeTime", "storeKilled", "wait",
                "clearTime", "budget", "delay", "done"}
    /\ mpc \in {"wait", "joinWatch", "request", "stop", "tryJoin", "kill", "join", "exit"}
    /\ wpc \in {"sleep", "time", "file", "kill", "done"}

\* The restart budget prevents a restart storm: however the child crashes or
\* Process::launch fails, at most MaxRestarts + 1 launches fall into one window
\* (stamps are taken before the relaunch delay, launches happen after it).
NoRestartStorm == Len(launches) <= MaxRestarts + 1

\* The watchdog never kills a child younger than the startup grace: _pid is
\* loaded before _launchedAtMicroseconds and both are cleared between children,
\* so a young child is never judged by its predecessor's launch time.
WatchdogSparesYoung ==
    [][WatchKill /\ child # "none" /\ child' = "none" => childAge = Grace]_vars

\* main() returns only when no child is left running.
NoOrphan == mpc = "exit" => child = "none"

\* A child that stops beating is killed or exits, unless the launcher is asked
\* to terminate; with requireFile also a child that never wrote the file.
HungIsKilled ==
    RequireFile => (child = "hung" /\ ~terminate) ~> (child # "hung" \/ terminate)

\* A termination request makes the launcher exit, unless main() waits for a
\* child that was not yet published when it read _pid for the second time: the
\* only way a shutdown can hang.
ShutdownUnlessUnseen ==
    terminate ~> (mpc = "exit" \/ (mpc = "join" /\ mPid = NoPid /\ child # "none"))

\* A termination request makes the launcher stop the child and exit.
ShutdownCompletes == terminate ~> mpc = "exit"
=============================================================================
