----------------------- MODULE RuntimeLauncherProofs ------------------------
(***************************************************************************)
(* The launcher proved for every budget, window, grace and timeout: at     *)
(* most MaxRestarts + 1 launches fall into one window, and the watchdog    *)
(* never kills a child younger than the startup grace.                     *)
(***************************************************************************)
EXTENDS RuntimeLauncher, SequenceTheorems, WellFoundedInduction, TLAPS

\* launch() has published a launch time: it belongs to the child of now, which
\* is at least that old.
Clock ==
    launchedAt # None =>
        lpc \in {"storeKilled", "wait", "clearTime"} /\ launchedAt <= childAge

\* What watch() found out stays true of the process it read the pid of.
Judged ==
    /\ wpc = "kill" => wGrace = TRUE
    /\ wpc \in {"file", "kill"} /\ wGrace = TRUE /\ wPid = childPid => childAge = Grace

\* The launches of the window, the oldest first.
Ages ==
    /\ \A m \in 1..Len(launches) : launches[m] < Window
    /\ \A m, n \in 1..Len(launches) : m <= n => launches[n] <= launches[m]

\* Counted from the youngest, a restart stamp is taken after the launch d
\* places before it.
Paired(d) ==
    \A m \in 1..Len(launches), i \in 1..Len(restarts) :
        Len(launches) + i = Len(restarts) + m + d => restarts[i] <= launches[m]

\* A launch is to follow the last stamp.
Pending == lpc \in {"launch", "delay"} \/ (lpc = "loop" /\ stopped = FALSE)
Running == lpc \in {"assign", "storePid", "storeTime", "storeKilled", "wait", "clearTime", "budget"}

Stamped ==
    /\ Len(launches) <= Len(restarts) + 1
    /\ Pending => Len(launches) <= Len(restarts) /\ Paired(0)
    /\ Running => Paired(1)

\* The type invariant, the lists apart from the rest.
Lists == restarts \in Seq(0..Window) /\ Len(restarts) <= MaxRestarts /\ launches \in Seq(0..Window)
Flags ==
    /\ terminate \in BOOLEAN /\ stopped \in BOOLEAN /\ exhausted \in BOOLEAN /\ wGrace \in BOOLEAN
    /\ child \in {"none", "up", "hung"}
Identities ==
    /\ pid \in Pids \cup {NoPid} /\ killedPid \in Pids \cup {NoPid}
    /\ wPid \in Pids \cup {NoPid} /\ mPid \in Pids \cup {NoPid} /\ childPid \in Pids \cup {NoPid}
Times ==
    /\ launchedAt \in 0..Grace \cup {None} /\ childAge \in 0..Grace
    /\ beat \in 0..Timeout \cup {None}
Places ==
    /\ lpc \in {"loop", "launch", "assign", "storePid", "storeTime", "storeKilled", "wait",
                "clearTime", "budget", "delay", "done"}
    /\ mpc \in {"wait", "joinWatch", "request", "stop", "tryJoin", "kill", "join", "exit"}
    /\ wpc \in {"sleep", "time", "file", "kill", "done"}

IInv == TypeOK /\ Clock /\ Judged /\ Ages /\ Stamped

LEMMA TypeParts == TypeOK <=> Lists /\ Flags /\ Identities /\ Times /\ Places
BY DEF TypeOK, Lists, Flags, Identities, Times, Places

-----------------------------------------------------------------------------
(* Lemmas about time. *)

\* Every nonempty set of natural numbers has a least element.
LEMMA LeastNatural ==
    ASSUME NEW T \in SUBSET Nat, T # {}
    PROVE  \E m \in T : \A n \in T : m <= n
<1> DEFINE R == OpToRel(<, Nat)
<1>1. IsWellFoundedOn(R, Nat)
  BY NatLessThanWellFounded
<1>2. \A y, x \in Nat : y < x => <<y, x>> \in R
  BY DEF OpToRel
<1> HIDE DEF R
<1>3. \E x \in T : \A y \in T : ~(<<y, x>> \in R)
  BY <1>1, WFMin
<1>4. \A x, y \in T : ~(y < x) => x <= y
  OBVIOUS
<1> QED  BY <1>2, <1>3, <1>4

\* Ageing stays within the limit and keeps the order.
LEMMA OlderFacts ==
    ASSUME NEW limit \in Nat
    PROVE  /\ \A a \in 0..limit : Older(a, limit) \in 0..limit
           /\ \A a \in 0..limit : a = limit => Older(a, limit) = limit
           /\ \A a, b \in 0..limit : a <= b => Older(a, limit) <= Older(b, limit)
BY DEF Older

\* What the pop_front loop leaves: the entries from the first recent one on.
LEMMA RecentFacts ==
    ASSUME NEW s \in Seq(0..Window)
    PROVE  \E k \in 0..Len(s) :
              /\ Recent(s) \in Seq(0..Window) /\ Len(Recent(s)) = Len(s) - k
              /\ \A i \in 1..(Len(s) - k) : Recent(s)[i] = s[i + k]
              /\ \A i \in 1..k : s[i] >= Window
              /\ k < Len(s) => s[k + 1] < Window
<1> DEFINE Splits(k) == (\A i \in 1..k : s[i] >= Window) /\ (k < Len(s) => s[k + 1] < Window)
           young == {i \in 1..Len(s) : s[i] < Window}
<1>0. Len(s) \in Nat /\ Window \in Nat /\ \A i \in 1..Len(s) : s[i] \in Nat
  BY LauncherAssumption
<1>1. \E k \in 0..Len(s) : Splits(k)
  <2>1. CASE young = {}
    <3>1. \A i \in 1..Len(s) : s[i] >= Window
      BY <1>0, <2>1
    <3> QED  BY <3>1, <1>0
  <2>2. CASE young # {}
    <3>1. young \in SUBSET Nat
      BY <1>0
    <3> HIDE DEF young
    <3>2. PICK m \in young : \A n \in young : m <= n
      BY <3>1, <2>2, LeastNatural
    <3>3. m \in 1..Len(s) /\ s[m] < Window
      BY <3>2 DEF young
    <3>4. m - 1 \in 0..Len(s) /\ (m - 1) + 1 = m
      BY <3>3, <1>0
    <3>5. \A i \in 1..(m - 1) : i \in 1..Len(s) /\ i \notin young
      BY <3>2, <3>3, <1>0
    <3>6. \A i \in 1..(m - 1) : s[i] >= Window
      BY <3>5, <1>0 DEF young
    <3>7. Splits(m - 1)
      BY <3>3, <3>4, <3>6
    <3> QED  BY <3>4, <3>7
  <2> QED  BY <2>1, <2>2
<1>2. Expired(s) = CHOOSE k \in 0..Len(s) : Splits(k)
  BY DEF Expired
<1>3. Expired(s) \in 0..Len(s) /\ Splits(Expired(s))
  <2> HIDE DEF Splits
  <2> QED  BY <1>1, <1>2
<1>4. PICK k \in 0..Len(s) : k = Expired(s)
  BY <1>3
<1>5. Recent(s) = SubSeq(s, k + 1, Len(s))
  BY <1>4 DEF Recent
<1>6. SubSeq(s, k + 1, Len(s)) \in Seq(0..Window) /\ Len(SubSeq(s, k + 1, Len(s))) = Len(s) - k
  BY <1>0
<1>7. \A i \in 1..(Len(s) - k) : SubSeq(s, k + 1, Len(s))[i] = s[i + k]
  BY <1>0
<1> QED  BY <1>3, <1>4, <1>5, <1>6, <1>7

\* One more entry at the end of a list of ages.
LEMMA Appended ==
    ASSUME NEW s \in Seq(0..Window), NEW a \in 0..Window
    PROVE  /\ Append(s, a) \in Seq(0..Window) /\ Len(s) \in Nat
           /\ Len(Append(s, a)) = Len(s) + 1 /\ Append(s, a)[Len(s) + 1] = a
           /\ \A i \in 1..Len(s) : Append(s, a)[i] = s[i] /\ s[i] \in 0..Window
<1>1. Append(s, a) \in Seq(0..Window) /\ Len(Append(s, a)) = Len(s) + 1 /\ Len(s) \in Nat
  OBVIOUS
<1>2. Append(s, a)[Len(s) + 1] = a
  OBVIOUS
<1>3. \A i \in 1..Len(s) : Append(s, a)[i] = s[i]
  OBVIOUS
<1>4. \A i \in 1..Len(s) : s[i] \in 0..Window
  BY LauncherAssumption
<1> QED  BY <1>1, <1>2, <1>3, <1>4

\* A function on 1..n is a list of length n.
LEMMA Aged ==
    ASSUME NEW n \in Nat, NEW f \in [1..n -> 0..Window]
    PROVE  f \in Seq(0..Window) /\ Len(f) = n
<1>1. f \in Seq(0..Window)
  BY SeqDef, Zenon
<1>2. DOMAIN f = 1..n /\ DOMAIN f = 1..Len(f) /\ Len(f) \in Nat
  BY <1>1, LenProperties
<1> QED  BY <1>1, <1>2

\* Steps that add no stamp and no launch.
LEMMA SameStamps ==
    ASSUME Ages, Stamped, UNCHANGED <<restarts, launches>>,
           Pending' => Pending, Running' => Running
    PROVE  Ages' /\ Stamped'
BY DEF Ages, Stamped, Paired

-----------------------------------------------------------------------------
(* The steps. *)

LEMMA InitEstablishes == Init => IInv
<1> SUFFICES ASSUME Init PROVE IInv  OBVIOUS
<1>1. <<>> \in Seq(0..Window) /\ Len(<<>>) = 0
  OBVIOUS
<1>2. TypeOK
  <2>1. Lists
    BY <1>1, LauncherAssumption DEF Init, Lists
  <2>2. Flags /\ Identities /\ Places
    BY DEF Init, Flags, Identities, Places
  <2>3. Times
    BY LauncherAssumption DEF Init, Times
  <2> QED  BY <2>1, <2>2, <2>3, TypeParts
<1>3. Clock /\ Judged
  BY DEF Init, Clock, Judged
<1>4. Ages /\ Stamped
  BY <1>1 DEF Init, Ages, Stamped, Paired
<1> QED  BY <1>2, <1>3, <1>4 DEF IInv

LEMMA EnvironmentKeeps ==
    ASSUME IInv, ChildBeats \/ ChildHangs \/ ChildExits \/ Signal
    PROVE  IInv'
<1>1. TypeOK'
  <2>1. Lists /\ Flags /\ Identities /\ Times /\ Places
    BY TypeParts DEF IInv
  <2>2. Lists'
    BY <2>1 DEF Lists, ChildBeats, ChildHangs, ChildExits, Signal, shared, childVars
  <2>3. Flags'
    BY <2>1 DEF Flags, ChildBeats, ChildHangs, ChildExits, Signal, shared, childVars
  <2>4. Identities'
    BY <2>1 DEF Identities, ChildBeats, ChildHangs, ChildExits, Signal, shared, childVars
  <2>5. Times'
    BY <2>1, LauncherAssumption DEF Times, ChildBeats, ChildHangs, ChildExits, Signal, shared, childVars
  <2>6. Places'
    BY <2>1 DEF Places, ChildBeats, ChildHangs, ChildExits, Signal, shared, childVars
  <2> QED  BY <2>2, <2>3, <2>4, <2>5, <2>6, TypeParts, PTL
<1>2. UNCHANGED <<launchedAt, childAge, childPid, lpc, wpc, wGrace, wPid, stopped, restarts, launches>>
  BY DEF ChildBeats, ChildHangs, ChildExits, Signal, shared, childVars
<1>3. Clock' /\ Judged'
  BY <1>2 DEF IInv, Clock, Judged
<1>4. Ages' /\ Stamped'
  <2>1. (Pending' => Pending) /\ (Running' => Running)
    BY <1>2 DEF Pending, Running
  <2> QED  BY <1>2, <2>1, SameStamps DEF IInv
<1> QED  BY <1>1, <1>3, <1>4 DEF IInv

LEMMA MainKeeps == ASSUME IInv, MainThread PROVE IInv'
<1>1. TypeOK'
  <2>1. Lists /\ Flags /\ Identities /\ Times /\ Places
    BY TypeParts DEF IInv
  <2>2. Lists'
    BY <2>1 DEF Lists, MainThread, MainStep, MainTerminate, MainJoinWatch, MainRequest,
              MainStop, StoppedValue, MainJoined, MainTryJoinTimeout, MainKill, KillActive, Kill,
              shared, childVars
  <2>3. Flags'
    BY <2>1 DEF Flags, MainThread, MainStep, MainTerminate, MainJoinWatch, MainRequest,
              MainStop, StoppedValue, MainJoined, MainTryJoinTimeout, MainKill, KillActive, Kill,
              shared, childVars
  <2>4. Identities'
    BY <2>1 DEF Identities, MainThread, MainStep, MainTerminate, MainJoinWatch, MainRequest,
              MainStop, StoppedValue, MainJoined, MainTryJoinTimeout, MainKill, KillActive, Kill,
              shared, childVars
  <2>5. Times'
    BY <2>1, LauncherAssumption DEF Times, MainThread, MainStep, MainTerminate, MainJoinWatch, MainRequest,
              MainStop, StoppedValue, MainJoined, MainTryJoinTimeout, MainKill, KillActive, Kill,
              shared, childVars
  <2>6. Places'
    BY <2>1 DEF Places, MainThread, MainStep, MainTerminate, MainJoinWatch, MainRequest,
              MainStop, StoppedValue, MainJoined, MainTryJoinTimeout, MainKill, KillActive, Kill,
              shared, childVars
  <2> QED  BY <2>2, <2>3, <2>4, <2>5, <2>6, TypeParts, PTL
<1>2. UNCHANGED <<launchedAt, childAge, childPid, lpc, wpc, wGrace, wPid, restarts, launches>>
      /\ (stopped' = stopped \/ stopped' = TRUE)
  BY DEF MainThread, MainTerminate, MainJoinWatch, MainRequest, MainStop, StoppedValue,
         MainJoined, MainTryJoinTimeout, MainKill, shared, childVars
<1>3. Clock' /\ Judged'
  BY <1>2 DEF IInv, Clock, Judged
<1>4. Ages' /\ Stamped'
  <2>1. (Pending' => Pending) /\ (Running' => Running)
    BY <1>2 DEF Pending, Running
  <2> QED  BY <1>2, <2>1, SameStamps DEF IInv
<1> QED  BY <1>1, <1>3, <1>4 DEF IInv

LEMMA WatchKeeps == ASSUME IInv, WatchThread PROVE IInv'
<1>1. TypeOK'
  <2>1. Lists /\ Flags /\ Identities /\ Times /\ Places
    BY TypeParts DEF IInv
  <2>2. Lists'
    BY <2>1 DEF Lists, WatchThread, WatchWake, WatchTime, GraceElapsed, WatchFile,
              WatchKill, Kill, shared, childVars
  <2>3. Flags'
    BY <2>1 DEF Flags, WatchThread, WatchWake, WatchTime, GraceElapsed, WatchFile,
              WatchKill, Kill, shared, childVars
  <2>4. Identities'
    BY <2>1 DEF Identities, WatchThread, WatchWake, WatchTime, GraceElapsed, WatchFile,
              WatchKill, Kill, shared, childVars
  <2>5. Times'
    BY <2>1, LauncherAssumption DEF Times, WatchThread, WatchWake, WatchTime, GraceElapsed, WatchFile,
              WatchKill, Kill, shared, childVars
  <2>6. Places'
    BY <2>1 DEF Places, WatchThread, WatchWake, WatchTime, GraceElapsed, WatchFile,
              WatchKill, Kill, shared, childVars
  <2> QED  BY <2>2, <2>3, <2>4, <2>5, <2>6, TypeParts, PTL
<1>2. UNCHANGED <<launchedAt, childAge, childPid, lpc, stopped, restarts, launches>>
  BY DEF WatchThread, WatchWake, WatchTime, WatchFile, WatchKill, shared, childVars
<1>3. Clock'
  BY <1>2 DEF IInv, Clock
<1>4. Judged'
  <2>1. CASE WatchWake \/ WatchKill
    BY <2>1 DEF WatchWake, WatchKill, Judged
  <2>2. CASE WatchTime
    <3>1. wGrace' = TRUE => launchedAt = Grace /\ launchedAt # None
      BY <2>2 DEF WatchTime, GraceElapsed
    <3>2. launchedAt = Grace /\ launchedAt # None => childAge = Grace
      BY LauncherAssumption DEF IInv, Clock, TypeOK
    <3> QED  BY <2>2, <3>1, <3>2, <1>2 DEF Judged, WatchTime
  <2>3. CASE WatchFile
    BY <2>3, <1>2 DEF IInv, TypeOK, Judged, WatchFile, Unhealthy
  <2> QED  BY <2>1, <2>2, <2>3 DEF WatchThread
<1>5. Ages' /\ Stamped'
  <2>1. (Pending' => Pending) /\ (Running' => Running)
    BY <1>2 DEF Pending, Running
  <2> QED  BY <1>2, <2>1, SameStamps DEF IInv
<1> QED  BY <1>1, <1>3, <1>4, <1>5 DEF IInv

\* The steps of launch() between a launch and the budget, and after it.
LaunchRest == LaunchLoop \/ AssignBoundary \/ StorePid \/ StoreTime \/ StoreKilled
              \/ WaitChild \/ ClearTime \/ Delay

LEMMA LaunchRestKeeps == ASSUME IInv, LaunchRest PROVE IInv'
<1>1. TypeOK'
  <2>1. Lists /\ Flags /\ Identities /\ Times /\ Places
    BY TypeParts DEF IInv
  <2>2. Lists'
    BY <2>1 DEF Lists, LaunchRest, AssignBoundary, AfterFailedAssign, StorePid, StoreTime, StoreKilled,
              WaitChild, ClearTime, ClearedTime, Delay, LaunchLoop, shared, childVars
  <2>3. Flags'
    BY <2>1 DEF Flags, LaunchRest, AssignBoundary, AfterFailedAssign, StorePid, StoreTime, StoreKilled,
              WaitChild, ClearTime, ClearedTime, Delay, LaunchLoop, shared, childVars
  <2>4. Identities'
    BY <2>1 DEF Identities, LaunchRest, AssignBoundary, AfterFailedAssign, StorePid, StoreTime, StoreKilled,
              WaitChild, ClearTime, ClearedTime, Delay, LaunchLoop, shared, childVars
  <2>5. Times'
    BY <2>1, LauncherAssumption DEF Times, LaunchRest, AssignBoundary, AfterFailedAssign, StorePid, StoreTime, StoreKilled,
              WaitChild, ClearTime, ClearedTime, Delay, LaunchLoop, shared, childVars
  <2>6. Places'
    BY <2>1 DEF Places, LaunchRest, AssignBoundary, AfterFailedAssign, StorePid, StoreTime, StoreKilled,
              WaitChild, ClearTime, ClearedTime, Delay, LaunchLoop, shared, childVars
  <2> QED  BY <2>2, <2>3, <2>4, <2>5, <2>6, TypeParts, PTL
<1>2. UNCHANGED <<childAge, childPid, wpc, wGrace, wPid, stopped, restarts, launches>>
  BY DEF LaunchRest, AssignBoundary, StorePid, StoreTime, StoreKilled,
         WaitChild, ClearTime, Delay, LaunchLoop, shared, childVars
<1>3. Clock'
  <2>1. CASE StoreTime
    BY <2>1, <1>2 DEF IInv, TypeOK, Clock, StoreTime
  <2>2. CASE ClearTime
    BY <2>2 DEF Clock, ClearTime, ClearedTime
  <2>3. CASE StoreKilled \/ WaitChild
    BY <2>3, <1>2 DEF IInv, Clock, StoreKilled, WaitChild
  <2>4. CASE LaunchLoop \/ AssignBoundary \/ StorePid \/ Delay
    BY <2>4, <1>2 DEF IInv, Clock, LaunchLoop, AssignBoundary, StorePid, Delay, shared
  <2> QED  BY <2>1, <2>2, <2>3, <2>4 DEF LaunchRest
<1>4. Judged'
  BY <1>2 DEF IInv, Judged
<1>5. Ages' /\ Stamped'
  <2>1. CASE LaunchLoop
    <3>1. (Pending' => Pending) /\ (Running' => Running)
      BY <1>2, <2>1 DEF IInv, TypeOK, Pending, Running, LaunchLoop
    <3> QED  BY <1>2, <3>1, SameStamps DEF IInv
  <2>2. CASE ~LaunchLoop
    <3>1. (Pending' => Pending) /\ (Running' => Running)
      BY <1>2, <2>2 DEF LaunchRest, Pending, Running, AssignBoundary, StorePid, StoreTime,
                        StoreKilled, WaitChild, ClearTime, Delay
    <3> QED  BY <1>2, <3>1, SameStamps DEF IInv
  <2> QED  BY <2>1, <2>2
<1> QED  BY <1>1, <1>3, <1>4, <1>5 DEF IInv

LEMMA LaunchKeeps == ASSUME IInv, Launch PROVE IInv'
<1> DEFINE q == Len(launches)
           r == Len(restarts)
<1>0. Lists /\ Flags /\ Identities /\ Times /\ Places /\ q \in Nat /\ r \in Nat
      /\ Window \in Nat \ {0} /\ Grace \in Nat
  BY TypeParts, LauncherAssumption DEF IInv, Lists
<1>1. /\ launches' = Append(launches, 0) /\ lpc = "launch" /\ lpc' \in {"assign", "budget"}
      /\ UNCHANGED <<terminate, shared, restarts, beat, mpc, wpc, wPid, wGrace, mPid>>
      /\ \/ childPid' \in Pids \ {wPid} /\ child' = "up" /\ childAge' = 0
         \/ UNCHANGED childVars
  BY DEF Launch
<1>2. /\ launches' \in Seq(0..Window) /\ Len(launches') = q + 1 /\ launches'[q + 1] = 0
      /\ \A m \in 1..q : launches'[m] = launches[m] /\ launches[m] \in 0..Window
  <2>1. 0 \in 0..Window /\ launches \in Seq(0..Window)
    BY <1>0 DEF Lists
  <2> QED  BY <2>1, <1>1, Appended
<1>3. TypeOK'
  <2>1. Lists'
    BY <1>0, <1>1, <1>2 DEF Lists
  <2>2. Flags' /\ Identities' /\ Places'
    BY <1>0, <1>1 DEF Flags, Identities, Places, shared, childVars
  <2>3. Times'
    BY <1>0, <1>1 DEF Times, shared, childVars
  <2> QED  BY <2>1, <2>2, <2>3, TypeParts, PTL
<1>4. Clock'
  BY <1>1 DEF IInv, Clock, shared
<1>5. Judged'
  BY <1>0, <1>1 DEF IInv, Judged, childVars
<1>6. \A m \in 1..(q + 1) : m \in 1..q \/ m = q + 1
  BY <1>0
<1>7. Ages'
  <2>1. \A m \in 1..(q + 1) : launches'[m] < Window
    BY <1>0, <1>2, <1>6 DEF IInv, Ages
  <2>2. \A m, n \in 1..(q + 1) : m <= n => launches'[n] <= launches'[m]
    <3> SUFFICES ASSUME NEW m \in 1..(q + 1), NEW n \in 1..(q + 1), m <= n
                 PROVE  launches'[n] <= launches'[m]
      OBVIOUS
    <3>1. CASE n = q + 1
      <4>1. launches'[m] \in Nat
        BY <1>2, <1>6
      <4> QED  BY <4>1, <3>1, <1>2
    <3>2. CASE n \in 1..q
      <4>1. m \in 1..q
        BY <3>2, <1>0
      <4> QED  BY <4>1, <3>2, <1>2 DEF IInv, Ages
    <3> QED  BY <3>1, <3>2, <1>6
  <2> QED  BY <2>1, <2>2, <1>2 DEF Ages
<1>8. Stamped'
  <2>1. q <= r /\ Paired(0)
    BY <1>1 DEF IInv, Stamped, Pending
  <2>2. ~Pending' /\ Len(launches') <= Len(restarts') + 1
    BY <1>0, <1>1, <1>2, <2>1 DEF Pending
  <2>3. Paired(1)'
    <3> SUFFICES ASSUME NEW m \in 1..(q + 1), NEW i \in 1..r, q + 1 + i = r + m + 1
                 PROVE  restarts[i] <= launches'[m]
      BY <1>1, <1>2 DEF Paired
    <3>1. m \in 1..q /\ q + i = r + m + 0
      BY <1>0
    <3> QED  BY <3>1, <2>1, <1>2 DEF Paired
  <2> QED  BY <2>2, <2>3 DEF Stamped
<1> QED  BY <1>3, <1>4, <1>5, <1>7, <1>8 DEF IInv

LEMMA BudgetKeeps == ASSUME IInv, Budget PROVE IInv'
<1> DEFINE q == Len(launches)
           r == Len(restarts)
<1>0. Lists /\ Flags /\ Identities /\ Times /\ Places /\ q \in Nat /\ r \in Nat
      /\ Window \in Nat \ {0} /\ MaxRestarts \in Nat
  BY TypeParts, LauncherAssumption DEF IInv, Lists
<1>1. /\ lpc = "budget" /\ lpc' \in {"loop", "done", "delay"}
      /\ UNCHANGED <<stopped, pid, launchedAt, killedPid, childVars, beat, mpc, wpc, wPid,
                     wGrace, mPid, launches>>
  BY DEF Budget
<1>2. Flags' /\ Identities' /\ Places' /\ Times'
  <2>1. Flags'
    BY <1>0, <1>1 DEF Flags, Budget, childVars
  <2>2. Identities' /\ Places' /\ Times'
    BY <1>0, <1>1 DEF Identities, Places, Times, childVars
  <2> QED  BY <2>1, <2>2
<1>3. Clock'
  BY <1>1 DEF IInv, Clock
<1>4. Judged'
  BY <1>1 DEF IInv, Judged, childVars
<1>5. Ages'
  BY <1>1 DEF IInv, Ages
<1>6. Lists' /\ Stamped'
  <2>1. CASE stopped
    <3>1. restarts' = restarts /\ lpc' = "loop" /\ stopped' # FALSE
      BY <2>1, <1>1 DEF Budget
    <3>2. ~Pending' /\ ~Running'
      BY <3>1 DEF Pending, Running
    <3> QED  BY <3>1, <3>2, <1>0, <1>1 DEF IInv, Stamped, Lists
  <2>2. CASE ~stopped
    <3> DEFINE recent == Recent(restarts)
    <3>1. PICK k \in 0..r :
              /\ recent \in Seq(0..Window) /\ Len(recent) = r - k
              /\ \A i \in 1..(r - k) : recent[i] = restarts[i + k]
              /\ \A i \in 1..k : restarts[i] >= Window
      BY <1>0, RecentFacts DEF Lists
    <3>2. \/ restarts' = recent /\ lpc' = "done"
          \/ restarts' = Append(recent, 0) /\ lpc' = "delay" /\ Len(recent) < MaxRestarts
      BY <2>2, <1>1 DEF Budget, BudgetLeft
    <3> HIDE DEF recent
    <3>3. Paired(1) /\ q <= r + 1
      BY <1>1 DEF IInv, Stamped, Running
    <3>4. \A m \in 1..q : launches[m] < Window /\ launches[m] \in Nat
      BY <1>0 DEF IInv, Ages, Lists
    <3>5. q <= (r - k) + 1
      <4>1. CASE k = 0
        BY <4>1, <3>3, <1>0
      <4>2. CASE k > 0
        <5>1. restarts[k] >= Window /\ k \in 1..r /\ restarts[k] \in Nat
          <6>1. k \in 1..r /\ k \in 1..k
            BY <4>2, <1>0
          <6> QED  BY <6>1, <3>1, <1>0 DEF Lists
        <5>2. ASSUME q > (r - k) + 1 PROVE FALSE
          <6>1. PICK m \in 1..q : q + k = r + m + 1
            <7>1. q + k - r - 1 \in 1..q /\ q + k = r + (q + k - r - 1) + 1
              BY <5>1, <5>2, <3>3, <1>0
            <7> QED  BY <7>1
          <6>2. restarts[k] <= launches[m]
            BY <6>1, <5>1, <3>3 DEF Paired
          <6> QED  BY <6>1, <6>2, <5>1, <3>4, <1>0
        <5> QED  BY <5>2, <1>0
      <4> QED  BY <4>1, <4>2
    <3>6. CASE restarts' = recent /\ lpc' = "done"
      <4>1. ~Pending' /\ ~Running'
        BY <3>6 DEF Pending, Running
      <4>2. Len(restarts') <= MaxRestarts /\ Len(launches') <= Len(restarts') + 1
        BY <3>1, <3>5, <3>6, <1>0, <1>1 DEF Lists
      <4> QED  BY <4>1, <4>2, <3>1, <3>6, <1>0, <1>1 DEF Stamped, Lists
    <3>7. CASE restarts' = Append(recent, 0) /\ lpc' = "delay" /\ Len(recent) < MaxRestarts
      <4>1. /\ restarts' \in Seq(0..Window) /\ Len(restarts') = (r - k) + 1
            /\ restarts'[(r - k) + 1] = 0
            /\ \A i \in 1..(r - k) : restarts'[i] = restarts[i + k]
        <5>1. 0 \in 0..Window
          BY <1>0
        <5> QED  BY <5>1, <3>1, <3>7, Appended
      <4>2. Len(restarts') <= MaxRestarts /\ Len(launches') <= Len(restarts')
        BY <4>1, <3>1, <3>5, <3>7, <1>0, <1>1
      <4>3. Paired(0)'
        <5> SUFFICES ASSUME NEW m \in 1..q, NEW i \in 1..((r - k) + 1), q + i = (r - k) + 1 + m + 0
                     PROVE  restarts'[i] <= launches[m]
          BY <4>1, <1>1 DEF Paired
        <5>1. CASE i = (r - k) + 1
          BY <5>1, <4>1, <3>4
        <5>2. CASE i # (r - k) + 1
          <6>1. i \in 1..(r - k) /\ i + k \in 1..r /\ q + (i + k) = r + m + 1
            BY <5>2, <1>0
          <6>2. restarts[i + k] <= launches[m]
            BY <6>1, <3>3 DEF Paired
          <6> QED  BY <6>1, <6>2, <4>1
        <5> QED  BY <5>1, <5>2
      <4>4. ~Running'
        BY <3>7 DEF Running
      <4>5. Len(launches') <= Len(restarts') + 1
        BY <4>1, <4>2, <1>0, <1>1
      <4> QED  BY <4>1, <4>2, <4>3, <4>4, <4>5, <1>0, <1>1 DEF Stamped, Lists
    <3> QED  BY <3>2, <3>6, <3>7
  <2> QED  BY <2>1, <2>2
<1>7. TypeOK'
  BY <1>2, <1>6, TypeParts, PTL
<1> QED  BY <1>3, <1>4, <1>5, <1>6, <1>7 DEF IInv

LEMMA TickKeeps == ASSUME IInv, Tick PROVE IInv'
<1> DEFINE q == Len(launches)
           r == Len(restarts)
           aged == [m \in 1..q |-> Older(launches[m], Window)]
<1>0. /\ Lists /\ Flags /\ Identities /\ Times /\ Places /\ q \in Nat /\ r \in Nat
      /\ Window \in Nat /\ Window # 0 /\ Grace \in Nat /\ Timeout \in Nat /\ None \notin Nat
  BY TypeParts, LauncherAssumption DEF IInv, Lists
<1>1. /\ childAge' = Older(childAge, Grace)
      /\ launchedAt' = OlderOrNone(launchedAt, Grace) /\ beat' = OlderOrNone(beat, Timeout)
      /\ restarts' = [i \in 1..r |-> Older(restarts[i], Window)]
      /\ launches' = Recent(aged)
      /\ UNCHANGED <<terminate, stopped, exhausted, pid, killedPid, child, childPid,
                     lpc, mpc, wpc, wPid, wGrace, mPid>>
  BY DEF Tick
<1>2. Flags' /\ Identities' /\ Places'
  BY <1>0, <1>1 DEF Flags, Identities, Places
<1>3. Times'
  BY <1>0, <1>1, OlderFacts DEF Times, OlderOrNone
<1>4. Clock'
  <2>1. ASSUME launchedAt' # None PROVE launchedAt # None /\ launchedAt' = Older(launchedAt, Grace)
    BY <2>1, <1>1 DEF OlderOrNone
  <2>2. ASSUME launchedAt # None PROVE launchedAt \in 0..Grace /\ childAge \in 0..Grace
    BY <2>2, <1>0 DEF Times
  <2>3. launchedAt # None => launchedAt <= childAge /\ lpc \in {"storeKilled", "wait", "clearTime"}
    BY DEF IInv, Clock
  <2>4. launchedAt # None => Older(launchedAt, Grace) <= Older(childAge, Grace)
    BY <2>2, <2>3, <1>0, OlderFacts
  <2> QED  BY <2>1, <2>3, <2>4, <1>1 DEF Clock
<1>5. Judged'
  <2>1. childAge = Grace => childAge' = Grace
    BY <1>0, <1>1, OlderFacts DEF Times
  <2> QED  BY <2>1, <1>1 DEF IInv, Judged
<1>6. /\ \A m \in 1..q : launches[m] \in 0..Window
      /\ \A i \in 1..r : restarts[i] \in 0..Window
  <2>1. launches \in Seq(0..Window) /\ restarts \in Seq(0..Window)
    BY <1>0 DEF Lists
  <2> QED  BY <2>1, <1>0
<1>7. restarts' \in Seq(0..Window) /\ Len(restarts') = r
      /\ \A i \in 1..r : restarts'[i] = Older(restarts[i], Window) /\ restarts'[i] \in 0..Window
  <2>1. \A i \in 1..r : Older(restarts[i], Window) \in 0..Window
    BY <1>0, <1>6, OlderFacts
  <2>2. \A i \in 1..r : restarts'[i] = Older(restarts[i], Window)
    BY <1>1
  <2>3. restarts' \in [1..r -> 0..Window]
    BY <1>1, <2>1
  <2>4. restarts' \in Seq(0..Window) /\ Len(restarts') = r
    BY <2>3, <1>0, Aged
  <2> QED  BY <2>1, <2>2, <2>4
<1>8. aged \in Seq(0..Window) /\ Len(aged) = q
      /\ \A m \in 1..q : aged[m] = Older(launches[m], Window) /\ aged[m] \in 0..Window
  <2>1. \A m \in 1..q : Older(launches[m], Window) \in 0..Window
    BY <1>0, <1>6, OlderFacts
  <2>2. \A m \in 1..q : aged[m] = Older(launches[m], Window)
    OBVIOUS
  <2>3. aged \in [1..q -> 0..Window]
    BY <2>1
  <2>4. aged \in Seq(0..Window) /\ Len(aged) = q
    BY <2>3, <1>0, Aged
  <2> QED  BY <2>1, <2>2, <2>4
<1> HIDE DEF aged
<1>9. PICK k \in 0..q :
          /\ launches' \in Seq(0..Window) /\ Len(launches') = q - k
          /\ \A m \in 1..(q - k) : launches'[m] = aged[m + k]
          /\ k < q => aged[k + 1] < Window
  BY <1>1, <1>8, RecentFacts
<1>10. Lists'
  BY <1>0, <1>7, <1>9 DEF Lists
<1>11. \A m, n \in 1..q : m <= n => aged[n] <= aged[m]
  <2> SUFFICES ASSUME NEW m \in 1..q, NEW n \in 1..q, m <= n PROVE aged[n] <= aged[m]
    OBVIOUS
  <2>1. launches[n] <= launches[m]
    BY DEF IInv, Ages
  <2>2. Older(launches[n], Window) <= Older(launches[m], Window)
    BY <2>1, <1>0, <1>6, OlderFacts
  <2> QED  BY <2>2, <1>8
<1>12. Ages'
  <2>1. ASSUME NEW m \in 1..(q - k) PROVE launches'[m] < Window
    <3>1. m + k \in 1..q /\ k + 1 \in 1..q /\ k + 1 <= m + k /\ k < q
      BY <1>0
    <3>2. aged[m + k] <= aged[k + 1] /\ aged[k + 1] < Window
      BY <3>1, <1>9, <1>11
    <3>3. aged[m + k] \in 0..Window /\ aged[k + 1] \in 0..Window
      BY <3>1, <1>8
    <3> QED  BY <3>2, <3>3, <1>0, <1>9
  <2>2. ASSUME NEW m \in 1..(q - k), NEW n \in 1..(q - k), m <= n PROVE launches'[n] <= launches'[m]
    <3>1. m + k \in 1..q /\ n + k \in 1..q /\ m + k <= n + k
      BY <2>2, <1>0
    <3> QED  BY <3>1, <1>9, <1>11
  <2> QED  BY <2>1, <2>2, <1>9 DEF Ages
<1>13. ASSUME NEW d \in Nat, Paired(d) PROVE Paired(d)'
  <2> SUFFICES ASSUME NEW m \in 1..(q - k), NEW i \in 1..r, (q - k) + i = r + m + d
               PROVE  restarts'[i] <= launches'[m]
    BY <1>7, <1>9 DEF Paired
  <2>1. m + k \in 1..q /\ q + i = r + (m + k) + d
    BY <1>0
  <2>2. restarts[i] <= launches[m + k]
    BY <1>13, <2>1 DEF Paired
  <2>3. Older(restarts[i], Window) <= Older(launches[m + k], Window)
    BY <2>1, <2>2, <1>0, <1>6, OlderFacts
  <2> QED  BY <2>1, <2>3, <1>7, <1>8, <1>9
<1>14. Stamped'
  <2>1. (Pending' => Pending) /\ (Running' => Running)
    BY <1>1 DEF Pending, Running
  <2>2. q <= r + 1 /\ (Pending => q <= r /\ Paired(0)) /\ (Running => Paired(1))
    BY DEF IInv, Stamped
  <2>3. Len(launches') <= Len(restarts') + 1 /\ (q <= r => Len(launches') <= Len(restarts'))
    BY <2>2, <1>0, <1>7, <1>9
  <2> QED  BY <2>1, <2>2, <2>3, <1>13 DEF Stamped
<1>15. TypeOK'
  BY <1>2, <1>3, <1>10, TypeParts, PTL
<1> QED  BY <1>4, <1>5, <1>12, <1>14, <1>15 DEF IInv

LEMMA NextKeeps == ASSUME IInv, [Next]_vars PROVE IInv'
<1>1. CASE UNCHANGED vars
  <2>1. TypeOK' /\ Clock' /\ Judged'
    BY <1>1 DEF IInv, TypeOK, Clock, Judged, vars, shared, childVars
  <2>2. Ages' /\ Stamped'
    BY <1>1 DEF IInv, Ages, Stamped, Paired, Pending, Running, vars, shared
  <2> QED  BY <2>1, <2>2 DEF IInv
<1>2. CASE LaunchThread
  BY <1>2, LaunchRestKeeps, LaunchKeeps, BudgetKeeps DEF LaunchThread, LaunchRest
<1>3. CASE WatchThread
  BY <1>3, WatchKeeps
<1>4. CASE MainThread
  BY <1>4, MainKeeps
<1>5. CASE Environment
  BY <1>5, EnvironmentKeeps, TickKeeps DEF Environment
<1> QED  BY <1>1, <1>2, <1>3, <1>4, <1>5 DEF Next

-----------------------------------------------------------------------------
(* The results. *)

\* The launcher invariant holds in every reachable state.
THEOREM LauncherInvariance == Spec => []IInv
BY InitEstablishes, NextKeeps, PTL DEF Spec

\* At most MaxRestarts + 1 calls of Process::launch fall into one window,
\* whatever the child, the signals and the shutdown do.
THEOREM NoRestartStormHolds == Spec => []NoRestartStorm
<1>1. IInv => NoRestartStorm
  <2> SUFFICES ASSUME IInv PROVE NoRestartStorm
    OBVIOUS
  <2>1. Lists /\ Len(launches) <= Len(restarts) + 1
    BY TypeParts DEF IInv, Stamped
  <2>2. Len(launches) \in Nat /\ Len(restarts) \in Nat /\ Len(restarts) <= MaxRestarts
        /\ MaxRestarts \in Nat
    BY <2>1, LauncherAssumption DEF Lists
  <2> QED  BY <2>1, <2>2 DEF NoRestartStorm
<1> QED  BY <1>1, LauncherInvariance, PTL

\* The watchdog never kills a child younger than the startup grace, however its
\* steps interleave with launch() replacing the child.
THEOREM WatchdogSparesYoungHolds == Spec => WatchdogSparesYoung
<1>1. ASSUME IInv, [Next]_vars
      PROVE  [WatchKill /\ child # "none" /\ child' = "none" => childAge = Grace]_vars
  <2> SUFFICES ASSUME WatchKill, child # "none", child' = "none" PROVE childAge = Grace
    OBVIOUS
  <2>1. wpc = "kill" /\ wPid = childPid
    BY DEF WatchKill, Kill
  <2> QED  BY <1>1, <2>1 DEF IInv, Judged
<1> QED  BY <1>1, LauncherInvariance, PTL DEF Spec, WatchdogSparesYoung

\* launch() comes back to its loop, and ends, only when its child is gone; and
\* main() returns only when launch() has ended.
Reaped ==
    /\ lpc \in {"loop", "launch", "clearTime", "budget", "delay", "done"} => child = "none"
    /\ mpc = "exit" => lpc = "done"

LEMMA ReapedKeeps == ASSUME Reaped, [Next]_vars PROVE Reaped'
<1>1. CASE UNCHANGED vars
  BY <1>1 DEF Reaped, vars, childVars
<1>2. CASE LaunchThread
  BY <1>2 DEF Reaped, LaunchThread, LaunchLoop, Launch, AssignBoundary, AfterFailedAssign, StorePid,
              StoreTime, StoreKilled, WaitChild, ClearTime, Budget, Delay, childVars
<1>3. CASE WatchThread
  BY <1>3 DEF Reaped, WatchThread, WatchWake, WatchTime, WatchFile, WatchKill, Kill, childVars
<1>4. CASE MainThread
  BY <1>4 DEF Reaped, MainThread, MainStep, MainTerminate, MainJoinWatch, MainRequest, MainStop,
              MainJoined, MainTryJoinTimeout, MainKill, KillActive, Kill, childVars
<1>5. CASE Environment
  BY <1>5 DEF Reaped, Environment, Tick, ChildBeats, ChildHangs, ChildExits, Signal, childVars
<1> QED  BY <1>1, <1>2, <1>3, <1>4, <1>5 DEF Next

\* main() returns only when no child is left running.
THEOREM NoOrphanHolds == Spec => []NoOrphan
<1>1. Init => Reaped
  BY DEF Init, Reaped
<1>2. Reaped => NoOrphan
  BY DEF Reaped, NoOrphan
<1> QED  BY <1>1, <1>2, ReapedKeeps, PTL DEF Spec
=============================================================================
