--------------------------- MODULE BundleMonitor ---------------------------
(***************************************************************************)
(* The Bundle manager: a thread that watches the Bundle repository and,    *)
(* when the repository has changed and then stayed the same for            *)
(* stableScanCount scans, stops and unloads every Bundle and loads the     *)
(* repository again.  reloadNow() does the same on the caller's thread.    *)
(* The repository is written by a deployer, by renaming packages into      *)
(* place or by writing them in place.                                      *)
(* Source: src/platform/BundleManagement/src/BundleManager.cpp and the     *)
(* parts of src/platform/OSP/src/BundleLoader.cpp and BundleRepository.cpp *)
(* it calls.                                                               *)
(***************************************************************************)
EXTENDS Naturals, FiniteSets

CONSTANTS
    Packs,        \* package files of the repository (one symbolic name each)
    Contents,     \* complete package contents
    Absent,       \* no file, no Bundle
    Half,         \* a package that is being written
    StableScans,  \* stableScanCount after its lower bound of 2
    Directory,    \* the configured path names a directory, not a Glob pattern
    MaxDeploys,   \* bound: writes of the deployer
    MaxFailures,  \* bound: exceptions in scans and in the steps of a reload
    MaxStarts,    \* bound: calls of start()
    MaxReloads    \* bound: calls of reloadNow()

ASSUME StableAssumption == StableScans \in Nat /\ StableScans >= 2
ASSUME ContentAssumption == Absent \notin Contents /\ Half \notin Contents /\ Absent # Half

VARIABLES
    disk,       \* [Packs -> [pkg, mtime]]: the repository
    dirTime,    \* last modification of the directory itself
    clock,      \* counts the deployer's writes
    running,    \* _running
    stopEvent,  \* _stop
    mon,        \* the monitor thread: where it is in monitor()
    applied, pending, stable,   \* its local variables
    holder,     \* who holds _reloadMutex
    step,       \* where the holder is in reload()
    todo,       \* package files that loadBundles has still to read
    loaded,     \* [Packs -> Contents \cup {Absent}]: Bundles in the loader
    skipped,    \* history: complete packages that loadBundles failed to open
    active,     \* those that are active
    failures, starts, reloads,  \* bounds
    scanned,    \* clock at the monitor's last scan
    firstSeen,  \* history: the snapshot of the thread's first scan
    streak,     \* history: the last snapshot and how many scans in a row saw it
    thrown,     \* history: a reload of the thread threw, and none began since
    adminThrown,\* history: a reloadNow() threw
    failedStep  \* history: a step of a reload failed, and no reload began since

repo    == <<disk, dirTime, clock>>
thread  == <<running, stopEvent, mon, applied, pending, stable>>
loader  == <<loaded, skipped, active>>
bounds  == <<failures, starts, reloads>>
seen    == <<scanned, firstSeen, streak>>
blame   == <<thrown, adminThrown, failedStep>>
monitorVars == <<repo, thread, holder, step, todo, loader, bounds, seen, blame>>

Packages == Contents \cup {Absent, Half}
File     == [pkg : Packages, mtime : 0..MaxDeploys]
Snapshots == [files : [Packs -> File], dir : 0..MaxDeploys]

\* scan: path, modification time and size of everything below the configured
\* path.  A path that exists is walked, the directory itself included; a
\* pattern only contributes the files it matches.
scan == [files |-> disk, dir |-> IF Directory THEN dirTime ELSE 0]

\* What the repository offers to the loader: a package cut short cannot be
\* opened.  Opening a complete one may fail as well, in loadBundle below.
Usable(b) == IF disk[b].pkg = Half THEN Absent ELSE disk[b].pkg

MonitorInit ==
    /\ \E c \in Contents : disk = [b \in Packs |-> [pkg |-> c, mtime |-> 0]]
    /\ dirTime = 0 /\ clock = 0
    /\ running = FALSE /\ stopEvent = FALSE /\ mon = "none"
    /\ applied = scan /\ pending = scan /\ stable = 0
    /\ holder = "none" /\ step = "idle" /\ todo = {}
    /\ loaded = [b \in Packs |-> Usable(b)] /\ skipped = {} /\ active = Packs
    /\ failures = 0 /\ starts = 0 /\ reloads = 0
    /\ scanned = 0 /\ firstSeen = scan /\ streak = [snap |-> scan, count |-> 0]
    /\ thrown = FALSE /\ adminThrown = FALSE /\ failedStep = FALSE

(***************************************************************************)
(* The deployer.                                                           *)
(***************************************************************************)
Written(b, pkg, mtime) == disk' = [disk EXCEPT ![b] = [pkg |-> pkg, mtime |-> mtime]]

\* The bound leaves the deployer room to finish what it has begun.
Room(n) == clock + n + Cardinality({b \in Packs : disk[b].pkg = Half}) <= MaxDeploys

\* A finished package is renamed over the file, or the file is removed: the
\* package keeps its own modification time, the directory gets a new one.
Rename(b, pkg) ==
    /\ Room(1) /\ disk[b].pkg # Half /\ disk[b].pkg # pkg
    /\ Written(b, pkg, 0)
    /\ clock' = clock + 1 /\ dirTime' = clock + 1
    /\ UNCHANGED <<thread, holder, step, todo, loader, bounds, seen, blame>>

\* The file is created or truncated and written in place.
WriteBegin(b) ==
    /\ Room(2) /\ disk[b].pkg # Half
    /\ Written(b, Half, clock + 1)
    /\ clock' = clock + 1
    /\ dirTime' = IF disk[b].pkg = Absent THEN clock + 1 ELSE dirTime
    /\ UNCHANGED <<thread, holder, step, todo, loader, bounds, seen, blame>>

WriteMore(b) ==
    /\ Room(1) /\ disk[b].pkg = Half
    /\ Written(b, Half, clock + 1)
    /\ clock' = clock + 1
    /\ UNCHANGED <<dirTime, thread, holder, step, todo, loader, bounds, seen, blame>>

WriteEnd(b, c) ==
    /\ clock < MaxDeploys /\ disk[b].pkg = Half
    /\ Written(b, c, clock + 1)
    /\ clock' = clock + 1
    /\ UNCHANGED <<dirTime, thread, holder, step, todo, loader, bounds, seen, blame>>

(***************************************************************************)
(* start() and stop().                                                     *)
(***************************************************************************)
start ==
    /\ ~running /\ mon \in {"none", "joined"} /\ starts < MaxStarts
    /\ running' = TRUE /\ stopEvent' = FALSE /\ mon' = "first"
    /\ starts' = starts + 1
    /\ thrown' = FALSE /\ failedStep' = FALSE
    /\ UNCHANGED <<repo, applied, pending, stable, holder, step, todo, loader,
                   failures, reloads, seen, adminThrown>>

stop ==
    /\ running /\ mon # "terminated"
    /\ running' = FALSE /\ stopEvent' = TRUE
    /\ UNCHANGED <<repo, mon, applied, pending, stable, holder, step, todo, loader,
                   bounds, seen, blame>>

\* _worker.join() returns.
join ==
    /\ mon = "ended"
    /\ mon' = "joined"
    /\ UNCHANGED <<repo, running, stopEvent, applied, pending, stable, holder, step,
                   todo, loader, bounds, seen, blame>>

(***************************************************************************)
(* The monitor thread.                                                     *)
(***************************************************************************)
\* A deployer at work writes at least once between two scans.
WriterBusy == \A b \in Packs : disk[b].pkg = Half => disk[b].mtime > scanned

Seen ==
    /\ scanned' = clock
    /\ streak' = [snap  |-> scan,
                  count |-> IF scan # streak.snap THEN 1
                            ELSE IF streak.count < StableScans THEN streak.count + 1
                            ELSE streak.count]

\* The scan before the loop: what is on disk now counts as applied.
FirstScan ==
    /\ mon = "first" /\ WriterBusy
    /\ applied' = scan /\ stable' = 0
    /\ mon' = "wait"
    /\ firstSeen' = scan /\ Seen
    /\ UNCHANGED <<repo, running, stopEvent, pending, holder, step, todo, loader,
                   bounds, blame>>

\* Nothing catches an exception of the first scan: the process terminates.
FirstScanFails ==
    /\ mon = "first" /\ failures < MaxFailures
    /\ failures' = failures + 1
    /\ mon' = "terminated"
    /\ UNCHANGED <<repo, running, stopEvent, applied, pending, stable, holder, step,
                   todo, loader, starts, reloads, seen, blame>>

End ==
    /\ mon = "wait" /\ stopEvent
    /\ stopEvent' = FALSE /\ mon' = "ended"
    /\ UNCHANGED <<repo, running, applied, pending, stable, holder, step, todo, loader,
                   bounds, seen, blame>>

\* One scan of the loop.
Unchanged == scan = applied
Restart   == stable = 0 \/ scan # pending
Enough    == stable + 1 >= StableScans

Scan ==
    /\ mon = "wait" /\ ~stopEvent /\ WriterBusy
    /\ \/ /\ Unchanged
          /\ stable' = 0 /\ UNCHANGED <<pending, mon>>
       \/ /\ ~Unchanged /\ Restart
          /\ pending' = scan /\ stable' = 1 /\ UNCHANGED mon
       \/ /\ ~Unchanged /\ ~Restart
          /\ stable' = IF stable < StableScans THEN stable + 1 ELSE stable
          /\ mon' = IF Enough THEN "reload" ELSE mon
          /\ UNCHANGED pending
    /\ Seen
    /\ UNCHANGED <<repo, running, stopEvent, applied, holder, step, todo, loader,
                   bounds, firstSeen, blame>>

\* The scan throws (a file vanished under it): caught, nothing changes.
ScanFails ==
    /\ mon = "wait" /\ ~stopEvent /\ failures < MaxFailures
    /\ failures' = failures + 1
    /\ UNCHANGED <<repo, thread, holder, step, todo, loader, starts, reloads, seen, blame>>

(***************************************************************************)
(* reload(), on the monitor thread or by reloadNow().                      *)
(***************************************************************************)
BeginReload(who) ==
    /\ holder' = who /\ step' = "stop"
    /\ thrown' = FALSE /\ failedStep' = FALSE

MonitorReload ==
    /\ mon = "reload" /\ holder = "none"
    /\ BeginReload("monitor")
    /\ UNCHANGED <<repo, thread, todo, loader, bounds, seen, adminThrown>>

reloadNow ==
    /\ holder = "none" /\ reloads < MaxReloads /\ mon # "terminated"
    /\ BeginReload("admin")
    /\ reloads' = reloads + 1
    /\ UNCHANGED <<repo, thread, todo, loader, failures, starts, seen, adminThrown>>


\* The catch clauses of monitor() leave applied alone, so that the next scan
\* still finds a difference.
AppliedOnFailure == applied

\* An exception leaves reload(): the mutex is released; monitor() catches it
\* and keeps applied, pending and stableScans, reloadNow() passes it on.
Throw ==
    /\ failures < MaxFailures /\ failures' = failures + 1
    /\ holder' = "none" /\ step' = "idle" /\ todo' = {}
    /\ thrown' = (holder = "monitor")
    /\ adminThrown' = (adminThrown \/ holder = "admin")
    /\ failedStep' = TRUE
    /\ \/ holder = "monitor" /\ mon' = "wait" /\ applied' = AppliedOnFailure
       \/ holder = "admin" /\ UNCHANGED <<mon, applied>>
    /\ UNCHANGED <<repo, running, stopEvent, pending, stable, starts, reloads, seen>>

\* The holder of the mutex is at a step of reload(), and the process lives.
At(s) == step = s /\ mon # "terminated"

Advance(to) ==
    /\ step' = to
    /\ UNCHANGED <<repo, thread, holder, bounds, seen, blame>>

stopAllBundles ==
    /\ At("stop")
    /\ \/ active' = {} /\ Advance("unload") /\ UNCHANGED <<loaded, skipped, todo>>
       \/ /\ \E rest \in SUBSET active : rest # {} /\ active' = rest
          /\ Throw /\ UNCHANGED <<loaded, skipped>>

unloadAllBundles ==
    /\ At("unload")
    /\ \/ /\ loaded' = [b \in Packs |-> Absent] /\ todo' = Packs
          /\ skipped' = {} /\ Advance("load") /\ UNCHANGED active
       \/ /\ \E rest \in SUBSET {b \in Packs : loaded[b] # Absent} :
                rest # {} /\ loaded' = [b \in Packs |-> IF b \in rest THEN loaded[b] ELSE Absent]
          /\ Throw /\ UNCHANGED <<skipped, active>>

\* BundleRepository::loadBundles opens one package after the other, to be handed
\* to the loader at the end.
loadBundle(b) ==
    /\ At("load") /\ b \in todo
    /\ loaded' = [loaded EXCEPT ![b] = Usable(b)]
    /\ todo' = todo \ {b}
    /\ UNCHANGED <<repo, thread, holder, step, skipped, active, bounds, seen, blame>>

\* A complete package cannot be opened (a file that is locked, no descriptor
\* left): the exception is logged and the package left out, the reload goes on.
SkipBundle(b) ==
    /\ At("load") /\ b \in todo /\ disk[b].pkg \in Contents
    /\ failures < MaxFailures /\ failures' = failures + 1
    /\ loaded' = [loaded EXCEPT ![b] = Absent]
    /\ skipped' = skipped \cup {b} /\ todo' = todo \ {b} /\ failedStep' = TRUE
    /\ UNCHANGED <<repo, thread, holder, step, active, starts, reloads, seen, thrown, adminThrown>>

\* BundleLoader::loadBundle throws for one of the packages that were opened, or
\* opening one throws what is not a Poco::Exception: out of reload().
LoadThrows ==
    /\ At("load")
    /\ \E rest \in SUBSET {b \in Packs : loaded[b] # Absent} :
          /\ todo # {} => rest = {}
          /\ loaded' = [b \in Packs |-> IF b \in rest THEN loaded[b] ELSE Absent]
    /\ Throw /\ UNCHANGED <<skipped, active>>

AppliedRescanned == scan    \* mutant: the repository is scanned again

\* What the monitor regards as applied after its reload: the snapshot that
\* was stable before it, whatever the deployer has done since.
AppliedAfter == pending

\* resolveAllBundles and startAllBundles catch the exception of each Bundle
\* and go on: reload() counts as successful.
startAllBundles ==
    /\ At("load") /\ todo = {}
    /\ \E failing \in SUBSET {b \in Packs : loaded[b] # Absent} :
          /\ Cardinality(failing) <= MaxFailures - failures
          /\ failures' = failures + Cardinality(failing)
          /\ active' = {b \in Packs : loaded[b] # Absent} \ failing
          /\ failedStep' = (failedStep \/ failing # {})
    /\ holder' = "none" /\ step' = "idle"
    /\ \/ /\ holder = "monitor"
          /\ applied' = AppliedAfter /\ stable' = 0 /\ mon' = "wait"
       \/ holder = "admin" /\ UNCHANGED <<applied, stable, mon>>
    /\ UNCHANGED <<repo, running, stopEvent, pending, todo, loaded, skipped, starts, reloads,
                   seen, thrown, adminThrown>>

Deploy == \E b \in Packs :
    \/ \E pkg \in Contents \cup {Absent} : Rename(b, pkg)
    \/ WriteBegin(b)
    \/ WriteMore(b)
    \/ \E c \in Contents : WriteEnd(b, c)

Reload == MonitorReload \/ stopAllBundles \/ unloadAllBundles
          \/ (\E b \in Packs : loadBundle(b) \/ SkipBundle(b)) \/ LoadThrows
          \/ startAllBundles

Monitor == FirstScan \/ FirstScanFails \/ End \/ Scan \/ ScanFails

MonitorNext == Deploy \/ start \/ stop \/ join \/ Monitor \/ reloadNow \/ Reload

MonitorSpec == MonitorInit /\ [][MonitorNext]_monitorVars

\* The thread runs, a reload ends, and a deployer finishes what it has begun.
Fairness ==
    /\ WF_monitorVars(FirstScan \/ End \/ Scan)
    /\ WF_monitorVars(Reload) /\ WF_monitorVars(join)
    /\ \A b \in Packs : WF_monitorVars(\E c \in Contents : WriteEnd(b, c))

FairSpec == MonitorSpec /\ Fairness
-----------------------------------------------------------------------------
(* Type invariant. *)
MonitorTypeOK ==
    /\ disk \in [Packs -> File] /\ dirTime \in 0..MaxDeploys /\ clock \in 0..MaxDeploys
    /\ running \in BOOLEAN /\ stopEvent \in BOOLEAN
    /\ mon \in {"none", "first", "wait", "reload", "ended", "joined", "terminated"}
    /\ applied \in Snapshots /\ pending \in Snapshots /\ stable \in 0..StableScans
    /\ holder \in {"none", "monitor", "admin"} /\ step \in {"idle", "stop", "unload", "load"}
    /\ todo \subseteq Packs /\ active \subseteq Packs
    /\ loaded \in [Packs -> Contents \cup {Absent}] /\ skipped \subseteq Packs
    /\ failures \in 0..MaxFailures /\ starts \in 0..MaxStarts /\ reloads \in 0..MaxReloads
    /\ scanned \in 0..MaxDeploys /\ firstSeen \in Snapshots
    /\ streak \in [snap : Snapshots, count : 0..StableScans]
    /\ thrown \in BOOLEAN /\ adminThrown \in BOOLEAN /\ failedStep \in BOOLEAN

(* monitor() decides to reload only when the last StableScans scans all saw  *)
(* the same repository and it is not the applied one, also on the way        *)
(* through the exceptions that leave stableScans and pending as they were.   *)
StableBeforeReload ==
    [][mon = "wait" /\ mon' = "reload" =>
         streak'.count = StableScans /\ streak'.snap # applied]_monitorVars

(* What the loader holds after a reload of the repository as it is: every    *)
(* package but those that the reload failed to open, which it left out.      *)
Held == [b \in Packs |-> IF b \in skipped THEN Absent ELSE Usable(b)]

(* When the thread is idle and sees nothing to do (the repository equals     *)
(* applied), the loader holds exactly the packages on disk, but those that   *)
(* the last reload could not open (loadBundles swallows that), although      *)
(* reload reads them long after the scan it was decided on and the deployer  *)
(* may write meanwhile.  Excepted are the repository of the thread's first   *)
(* scan, which it never loads, and a reloadNow() that threw.                 *)
Settled ==
    mon = "wait" /\ holder = "none" /\ scan = applied /\ scan # firstSeen /\ ~adminThrown
    => loaded = Held

(* A package still being written is never read by a reload (what the         *)
(* stability scans are for).                                                 *)
HalfNeverRead == [][\A b \in Packs : loadBundle(b) => disk[b].pkg # Half]_monitorVars

Gone == mon \in {"none", "ended", "joined", "terminated"} \/ ~running

(* A reload of the monitor thread that threw is followed by another one.     *)
ThrownIsRetried == thrown ~> (~thrown \/ Gone)

(* Any step of a reload that failed, the opening or the start of a package   *)
(* included, is retried.                                                     *)
FailedStepRetried == failedStep ~> (~failedStep \/ Gone)


(* stop() comes back: the thread leaves its loop, also out of a reload that  *)
(* throws, and is joined.                                                    *)
StopCompletes == (mon = "wait" /\ ~running) ~> mon \in {"joined", "terminated"}
=============================================================================
