---------------------------- MODULE RequestLedger ----------------------------
(***************************************************************************)
(* The idempotency ledger of the management API:                           *)
(* beginManagementRequest, ManagementRequestGuard and                      *)
(* configureManagementRequestLedger in                                     *)
(* platform/OSP/SystemMonitoring/src/SystemMonitoring.cpp.                 *)
(* An HTTP handler registers its X-PDR-Request-Id before it executes the   *)
(* operation, and its guard marks the entry completed, or erases it, after *)
(* the operation.  The ledger is saved on every change; a restarted        *)
(* Runtime loads it.  Every call below is one critical section of          *)
(* managementRequestMutex.                                                 *)
(*                                                                         *)
(* updatedMicroseconds is a stamp of a logical clock; stamps up to expired *)
(* are older than ttlMilliseconds.                                         *)
(***************************************************************************)
EXTENDS Naturals, FiniteSets

CONSTANTS
    Handlers,    \* HTTP server threads
    Ids,         \* request ids
    Prints,      \* request fingerprints
    None,        \* no entry
    Corrupt,     \* ledger file that fails to parse or its SHA-256 check
    Retention,   \* pdr.management.idempotency.retention
    MaxStamps,   \* bound: stamps given out
    MaxFaults,   \* bound: failed writes and damage of the file
    MaxCrashes   \* bound: process crashes

ASSUME LedgerAssumption ==
    /\ Retention \in Nat \ {0}
    /\ MaxStamps \in Nat /\ MaxFaults \in Nat /\ MaxCrashes \in Nat

Entry == [fp: Prints, st: {"in-progress", "completed", "interrupted"}, at: Nat]

ASSUME NoneAssumption == None \notin Entry

VARIABLES
    entries,   \* managementRequests()
    disk,      \* the ledger file
    recovery,  \* recoveryRequired
    up,        \* the ledger is configured
    pc,        \* handler: "idle", "exec" (operation runs) or "drop" (guard destructor due)
    req,       \* handler: its request
    clock, expired,   \* last stamp; stamps whose ttl has passed
    faults, crashes,  \* counters for the bounds
    runs,      \* history: executions begun for an id since the ledger last released it
    lost,      \* history: an entry was dropped while its operation was in progress
    finished,  \* history: requests whose operation completed
    replayed   \* history: requests answered as idempotent replay

ledger == <<entries, disk, recovery>>
hist == <<runs, lost, finished, replayed>>
vars == <<ledger, up, pc, req, clock, expired, faults, crashes, hist>>

Request == [id: Ids, fp: Prints]
Empty == [i \in Ids |-> None]

Init ==
    /\ entries = Empty /\ disk = Empty /\ recovery = FALSE /\ up = FALSE
    /\ pc = [h \in Handlers |-> "idle"] /\ req = [h \in Handlers |-> None]
    /\ clock = 0 /\ expired = 0 /\ faults = 0 /\ crashes = 0
    /\ runs = [i \in Ids |-> 0] /\ lost = FALSE /\ finished = {} /\ replayed = {}

-----------------------------------------------------------------------------
(* Retention and persistence. *)

Held(e) == {i \in Ids : e[i] # None}

\* pruneManagementRequestsLocked: drop expired entries, then the oldest ones
\* beyond the retention.
Fresh(e) == {i \in Held(e) : e[i].at > expired}
Newest(e, ids) == {i \in ids : Cardinality({j \in ids : e[j].at > e[i].at}) < Retention}
Pruned(e) == [i \in Ids |-> IF i \in Newest(e, Fresh(e)) THEN e[i] ELSE None]

\* The room beginManagementRequest makes for a new entry: the oldest goes.
Full(e) == Cardinality(Held(e)) >= Retention
Oldest(e) == {i \in Held(e) : \A j \in Held(e) : e[i].at <= e[j].at}
Evicted(e) == IF Full(e) THEN [i \in Ids |-> IF i \in Oldest(e) THEN None ELSE e[i]] ELSE e

\* persistManagementRequestsLocked refuses while recovery is required, and
\* preservePreviousSnapshot refuses to replace a file that does not validate.
MaySave == ~recovery /\ disk # Corrupt

\* A refused save, or one that fails although it is allowed.
SaveFails == \/ ~MaySave /\ UNCHANGED faults
             \/ MaySave /\ faults < MaxFaults /\ faults' = faults + 1

\* persistManagementRequestsNoThrowLocked
Save(e) ==
    \/ MaySave /\ disk' = e /\ UNCHANGED <<recovery, faults>>
    \/ SaveFails /\ recovery' = TRUE /\ UNCHANGED disk

\* Entries between e and f that went without their operation being over.
Dropped(e, f) == {i \in Held(e) : f[i] = None}
DroppedRunning(e, f) == \E i \in Dropped(e, f) : e[i].st = "in-progress"
Released(e, f) == [i \in Ids |-> IF i \in Dropped(e, f) THEN 0 ELSE runs[i]]

-----------------------------------------------------------------------------
(* configureManagementRequestLedger *)

LoadedCompletedOnly(e) == IF e # None /\ e.st = "completed" THEN e ELSE None
Loaded(e) == IF e = None THEN None
             ELSE [fp |-> e.fp, at |-> e.at,
                   st |-> IF e.st = "completed" THEN "completed" ELSE "interrupted"]

configure ==
    /\ ~up /\ up' = TRUE
    /\ \/ /\ disk # Corrupt
          /\ LET found == [i \in Ids |-> Loaded(disk[i])]
             IN \/ /\ entries' = Pruned(found) /\ disk' = entries' /\ recovery' = FALSE
                   /\ runs' = Released(found, entries')
                   /\ UNCHANGED faults
                \/ /\ faults < MaxFaults /\ faults' = faults + 1
                   /\ entries' = Empty /\ recovery' = TRUE
                   /\ UNCHANGED <<disk, runs>>
       \/ /\ disk = Corrupt
          /\ entries' = Empty /\ recovery' = TRUE
          /\ UNCHANGED <<disk, faults, runs>>
    /\ UNCHANGED <<pc, req, clock, expired, crashes, lost, finished, replayed>>

-----------------------------------------------------------------------------
(* Handlers. *)

BlocksIfOver(e) == e # None /\ e.st # "in-progress"
Blocks(e) == e # None

MayReplayAny(e, fp) == e.fp = fp
MayReplay(e, fp) == e.fp = fp /\ e.st = "completed"

\* The id is known: an idempotent replay if it completed with the same
\* fingerprint, else 409.  What was pruned stays pruned, without a save.
beginKnown(h, r) ==
    LET kept == Pruned(entries)
    IN /\ up /\ pc[h] = "idle" /\ ~recovery /\ Blocks(kept[r.id])
       /\ entries' = kept
       /\ replayed' = IF MayReplay(kept[r.id], r.fp) THEN replayed \cup {r} ELSE replayed
       /\ lost' = (lost \/ DroppedRunning(entries, kept))
       /\ runs' = Released(entries, kept)
       /\ UNCHANGED <<disk, recovery, up, pc, req, clock, expired, faults, crashes, finished>>

\* A new id: registered and saved before the operation may start; if the save
\* fails the handler answers 503 and the ledger needs recovery.
beginNew(h, r) ==
    LET kept == Evicted(Pruned(entries))
    IN /\ up /\ pc[h] = "idle" /\ ~recovery /\ ~Blocks(Pruned(entries)[r.id])
       /\ clock < MaxStamps /\ clock' = clock + 1
       /\ lost' = (lost \/ DroppedRunning(entries, kept))
       /\ \/ /\ MaySave
             /\ entries' = [kept EXCEPT ![r.id] = [fp |-> r.fp, st |-> "in-progress", at |-> clock']]
             /\ disk' = entries'
             /\ pc' = [pc EXCEPT ![h] = "exec"] /\ req' = [req EXCEPT ![h] = r]
             /\ runs' = [Released(entries, kept) EXCEPT ![r.id] = @ + 1]
             /\ UNCHANGED <<recovery, faults>>
          \/ /\ SaveFails /\ entries' = kept /\ recovery' = TRUE
             /\ runs' = Released(entries, kept)
             /\ UNCHANGED <<disk, pc, req>>
       /\ UNCHANGED <<up, expired, crashes, finished, replayed>>

\* ManagementRequestGuard::complete after a successful operation; if the entry
\* is gone the guard stays armed and its destructor still runs.
complete(h) ==
    LET i == req[h].id
    IN /\ pc[h] = "exec"
       /\ finished' = finished \cup {req[h]}
       /\ \/ /\ entries[i] # None
             /\ clock < MaxStamps /\ clock' = clock + 1
             /\ entries' = [entries EXCEPT ![i] = [fp |-> entries[i].fp, st |-> "completed", at |-> clock']]
             /\ Save(entries')
             /\ pc' = [pc EXCEPT ![h] = "idle"] /\ req' = [req EXCEPT ![h] = None]
          \/ /\ entries[i] = None
             /\ pc' = [pc EXCEPT ![h] = "drop"]
             /\ UNCHANGED <<ledger, req, clock, faults>>
       /\ UNCHANGED <<up, expired, crashes, runs, lost, replayed>>

\* The operation throws.
fail(h) ==
    /\ pc[h] = "exec" /\ pc' = [pc EXCEPT ![h] = "drop"]
    /\ UNCHANGED <<ledger, up, req, clock, expired, faults, crashes, hist>>

Unfinished(i) == entries[i] # None /\ entries[i].st # "completed"

\* ~ManagementRequestGuard: erases whatever unfinished entry the id has now.
drop(h) ==
    LET i == req[h].id
    IN /\ pc[h] = "drop" /\ pc' = [pc EXCEPT ![h] = "idle"]
       /\ req' = [req EXCEPT ![h] = None]
       /\ \/ /\ Unfinished(i)
             /\ entries' = [entries EXCEPT ![i] = None]
             /\ runs' = [runs EXCEPT ![i] = 0]
             /\ Save(entries')
          \/ /\ ~Unfinished(i)
             /\ UNCHANGED <<ledger, faults, runs>>
       /\ UNCHANGED <<up, clock, expired, crashes, lost, finished, replayed>>

-----------------------------------------------------------------------------
(* Environment. *)

TtlPasses ==
    /\ expired < clock /\ expired' = expired + 1
    /\ UNCHANGED <<ledger, up, pc, req, clock, faults, crashes, hist>>

Crash ==
    /\ up /\ up' = FALSE /\ crashes < MaxCrashes /\ crashes' = crashes + 1
    /\ entries' = Empty /\ recovery' = FALSE
    /\ pc' = [h \in Handlers |-> "idle"] /\ req' = [h \in Handlers |-> None]
    /\ UNCHANGED <<disk, clock, expired, faults, hist>>

DiskCorrupts ==
    /\ disk # Corrupt /\ faults < MaxFaults /\ faults' = faults + 1
    /\ disk' = Corrupt
    /\ UNCHANGED <<entries, recovery, up, pc, req, clock, expired, crashes, hist>>

Next ==
    \/ configure \/ TtlPasses \/ Crash \/ DiskCorrupts
    \/ \E h \in Handlers :
         \/ complete(h) \/ fail(h) \/ drop(h)
         \/ \E r \in Request : beginKnown(h, r) \/ beginNew(h, r)

Spec == Init /\ [][Next]_vars

-----------------------------------------------------------------------------
TypeOK ==
    /\ entries \in [Ids -> Entry \cup {None}] /\ Cardinality(Held(entries)) <= Retention
    /\ disk \in [Ids -> Entry \cup {None}] \cup {Corrupt}
    /\ recovery \in BOOLEAN /\ up \in BOOLEAN
    /\ pc \in [Handlers -> {"idle", "exec", "drop"}] /\ req \in [Handlers -> Request \cup {None}]
    /\ clock \in Nat /\ expired \in Nat /\ faults \in Nat /\ crashes \in Nat
    /\ runs \in [Ids -> Nat] /\ lost \in BOOLEAN
    /\ finished \subseteq Request /\ replayed \subseteq Request

\* An id is executed at most once until the ledger releases it (retention, ttl,
\* or the failure of its operation): not after it completed, not after a crash
\* in the middle of it, not after failed saves or damage of the file.
AtMostOnce == \A i \in Ids : runs[i] <= 1

\* A request whose id is still being executed is refused with 409.
Exclusive ==
    \A g, h \in Handlers :
        g # h /\ pc[g] = "exec" /\ pc[h] = "exec" => req[g].id # req[h].id

\* Two handlers never execute the same id at the same time, provided no entry
\* was dropped by retention or ttl while its operation was in progress.
ExclusiveUnlessDropped == ~lost => Exclusive

\* A request is answered as replay only if an operation with this id and this
\* fingerprint did complete, under the same proviso.
ReplayTruth == ~lost => replayed \subseteq finished

\* Fail closed: once the file is damaged no operation starts any more, neither in
\* the running process nor after a restart.
FailClosed ==
    [][disk = Corrupt => \A h \in Handlers : pc'[h] = "exec" => pc[h] = "exec"]_vars
=============================================================================
