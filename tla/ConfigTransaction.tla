--------------------------- MODULE ConfigTransaction ---------------------------
(***************************************************************************)
(* The configuration transaction of POST /api/v1/process-config:           *)
(* ProcessConfigHandler::handleRequest in                                  *)
(* platform/OSP/SystemMonitoring/src/SystemMonitoring.cpp.                 *)
(*                                                                         *)
(* configurationUpdateMutex admits one transaction at a time.  It replaces *)
(* the runtime properties file, applies the value to the Preferences,      *)
(* restarts the Bundle that owns the key and commits the metadata a later  *)
(* rollback request needs; an exception at any step runs the undo steps of *)
(* the catch clause.  Others may edit the file or stop and start the       *)
(* Bundles meanwhile, and the process may crash.                           *)
(***************************************************************************)
EXTENDS Naturals

CONSTANTS
    Keys, Values,   \* editable configuration keys and values
    Valid,          \* values that pass the ConfigurationValidator
    Bundles,        \* Bundles that own configuration
    Manageable,     \* Bundles that may be restarted online
    Owner,          \* configurationOwner: a Bundle or NoOwner for each key
    NoOwner, None,
    Initial,        \* the value every key has first
    MaxTxns, MaxFaults, MaxEdits, MaxOps, MaxCrashes  \* bounds on the environment

ASSUME ConfigAssumption ==
    /\ Valid \subseteq Values /\ Initial \in Valid
    /\ Manageable \subseteq Bundles /\ NoOwner \notin Bundles
    /\ Owner \in [Keys -> Bundles \cup {NoOwner}]

Config == [Keys -> Values]
Meta == [id: Nat, key: Keys, prev: Values, cur: Values]
Txn == [id: Nat, act: {"apply", "rollback"}, key: Keys, val: Values, old: Values, img: Config]

ASSUME NoneAssumption == None \notin Config \cup Meta \cup Txn

VARIABLES
    file,      \* pdr-runtime.properties
    backup,    \* pdr-runtime.properties.rollback
    meta, prevMeta,  \* .rollback.meta.json and .rollback.meta.json.previous
    prefs,     \* configuration of the PreferencesService
    state,     \* Bundle: "active" or "resolved"
    runs,      \* Bundle: the configuration it read when it was last started
    pc,        \* step of the transaction in progress
    t,         \* its request
    done,      \* its flags fileCommitted, runtimeApplied, ownerWasActive, metadataCommitted
    rolled,    \* its flag rolledBack
    base,      \* history: the file when the transaction began
    answer,    \* history: the last answer
    gaveUp,    \* history: the undoing itself failed some time
    txns, faults, edits, ops, crashes   \* counters for the bounds

files == <<file, backup, meta, prevMeta>>
runtime == <<prefs, state, runs>>
local == <<t, done, rolled, base>>
hist == <<answer, gaveUp>>
counts == <<txns, faults, edits, ops, crashes>>
vars == <<files, runtime, pc, local, hist, counts>>

Start == [k \in Keys |-> Initial]

Init ==
    /\ file = Start /\ backup = None /\ meta = None /\ prevMeta = None
    /\ prefs = Start /\ state = [b \in Bundles |-> "active"] /\ runs = [b \in Bundles |-> Start]
    /\ pc = "idle" /\ t = None /\ done = {} /\ rolled = FALSE /\ base = Start
    /\ answer = None /\ gaveUp = FALSE
    /\ txns = 0 /\ faults = 0 /\ edits = 0 /\ ops = 0 /\ crashes = 0

Goto(p) == pc' = p
Does(step) == done' = done \cup {step}

\* An I/O error or an exception of a Bundle.
Fault ==
    /\ faults < MaxFaults /\ faults' = faults + 1
    /\ UNCHANGED <<txns, edits, ops, crashes>>
Fails == Fault /\ Goto("undo meta")

-----------------------------------------------------------------------------
(* The try clause. *)

Request(act, k, v) ==
    [id |-> txns + 1, act |-> act, key |-> k, val |-> v, old |-> file[k],
     img |-> [file EXCEPT ![k] = v]]

Begin(act, k, v) ==
    /\ pc = "idle" /\ txns < MaxTxns /\ txns' = txns + 1
    /\ t' = Request(act, k, v) /\ base' = file /\ done' = {} /\ rolled' = FALSE
    /\ Goto(IF v \in Valid THEN "backup" ELSE "undo meta")
    /\ UNCHANGED <<files, runtime, hist, faults, edits, ops, crashes>>

BeginApply(k, v) == Begin("apply", k, v)

\* A rollback names the transaction the metadata describes, and the key must
\* still have the value that transaction gave it; all else is answered 409.
MayRollback(id) == meta # None /\ backup # None /\ meta.id = id /\ file[meta.key] = meta.cur

BeginRollback(id) == MayRollback(id) /\ Begin("rollback", meta.key, meta.prev)

RefuseRollback(id) ==
    /\ pc = "idle" /\ ~MayRollback(id) /\ txns < MaxTxns /\ txns' = txns + 1
    /\ answer' = [id |-> txns', ok |-> FALSE, rolledBack |-> FALSE]
    /\ UNCHANGED <<files, runtime, pc, local, gaveUp, faults, edits, ops, crashes>>

BackupOfStaged == t.img
BackupOf == file

\* Stage and read back the new file and the new metadata, then copy the
\* current file to the backup; the old backup is removed first.
Backup ==
    /\ pc = "backup"
    /\ \/ backup' = BackupOf /\ Goto("replace") /\ UNCHANGED counts
       \/ backup' \in {backup, None} /\ Fails
    /\ UNCHANGED <<file, meta, prevMeta, runtime, local, hist>>

Replace ==
    /\ pc = "replace"
    /\ \/ file' = t.img /\ Does("file") /\ Goto("apply") /\ UNCHANGED counts
       \/ Fails /\ UNCHANGED <<file, done>>
    /\ UNCHANGED <<backup, meta, prevMeta, runtime, t, rolled, base, hist>>

\* setConfiguration changes memory only and does not fail; the level of the
\* root logger, a key that no Bundle owns, is also set, and that may throw.
Apply ==
    /\ pc = "apply"
    /\ prefs' = [prefs EXCEPT ![t.key] = t.val] /\ Does("prefs")
    /\ \/ Goto("owner") /\ UNCHANGED counts
       \/ Owner[t.key] = NoOwner /\ Fails
    /\ UNCHANGED <<files, state, runs, t, rolled, base, hist>>

OwnerActive == Owner[t.key] # NoOwner /\ state[Owner[t.key]] = "active"

CheckOwner ==
    /\ pc = "owner"
    /\ \/ ~OwnerActive /\ Goto("meta") /\ UNCHANGED done
       \/ OwnerActive /\ Does("owner")
          /\ Goto(IF Owner[t.key] \in Manageable THEN "stop" ELSE "undo meta")
    /\ UNCHANGED <<files, runtime, t, rolled, base, hist, counts>>

\* Bundle::stop and Bundle::start throw in the wrong state.
StopOwner ==
    LET b == Owner[t.key]
    IN /\ pc = "stop"
       /\ \/ state[b] = "active" /\ state' = [state EXCEPT ![b] = "resolved"]
             /\ Goto("start") /\ UNCHANGED counts
          \/ state[b] # "active" /\ Goto("undo meta") /\ UNCHANGED <<state, counts>>
          \/ Fails /\ UNCHANGED state
       /\ UNCHANGED <<files, prefs, runs, local, hist>>

Started(b) == state' = [state EXCEPT ![b] = "active"] /\ runs' = [runs EXCEPT ![b] = prefs]

StartOwner ==
    LET b == Owner[t.key]
    IN /\ pc = "start"
       /\ \/ state[b] # "active" /\ Started(b) /\ Goto("meta") /\ UNCHANGED counts
          \/ state[b] = "active" /\ Goto("undo meta") /\ UNCHANGED <<state, runs, counts>>
          \/ Fails /\ UNCHANGED <<state, runs>>
       /\ UNCHANGED <<files, prefs, local, hist>>

\* Keep the previous metadata, then replace it.
CommitMeta ==
    /\ pc = "meta"
    /\ \/ prevMeta' = meta /\ Does("meta") /\ Goto("audit")
          /\ meta' = [id |-> t.id, key |-> t.key, prev |-> t.old, cur |-> t.val]
          /\ UNCHANGED counts
       \/ Fails /\ prevMeta' \in {prevMeta, None, meta} /\ UNCHANGED <<meta, done>>
    /\ UNCHANGED <<file, backup, runtime, t, rolled, base, hist>>

\* Append the audit record, drop the previous metadata and answer 200.
Commit ==
    /\ pc = "audit"
    /\ \/ prevMeta' = None /\ Goto("idle")
          /\ answer' = [id |-> t.id, ok |-> TRUE, rolledBack |-> FALSE] /\ UNCHANGED counts
       \/ Fails /\ UNCHANGED <<prevMeta, answer>>
    /\ UNCHANGED <<file, backup, meta, runtime, local, gaveUp>>

-----------------------------------------------------------------------------
(* The catch clause; a second exception skips to the answer. *)

GivesUp == Fault /\ Goto("reply") /\ gaveUp' = TRUE
Proceeds(p) == Goto(p) /\ UNCHANGED <<counts, gaveUp>>

UndoneMetaKept == meta
UndoneMeta == IF "meta" \in done THEN prevMeta ELSE meta

UndoMeta ==
    /\ pc = "undo meta"
    /\ \/ meta' = UndoneMeta /\ Proceeds("undo file")
       \/ "meta" \in done /\ GivesUp /\ UNCHANGED meta
    /\ UNCHANGED <<file, backup, prevMeta, runtime, local, answer>>

MayRestore == "file" \in done /\ backup # None

UndoFile ==
    /\ pc = "undo file"
    /\ \/ MayRestore /\ file' = backup /\ rolled' = TRUE /\ Proceeds("undo prefs")
       \/ ~MayRestore /\ Proceeds("undo prefs") /\ UNCHANGED <<file, rolled>>
       \/ MayRestore /\ GivesUp /\ UNCHANGED <<file, rolled>>
    /\ UNCHANGED <<backup, meta, prevMeta, runtime, t, done, base, answer>>

UndonePrefsKept == prefs
UndonePrefs == IF "prefs" \in done THEN [prefs EXCEPT ![t.key] = t.old] ELSE prefs

UndoPrefs ==
    /\ pc = "undo prefs" /\ prefs' = UndonePrefs
    /\ \/ Proceeds("undo owner")
       \/ "prefs" \in done /\ Owner[t.key] = NoOwner /\ GivesUp
    /\ UNCHANGED <<files, state, runs, local, answer>>

MustRestart == "owner" \in done /\ state[Owner[t.key]] # "active"

UndoOwner ==
    /\ pc = "undo owner"
    /\ \/ MustRestart /\ Started(Owner[t.key]) /\ Proceeds("reply")
       \/ ~MustRestart /\ Proceeds("reply") /\ UNCHANGED <<state, runs>>
       \/ MustRestart /\ GivesUp /\ UNCHANGED <<state, runs>>
    /\ UNCHANGED <<files, prefs, local, answer>>

Reply ==
    /\ pc = "reply" /\ Goto("idle")
    /\ answer' = [id |-> t.id, ok |-> FALSE, rolledBack |-> rolled]
    /\ UNCHANGED <<files, runtime, local, gaveUp, counts>>

-----------------------------------------------------------------------------
(* Environment. *)

Edit(k, v) ==
    /\ edits < MaxEdits /\ edits' = edits + 1
    /\ file' = [file EXCEPT ![k] = v]
    /\ UNCHANGED <<backup, meta, prevMeta, runtime, pc, local, hist, txns, faults, ops, crashes>>

\* BundleLifecycleHandler stops or starts a Bundle.
Lifecycle(b) ==
    /\ ops < MaxOps /\ ops' = ops + 1
    /\ \/ state[b] = "active" /\ state' = [state EXCEPT ![b] = "resolved"] /\ UNCHANGED runs
       \/ state[b] # "active" /\ Started(b)
    /\ UNCHANGED <<files, prefs, pc, local, hist, txns, faults, edits, crashes>>

\* The process dies and is restarted on the file it left.
Crash ==
    /\ crashes < MaxCrashes /\ crashes' = crashes + 1
    /\ prefs' = file /\ state' = [b \in Bundles |-> "active"]
    /\ runs' = [b \in Bundles |-> file]
    /\ Goto("idle") /\ t' = None /\ done' = {} /\ rolled' = FALSE /\ base' = file /\ answer' = None
    /\ UNCHANGED <<files, gaveUp, txns, faults, edits, ops>>

Transaction ==
    \/ \E k \in Keys, v \in Values : BeginApply(k, v)
    \/ \E id \in 1..MaxTxns : BeginRollback(id) \/ RefuseRollback(id)
    \/ Backup \/ Replace \/ Apply \/ CheckOwner \/ StopOwner \/ StartOwner \/ CommitMeta \/ Commit
    \/ UndoMeta \/ UndoFile \/ UndoPrefs \/ UndoOwner \/ Reply

Next ==
    \/ Transaction \/ Crash
    \/ \E k \in Keys, v \in Values : Edit(k, v)
    \/ \E b \in Bundles : Lifecycle(b)

Spec == Init /\ [][Next]_vars

-----------------------------------------------------------------------------
Flags == {"file", "prefs", "owner", "meta"}
Steps == {"idle", "backup", "replace", "apply", "owner", "stop", "start", "meta", "audit",
          "undo meta", "undo file", "undo prefs", "undo owner", "reply"}

TypeOK ==
    /\ file \in Config /\ backup \in Config \cup {None}
    /\ meta \in Meta \cup {None} /\ prevMeta \in Meta \cup {None}
    /\ prefs \in Config /\ state \in [Bundles -> {"active", "resolved"}]
    /\ runs \in [Bundles -> Config]
    /\ pc \in Steps /\ t \in Txn \cup {None} /\ done \subseteq Flags /\ rolled \in BOOLEAN
    /\ base \in Config
    /\ answer \in [id: Nat, ok: BOOLEAN, rolledBack: BOOLEAN] \cup {None}
    /\ gaveUp \in BOOLEAN
    /\ txns \in Nat /\ faults \in Nat /\ edits \in Nat /\ ops \in Nat /\ crashes \in Nat

Quiet == edits = 0 /\ ops = 0

\* Between transactions the Preferences hold what the file holds, however many
\* steps of a transaction or of its undoing failed, and after a crash, as long as
\* nobody else edits the file.
MemoryMatchesFile == pc = "idle" /\ edits = 0 => prefs = file

\* An answer with rolledBack is given only when the file and the Preferences are
\* again what they were when the transaction began.
RolledBackRestoresConfig ==
    pc = "idle" /\ edits = 0 /\ answer # None /\ answer.rolledBack => file = base /\ prefs = base

\* A failing transaction never leaves a Bundle stopped: what it stopped is running
\* again when the answer is given, unless undoing it failed as well.
OwnerRunsAgain == pc = "idle" /\ ops = 0 /\ ~gaveUp => \A b \in Bundles : state[b] = "active"

\* Failing transactions never separate the rollback metadata from the file, unless
\* undoing them failed as well: the key they name has the value they say.
MetaMatchesFile ==
    pc = "idle" /\ meta # None /\ edits = 0 /\ crashes = 0 /\ ~gaveUp =>
        file[meta.key] = meta.cur

\* The runbook's promise: file, memory and Bundle state are restored before
\* rolledBack=true is answered.  A running Bundle runs with the restored values.
RolledBackRestoresAll ==
    pc = "idle" /\ Quiet /\ answer # None /\ answer.rolledBack =>
        \A b \in Bundles : state[b] = "active" /\ runs[b] = file

\* The runbook's promise: a rollback never overwrites blindly what somebody else
\* wrote to the file.
NoBlindOverwrite ==
    [][pc = "replace" /\ pc' # pc /\ t.act = "rollback" =>
          \A k \in Keys : k # t.key => file'[k] = file[k]]_vars
=============================================================================
