-------------------------- MODULE PluginQuarantine --------------------------
(***************************************************************************)
(* Quarantine of external plugins (Bundles pdr.plugin.STAR): failed starts *)
(* are counted in a snapshot file that survives the process; a plugin that *)
(* failed Threshold times in a row is neither started automatically nor by *)
(* the management API until an operator resets it, and a snapshot that     *)
(* cannot be read blocks every plugin.                                     *)
(* BundleAdmin's web page starts it all the same.                          *)
(* Source: PluginQuarantineManager and BundleLifecycleHandler in           *)
(* src/platform/OSP/SystemMonitoring/src/SystemMonitoring.cpp, the start   *)
(* of Bundles in src/platform/OSP/src/BundleLoader.cpp and Bundle.cpp, and *)
(* src/platform/OSP/BundleAdmin/src/BundleInfoHandler.cpp.                 *)
(***************************************************************************)
EXTENDS Naturals, Sequences, SequencesExt

CONSTANTS
    Plugins,
    Deps,         \* [Plugins -> SUBSET Plugins]: plugins a plugin requires
    Corrupt,      \* a snapshot file that fails its checks
    Threshold,    \* pdr.plugins.quarantine.failureThreshold
    MaxBoots, MaxFaults, MaxStarts, MaxResets, MaxDamage  \* bounds

ASSUME QuarantineAssumption ==
    Threshold \in Nat \ {0} /\ Deps \in [Plugins -> SUBSET Plugins]

ASSUME CorruptAssumption == Corrupt \notin [Plugins -> [fails : Nat, quarantined : BOOLEAN]]

Record == [fails : Nat, quarantined : BOOLEAN]
NoRecord == [fails |-> 0, quarantined |-> FALSE]   \* also: the plugin has none
Nothing == [p \in Plugins |-> NoRecord]

VARIABLES
    file,      \* plugin-quarantine.json: the records, or Corrupt
    records,   \* _records
    recovery,  \* _recoveryRequired
    blockedFlag, \* autoStartBlocked of each Bundle
    active,    \* plugins whose Bundle is active
    phase,     \* "down", "boot" (startAllBundles under way) or "up"
    todo,      \* plugins startAllBundles has still to look at
    call,      \* plugins whose start() is in progress, the innermost last
    throwing,  \* an exception is on its way up through them
    admitted,  \* plugins with a start request past its quarantine check
    failRun,   \* history: failed starts of a plugin since its last success or reset
    excess,    \* history: failures lost by a failed write, and starts of blocked
               \* plugins: admitted before the quarantine, or asked of BundleAdmin
    confirmed, \* history: a recovery was confirmed since configure()
    boots, faults, startReqs, resets, damage   \* bounds

history == <<failRun, excess, confirmed>>
memory == <<records, recovery, blockedFlag>>
bounds == <<boots, faults, startReqs, resets, damage>>
vars == <<file, memory, active, phase, todo, call, throwing, admitted, history, bounds>>

Init ==
    /\ file = Nothing /\ records = Nothing /\ recovery = FALSE
    /\ blockedFlag = [p \in Plugins |-> FALSE]
    /\ active = {} /\ phase = "down" /\ todo = {} /\ call = <<>> /\ throwing = FALSE
    /\ admitted = {} /\ failRun = [p \in Plugins |-> 0] /\ excess = 0 /\ confirmed = FALSE
    /\ boots = 0 /\ faults = 0 /\ startReqs = 0 /\ resets = 0 /\ damage = 0

\* blocked(): also what configure() puts into the autoStartBlocked flags.
blocked(p) == recovery \/ records[p].quarantined

(***************************************************************************)
(* The life of the process.                                                *)
(***************************************************************************)
BlocksAllNot(broken) == FALSE  \* mutant: it counts as an empty one
BlocksAll(broken) == broken    \* an unreadable snapshot blocks every plugin

\* The snapshot, or no records when it fails its checks.
Read == IF file = Corrupt THEN Nothing ELSE file

\* SystemMonitoring's activator runs configure() at a run level before the
\* plugins'; then startAllBundles comes to them.
configure ==
    /\ phase = "down" /\ boots < MaxBoots
    /\ LET broken == file = Corrupt
       IN  /\ records' = Read /\ recovery' = broken
           /\ blockedFlag' = [p \in Plugins |-> BlocksAll(broken) \/ Read[p].quarantined]
    /\ confirmed' = FALSE
    /\ phase' = "boot" /\ todo' = Plugins /\ boots' = boots + 1
    /\ UNCHANGED <<file, active, call, throwing, admitted, failRun, excess,
                   faults, startReqs, resets, damage>>

\* The process ends, orderly or not.
Shutdown ==
    /\ phase # "down"
    /\ phase' = "down" /\ todo' = {} /\ call' = <<>> /\ throwing' = FALSE
    /\ active' = {} /\ admitted' = {}
    /\ UNCHANGED <<file, memory, history, bounds>>

FileDamaged ==
    /\ phase = "down" /\ damage < MaxDamage
    /\ file' = Corrupt /\ damage' = damage + 1
    /\ UNCHANGED <<memory, active, phase, todo, call, throwing, admitted, history,
                   boots, faults, startReqs, resets>>

(***************************************************************************)
(* Starting Bundles.  BundleLoader's mutex admits one start at a time.     *)
(***************************************************************************)
Idle == phase # "down" /\ call = <<>>

MayAutoStart(p) == p \notin active /\ ~blockedFlag[p]

\* One turn of the loop in startAllBundles.
AutoStart(p) ==
    /\ Idle /\ phase = "boot" /\ p \in todo
    /\ todo' = todo \ {p}
    /\ call' = IF MayAutoStart(p) THEN <<p>> ELSE <<>>
    /\ UNCHANGED <<file, memory, active, phase, throwing, admitted, history, bounds>>

BootEnds ==
    /\ Idle /\ phase = "boot" /\ todo = {}
    /\ phase' = "up"
    /\ UNCHANGED <<file, memory, active, todo, call, throwing, admitted, history, bounds>>

Top == Last(call)

\* startDependencies: whatever is required and not active is started.
StartDependency(p) ==
    /\ call # <<>> /\ ~throwing /\ p \in Deps[Top] \ active
    /\ call' = Append(call, p)
    /\ UNCHANGED <<file, memory, active, phase, todo, throwing, admitted, history, bounds>>

\* persistNoThrowLocked with the new records: the file is replaced, or the
\* failure makes every plugin wait for an operator.
MayPersist == ~recovery

Persist(new) ==
    \/ /\ MayPersist
       /\ file' = new /\ recovery' = recovery
       /\ UNCHANGED <<faults, excess>>
    \/ /\ MayPersist /\ faults < MaxFaults
       /\ faults' = faults + 1 /\ recovery' = TRUE /\ excess' = excess + 1
       /\ UNCHANGED file
    \/ /\ ~MayPersist
       /\ recovery' = TRUE /\ excess' = excess + 1
       /\ UNCHANGED <<file, faults>>

Succeeded(p) == [records EXCEPT ![p].fails = 0]

\* The activator returns: Bundle::start commits, success() runs on the event.
StartSucceeds ==
    /\ call # <<>> /\ ~throwing /\ Deps[Top] \subseteq active
    /\ active' = active \cup {Top}
    /\ call' = Front(call)
    /\ failRun' = [failRun EXCEPT ![Top] = 0]
    /\ \/ records[Top].fails = 0 /\ UNCHANGED <<file, records, recovery, faults, excess>>
       \/ /\ records[Top].fails > 0
          /\ records' = Succeeded(Top) /\ Persist(Succeeded(Top))
    /\ UNCHANGED <<blockedFlag, phase, todo, throwing, admitted, confirmed, boots, startReqs, resets, damage>>

OverBudgetLate(n) == n > Threshold    \* mutant
OverBudget(n) == n >= Threshold

Failed(p) ==
    LET n == records[p].fails + 1
    IN  [records EXCEPT ![p] = [fails |-> n, quarantined |-> @.quarantined \/ OverBudget(n)]]

\* The activator, or a dependency, throws: failure() runs on the event and
\* the exception goes on to the Bundle that required this one.
StartFails ==
    /\ call # <<>> /\ (throwing \/ Deps[Top] \subseteq active)
    /\ call' = Front(call) /\ throwing' = (Len(call) > 1)
    /\ records' = Failed(Top) /\ Persist(Failed(Top))
    /\ blockedFlag' = [blockedFlag EXCEPT ![Top] = Failed(Top)[Top].quarantined \/ recovery']
    /\ failRun' = [failRun EXCEPT ![Top] = @ + 1]
    /\ UNCHANGED <<active, phase, todo, admitted, confirmed, boots, startReqs, resets, damage>>

(***************************************************************************)
(* Management requests.                                                    *)
(***************************************************************************)
\* The check of a start or restart request; the start itself comes later, on
\* this thread or in a management task.
RequestStart(p) ==
    /\ phase # "down" /\ startReqs < MaxStarts
    /\ ~blocked(p)
    /\ admitted' = admitted \cup {p} /\ startReqs' = startReqs + 1
    /\ UNCHANGED <<file, memory, active, phase, todo, call, throwing, history,
                   boots, faults, resets, damage>>

\* Bundle::start on behalf of a request.
Begin(p) ==
    /\ call' = IF p \in active THEN <<>> ELSE <<p>>
    /\ excess' = IF p \notin active /\ blocked(p) THEN excess + 1 ELSE excess

ExecuteStart(p) ==
    /\ Idle /\ p \in admitted
    /\ admitted' = admitted \ {p}
    /\ Begin(p)
    /\ UNCHANGED <<file, memory, active, phase, todo, throwing, failRun, confirmed, bounds>>

\* BundleAdmin's performAction calls Bundle::start and never asks blocked().
AdminStart(p) ==
    /\ Idle /\ startReqs < MaxStarts /\ startReqs' = startReqs + 1
    /\ Begin(p)
    /\ UNCHANGED <<file, memory, active, phase, todo, throwing, admitted, failRun, confirmed,
                   boots, faults, resets, damage>>

StopPlugin(p) ==
    /\ Idle /\ p \in active
    /\ active' = active \ {p}
    /\ UNCHANGED <<file, memory, phase, todo, call, throwing, admitted, history, bounds>>

MayReset(confirm) == recovery => confirm

\* reset(): memory is cleared first, then written; when the write throws, the
\* Bundle's flag stays as it is and the request is answered with the error.
reset(p, confirm) ==
    /\ phase # "down" /\ resets < MaxResets /\ resets' = resets + 1
    /\ MayReset(confirm)
    /\ LET kept == IF recovery THEN Nothing ELSE records
           new  == [kept EXCEPT ![p] = NoRecord]
       IN  /\ records' = new /\ recovery' = FALSE
           /\ confirmed' = (confirmed \/ (recovery /\ confirm))
           /\ failRun' = [q \in Plugins |-> IF recovery \/ q = p THEN 0 ELSE failRun[q]]
           /\ \/ /\ file' = new
                 /\ blockedFlag' = [blockedFlag EXCEPT ![p] = FALSE]
                 /\ UNCHANGED faults
              \/ /\ faults < MaxFaults /\ faults' = faults + 1
                 /\ UNCHANGED <<file, blockedFlag>>
    /\ UNCHANGED <<active, phase, todo, call, throwing, admitted, excess, boots, startReqs, damage>>

Next ==
    \/ configure \/ Shutdown \/ FileDamaged
    \/ BootEnds \/ StartSucceeds \/ StartFails
    \/ \E p \in Plugins :
          \/ AutoStart(p) \/ StartDependency(p)
          \/ RequestStart(p) \/ ExecuteStart(p) \/ AdminStart(p) \/ StopPlugin(p)
          \/ \E confirm \in BOOLEAN : reset(p, confirm)

Spec == Init /\ [][Next]_vars
-----------------------------------------------------------------------------
(* Type invariant. *)
TypeOK ==
    /\ file = Corrupt \/ file \in [Plugins -> Record]
    /\ records \in [Plugins -> Record] /\ recovery \in BOOLEAN
    /\ blockedFlag \in [Plugins -> BOOLEAN]
    /\ active \subseteq Plugins /\ todo \subseteq Plugins /\ admitted \subseteq Plugins
    /\ phase \in {"down", "boot", "up"} /\ throwing \in BOOLEAN
    /\ call \in Seq(Plugins)
    /\ failRun \in [Plugins -> Nat] /\ excess \in Nat

Durable(p) == file = Corrupt \/ file[p].quarantined

(* The file decides across restarts: startAllBundles starts no plugin that   *)
(* the snapshot on disk holds as quarantined, and none at all when the       *)
(* snapshot cannot be read.                                                  *)
NoAutoStart ==
    [][\A p \in Plugins : AutoStart(p) /\ call' # <<>> => ~Durable(p)]_vars

(* The failure budget holds over the whole life of the installation: a plugin *)
(* no other plugin requires fails at most Threshold times in a row, restarts  *)
(* of the process and API requests included, but for failures whose write     *)
(* failed, for starts admitted before the quarantine took effect and for      *)
(* starts of a blocked plugin through BundleAdmin, which asks nobody.         *)
BudgetHolds ==
    \A p \in Plugins :
        (\A q \in Plugins : p \notin Deps[q]) => failRun[p] <= Threshold + excess

(* A snapshot that could not be read stays on disk for the operator: no start  *)
(* that succeeds or fails writes over it unless an operator has tried to       *)
(* confirm the recovery since the process started.                             *)
CorruptKept ==
    [][file = Corrupt /\ file' # file => confirmed']_vars

(* No request starts a plugin that is blocked: not after it was admitted, not *)
(* through BundleAdmin.                                                       *)
BlockedNotStarted ==
    [][\A p \in Plugins : ExecuteStart(p) \/ AdminStart(p) => call' = <<>> \/ ~blocked(p)]_vars

(* A snapshot that could not be read is only replaced by a request that       *)
(* confirms the recovery.                                                     *)
RecoveryConfirmed ==
    [][file = Corrupt /\ file' # file => \E p \in Plugins : reset(p, TRUE)]_vars

(* A plugin held as quarantined is not started during the automatic start of  *)
(* the Bundles.                                                               *)
QuarantinedNotStarted ==
    [][phase = "boot" /\ Len(call') > Len(call) /\ admitted' = admitted
         => ~records[Last(call')].quarantined]_vars
=============================================================================
