----------------------- MODULE ConfigTransactionProofs -----------------------
(***************************************************************************)
(* Consistency of the configuration transaction, for all keys, values,     *)
(* owners and bounds: whichever steps of a transaction or of its undoing   *)
(* fail, memory, file and rollback metadata agree when it has answered.    *)
(*                                                                         *)
(* The properties speak of the idle handler only.  What carries them       *)
(* over the steps is where the file, the backup and the Preferences stand  *)
(* at each step, relative to the file the transaction found (base) and the *)
(* one it wants (t.img), and which flags the catch clause finds set.       *)
(*                                                                         *)
(* The Bundle monitor, which watches files the same way and reloads what   *)
(* they hold, follows, for any files and contents.                         *)
(***************************************************************************)
EXTENDS ConfigTransaction, BundleMonitor, TLAPS

Replacing == {"owner", "stop", "start", "meta", "audit"}
Try == {"backup", "replace", "apply"} \cup Replacing
Undo == {"undo meta", "undo file", "undo prefs", "undo owner", "reply"}

Types ==
    /\ file \in Config /\ base \in Config /\ prefs \in Config
    /\ backup \in Config \cup {None}
    /\ meta \in Meta \cup {None} /\ prevMeta \in Meta \cup {None}
    /\ pc \in {"idle"} \cup Try \cup Undo

Counters == txns \in Nat /\ edits \in Nat /\ crashes \in Nat

\* The request in progress is the one the file asked for when it began.
Asked ==
    pc # "idle" =>
        /\ t.id \in Nat /\ t.key \in Keys /\ t.val \in Values
        /\ t.old = base[t.key] /\ t.img = [base EXCEPT ![t.key] = t.val]

\* The flags tell which steps were taken; rolledBack is set by UndoFile only.
Flow ==
    /\ pc \in {"backup", "replace"} => done = {}
    /\ pc = "apply" => "file" \in done /\ "prefs" \notin done /\ "meta" \notin done
    /\ pc \in Replacing => "file" \in done /\ "prefs" \in done /\ ("meta" \in done <=> pc = "audit")
    /\ pc \in Undo => ("file" \in done <=> "prefs" \in done)
    /\ pc \in Undo => ("meta" \in done => "file" \in done)
    /\ pc \in Try \cup {"undo meta", "undo file"} => rolled = FALSE

\* Where file, backup and Preferences stand as long as nobody edits the file.
Places ==
    edits = 0 =>
        /\ pc = "idle" => /\ prefs = file
                          /\ answer # None /\ answer.rolledBack => file = base
        /\ pc \in {"backup", "replace"} => file = base /\ prefs = base
        /\ pc \in {"replace", "apply"} \cup Replacing => backup = base
        /\ pc = "apply" => file = t.img /\ prefs = base
        /\ pc \in Replacing => file = t.img /\ prefs = t.img
        /\ pc \in {"undo meta", "undo file"} =>
              IF "file" \in done THEN file = t.img /\ prefs = t.img /\ backup = base
                                 ELSE file = base /\ prefs = base
        /\ pc = "undo prefs" => file = base /\ prefs = (IF "prefs" \in done THEN t.img ELSE base)
        /\ pc = "undo owner" => file = base /\ prefs = base
        /\ pc = "reply" => prefs = file /\ (rolled => file = base) /\ (~gaveUp => file = base)

Describes(m, f) == m # None => f[m.key] = m.cur

\* Which file the metadata, and those kept for the undoing, describe.
Metadata ==
    edits = 0 /\ crashes = 0 /\ ~gaveUp =>
        /\ pc = "idle" => Describes(meta, file)
        /\ pc \in Try \ {"audit"} => Describes(meta, base)
        /\ pc = "audit" => Describes(meta, t.img) /\ Describes(prevMeta, base)
        /\ pc = "undo meta" => Describes(IF "meta" \in done THEN prevMeta ELSE meta, base)
        /\ pc \in Undo \ {"undo meta"} => Describes(meta, base)

IInv == Types /\ Counters /\ Asked /\ Flow /\ Places /\ Metadata

-----------------------------------------------------------------------------
\* The invariant holds when the handler is installed.
LEMMA InitIInv == Init => IInv
BY ConfigAssumption, NoneAssumption
   DEF Init, IInv, Types, Counters, Asked, Flow, Places, Metadata, Describes, Start, Config, Try, Undo, Replacing

(* The try clause. *)

\* Reading a request records the file it found.
LEMMA BeginStep ==
    ASSUME IInv, NEW act, NEW k \in Keys, NEW v \in Values, Begin(act, k, v)
    PROVE  IInv'
<1>1. /\ pc = "idle" /\ t' = Request(act, k, v) /\ base' = file /\ done' = {} /\ rolled' = FALSE
      /\ pc' \in {"backup", "undo meta"} /\ txns' = txns + 1
      /\ UNCHANGED <<file, backup, meta, prevMeta, prefs, gaveUp, faults, edits, ops, crashes>>
  BY DEF Begin, Goto, files, runtime, hist
<1>2. /\ t'.id \in Nat /\ t'.key = k /\ t'.val = v
      /\ t'.old = base'[k] /\ t'.img = [base' EXCEPT ![k] = v]
  <2>1. base' \in [Keys -> Values]
    BY <1>1 DEF IInv, Types, Config
  <2>3. txns \in Nat
    BY DEF IInv, Counters
  <2>4. txns + 1 \in Nat
    BY <2>3
  <2>2. t' = [id |-> txns + 1, act |-> act, key |-> k, val |-> v, old |-> base'[k],
              img |-> [base' EXCEPT ![k] = v]]
    BY <1>1 DEF Request
  <2> QED
    BY <2>1, <2>2, <2>4
<1>3. Types'
  BY <1>1 DEF IInv, Types, Try, Undo, Replacing
<1>4. Asked' /\ Flow'
  BY <1>1, <1>2 DEF Asked, Flow, Try, Undo, Replacing
<1>5. Places'
  BY <1>1 DEF IInv, Places, Replacing
<1>6. Metadata'
  BY <1>1 DEF IInv, Metadata, Describes, Try, Undo, Replacing
<1>7. Counters'
  <2>1. txns' = txns + 1 /\ edits' = edits /\ crashes' = crashes
    BY DEF Begin
  <2> QED
    BY <2>1 DEF IInv, Counters
<1> QED
  BY <1>3, <1>4, <1>5, <1>6, <1>7 DEF IInv

\* The steps up to the restart of the owner.
LEMMA TryStep == IInv /\ (Backup \/ Replace \/ Apply \/ CheckOwner \/ StopOwner \/ StartOwner) => IInv'
<1> SUFFICES ASSUME IInv, Backup \/ Replace \/ Apply \/ CheckOwner \/ StopOwner \/ StartOwner
             PROVE  IInv'
  OBVIOUS
<1> USE DEF Goto, Does, Fails, Fault, files, runtime, local, hist, counts
<1>0. Counters'
  BY DEF Backup, Replace, Apply, CheckOwner, StopOwner, StartOwner, IInv, Counters
<1>1. CASE Backup
  <2>1. Types'
    BY <1>1 DEF Backup, BackupOf, IInv, Types, Try, Undo, Replacing
  <2>3. Asked' /\ Flow'
    BY <1>1 DEF Backup, IInv, Asked, Flow, Try, Undo, Replacing
  <2>2. Places' /\ Metadata'
    BY <1>1 DEF Backup, BackupOf, IInv, Flow, Places, Metadata, Describes, Try, Undo, Replacing
  <2> QED
    BY <1>0, <2>1, <2>2, <2>3 DEF IInv
<1>2. CASE Replace
  <2>1. Types'
    <3>1. t.img \in Config
      BY <1>2 DEF Replace, IInv, Types, Asked, Config
    <3> QED
      BY <1>2, <3>1 DEF Replace, IInv, Types, Try, Undo, Replacing
  <2>2. Asked' /\ Flow'
    BY <1>2 DEF Replace, IInv, Types, Asked, Flow, Try, Undo, Replacing
  <2>3. Places' /\ Metadata'
    BY <1>2 DEF Replace, IInv, Flow, Places, Metadata, Describes, Try, Undo, Replacing
  <2> QED
    BY <1>0, <2>1, <2>2, <2>3 DEF IInv
<1>3. CASE Apply
  <2>1. Types'
    BY <1>3 DEF Apply, IInv, Types, Asked, Config, Try, Undo, Replacing
  <2>2. Asked' /\ Flow'
    BY <1>3 DEF Apply, IInv, Types, Asked, Flow, Try, Undo, Replacing
  <2>3. Places' /\ Metadata'
    BY <1>3 DEF Apply, IInv, Asked, Flow, Places, Metadata, Describes, Try, Undo, Replacing
  <2> QED
    BY <1>0, <2>1, <2>2, <2>3 DEF IInv
<1>4. CASE CheckOwner
  <2>1. Types' /\ Asked' /\ Flow'
    BY <1>4 DEF CheckOwner, IInv, Types, Asked, Flow, Try, Undo, Replacing
  <2>2. Places' /\ Metadata'
    BY <1>4 DEF CheckOwner, IInv, Flow, Places, Metadata, Describes, Try, Undo, Replacing
  <2> QED
    BY <1>0, <2>1, <2>2 DEF IInv
<1>5. CASE StopOwner \/ StartOwner
  <2>1. /\ pc \in {"stop", "start"} /\ pc' \in {"start", "meta", "undo meta"}
        /\ UNCHANGED <<file, backup, meta, prevMeta, prefs, t, done, rolled, base, answer, gaveUp,
                       edits, crashes>>
    BY <1>5 DEF StopOwner, StartOwner
  <2>2. Types'
    BY <2>1 DEF IInv, Types, Try, Undo, Replacing
  <2>3. Asked' /\ Flow'
    BY <2>1 DEF IInv, Asked, Flow, Try, Undo, Replacing
  <2>4. Places' /\ Metadata'
    BY <2>1 DEF IInv, Flow, Places, Metadata, Describes, Try, Undo, Replacing
  <2> QED
    BY <1>0, <2>2, <2>3, <2>4 DEF IInv
<1> QED
  BY <1>1, <1>2, <1>3, <1>4, <1>5

\* The metadata are replaced, and the transaction answers.
LEMMA CommitStep == IInv /\ (CommitMeta \/ Commit) => IInv'
<1> SUFFICES ASSUME IInv, CommitMeta \/ Commit PROVE IInv'
  OBVIOUS
<1> USE DEF Goto, Does, Fails, Fault, files, runtime, local, hist, counts
<1>0. Counters'
  BY DEF CommitMeta, Commit, IInv, Counters
<1>1. CASE CommitMeta
  <2>1. pc = "meta" /\ UNCHANGED <<file, base, prefs, backup, t, rolled, answer, gaveUp, edits, crashes>>
    BY <1>1 DEF CommitMeta
  <2>2. \/ /\ prevMeta' = meta /\ done' = done \cup {"meta"} /\ pc' = "audit"
           /\ meta' = [id |-> t.id, key |-> t.key, prev |-> t.old, cur |-> t.val]
        \/ /\ pc' = "undo meta" /\ prevMeta' \in {prevMeta, None, meta} /\ UNCHANGED <<meta, done>>
    BY <1>1 DEF CommitMeta
  <2>3. CASE /\ prevMeta' = meta /\ done' = done \cup {"meta"} /\ pc' = "audit"
             /\ meta' = [id |-> t.id, key |-> t.key, prev |-> t.old, cur |-> t.val]
    <3>1. /\ t.id \in Nat /\ t.key \in Keys /\ t.val \in Values /\ t.old \in Values
          /\ t.img[t.key] = t.val
      BY <2>1 DEF IInv, Types, Asked, Config
    <3>2. meta' \in Meta /\ meta'.key = t.key /\ meta'.cur = t.val
      BY <2>3, <3>1 DEF Meta
    <3>3. Types'
      BY <2>1, <2>3, <3>2 DEF IInv, Types, Try, Undo, Replacing
    <3>4. Asked' /\ Flow'
      BY <2>1, <2>3 DEF IInv, Asked, Flow, Try, Undo, Replacing
    <3>5. Places'
      BY <2>1, <2>3 DEF IInv, Places, Replacing
    <3>6. Metadata'
      BY <2>1, <2>3, <3>1, <3>2 DEF IInv, Metadata, Describes, Try, Undo, Replacing
    <3> QED
      BY <1>0, <3>3, <3>4, <3>5, <3>6 DEF IInv
  <2>4. CASE pc' = "undo meta" /\ prevMeta' \in {prevMeta, None, meta} /\ UNCHANGED <<meta, done>>
    <3>1. Types'
      BY <2>1, <2>4 DEF IInv, Types, Try, Undo, Replacing
    <3>2. Asked' /\ Flow'
      BY <2>1, <2>4 DEF IInv, Asked, Flow, Try, Undo, Replacing
    <3>3. Places' /\ Metadata'
      BY <2>1, <2>4 DEF IInv, Flow, Places, Metadata, Describes, Try, Undo, Replacing
    <3> QED
      BY <1>0, <3>1, <3>2, <3>3 DEF IInv
  <2> QED
    BY <2>2, <2>3, <2>4
<1>2. CASE Commit
  <2>1. /\ pc = "audit" /\ UNCHANGED <<file, base, prefs, backup, meta, t, done, rolled, gaveUp, edits, crashes>>
        /\ \/ /\ prevMeta' = None /\ pc' = "idle"
              /\ answer' = [id |-> t.id, ok |-> TRUE, rolledBack |-> FALSE]
           \/ pc' = "undo meta" /\ UNCHANGED <<prevMeta, answer>>
    BY <1>2 DEF Commit
  <2>2. pc' = "idle" => answer'.rolledBack = FALSE
    BY <2>1
  <2>3. Types'
    BY <2>1 DEF IInv, Types, Try, Undo, Replacing
  <2>4. Asked' /\ Flow'
    BY <2>1 DEF IInv, Asked, Flow, Try, Undo, Replacing
  <2>5. Places'
    BY <2>1, <2>2 DEF IInv, Flow, Places, Replacing
  <2>6. Metadata'
    BY <2>1 DEF IInv, Flow, Places, Metadata, Describes, Try, Undo, Replacing
  <2> QED
    BY <1>0, <2>3, <2>4, <2>5, <2>6 DEF IInv
<1> QED
  BY <1>1, <1>2

(* The catch clause. *)

\* Each step of the undoing, and its failure, keeps file and Preferences apart
\* only where the next step expects it.
LEMMA UndoStep == IInv /\ (UndoMeta \/ UndoFile \/ UndoPrefs \/ UndoOwner \/ Reply) => IInv'
<1> SUFFICES ASSUME IInv, UndoMeta \/ UndoFile \/ UndoPrefs \/ UndoOwner \/ Reply PROVE IInv'
  OBVIOUS
<1> USE DEF Goto, Proceeds, GivesUp, Fault, files, runtime, local, hist, counts
<1>0. Counters'
  BY DEF UndoMeta, UndoFile, UndoPrefs, UndoOwner, Reply, IInv, Counters
<1>1. CASE UndoMeta
  <2>1. Types'
    BY <1>1 DEF UndoMeta, UndoneMeta, IInv, Types, Try, Undo, Replacing
  <2>2. Asked' /\ Flow'
    BY <1>1 DEF UndoMeta, IInv, Asked, Flow, Try, Undo, Replacing
  <2>3. Places'
    BY <1>1 DEF UndoMeta, IInv, Flow, Places, Try, Undo, Replacing
  <2>4. Metadata'
    <3>1. CASE meta' = UndoneMeta /\ pc' = "undo file" /\ gaveUp' = gaveUp
      BY <1>1, <3>1 DEF UndoMeta, UndoneMeta, IInv, Metadata, Describes, Try, Undo, Replacing
    <3>2. CASE gaveUp' = TRUE
      BY <3>2 DEF Metadata
    <3> QED
      BY <1>1, <3>1, <3>2 DEF UndoMeta
  <2> QED
    BY <1>0, <2>1, <2>2, <2>3, <2>4 DEF IInv
<1>2. CASE UndoFile
  <2>1. Types'
    BY <1>2 DEF UndoFile, MayRestore, IInv, Types, Try, Undo, Replacing
  <2>2. Asked' /\ Flow'
    BY <1>2 DEF UndoFile, IInv, Asked, Flow, Try, Undo, Replacing
  <2>3. Places'
    <3>1. base # None
      BY NoneAssumption DEF IInv, Types
    <3>2. pc = "undo file" /\ UNCHANGED <<base, prefs, backup, t, done, edits>>
      BY <1>2 DEF UndoFile
    <3>3. CASE MayRestore /\ file' = backup /\ rolled' = TRUE /\ pc' = "undo prefs"
      BY <3>2, <3>3 DEF MayRestore, IInv, Flow, Places, Undo, Replacing
    <3>4. CASE ~MayRestore /\ pc' = "undo prefs" /\ UNCHANGED <<file, rolled>>
      BY <3>1, <3>2, <3>4 DEF MayRestore, IInv, Flow, Places, Undo, Replacing
    <3>5. CASE MayRestore /\ pc' = "reply" /\ gaveUp' = TRUE /\ UNCHANGED <<file, rolled>>
      BY <3>2, <3>5 DEF MayRestore, IInv, Flow, Places, Undo, Replacing
    <3> QED
      BY <1>2, <3>3, <3>4, <3>5 DEF UndoFile
  <2>4. Metadata'
    BY <1>2 DEF UndoFile, IInv, Metadata, Describes, Try, Undo, Replacing
  <2> QED
    BY <1>0, <2>1, <2>2, <2>3, <2>4 DEF IInv
<1>3. CASE UndoPrefs
  <2>1. UndonePrefs \in Config
    BY <1>3 DEF UndoPrefs, UndonePrefs, IInv, Types, Asked, Config, Undo
  <2>2. edits = 0 => UndonePrefs = base
    <3>1. /\ base \in [Keys -> Values] /\ t.key \in Keys
          /\ t.old = base[t.key] /\ t.img = [base EXCEPT ![t.key] = t.val]
      BY <1>3 DEF UndoPrefs, IInv, Types, Asked, Config
    <3>2. [t.img EXCEPT ![t.key] = t.old] = base
      BY <3>1
    <3> QED
      BY <1>3, <3>2 DEF UndoPrefs, UndonePrefs, IInv, Places
  <2>3. Types'
    BY <1>3, <2>1 DEF UndoPrefs, IInv, Types, Try, Undo, Replacing
  <2>4. Asked' /\ Flow'
    BY <1>3 DEF UndoPrefs, IInv, Asked, Flow, Try, Undo, Replacing
  <2>5. Places'
    BY <1>3, <2>2 DEF UndoPrefs, IInv, Places, Try, Undo, Replacing
  <2>6. Metadata'
    BY <1>3 DEF UndoPrefs, IInv, Metadata, Describes, Try, Undo, Replacing
  <2> QED
    BY <1>0, <2>3, <2>4, <2>5, <2>6 DEF IInv
<1>4. CASE UndoOwner
  <2>1. /\ pc = "undo owner" /\ pc' = "reply" /\ gaveUp' \in {gaveUp, TRUE}
        /\ UNCHANGED <<file, base, prefs, backup, meta, prevMeta, t, done, rolled, answer, edits, crashes>>
    BY <1>4 DEF UndoOwner
  <2>2. Types'
    BY <2>1 DEF IInv, Types, Try, Undo, Replacing
  <2>3. Asked' /\ Flow'
    BY <2>1 DEF IInv, Asked, Flow, Try, Undo, Replacing
  <2>4. Places' /\ Metadata'
    BY <2>1 DEF IInv, Places, Metadata, Describes, Try, Undo, Replacing
  <2> QED
    BY <1>0, <2>2, <2>3, <2>4 DEF IInv
<1>5. CASE Reply
  <2>1. /\ pc = "reply" /\ pc' = "idle"
        /\ answer' = [id |-> t.id, ok |-> FALSE, rolledBack |-> rolled]
        /\ UNCHANGED <<file, base, prefs, backup, meta, prevMeta, t, done, rolled, gaveUp, edits, crashes>>
    BY <1>5 DEF Reply
  <2>2. answer'.rolledBack = rolled
    BY <2>1
  <2>3. Types'
    BY <2>1 DEF IInv, Types, Try, Undo, Replacing
  <2>4. Asked' /\ Flow'
    BY <2>1 DEF IInv, Asked, Flow, Try, Undo, Replacing
  <2>5. Places'
    BY <2>1, <2>2 DEF IInv, Places, Replacing
  <2>6. Metadata'
    BY <2>1 DEF IInv, Places, Metadata, Describes, Try, Undo, Replacing
  <2> QED
    BY <1>0, <2>3, <2>4, <2>5, <2>6 DEF IInv
<1> QED
  BY <1>1, <1>2, <1>3, <1>4, <1>5

(* Everything else. *)

\* A refused rollback, a crash, a foreign edit and a Bundle that is stopped or
\* started between the steps.
LEMMA OtherStep ==
    ASSUME IInv,
           \/ \E id \in 1..MaxTxns : RefuseRollback(id)
           \/ Crash
           \/ \E k \in Keys, v \in Values : Edit(k, v)
           \/ \E b \in Bundles : Lifecycle(b)
           \/ UNCHANGED vars
    PROVE  IInv'
<1> USE DEF Goto, files, runtime, local, hist, counts
<1>1. ASSUME NEW id \in 1..MaxTxns, RefuseRollback(id) PROVE IInv'
  <2>1. /\ pc = "idle" /\ answer' = [id |-> txns', ok |-> FALSE, rolledBack |-> FALSE]
        /\ UNCHANGED <<file, base, prefs, backup, meta, prevMeta, pc, t, done, rolled, gaveUp, edits, crashes>>
    BY <1>1 DEF RefuseRollback
  <2>2. answer'.rolledBack = FALSE
    BY <2>1
  <2>3. Types' /\ Asked' /\ Flow' /\ Metadata'
    BY <2>1 DEF IInv, Types, Asked, Flow, Metadata
  <2>4. Places'
    BY <2>1, <2>2 DEF IInv, Places, Replacing
  <2>5. Counters'
    BY <1>1 DEF RefuseRollback, IInv, Counters
  <2> QED
    BY <2>3, <2>4, <2>5 DEF IInv
<1>2. ASSUME Crash PROVE IInv'
  <2>1. /\ pc' = "idle" /\ prefs' = file /\ base' = file /\ answer' = None
        /\ UNCHANGED <<file, backup, meta, prevMeta, edits>>
    BY <1>2 DEF Crash
  <2>2. Types' /\ Asked' /\ Flow' /\ Places'
    BY <2>1 DEF IInv, Types, Asked, Flow, Places, Try, Undo, Replacing
  <2>3. Counters' /\ crashes' # 0
    BY <1>2 DEF Crash, IInv, Counters
  <2>4. Metadata'
    BY <2>3 DEF Metadata
  <2> QED
    BY <2>2, <2>3, <2>4 DEF IInv
<1>3. ASSUME NEW k \in Keys, NEW v \in Values, Edit(k, v) PROVE IInv'
  <2>1. file' = [file EXCEPT ![k] = v]
        /\ UNCHANGED <<base, prefs, backup, meta, prevMeta, pc, t, done, rolled>>
    BY <1>3 DEF Edit
  <2>2. Types' /\ Asked' /\ Flow'
    BY <2>1 DEF IInv, Types, Asked, Flow, Config
  <2>3. Counters' /\ edits' # 0
    BY <1>3 DEF Edit, IInv, Counters
  <2>4. Places' /\ Metadata'
    BY <2>3 DEF Places, Metadata
  <2> QED
    BY <2>2, <2>3, <2>4 DEF IInv
<1>4. ASSUME (\E b \in Bundles : Lifecycle(b)) \/ UNCHANGED vars PROVE IInv'
  <2>1. UNCHANGED <<file, base, prefs, backup, meta, prevMeta, pc, t, done, rolled, answer, gaveUp,
                    txns, edits, crashes>>
    BY <1>4 DEF Lifecycle, vars
  <2>2. Types' /\ Counters' /\ Asked' /\ Flow'
    BY <2>1 DEF IInv, Types, Counters, Asked, Flow
  <2>3. Places'
    BY <2>1 DEF IInv, Places
  <2>4. Metadata'
    BY <2>1 DEF IInv, Metadata, Describes
  <2> QED
    BY <2>2, <2>3, <2>4 DEF IInv
<1> QED
  BY <1>1, <1>2, <1>3, <1>4

-----------------------------------------------------------------------------
\* The invariant that carries the three results below holds in every reachable
\* state of the configuration handler and its surroundings.
THEOREM ConfigInvariance == Spec => []IInv
<1>1. IInv /\ [Next]_vars => IInv'
  <2> SUFFICES ASSUME IInv, [Next]_vars PROVE IInv'
    OBVIOUS
  <2>1. ASSUME NEW k \in Keys, NEW v \in Values, BeginApply(k, v) PROVE IInv'
    BY <2>1, BeginStep DEF BeginApply
  <2>2. ASSUME NEW id \in 1..MaxTxns, BeginRollback(id) PROVE IInv'
    <3>1. meta.key \in Keys /\ meta.prev \in Values
      BY <2>2 DEF BeginRollback, MayRollback, IInv, Types, Meta
    <3> QED
      BY <2>2, <3>1, BeginStep DEF BeginRollback
  <2> QED
    BY <2>1, <2>2, TryStep, CommitStep, UndoStep, OtherStep DEF Next, Transaction
<1> QED
  BY <1>1, InitIInv, PTL DEF Spec

\* Whichever steps of handleRequest or of its catch clause fail, the
\* Preferences hold what the file holds once the transaction has answered.
THEOREM MemoryMatchesFileHolds == Spec => []MemoryMatchesFile
<1>1. IInv => MemoryMatchesFile
  BY DEF IInv, Places, MemoryMatchesFile
<1> QED
  BY <1>1, ConfigInvariance, PTL

\* rolledBack is answered only when file and Preferences are what they were
\* when the transaction began.
THEOREM RolledBackHolds == Spec => []RolledBackRestoresConfig
<1>1. IInv => RolledBackRestoresConfig
  BY DEF IInv, Places, RolledBackRestoresConfig
<1> QED
  BY <1>1, ConfigInvariance, PTL

\* The metadata a rollback request will use describe the file, unless undoing
\* a transaction failed or the process died in one.
THEOREM MetaMatchesFileHolds == Spec => []MetaMatchesFile
<1>1. IInv => MetaMatchesFile
  BY DEF IInv, Metadata, Describes, MetaMatchesFile
<1> QED
  BY <1>1, ConfigInvariance, PTL

\* The one Bundle that may be down is the owner the transaction has stopped and
\* has yet to start, or that the catch clause has yet to start again.
Restarting == {"start", "undo meta", "undo file", "undo prefs", "undo owner"}

Owners ==
    /\ state \in [Bundles -> {"active", "resolved"}] /\ ops \in Nat /\ gaveUp \in BOOLEAN
    /\ pc \in {"stop", "start"} => "owner" \in done
    /\ ops = 0 /\ gaveUp = FALSE =>
          \A b \in Bundles : state[b] # "active" =>
              pc \in Restarting /\ "owner" \in done /\ b = Owner[t.key]

\* Steps that touch no Bundle and keep what the catch clause goes by.
LEMMA OwnersKept ==
    ASSUME Owners, UNCHANGED <<state, ops, t>>, gaveUp' \in {gaveUp, TRUE}, done \subseteq done',
           pc' \in {"stop", "start"} => "owner" \in done',
           pc \in Restarting => pc' \in Restarting \/ gaveUp' = TRUE
    PROVE  Owners'
  BY DEF Owners

LEMMA OwnersNext ==
    ASSUME Owners, [Next]_vars
    PROVE  Owners'
<1> USE DEF Goto, Does, Fails, Fault, Proceeds, GivesUp, files, runtime, local, hist, counts
<1>1. CASE Backup \/ Replace \/ Apply \/ CheckOwner \/ CommitMeta \/ Commit
  <2>1. /\ UNCHANGED <<state, ops, t, gaveUp>> /\ done \subseteq done' /\ pc \notin Restarting
        /\ pc' \in {"stop", "start"} => "owner" \in done'
    BY <1>1 DEF Backup, Replace, Apply, CheckOwner, CommitMeta, Commit, Restarting
  <2> QED
    BY <2>1, OwnersKept
<1>2. CASE UndoMeta \/ UndoFile \/ UndoPrefs
  <2>1. /\ UNCHANGED <<state, ops, t, done>> /\ gaveUp' \in {gaveUp, TRUE} /\ pc' \notin {"stop", "start"}
        /\ pc' \in Restarting \/ gaveUp' = TRUE
    BY <1>2 DEF UndoMeta, UndoFile, UndoPrefs, Restarting
  <2> QED
    BY <2>1, OwnersKept
<1>3. CASE Reply \/ (\E id \in 1..MaxTxns : RefuseRollback(id)) \/ (\E k \in Keys, v \in Values : Edit(k, v))
           \/ UNCHANGED vars
  <2>1. /\ UNCHANGED <<state, ops, t, done, gaveUp>>
        /\ pc' = pc \/ (pc = "reply" /\ pc' = "idle")
    BY <1>3 DEF Reply, RefuseRollback, Edit, vars
  <2> QED
    BY <2>1, OwnersKept DEF Owners, Restarting
<1>4. ASSUME NEW act, NEW k, NEW v, Begin(act, k, v) PROVE Owners'
  <2>1. pc = "idle" /\ pc' \in {"backup", "undo meta"} /\ UNCHANGED <<state, ops, gaveUp>>
    BY <1>4 DEF Begin
  <2> QED
    BY <2>1 DEF Owners, Restarting
<1>5. CASE StopOwner
  <2> DEFINE o == Owner[t.key]
  <2>1. /\ pc = "stop" /\ UNCHANGED <<ops, t, done, gaveUp>>
        /\ \/ state' = [state EXCEPT ![o] = "resolved"] /\ pc' = "start"
           \/ state' = state /\ pc' = "undo meta"
    BY <1>5 DEF StopOwner
  <2> QED
    BY <2>1 DEF Owners, Restarting
<1>6. CASE StartOwner
  <2> DEFINE o == Owner[t.key]
  <2>1. /\ pc = "start" /\ UNCHANGED <<ops, t, done, gaveUp>>
        /\ \/ state' = [state EXCEPT ![o] = "active"] /\ pc' = "meta"
           \/ state' = state /\ pc' = "undo meta"
    BY <1>6 DEF StartOwner, Started
  <2> QED
    BY <2>1 DEF Owners, Restarting
<1>7. CASE UndoOwner
  <2> DEFINE o == Owner[t.key]
  <2>1. /\ pc = "undo owner" /\ pc' = "reply" /\ UNCHANGED <<ops, t, done>>
        /\ \/ state' = [state EXCEPT ![o] = "active"] /\ gaveUp' = gaveUp
           \/ ("owner" \notin done \/ state[o] = "active") /\ state' = state /\ gaveUp' = gaveUp
           \/ state' = state /\ gaveUp' = TRUE
    BY <1>7 DEF UndoOwner, MustRestart, Started
  <2> QED
    BY <2>1 DEF Owners, Restarting
<1>8. CASE Crash
  <2>1. state' = [b \in Bundles |-> "active"] /\ pc' = "idle" /\ UNCHANGED <<ops, gaveUp>>
    BY <1>8 DEF Crash
  <2> QED
    BY <2>1 DEF Owners
<1>9. ASSUME NEW b \in Bundles, Lifecycle(b) PROVE Owners'
  <2>1. /\ ops' = ops + 1 /\ UNCHANGED <<pc, done, gaveUp>>
        /\ state' = [state EXCEPT ![b] = "resolved"] \/ state' = [state EXCEPT ![b] = "active"]
    BY <1>9 DEF Lifecycle, Started
  <2>2. ops' \in Nat /\ ops' # 0
    BY <2>1 DEF Owners
  <2> QED
    BY <2>1, <2>2 DEF Owners
<1> QED
  BY <1>1, <1>2, <1>3, <1>4, <1>5, <1>6, <1>7, <1>8, <1>9 DEF Next, Transaction, BeginApply, BeginRollback

\* What a failing transaction has stopped runs again when handleRequest answers,
\* unless starting it again failed as well or somebody else stopped it.
THEOREM OwnerRunsAgainHolds == Spec => []OwnerRunsAgain
<1>1. ASSUME Init PROVE Owners
  <2>1. /\ state = [b \in Bundles |-> "active"] /\ ops = 0 /\ gaveUp = FALSE /\ pc = "idle"
    BY <1>1 DEF Init
  <2>2. state \in [Bundles -> {"active", "resolved"}] /\ \A b \in Bundles : state[b] = "active"
    BY <2>1
  <2> QED
    BY <2>1, <2>2 DEF Owners
<1>2. Owners /\ [Next]_vars => Owners'
  BY OwnersNext
<1>3. Owners => OwnerRunsAgain
  BY DEF Owners, OwnerRunsAgain, Restarting
<1> QED
  BY <1>1, <1>2, <1>3, PTL DEF Spec
-----------------------------------------------------------------------------
(***************************************************************************)
(* The Bundle monitor, module BundleMonitor, where memory is the loader    *)
(* and the file is the Bundle repository.  That the configured path names  *)
(* a directory is a hypothesis of Settled: a Glob pattern does not show    *)
(* the renaming of a package to and fro.                                   *)
(***************************************************************************)
\* A snapshot that was taken up to now.
Taken(s) == s.dir <= clock /\ \A b \in Packs : s.files[b].mtime <= clock

Stamped == [pkg : Packages, mtime : Nat]

RepositoryTypes ==
    /\ clock \in Nat /\ dirTime \in 0..clock /\ disk \in [Packs -> Stamped]
    /\ \A b \in Packs : disk[b].mtime <= clock
    /\ \A s \in {applied, pending, firstSeen} :
          s \in [files : [Packs -> Stamped], dir : Nat] /\ Taken(s)
    /\ loaded \in [Packs -> Contents \cup {Absent}] /\ todo \subseteq Packs

\* The packages that are no longer to be read are loaded as they are on disk,
\* but those that could not be opened.
Fresh == \A b \in Packs \ todo : loaded[b] = Held[b]

NotSkipped == skipped \cap todo = {}

\* What a reload has read belongs to the snapshot it was decided on, or to a
\* repository that changed since then and will be found different.
ReloadOK ==
    /\ holder \in {"monitor", "admin"} <=> step # "idle"
    /\ holder = "monitor" => mon = "reload"
    /\ mon = "reload" => scan # applied
    /\ step = "load" => NotSkipped
    /\ step = "load" /\ holder = "monitor" /\ scan = pending => Fresh
    /\ step = "load" /\ holder = "admin" /\ scan = applied /\ scan # firstSeen => Fresh

MonitorInv == RepositoryTypes /\ ReloadOK /\
    (holder = "none" /\ scan = applied /\ scan # firstSeen /\ ~adminThrown
     => \A b \in Packs : loaded[b] = Held[b])

\* stableScans counts scans in a row that saw the pending snapshot.
CountInv ==
    /\ StableScans \in Nat /\ stable \in Nat /\ streak.count \in 0..StableScans
    /\ stable > 0 => streak.snap = pending /\ stable <= streak.count

\* A write of the deployer leaves a newer time stamp than any snapshot has.
LEMMA DeployWrites ==
    ASSUME NEW b \in Packs, clock \in Nat, Deploy
    PROVE  \E c \in Packs, p \in Packages, m \in {0, clock + 1} :
              /\ disk' = [disk EXCEPT ![c] = [pkg |-> p, mtime |-> m]]
              /\ clock' = clock + 1 /\ dirTime' \in {dirTime, clock + 1}
              /\ m = clock + 1 \/ dirTime' = clock + 1
<1>1. PICK c \in Packs : \/ \E pkg \in Contents \cup {Absent} : Rename(c, pkg)
                         \/ WriteBegin(c)
                         \/ WriteMore(c)
                         \/ \E v \in Contents : WriteEnd(c, v)
  BY DEF Deploy
<1>2. ASSUME NEW pkg \in Contents \cup {Absent}, Rename(c, pkg)
      PROVE  /\ disk' = [disk EXCEPT ![c] = [pkg |-> pkg, mtime |-> 0]] /\ pkg \in Packages
             /\ clock' = clock + 1 /\ dirTime' = clock + 1
  BY <1>2 DEF Rename, Written, Packages
<1>3. ASSUME WriteBegin(c) \/ WriteMore(c)
      PROVE  /\ disk' = [disk EXCEPT ![c] = [pkg |-> Half, mtime |-> clock + 1]] /\ Half \in Packages
             /\ clock' = clock + 1 /\ dirTime' \in {dirTime, clock + 1}
  BY <1>3 DEF WriteBegin, WriteMore, Written, Packages
<1>4. ASSUME NEW v \in Contents, WriteEnd(c, v)
      PROVE  /\ disk' = [disk EXCEPT ![c] = [pkg |-> v, mtime |-> clock + 1]] /\ v \in Packages
             /\ clock' = clock + 1 /\ dirTime' = dirTime
  BY <1>4 DEF WriteEnd, Written, Packages
<1> QED BY <1>1, <1>2, <1>3, <1>4

LEMMA DeployStep ==
    ASSUME Directory = TRUE, MonitorInv, Deploy
    PROVE  MonitorInv'
<1>0. /\ UNCHANGED <<applied, pending, firstSeen, mon, holder, step, todo, loaded, skipped, adminThrown>>
  BY DEF Deploy, Rename, WriteBegin, WriteMore, WriteEnd, thread, loader, seen, blame
<1>1. PICK c \in Packs, p \in Packages, m \in {0, clock + 1} :
         /\ disk' = [disk EXCEPT ![c] = [pkg |-> p, mtime |-> m]]
         /\ clock' = clock + 1 /\ dirTime' \in {dirTime, clock + 1}
         /\ m = clock + 1 \/ dirTime' = clock + 1
  BY DeployWrites DEF MonitorInv, RepositoryTypes, Deploy
<1>2. clock \in Nat /\ dirTime \in 0..clock /\ disk \in [Packs -> Stamped]
  BY DEF MonitorInv, RepositoryTypes
<1>3. RepositoryTypes'
  <2>1. clock' \in Nat /\ dirTime' \in 0..clock' /\ \A b \in Packs : disk'[b].mtime <= clock'
    BY <1>1, <1>2 DEF MonitorInv, RepositoryTypes, Stamped
  <2>2. disk' \in [Packs -> Stamped]
    BY <1>1, <1>2 DEF Stamped
  <2>3. \A s \in {applied, pending, firstSeen} :
          s \in [files : [Packs -> Stamped], dir : Nat] /\ s.dir <= clock'
          /\ \A b \in Packs : s.files[b].mtime <= clock'
    BY <1>1, <1>2 DEF MonitorInv, RepositoryTypes, Taken, Stamped
  <2> QED BY <1>0, <2>1, <2>2, <2>3 DEF MonitorInv, RepositoryTypes, Taken, Stamped, Packages
<1>4. \A s \in {applied, pending, firstSeen} : scan' # s
  <2>1. scan' = [files |-> disk', dir |-> dirTime']
    BY DEF scan
  <2>2. disk'[c].mtime = m
    BY <1>1, <1>2
  <2>3. \A s \in {applied, pending, firstSeen} : s.dir < clock + 1 /\ s.files[c].mtime < clock + 1
                /\ s.dir \in Nat /\ s.files[c].mtime \in Nat
    BY <1>1, <1>2 DEF MonitorInv, RepositoryTypes, Taken, Stamped
  <2> QED BY <1>1, <1>2, <2>1, <2>2, <2>3
<1>5. ReloadOK'
  BY <1>0, <1>4 DEF MonitorInv, ReloadOK, NotSkipped
<1> QED BY <1>0, <1>3, <1>4, <1>5 DEF MonitorInv

\* A step that does not write leaves what a scan sees and what a package offers.
LEMMA NoWrite ==
    ASSUME UNCHANGED <<disk, dirTime>>
    PROVE  /\ scan' = scan /\ \A b \in Packs : Usable(b)' = Usable(b)
           /\ skipped' = skipped => \A b \in Packs : Held'[b] = Held[b]
  BY DEF scan, Usable, Held

LEMMA ScanTaken ==
    ASSUME Directory = TRUE, MonitorInv
    PROVE  scan \in [files : [Packs -> Stamped], dir : Nat] /\ Taken(scan)
  BY DEF scan, MonitorInv, RepositoryTypes, Taken

\* The types after a step that does not write.
LEMMA TypesKept ==
    ASSUME Directory = TRUE, MonitorInv, UNCHANGED <<disk, dirTime, clock>>,
           applied' \in {applied, pending, scan}, pending' \in {pending, scan},
           firstSeen' \in {firstSeen, scan},
           loaded' \in [Packs -> Contents \cup {Absent}], todo' \subseteq Packs
    PROVE  RepositoryTypes'
<1>1. \A s \in {applied, pending, firstSeen, scan} :
         s \in [files : [Packs -> Stamped], dir : Nat] /\ Taken(s)
  BY ScanTaken DEF MonitorInv, RepositoryTypes
<1>2. \A s : Taken(s) => s.dir <= clock' /\ \A b \in Packs : s.files[b].mtime <= clock'
  BY DEF Taken
<1> HIDE DEF scan
<1> QED BY <1>1, <1>2 DEF MonitorInv, RepositoryTypes, Taken, Stamped, Packages

\* Steps that change neither the repository nor a snapshot nor the loader.
LEMMA QuietStep ==
    ASSUME Directory = TRUE, MonitorInv,
           UNCHANGED <<disk, dirTime, clock, applied, pending, firstSeen, loaded, skipped, todo, adminThrown>>,
           UNCHANGED <<holder, step>> \/ (step' = "stop" /\ holder' \in {"monitor", "admin"}),
           holder' = "monitor" => mon' = "reload", mon' = "reload" => mon = "reload"
    PROVE  MonitorInv'
<1>1. scan' = scan /\ \A b \in Packs : Held'[b] = Held[b]
  BY NoWrite
<1>2. RepositoryTypes'
  BY TypesKept DEF MonitorInv, RepositoryTypes
<1>3. ReloadOK'
  BY <1>1 DEF MonitorInv, ReloadOK, Fresh, NotSkipped
<1> QED BY <1>1, <1>2, <1>3 DEF MonitorInv

LEMMA FirstScanStep == ASSUME Directory = TRUE, MonitorInv, FirstScan PROVE MonitorInv'
<1>1. /\ UNCHANGED <<disk, dirTime, clock, pending, loaded, skipped, todo, adminThrown, holder, step>>
      /\ applied' = scan /\ firstSeen' = scan /\ mon = "first" /\ mon' = "wait"
  BY DEF FirstScan, repo, loader, blame
<1>2. scan' = scan /\ \A b \in Packs : Held'[b] = Held[b]
  BY <1>1, NoWrite
<1>3. RepositoryTypes'
  BY <1>1, TypesKept DEF MonitorInv, RepositoryTypes
<1>4. ReloadOK'
  BY <1>1, <1>2 DEF MonitorInv, ReloadOK, Fresh, NotSkipped
<1> QED BY <1>1, <1>2, <1>3, <1>4 DEF MonitorInv

LEMMA ScanStep == ASSUME Directory = TRUE, MonitorInv, Scan PROVE MonitorInv'
<1>1. /\ UNCHANGED <<disk, dirTime, clock, applied, firstSeen, loaded, skipped, todo, adminThrown, holder, step>>
      /\ mon = "wait" /\ pending' \in {pending, scan} /\ mon' \in {"wait", "reload"}
      /\ mon' = "reload" => scan # applied
  BY DEF Scan, Unchanged, repo, loader, blame
<1>2. scan' = scan /\ \A b \in Packs : Held'[b] = Held[b]
  BY <1>1, NoWrite
<1>3. RepositoryTypes'
  BY <1>1, TypesKept DEF MonitorInv, RepositoryTypes
<1>4. ReloadOK'
  BY <1>1, <1>2 DEF MonitorInv, ReloadOK, Fresh, NotSkipped
<1> QED BY <1>1, <1>2, <1>3, <1>4 DEF MonitorInv

\* An exception leaves reload(): the monitor still finds a difference.
LEMMA ThrowStep ==
    ASSUME Directory = TRUE, MonitorInv, Throw, holder \in {"monitor", "admin"},
           loaded' \in [Packs -> Contents \cup {Absent}]
    PROVE  MonitorInv'
<1>1. /\ UNCHANGED <<disk, dirTime, clock, pending, firstSeen, applied>>
      /\ holder' = "none" /\ step' = "idle" /\ todo' = {}
      /\ adminThrown' = (adminThrown \/ holder = "admin")
      /\ holder = "monitor" => mon' = "wait"
      /\ holder = "admin" => mon' = mon
  BY DEF Throw, AppliedOnFailure, repo, seen
<1>2. scan' = scan
  BY <1>1, NoWrite
<1>3. RepositoryTypes'
  BY <1>1, TypesKept DEF MonitorInv, RepositoryTypes
<1>4. ReloadOK'
  BY <1>1, <1>2 DEF MonitorInv, ReloadOK
<1>5. holder = "monitor" => scan # applied
  BY DEF MonitorInv, ReloadOK
<1> QED BY <1>1, <1>2, <1>3, <1>4, <1>5 DEF MonitorInv

\* Throw has a case for each of the two holders.
LEMMA ThrowHolder == ASSUME Throw PROVE holder \in {"monitor", "admin"}
  BY DEF Throw

LEMMA StopAllStep == ASSUME Directory = TRUE, MonitorInv, stopAllBundles PROVE MonitorInv'
<1>1. CASE Advance("unload") /\ UNCHANGED <<loaded, skipped, todo>>
  <2>1. /\ UNCHANGED <<disk, dirTime, clock, applied, pending, firstSeen, loaded, skipped, todo, adminThrown, holder, mon>>
        /\ step' = "unload" /\ step = "stop"
    BY <1>1 DEF Advance, stopAllBundles, At, repo, thread, seen, blame
  <2>2. scan' = scan /\ \A b \in Packs : Held'[b] = Held[b]
    BY <2>1, NoWrite
  <2>3. RepositoryTypes'
    BY <2>1, TypesKept DEF MonitorInv, RepositoryTypes
  <2>4. ReloadOK'
    BY <2>1, <2>2 DEF MonitorInv, ReloadOK
  <2> QED BY <2>1, <2>2, <2>3, <2>4 DEF MonitorInv
<1>2. CASE Throw /\ UNCHANGED <<loaded, skipped>>
  BY <1>2, ThrowStep, ThrowHolder DEF MonitorInv, RepositoryTypes
<1> QED BY <1>1, <1>2 DEF stopAllBundles

LEMMA UnloadAllStep == ASSUME Directory = TRUE, MonitorInv, unloadAllBundles PROVE MonitorInv'
<1>1. ASSUME loaded' = [b \in Packs |-> Absent], todo' = Packs, skipped' = {}, Advance("load")
      PROVE MonitorInv'
  <2>1. /\ UNCHANGED <<disk, dirTime, clock, applied, pending, firstSeen, adminThrown, holder, mon>>
        /\ step' = "load" /\ step = "unload"
    BY <1>1 DEF Advance, unloadAllBundles, At, repo, thread, seen, blame
  <2>2. scan' = scan
    BY <2>1, NoWrite
  <2>3. RepositoryTypes'
    BY <1>1, <2>1, TypesKept
  <2>4. ReloadOK'
    BY <1>1, <2>1, <2>2 DEF MonitorInv, ReloadOK, Fresh, NotSkipped
  <2>5. holder # "none"
    BY <2>1 DEF MonitorInv, ReloadOK
  <2> QED BY <2>1, <2>2, <2>3, <2>4, <2>5 DEF MonitorInv
<1>2. ASSUME NEW rest, loaded' = [b \in Packs |-> IF b \in rest THEN loaded[b] ELSE Absent], Throw
      PROVE  MonitorInv'
  <2>1. loaded' \in [Packs -> Contents \cup {Absent}]
    BY <1>2 DEF MonitorInv, RepositoryTypes
  <2> QED BY <1>2, <2>1, ThrowStep, ThrowHolder
<1> QED BY <1>1, <1>2 DEF unloadAllBundles

LEMMA LoadStep ==
    ASSUME Directory = TRUE, MonitorInv, NEW b \in Packs, loadBundle(b) \/ SkipBundle(b)
    PROVE  MonitorInv'
<1>1. /\ UNCHANGED <<disk, dirTime, clock, applied, pending, firstSeen, adminThrown, holder, step, mon>>
      /\ todo' = todo \ {b} /\ step = "load"
      /\ \/ loaded' = [loaded EXCEPT ![b] = Usable(b)] /\ skipped' = skipped /\ b \in todo
         \/ loaded' = [loaded EXCEPT ![b] = Absent] /\ skipped' = skipped \cup {b}
  BY DEF loadBundle, SkipBundle, At, repo, thread, seen, blame
<1>2. scan' = scan /\ \A c \in Packs : Usable(c)' = Usable(c)
  BY <1>1, NoWrite
<1>3. loaded \in [Packs -> Contents \cup {Absent}] /\ todo \subseteq Packs /\ Usable(b) \in Contents \cup {Absent}
  BY DEF MonitorInv, RepositoryTypes, Stamped, Usable, Packages
<1>4. RepositoryTypes'
  BY <1>1, <1>3, TypesKept
<1>5. NotSkipped => NotSkipped'
  BY <1>1 DEF NotSkipped
<1>6. Fresh /\ NotSkipped => Fresh'
  BY <1>1, <1>2, <1>3 DEF Fresh, Held, NotSkipped
<1>7. ReloadOK'
  BY <1>1, <1>2, <1>5, <1>6 DEF MonitorInv, ReloadOK
<1>8. holder # "none"
  BY <1>1 DEF MonitorInv, ReloadOK
<1> QED BY <1>1, <1>2, <1>4, <1>7, <1>8 DEF MonitorInv

LEMMA LoadThrowsStep == ASSUME Directory = TRUE, MonitorInv, LoadThrows PROVE MonitorInv'
<1>1. PICK rest : loaded' = [b \in Packs |-> IF b \in rest THEN loaded[b] ELSE Absent]
  BY DEF LoadThrows
<1>2. loaded' \in [Packs -> Contents \cup {Absent}]
  BY <1>1 DEF MonitorInv, RepositoryTypes
<1> QED BY <1>2, ThrowStep, ThrowHolder DEF LoadThrows

LEMMA StartAllStep == ASSUME Directory = TRUE, MonitorInv, startAllBundles PROVE MonitorInv'
<1>1. /\ UNCHANGED <<disk, dirTime, clock, pending, firstSeen, todo, loaded, skipped, adminThrown>>
      /\ step = "load" /\ todo = {} /\ holder' = "none" /\ step' = "idle"
      /\ \/ holder = "monitor" /\ applied' = pending /\ mon' = "wait"
         \/ holder = "admin" /\ applied' = applied /\ mon' = mon
  BY DEF startAllBundles, AppliedAfter, At, repo, seen
<1>2. scan' = scan /\ \A b \in Packs : Held'[b] = Held[b]
  BY <1>1, NoWrite
<1>3. RepositoryTypes'
  BY <1>1, TypesKept DEF MonitorInv, RepositoryTypes
<1>4. ReloadOK'
  BY <1>1, <1>2 DEF MonitorInv, ReloadOK
<1>5. Fresh => \A b \in Packs : loaded'[b] = Held'[b]
  BY <1>1, <1>2 DEF Fresh
<1>6. scan' = applied' /\ scan' # firstSeen' => Fresh
  BY <1>1, <1>2 DEF MonitorInv, ReloadOK
<1> QED BY <1>3, <1>4, <1>5, <1>6 DEF MonitorInv

LEMMA MonitorInitial == ASSUME Directory = TRUE, MonitorInit PROVE MonitorInv
<1>1. PICK c \in Contents : disk = [b \in Packs |-> [pkg |-> c, mtime |-> 0]]
  BY DEF MonitorInit
<1>2. /\ dirTime = 0 /\ clock = 0 /\ scan = [files |-> disk, dir |-> 0]
      /\ applied = scan /\ pending = scan /\ firstSeen = scan
      /\ loaded = [b \in Packs |-> Usable(b)] /\ todo = {} /\ holder = "none" /\ step = "idle"
      /\ mon = "none" /\ skipped = {} /\ Held = [b \in Packs |-> Usable(b)]
  BY DEF MonitorInit, scan, Held
<1>3. disk \in [Packs -> Stamped] /\ \A b \in Packs : Usable(b) \in Contents \cup {Absent}
  BY <1>1, ContentAssumption DEF Stamped, Packages, Usable
<1>4. RepositoryTypes
  BY <1>1, <1>2, <1>3 DEF RepositoryTypes, Taken, Stamped
<1> HIDE DEF scan
<1> QED BY <1>2, <1>4 DEF MonitorInv, ReloadOK

LEMMA MonitorStep ==
    ASSUME Directory = TRUE, MonitorInv, [MonitorNext]_monitorVars
    PROVE  MonitorInv'
<1>1. CASE start \/ stop \/ join \/ FirstScanFails \/ End \/ ScanFails \/ reloadNow
           \/ MonitorReload \/ UNCHANGED monitorVars
  <2> USE MonitorInv DEF MonitorInv, ReloadOK
  <2>1. CASE start
    BY <2>1, QuietStep DEF start, repo, loader, seen
  <2>2. CASE stop \/ join
    BY <2>2, QuietStep DEF stop, join, repo, loader, seen, blame
  <2>3. CASE FirstScanFails \/ End \/ ScanFails
    BY <2>3, QuietStep DEF FirstScanFails, End, ScanFails, repo, thread, loader, seen, blame
  <2>4. CASE reloadNow \/ MonitorReload
    BY <2>4, QuietStep DEF reloadNow, MonitorReload, BeginReload, repo, thread, loader, seen
  <2>5. CASE UNCHANGED monitorVars
    BY <2>5, QuietStep DEF monitorVars, repo, thread, loader, seen, blame
  <2> QED BY <1>1, <2>1, <2>2, <2>3, <2>4, <2>5
<1> QED
  BY <1>1, DeployStep, FirstScanStep, ScanStep, StopAllStep, UnloadAllStep, LoadStep,
     LoadThrowsStep, StartAllStep
     DEF MonitorNext, Monitor, Reload

\* When the monitor is idle and finds nothing to do, the loader holds exactly the
\* packages on disk, but those that loadBundles failed to open: what a deployer writes while reload() reads is found by a
\* later scan, because every write leaves a newer time stamp than the snapshot.
THEOREM SettledHolds == Directory = TRUE /\ MonitorSpec => []Settled
<1> SUFFICES ASSUME Directory = TRUE PROVE MonitorSpec => []Settled
  OBVIOUS
<1>1. MonitorInit => MonitorInv
  BY MonitorInitial
<1>2. MonitorInv /\ [MonitorNext]_monitorVars => MonitorInv'
  BY MonitorStep
<1>3. MonitorInv => Settled
  <2>1. SUFFICES ASSUME MonitorInv, \A b \in Packs : loaded[b] = Held[b]
                 PROVE  loaded = Held
    BY DEF MonitorInv, Settled
  <2>2. loaded \in [Packs -> Contents \cup {Absent}]
    BY <2>1 DEF MonitorInv, RepositoryTypes
  <2> QED BY <2>1, <2>2 DEF Held
<1> QED BY <1>1, <1>2, <1>3, PTL DEF MonitorSpec

\* monitor() decides to reload only after StableScans scans in a row that saw the
\* same repository, other than the applied one, also when scans and reloads throw
\* on the way or the thread was stopped and started again.
THEOREM StableBeforeReloadHolds == MonitorSpec => StableBeforeReload
<1>1. StableScans \in Nat /\ StableScans >= 2
  BY StableAssumption
<1>2. MonitorInit => CountInv
  BY <1>1 DEF MonitorInit, CountInv
<1>3. ASSUME CountInv, Scan PROVE CountInv' /\
        (mon' = "reload" => streak'.count = StableScans /\ streak'.snap # applied)
  <2>1. streak'.snap = scan /\ streak'.count \in 0..StableScans /\ streak'.count >= 1
        /\ (scan = streak.snap => streak'.count >= streak.count + 1 \/ streak'.count = StableScans)
    BY <1>1, <1>3 DEF Scan, Seen, CountInv
  <2>2. CASE Unchanged /\ stable' = 0 /\ UNCHANGED mon
    BY <1>1, <1>3, <2>1, <2>2 DEF CountInv, Scan
  <2>3. CASE ~Unchanged /\ pending' = scan /\ stable' = 1 /\ UNCHANGED mon
    BY <1>1, <1>3, <2>1, <2>3 DEF CountInv, Scan
  <2>4. CASE /\ ~Unchanged /\ ~Restart
             /\ stable' = IF stable < StableScans THEN stable + 1 ELSE stable
             /\ mon' = IF Enough THEN "reload" ELSE mon
             /\ UNCHANGED pending
    <3>1. stable > 0 /\ scan = pending /\ scan # applied /\ stable \in Nat
      BY <1>3, <2>4 DEF Restart, Unchanged, CountInv
    <3>2. streak.snap = pending /\ stable <= streak.count /\ streak.count \in 0..StableScans
      BY <1>3, <3>1 DEF CountInv
    <3>3. mon' = "reload" => stable + 1 >= StableScans
      BY <1>3, <2>4 DEF Enough, Scan
    <3> HIDE DEF scan
    <3> QED BY <1>1, <2>1, <2>4, <3>1, <3>2, <3>3 DEF CountInv
  <2> QED BY <1>3, <2>2, <2>3, <2>4 DEF Scan
<1>4. ASSUME CountInv, [MonitorNext]_monitorVars, ~Scan PROVE CountInv' /\ ~(mon = "wait" /\ mon' = "reload")
  <2>1. CASE FirstScan
    BY <1>1, <1>4, <2>1 DEF FirstScan, Seen, CountInv
  <2>2. CASE startAllBundles
    BY <1>1, <1>4, <2>2 DEF startAllBundles, seen, CountInv
  <2>3. CASE Throw
    BY <1>4, <2>3 DEF Throw, seen, CountInv
  <2>4. CASE Deploy
    BY <1>4, <2>4 DEF Deploy, Rename, WriteBegin, WriteMore, WriteEnd, thread, seen, CountInv
  <2>5. CASE start \/ stop \/ join \/ FirstScanFails \/ End \/ ScanFails
    BY <1>4, <2>5 DEF start, stop, join, FirstScanFails, End, ScanFails, thread, seen, CountInv
  <2>6. CASE MonitorReload \/ reloadNow \/ \E b \in Packs : loadBundle(b) \/ SkipBundle(b)
    BY <1>4, <2>6 DEF MonitorReload, reloadNow, loadBundle, SkipBundle, thread, seen, CountInv
  <2>7. CASE \E to : Advance(to)
    BY <1>4, <2>7 DEF Advance, thread, seen, CountInv
  <2>8. CASE UNCHANGED monitorVars
    BY <1>4, <2>8 DEF monitorVars, thread, seen, CountInv
  <2> QED
    BY <1>4, <2>1, <2>2, <2>3, <2>4, <2>5, <2>6, <2>7, <2>8
       DEF MonitorNext, Monitor, Reload, stopAllBundles, unloadAllBundles, LoadThrows
<1>5. CountInv /\ [MonitorNext]_monitorVars => CountInv'
  BY <1>3, <1>4
<1>6. CountInv /\ [MonitorNext]_monitorVars =>
        [mon = "wait" /\ mon' = "reload" => streak'.count = StableScans /\ streak'.snap # applied]_monitorVars
  BY <1>3, <1>4
<1> QED BY <1>2, <1>5, <1>6, PTL DEF MonitorSpec, StableBeforeReload
=============================================================================
