------------------------- MODULE RequestLedgerProofs -------------------------
(***************************************************************************)
(* Safety of the idempotency ledger, for every number of handlers, request *)
(* ids, fingerprints, retention and bound: an id is executed at most once  *)
(* until the ledger releases it, executions of one id exclude each other   *)
(* and replays are truthful as long as no entry in progress is dropped.    *)
(*                                                                         *)
(* AtMostOnce needs evidence: whatever began and was not released has an   *)
(* entry in memory (unless the ledger refuses everything) and in the file  *)
(* (unless it is damaged).  The other two need the link between a busy     *)
(* handler and its own entry.                                              *)
(***************************************************************************)
EXTENDS RequestLedger, TLAPS

Table == [Ids -> Entry \cup {None}]

Types ==
    /\ entries \in Table
    /\ disk # Corrupt => disk \in Table
    /\ up \in BOOLEAN /\ recovery \in BOOLEAN /\ lost \in BOOLEAN
    /\ pc \in [Handlers -> {"idle", "exec", "drop"}]
    /\ req \in [Handlers -> Request \cup {None}]
    /\ \A h \in Handlers : pc[h] # "idle" => req[h] \in Request /\ up
    /\ clock \in Nat /\ runs \in [Ids -> Nat]

\* Evidence of every execution that was begun and not released.
Evidence ==
    \A i \in Ids : /\ runs[i] \in {0, 1}
                   /\ runs[i] # 0 /\ up /\ ~recovery => entries[i] # None
                   /\ runs[i] # 0 /\ disk # Corrupt => disk[i] # None

\* A busy handler finds its own entry, in progress, and no other handler is
\* busy with the same id.
Owned ==
    ~lost =>
        \A h \in Handlers : pc[h] # "idle" =>
            /\ entries[req[h].id] # None
            /\ entries[req[h].id].st = "in-progress"
            /\ entries[req[h].id].fp = req[h].fp
            /\ \A g \in Handlers : g # h /\ pc[g] # "idle" => req[g].id # req[h].id

\* Entries marked completed, in memory and in the file, tell the truth.
Truthful ==
    /\ replayed \subseteq Request
    /\ ~lost =>
        /\ replayed \subseteq finished
        /\ \A i \in Ids :
             /\ entries[i] # None /\ entries[i].st = "completed"
                  => [id |-> i, fp |-> entries[i].fp] \in finished
             /\ disk # Corrupt /\ disk[i] # None /\ disk[i].st = "completed"
                  => [id |-> i, fp |-> disk[i].fp] \in finished

IInv == Types /\ Evidence /\ Owned /\ Truthful

-----------------------------------------------------------------------------
(* The table operators only keep or drop entries. *)

\* pruneManagementRequestsLocked keeps an entry as it is or removes it.
LEMMA PrunedShape ==
    ASSUME NEW e \in Table
    PROVE  Pruned(e) \in Table /\ \A i \in Ids : Pruned(e)[i] \in {e[i], None}
BY DEF Pruned, Table

\* The eviction of beginManagementRequest keeps an entry as it is or removes it.
LEMMA EvictedShape ==
    ASSUME NEW e \in Table
    PROVE  Evicted(e) \in Table /\ \A i \in Ids : Evicted(e)[i] \in {e[i], None}
BY DEF Evicted, Table

\* Loading keeps every entry of the file, and completed only what was completed.
LEMMA LoadedShape ==
    ASSUME NEW e \in Entry \cup {None}
    PROVE  /\ Loaded(e) \in Entry \cup {None}
           /\ Loaded(e) = None <=> e = None
           /\ Loaded(e) # None => /\ Loaded(e).fp = e.fp
                                  /\ Loaded(e).st = "completed" => e.st = "completed"
BY NoneAssumption DEF Loaded, Entry

\* The execution count restarts exactly for the ids whose entry went.
LEMMA ReleasedShape ==
    ASSUME NEW e \in Table, NEW f \in Table, runs \in [Ids -> Nat]
    PROVE  /\ Released(e, f) \in [Ids -> Nat]
           /\ \A i \in Ids : /\ Released(e, f)[i] \in {0, runs[i]}
                             /\ e[i] # None /\ f[i] = None => Released(e, f)[i] = 0
BY DEF Released, Dropped, Held

\* An entry in progress that went is seen by DroppedRunning.
LEMMA DroppedShape ==
    ASSUME NEW e \in Table, NEW f \in Table, NEW i \in Ids,
           e[i] # None, e[i].st = "in-progress", f[i] = None
    PROVE  DroppedRunning(e, f)
BY DEF DroppedRunning, Dropped, Held

\* The invariant holds before the ledger is configured.
LEMMA InitIInv == Init => IInv
<1> SUFFICES ASSUME Init PROVE IInv
  OBVIOUS
<1> USE DEF Init
<1>1. entries \in Table /\ disk \in Table /\ \A i \in Ids : entries[i] = None /\ disk[i] = None
  BY DEF Empty, Table
<1>2. /\ pc \in [Handlers -> {"idle", "exec", "drop"}] /\ \A h \in Handlers : pc[h] = "idle"
      /\ req \in [Handlers -> Request \cup {None}]
      /\ runs \in [Ids -> Nat] /\ \A i \in Ids : runs[i] = 0
      /\ clock \in Nat
  OBVIOUS
<1>3. up \in BOOLEAN /\ recovery \in BOOLEAN /\ lost \in BOOLEAN
  OBVIOUS
<1>4. Types
  BY <1>1, <1>2, <1>3 DEF Types
<1>5. Evidence /\ Owned /\ Truthful
  BY <1>1, <1>2 DEF Evidence, Owned, Truthful
<1> QED
  BY <1>4, <1>5 DEF IInv

-----------------------------------------------------------------------------
(* Handler steps. *)

\* beginManagementRequest on a known id preserves the invariant.
LEMMA BeginKnownStep ==
    ASSUME IInv, NEW h \in Handlers, NEW r \in Request, beginKnown(h, r)
    PROVE  IInv'
<1> DEFINE kept == Pruned(entries)
<1>1. kept \in Table /\ \A i \in Ids : kept[i] \in {entries[i], None}
  BY PrunedShape DEF IInv, Types
<1>2. /\ up /\ ~recovery /\ kept[r.id] # None
      /\ entries' = kept /\ runs' = Released(entries, kept)
      /\ replayed' = IF MayReplay(kept[r.id], r.fp) THEN replayed \cup {r} ELSE replayed
      /\ lost' = (lost \/ DroppedRunning(entries, kept))
      /\ UNCHANGED <<disk, recovery, up, pc, req, clock, finished>>
  BY DEF beginKnown, Blocks
<1>3. /\ runs' \in [Ids -> Nat]
      /\ \A i \in Ids : /\ runs'[i] \in {0, runs[i]}
                        /\ entries[i] # None /\ kept[i] = None => runs'[i] = 0
  BY <1>1, <1>2, ReleasedShape DEF IInv, Types
<1>4. ~lost' => ~lost /\ \A i \in Ids : entries[i] # None /\ entries[i].st = "in-progress" => kept[i] # None
  BY <1>1, <1>2, DroppedShape DEF IInv, Types
<1> HIDE DEF kept
<1>5. lost' \in BOOLEAN
  BY <1>2
<1>6. Types'
  BY <1>1, <1>2, <1>3, <1>5 DEF IInv, Types
<1>7. Evidence'
  BY <1>1, <1>2, <1>3 DEF IInv, Evidence
<1>8. Owned'
  BY <1>1, <1>2, <1>4 DEF IInv, Owned, Types, Request
<1>9. Truthful'
  <2>1. r.id \in Ids /\ r = [id |-> r.id, fp |-> r.fp]
    BY DEF Request
  <2>2. MayReplay(kept[r.id], r.fp) /\ ~lost' => r \in finished
    BY <1>1, <1>2, <1>4, <2>1 DEF IInv, Truthful, MayReplay
  <2> QED
    BY <1>1, <1>2, <1>4, <2>2 DEF IInv, Truthful
<1> QED
  BY <1>6, <1>7, <1>8, <1>9 DEF IInv

\* beginManagementRequest on a new id preserves the invariant.
LEMMA BeginNewStep ==
    ASSUME IInv, NEW h \in Handlers, NEW r \in Request, beginNew(h, r)
    PROVE  IInv'
<1> DEFINE pruned == Pruned(entries)
           kept == Evicted(Pruned(entries))
           new == [fp |-> r.fp, st |-> "in-progress", at |-> clock']
<1>1. /\ kept \in Table /\ \A i \in Ids : kept[i] \in {entries[i], None}
      /\ pruned[r.id] = None => kept[r.id] = None
  BY PrunedShape, EvictedShape DEF IInv, Types, Request
<1>2. /\ up /\ ~recovery /\ pruned[r.id] = None /\ pc[h] = "idle"
      /\ clock' = clock + 1
      /\ lost' = (lost \/ DroppedRunning(entries, kept))
      /\ UNCHANGED <<up, finished, replayed>>
  BY DEF beginNew, Blocks
<1>3. \/ /\ MaySave /\ entries' = [kept EXCEPT ![r.id] = new] /\ disk' = entries'
         /\ pc' = [pc EXCEPT ![h] = "exec"] /\ req' = [req EXCEPT ![h] = r]
         /\ runs' = [Released(entries, kept) EXCEPT ![r.id] = @ + 1]
         /\ UNCHANGED recovery
      \/ /\ entries' = kept /\ recovery' = TRUE /\ runs' = Released(entries, kept)
         /\ UNCHANGED <<disk, pc, req>>
  BY DEF beginNew
<1>4. DEFINE rel == Released(entries, kept)
<1>5. /\ rel \in [Ids -> Nat]
      /\ \A i \in Ids : /\ rel[i] \in {0, runs[i]}
                        /\ entries[i] # None /\ kept[i] = None => rel[i] = 0
  BY <1>1, ReleasedShape DEF IInv, Types
<1>6. ~lost' => ~lost /\ \A i \in Ids : entries[i] # None /\ entries[i].st = "in-progress" => kept[i] # None
  BY <1>1, <1>2, DroppedShape DEF IInv, Types
<1>7. lost' \in BOOLEAN /\ r.id \in Ids /\ r.fp \in Prints /\ kept[r.id] = None /\ clock' \in Nat
  BY <1>1, <1>2 DEF IInv, Types, Request
<1>8. new \in Entry /\ new # None /\ new.st = "in-progress" /\ new.fp = r.fp
  BY <1>7, NoneAssumption DEF Entry
<1> HIDE DEF pruned, kept, new, rel
<1>9. CASE /\ MaySave /\ entries' = [kept EXCEPT ![r.id] = new] /\ disk' = entries'
           /\ pc' = [pc EXCEPT ![h] = "exec"] /\ req' = [req EXCEPT ![h] = r]
           /\ runs' = [rel EXCEPT ![r.id] = @ + 1]
           /\ UNCHANGED recovery
  <2>1. /\ entries' \in Table /\ entries'[r.id] = new
        /\ \A i \in Ids \ {r.id} : entries'[i] = kept[i]
    BY <1>1, <1>7, <1>8, <1>9 DEF Table
  <2>2. rel[r.id] = 0
    BY <1>2, <1>5, <1>7 DEF IInv, Evidence
  <2>3. /\ runs' \in [Ids -> Nat] /\ runs'[r.id] = 1
        /\ \A i \in Ids \ {r.id} : runs'[i] = rel[i]
    BY <1>5, <1>7, <1>9, <2>2
  <2>4. /\ pc' \in [Handlers -> {"idle", "exec", "drop"}] /\ pc'[h] = "exec"
        /\ req' \in [Handlers -> Request \cup {None}] /\ req'[h] = r
        /\ \A g \in Handlers \ {h} : pc'[g] = pc[g] /\ req'[g] = req[g]
    BY <1>9 DEF IInv, Types
  <2>5. Types'
    BY <1>2, <1>7, <1>9, <2>1, <2>3, <2>4 DEF IInv, Types
  <2>6. Evidence'
    BY <1>1, <1>2, <1>5, <1>8, <1>9, <2>1, <2>3 DEF IInv, Evidence
  <2>7. ~lost' => \A g \in Handlers \ {h} : pc[g] # "idle" => req[g].id # r.id
    BY <1>6, <1>7 DEF IInv, Owned, Types, Request
  <2>8. Owned'
    BY <1>1, <1>6, <1>8, <2>1, <2>4, <2>7 DEF IInv, Owned, Types, Request
  <2>9. ASSUME ~lost', NEW i \in Ids, entries'[i] # None, entries'[i].st = "completed"
        PROVE  [id |-> i, fp |-> entries'[i].fp] \in finished
    <3>1. i # r.id
      BY <1>8, <2>1, <2>9
    <3>2. entries'[i] = entries[i]
      BY <1>1, <2>1, <2>9, <3>1
    <3> QED
      BY <1>6, <2>9, <3>2 DEF IInv, Truthful
  <2>10. Truthful'
    BY <1>2, <1>6, <1>9, <2>9 DEF IInv, Truthful
  <2> QED
    BY <2>5, <2>6, <2>8, <2>10 DEF IInv
<1>10. CASE /\ entries' = kept /\ recovery' = TRUE /\ runs' = rel
            /\ UNCHANGED <<disk, pc, req>>
  <2>1. recovery' \in BOOLEAN
    BY <1>10
  <2>2. Types'
    BY <1>1, <1>2, <1>5, <1>7, <1>10, <2>1 DEF IInv, Types
  <2>3. Evidence'
    BY <1>5, <1>10 DEF IInv, Evidence
  <2>4. Owned'
    BY <1>1, <1>6, <1>10 DEF IInv, Owned, Types, Request
  <2>5. Truthful'
    BY <1>1, <1>2, <1>6, <1>10 DEF IInv, Truthful
  <2> QED
    BY <2>2, <2>3, <2>4, <2>5 DEF IInv
<1> QED
  BY <1>3, <1>9, <1>10 DEF rel, kept, new

\* What Save leaves behind: the new table in the file, or a ledger that refuses.
LEMMA SaveShape ==
    ASSUME NEW e \in Table, Save(e)
    PROVE  \/ disk # Corrupt /\ ~recovery /\ disk' = e /\ recovery' = recovery
           \/ disk' = disk /\ recovery' = TRUE
BY DEF Save, MaySave

\* ManagementRequestGuard::complete preserves the invariant.
LEMMA CompleteStep ==
    ASSUME IInv, NEW h \in Handlers, complete(h)
    PROVE  IInv'
<1> DEFINE i == req[h].id
           done == [fp |-> entries[i].fp, st |-> "completed", at |-> clock']
<1>1. /\ pc[h] = "exec" /\ finished' = finished \cup {req[h]}
      /\ UNCHANGED <<up, runs, lost, replayed>>
  BY DEF complete
<1>2. req[h] \in Request /\ i \in Ids /\ up /\ req[h] = [id |-> i, fp |-> req[h].fp]
  BY <1>1 DEF IInv, Types, Request
<1>3. CASE entries[i] = None
  <2>1. pc' = [pc EXCEPT ![h] = "drop"] /\ UNCHANGED <<entries, disk, recovery, req, clock>>
    BY <1>3 DEF complete, ledger
  <2>2. /\ pc' \in [Handlers -> {"idle", "exec", "drop"}]
        /\ \A g \in Handlers : pc'[g] # "idle" <=> pc[g] # "idle"
    BY <1>1, <2>1 DEF IInv, Types
  <2>3. Types'
    BY <1>1, <2>1, <2>2 DEF IInv, Types
  <2>4. Evidence'
    BY <1>1, <2>1 DEF IInv, Evidence
  <2>5. Owned'
    BY <1>1, <2>1, <2>2 DEF IInv, Owned
  <2>6. Truthful'
    BY <1>1, <2>1 DEF IInv, Truthful
  <2> QED
    BY <2>3, <2>4, <2>5, <2>6 DEF IInv
<1>4. CASE entries[i] # None
  <2>1. /\ clock' = clock + 1
        /\ entries' = [entries EXCEPT ![i] = done]
        /\ Save(entries')
        /\ pc' = [pc EXCEPT ![h] = "idle"] /\ req' = [req EXCEPT ![h] = None]
    BY <1>4 DEF complete
  <2>2. clock' \in Nat /\ entries[i] \in Entry
    BY <1>2, <1>4, <2>1 DEF IInv, Types, Table
  <2>3. done \in Entry /\ done # None /\ done.st = "completed" /\ done.fp = entries[i].fp
    BY <2>2, NoneAssumption DEF Entry
  <2> HIDE DEF done
  <2>4. /\ entries' \in Table /\ entries'[i] = done
        /\ \A j \in Ids \ {i} : entries'[j] = entries[j]
    BY <1>2, <2>1, <2>3 DEF IInv, Types, Table
  <2>5. \/ disk # Corrupt /\ ~recovery /\ disk' = entries' /\ recovery' = recovery
        \/ disk' = disk /\ recovery' = TRUE
    BY <2>1, <2>4, SaveShape
  <2>6. /\ pc' \in [Handlers -> {"idle", "exec", "drop"}] /\ pc'[h] = "idle"
        /\ req' \in [Handlers -> Request \cup {None}]
        /\ \A g \in Handlers \ {h} : pc'[g] = pc[g] /\ req'[g] = req[g]
    BY <2>1 DEF IInv, Types
  <2>7. recovery' \in BOOLEAN
    BY <2>5 DEF IInv, Types
  <2>8. disk' # Corrupt => disk' \in Table
    BY <2>4, <2>5 DEF IInv, Types
  <2>9. Types'
    BY <1>1, <2>2, <2>4, <2>6, <2>7, <2>8 DEF IInv, Types
  <2>10. Evidence'
    BY <1>1, <1>2, <1>4, <2>3, <2>4, <2>5 DEF IInv, Evidence
  <2>11. ~lost => \A g \in Handlers \ {h} : pc[g] # "idle" => req[g].id # i /\ req[g].id \in Ids
    BY <1>1 DEF IInv, Owned, Types, Request
  <2>12. Owned'
    BY <1>1, <2>4, <2>6, <2>11 DEF IInv, Owned
  <2>13. ASSUME ~lost, NEW j \in Ids, entries'[j] # None, entries'[j].st = "completed"
         PROVE  [id |-> j, fp |-> entries'[j].fp] \in finished'
    <3>1. CASE j = i
      <4>1. entries[i].fp = req[h].fp
        BY <1>1, <2>13 DEF IInv, Owned
      <4> QED
        BY <1>1, <1>2, <2>3, <2>4, <3>1, <4>1
    <3>2. CASE j # i
      BY <1>1, <2>4, <2>13, <3>2 DEF IInv, Truthful
    <3> QED
      BY <3>1, <3>2
  <2>14. ASSUME ~lost, NEW j \in Ids, disk' # Corrupt, disk'[j] # None, disk'[j].st = "completed"
         PROVE  [id |-> j, fp |-> disk'[j].fp] \in finished'
    BY <1>1, <2>5, <2>13, <2>14 DEF IInv, Truthful
  <2>15. Truthful'
    BY <1>1, <2>13, <2>14 DEF IInv, Truthful
  <2> QED
    BY <2>9, <2>10, <2>12, <2>15 DEF IInv
<1> QED
  BY <1>3, <1>4

\* The guard's destructor preserves the invariant.
LEMMA DropStep ==
    ASSUME IInv, NEW h \in Handlers, drop(h)
    PROVE  IInv'
<1> DEFINE i == req[h].id
<1>1. /\ pc[h] = "drop" /\ pc' = [pc EXCEPT ![h] = "idle"] /\ req' = [req EXCEPT ![h] = None]
      /\ UNCHANGED <<up, clock, lost, finished, replayed>>
  BY DEF drop
<1>2. i \in Ids /\ up
  BY <1>1 DEF IInv, Types, Request
<1>3. /\ pc' \in [Handlers -> {"idle", "exec", "drop"}] /\ pc'[h] = "idle"
      /\ req' \in [Handlers -> Request \cup {None}]
      /\ \A g \in Handlers \ {h} : pc'[g] = pc[g] /\ req'[g] = req[g]
  BY <1>1 DEF IInv, Types
<1>4. CASE ~Unfinished(i)
  <2>1. UNCHANGED <<entries, disk, recovery, runs>>
    BY <1>4 DEF drop, ledger
  <2>2. Types'
    BY <1>1, <1>3, <2>1 DEF IInv, Types
  <2>3. Evidence'
    BY <1>1, <2>1 DEF IInv, Evidence
  <2>4. Owned'
    BY <1>1, <1>3, <2>1 DEF IInv, Owned
  <2>5. Truthful'
    BY <1>1, <2>1 DEF IInv, Truthful
  <2> QED
    BY <2>2, <2>3, <2>4, <2>5 DEF IInv
<1>5. CASE Unfinished(i)
  <2>1. /\ entries' = [entries EXCEPT ![i] = None] /\ runs' = [runs EXCEPT ![i] = 0]
        /\ Save(entries')
    BY <1>5 DEF drop
  <2>2. /\ entries' \in Table /\ entries'[i] = None
        /\ \A j \in Ids \ {i} : entries'[j] = entries[j]
    BY <1>2, <2>1 DEF IInv, Types, Table
  <2>3. runs' \in [Ids -> Nat] /\ runs'[i] = 0 /\ \A j \in Ids \ {i} : runs'[j] = runs[j]
    BY <1>2, <2>1 DEF IInv, Types
  <2>4. \/ disk # Corrupt /\ ~recovery /\ disk' = entries' /\ recovery' = recovery
        \/ disk' = disk /\ recovery' = TRUE
    BY <2>1, <2>2, SaveShape
  <2>5. recovery' \in BOOLEAN
    BY <2>4 DEF IInv, Types
  <2>6. disk' # Corrupt => disk' \in Table
    BY <2>2, <2>4 DEF IInv, Types
  <2>7. Types'
    BY <1>1, <1>3, <2>2, <2>3, <2>5, <2>6 DEF IInv, Types
  <2>8. Evidence'
    BY <1>1, <1>2, <2>2, <2>3, <2>4 DEF IInv, Evidence
  <2>9. ~lost => \A g \in Handlers \ {h} : pc[g] # "idle" => req[g].id # i /\ req[g].id \in Ids
    BY <1>1 DEF IInv, Owned, Types, Request
  <2>10. Owned'
    BY <1>1, <1>3, <2>2, <2>9 DEF IInv, Owned
  <2>11. Truthful'
    BY <1>1, <2>2, <2>4 DEF IInv, Truthful
  <2> QED
    BY <2>7, <2>8, <2>10, <2>11 DEF IInv
<1> QED
  BY <1>4, <1>5

\* configureManagementRequestLedger preserves the invariant.
LEMMA ConfigureStep == IInv /\ configure => IInv'
<1> SUFFICES ASSUME IInv, configure PROVE IInv'
  OBVIOUS
<1> DEFINE found == [j \in Ids |-> Loaded(disk[j])]
<1>1. /\ ~up /\ up' = TRUE
      /\ UNCHANGED <<pc, req, clock, lost, finished, replayed>>
  BY DEF configure
<1>2. \A h \in Handlers : pc[h] = "idle"
  BY <1>1 DEF IInv, Types
<1>3. Owned' /\ up' \in BOOLEAN
  BY <1>1, <1>2 DEF Owned
<1>4. CASE entries' = Empty /\ recovery' = TRUE /\ UNCHANGED <<disk, runs>>
  <2>1. entries' \in Table /\ \A j \in Ids : entries'[j] = None
    BY <1>4 DEF Empty, Table
  <2>2. recovery' \in BOOLEAN
    BY <1>4
  <2>3. Types'
    BY <1>1, <1>2, <1>3, <1>4, <2>1, <2>2 DEF IInv, Types
  <2>4. Evidence'
    BY <1>4 DEF IInv, Evidence
  <2>5. Truthful'
    BY <1>1, <1>4, <2>1 DEF IInv, Truthful
  <2> QED
    BY <1>3, <2>3, <2>4, <2>5 DEF IInv
<1>5. CASE /\ disk # Corrupt
           /\ entries' = Pruned(found) /\ disk' = entries' /\ recovery' = FALSE
           /\ runs' = Released(found, entries')
  <2>1. disk \in Table
    BY <1>5 DEF IInv, Types
  <2>2. /\ found \in Table
        /\ \A j \in Ids : /\ found[j] = None <=> disk[j] = None
                          /\ found[j] # None => /\ found[j].fp = disk[j].fp
                                                /\ found[j].st = "completed" => disk[j].st = "completed"
    <3>1. \A j \in Ids : disk[j] \in Entry \cup {None} /\ found[j] = Loaded(disk[j])
      BY <2>1 DEF Table
    <3> QED
      BY <3>1, LoadedShape DEF Table
  <2> HIDE DEF found
  <2>3. entries' \in Table /\ \A j \in Ids : entries'[j] \in {found[j], None}
    BY <1>5, <2>2, PrunedShape
  <2>4. /\ runs' \in [Ids -> Nat]
        /\ \A j \in Ids : /\ runs'[j] \in {0, runs[j]}
                          /\ found[j] # None /\ entries'[j] = None => runs'[j] = 0
    BY <1>5, <2>2, <2>3, ReleasedShape DEF IInv, Types
  <2>5. recovery' \in BOOLEAN
    BY <1>5
  <2>6. Types'
    BY <1>1, <1>2, <1>3, <1>5, <2>3, <2>4, <2>5 DEF IInv, Types
  <2>7. Evidence'
    BY <1>5, <2>2, <2>3, <2>4 DEF IInv, Evidence
  <2>8. ASSUME ~lost, NEW j \in Ids, entries'[j] # None, entries'[j].st = "completed"
        PROVE  [id |-> j, fp |-> entries'[j].fp] \in finished
    <3>1. entries'[j] = found[j] /\ disk[j] # None /\ disk[j].st = "completed" /\ found[j].fp = disk[j].fp
      BY <2>2, <2>3, <2>8
    <3> QED
      BY <1>5, <2>8, <3>1 DEF IInv, Truthful
  <2>9. Truthful'
    BY <1>1, <1>5, <2>8 DEF IInv, Truthful
  <2> QED
    BY <1>3, <2>6, <2>7, <2>9 DEF IInv
<1> QED
  BY <1>4, <1>5 DEF configure

\* A failing operation, the clock, a crash and file damage preserve the invariant.
LEMMA EnvironmentStep ==
    IInv /\ (TtlPasses \/ Crash \/ DiskCorrupts \/ (\E h \in Handlers : fail(h)) \/ UNCHANGED vars) => IInv'
<1> SUFFICES ASSUME IInv PROVE TtlPasses \/ Crash \/ DiskCorrupts \/ (\E h \in Handlers : fail(h)) \/ UNCHANGED vars => IInv'
  OBVIOUS
<1>1. ASSUME TtlPasses \/ UNCHANGED vars PROVE IInv'
  <2>1. UNCHANGED <<entries, disk, recovery, up, pc, req, clock, runs, lost, finished, replayed>>
    BY <1>1 DEF TtlPasses, vars, ledger, hist
  <2> QED
    BY <2>1 DEF IInv, Types, Evidence, Owned, Truthful
<1>2. ASSUME Crash PROVE IInv'
  <2>1. /\ entries' \in Table /\ \A i \in Ids : entries'[i] = None
        /\ pc' \in [Handlers -> {"idle", "exec", "drop"}] /\ \A h \in Handlers : pc'[h] = "idle"
        /\ req' \in [Handlers -> Request \cup {None}]
    BY <1>2 DEF Crash, Empty, Table
  <2>2. up' = FALSE /\ recovery' = FALSE /\ UNCHANGED <<disk, clock, runs, lost, finished, replayed>>
    BY <1>2 DEF Crash, hist
  <2>3. Types'
    BY <2>1, <2>2 DEF IInv, Types
  <2>4. Evidence'
    BY <2>2 DEF IInv, Evidence
  <2>5. Owned'
    BY <2>1 DEF Owned
  <2>6. Truthful'
    BY <2>1, <2>2 DEF IInv, Truthful
  <2> QED
    BY <2>3, <2>4, <2>5, <2>6 DEF IInv
<1>3. ASSUME DiskCorrupts PROVE IInv'
  <2>1. disk' = Corrupt /\ UNCHANGED <<entries, recovery, up, pc, req, clock, runs, lost, finished, replayed>>
    BY <1>3 DEF DiskCorrupts, hist
  <2> QED
    BY <2>1 DEF IInv, Types, Evidence, Owned, Truthful
<1>4. ASSUME NEW h \in Handlers, fail(h) PROVE IInv'
  <2>1. /\ pc[h] = "exec" /\ pc' = [pc EXCEPT ![h] = "drop"]
        /\ UNCHANGED <<entries, disk, recovery, up, req, clock, runs, lost, finished, replayed>>
    BY <1>4 DEF fail, ledger, hist
  <2>2. /\ pc' \in [Handlers -> {"idle", "exec", "drop"}]
        /\ \A g \in Handlers : pc'[g] # "idle" <=> pc[g] # "idle"
    BY <2>1 DEF IInv, Types
  <2>3. Types' /\ Evidence'
    BY <2>1, <2>2 DEF IInv, Types, Evidence
  <2>4. Owned'
    BY <2>1, <2>2 DEF IInv, Owned
  <2>5. Truthful'
    BY <2>1 DEF IInv, Truthful
  <2> QED
    BY <2>3, <2>4, <2>5 DEF IInv
<1> QED
  BY <1>1, <1>2, <1>3, <1>4

-----------------------------------------------------------------------------
\* The invariant that carries the three results below holds in every reachable
\* state of the ledger.
THEOREM LedgerInvariance == Spec => []IInv
<1>1. IInv /\ [Next]_vars => IInv'
  BY BeginKnownStep, BeginNewStep, CompleteStep, DropStep, ConfigureStep, EnvironmentStep DEF Next
<1> QED
  BY <1>1, InitIInv, PTL DEF Spec

\* beginManagementRequest lets an id through at most once until the ledger
\* releases it, across failures, crashes, failed saves and a damaged file.
THEOREM AtMostOnceHolds == Spec => []AtMostOnce
<1>1. IInv => AtMostOnce
  BY DEF IInv, Evidence, AtMostOnce
<1> QED
  BY <1>1, LedgerInvariance, PTL

\* Two handlers do not execute one id at the same time unless retention or ttl
\* dropped an entry in progress.
THEOREM ExclusiveHolds == Spec => []ExclusiveUnlessDropped
<1>1. IInv => ExclusiveUnlessDropped
  BY DEF IInv, Owned, ExclusiveUnlessDropped, Exclusive
<1> QED
  BY <1>1, LedgerInvariance, PTL

\* A replay answer is given only for an operation that completed, unless
\* retention or ttl dropped an entry in progress.
THEOREM ReplayTruthHolds == Spec => []ReplayTruth
<1>1. IInv => ReplayTruth
  BY DEF IInv, Truthful, ReplayTruth
<1> QED
  BY <1>1, LedgerInvariance, PTL

\* Once the file is damaged beginManagementRequest lets no operation start,
\* whatever the process still has in memory and after any number of restarts.
THEOREM FailClosedHolds == Spec => FailClosed
<1> DEFINE Closed == disk = Corrupt => \A h \in Handlers : pc'[h] = "exec" => pc[h] = "exec"
<1>1. ASSUME IInv, [Next]_vars PROVE [Closed]_vars
  <2>1. ASSUME disk = Corrupt, NEW h \in Handlers, pc'[h] = "exec" PROVE pc[h] = "exec"
    <3>1. pc \in [Handlers -> {"idle", "exec", "drop"}]
      BY <1>1 DEF IInv, Types
    <3>2. ASSUME NEW g \in Handlers, NEW r \in Request, beginNew(g, r) PROVE pc' = pc
      BY <2>1, <3>2 DEF beginNew, MaySave
    <3>3. ASSUME NEW g \in Handlers, complete(g) \/ fail(g) \/ drop(g)
          PROVE  pc' = [pc EXCEPT ![g] = "idle"] \/ pc' = [pc EXCEPT ![g] = "drop"]
      BY <3>3 DEF complete, fail, drop
    <3>4. ASSUME NEW g \in Handlers, NEW r \in Request, beginKnown(g, r) PROVE pc' = pc
      BY <3>4 DEF beginKnown
    <3>5. ASSUME configure \/ TtlPasses \/ DiskCorrupts \/ UNCHANGED vars PROVE pc' = pc
      BY <3>5 DEF configure, TtlPasses, DiskCorrupts, vars
    <3>6. ~Crash
      BY <2>1 DEF Crash
    <3>7. CASE pc' = pc
      BY <2>1, <3>7
    <3>8. CASE \E g \in Handlers : pc' = [pc EXCEPT ![g] = "idle"] \/ pc' = [pc EXCEPT ![g] = "drop"]
      BY <2>1, <3>1, <3>8
    <3> QED
      BY <1>1, <3>2, <3>3, <3>4, <3>5, <3>6, <3>7, <3>8 DEF Next
  <2> QED
    BY <2>1
<1>2. [][Closed]_vars => FailClosed
  BY DEF FailClosed
<1> HIDE DEF Closed
<1> QED
  BY <1>1, <1>2, LedgerInvariance, PTL DEF Spec
=============================================================================
