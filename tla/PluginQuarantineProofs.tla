----------------------- MODULE PluginQuarantineProofs -----------------------
(***************************************************************************)
(* The quarantine proved for every set of plugins, every dependency        *)
(* relation and every threshold: the failure budget, the automatic start   *)
(* and the preservation of a damaged snapshot.                             *)
(*                                                                         *)
(* The Bundle loader, which makes those starts, follows, for any Bundles,  *)
(* requirements, workers and requests: the state of a resting Bundle tells *)
(* whether its activator runs, what a Bundle requires comes up before it   *)
(* and goes down after it, and a shutdown leaves nothing running, each but *)
(* for the races the code has and the history variables name.              *)
(***************************************************************************)
EXTENDS PluginQuarantine, BundleLoader, FiniteSets, FiniteSetTheorems, SequenceTheorems, TLAPS

Required(p) == \E q \in Plugins : p \in Deps[q]

\* p may fail once more without leaving its budget.
InBudget(p) == failRun[p] < Threshold + excess

\* What a record promises: a plugin at the threshold is quarantined, and no
\* failure is missing from the count but those excess stands for.
Sealed(rec) == rec.quarantined = FALSE => rec.fails < Threshold
Counts(rec, p) == failRun[p] <= rec.fails + excess

\* The snapshot and, unless a recovery is required, the records in memory.
FileOK(p) == file # Corrupt => Sealed(file[p]) /\ Counts(file[p], p)
RecordOK(p) ==
    /\ Sealed(records[p])
    /\ phase # "down" /\ recovery = FALSE => Counts(records[p], p)

\* The flag startAllBundles looks at covers memory and file.
FlagOK(p) ==
    phase # "down" =>
        /\ records[p].quarantined => blockedFlag[p] = TRUE
        /\ Durable(p) => blockedFlag[p] = TRUE
        /\ blockedFlag[p] = FALSE => InBudget(p)

PluginOK(p) == FileOK(p) /\ RecordOK(p) /\ FlagOK(p)

\* The chain of starts: only its first element may be a plugin nobody
\* requires, and that one was in budget when its start was decided.
Chain ==
    /\ call # <<>> => phase # "down"
    /\ \A i \in 1..Len(call) : i > 1 => Required(call[i])
    /\ \A p \in Plugins : call # <<>> /\ call[1] = p => Required(p) \/ InBudget(p)

\* A snapshot that could not be read is written again only after an operator's word.
Evidence == phase # "down" /\ file = Corrupt => recovery = TRUE \/ confirmed = TRUE

Types == TypeOK /\ confirmed \in BOOLEAN

IInv ==
    /\ Types /\ Chain /\ Evidence
    /\ \A p \in Plugins : PluginOK(p)
    /\ BudgetHolds

-----------------------------------------------------------------------------
(* Lemmas. *)

\* The two ways persistNoThrowLocked can end.
LEMMA PersistEnds ==
    ASSUME TypeOK, NEW new, Persist(new)
    PROVE  \/ recovery = FALSE /\ recovery' = FALSE /\ file' = new /\ excess' = excess
           \/ recovery' = TRUE /\ file' = file /\ excess' = excess + 1
BY DEF TypeOK, Persist, MayPersist

\* A nonempty sequence without its last element.
LEMMA FrontFacts ==
    ASSUME NEW s \in Seq(Plugins), s # <<>>
    PROVE  /\ Len(s) \in Nat \ {0} /\ Last(s) = s[Len(s)] /\ Last(s) \in Plugins
           /\ Front(s) \in Seq(Plugins) /\ Len(Front(s)) = Len(s) - 1
           /\ \A i \in 1..(Len(s) - 1) : Front(s)[i] = s[i]
<1>1. Len(s) \in Nat /\ Len(s) # 0
  OBVIOUS
<1>2. ASSUME NEW n \in 1..Len(s)
      PROVE  SubSeq(s, 1, n - 1) \in Seq(Plugins) /\ Len(SubSeq(s, 1, n - 1)) = n - 1
  BY <1>1
<1>3. \A i \in 1..(Len(s) - 1) : Front(s)[i] = s[i]
  BY <1>1 DEF Front
<1>4. Len(s) \in 1..Len(s)
  BY <1>1
<1>5. Front(s) \in Seq(Plugins) /\ Len(Front(s)) = Len(s) - 1
  BY <1>2, <1>4, Zenon DEF Front
<1>6. Last(s) = s[Len(s)] /\ s[Len(s)] \in Plugins
  BY <1>1 DEF Last
<1> QED  BY <1>1, <1>3, <1>5, <1>6

\* The innermost start: a plugin, and what is left when it ends.
LEMMA Innermost ==
    ASSUME TypeOK, call # <<>>
    PROVE  /\ Top \in Plugins /\ Len(call) \in Nat \ {0} /\ Top = call[Len(call)]
           /\ Front(call) \in Seq(Plugins) /\ Len(Front(call)) = Len(call) - 1
           /\ \A i \in 1..(Len(call) - 1) : Front(call)[i] = call[i]
BY FrontFacts DEF TypeOK, Top

\* The chain after its innermost start ended, whatever happened to the counts
\* of that plugin, as long as the others did not lose budget.
LEMMA Unwinds ==
    ASSUME Types, Chain, call # <<>>, call' = Front(call), phase' = phase,
           excess \in Nat, excess' \in Nat, excess' >= excess,
           \A p \in Plugins : p # Top => failRun'[p] = failRun[p],
           failRun' \in [Plugins -> Nat]
    PROVE  Chain'
<1>1. call' \in Seq(Plugins) /\ Len(call') = Len(call) - 1 /\ Len(call) \in Nat \ {0}
      /\ \A i \in 1..(Len(call) - 1) : call'[i] = call[i]
  BY Innermost DEF Types
<1>2. call' # <<>> => phase' # "down"
  BY DEF Chain
<1>3. \A i \in 1..Len(call') : i > 1 => Required(call'[i])
  BY <1>1 DEF Chain
<1>4. ASSUME NEW p \in Plugins, call' # <<>>, call'[1] = p, ~Required(p)
      PROVE  InBudget(p)'
  <2>1. Len(call) > 1 /\ call[1] = p
    BY <1>1, <1>4
  <2>2. Required(Top)
    BY <2>1, <1>1, Innermost DEF Chain, Types
  <2>3. InBudget(p) /\ p # Top
    BY <2>1, <2>2, <1>4 DEF Chain
  <2>4. failRun'[p] = failRun[p] /\ failRun[p] \in Nat /\ Threshold \in Nat
    BY <2>3, QuarantineAssumption DEF Types, TypeOK
  <2>5. failRun[p] < Threshold + excess
    BY <2>3 DEF InBudget
  <2>6. failRun'[p] < Threshold + excess'
    BY <2>4, <2>5
  <2> QED  BY <2>6 DEF InBudget
<1> QED  BY <1>2, <1>3, <1>4 DEF Chain, Required

\* A step that leaves the counts, the records, the file and the flags alone
\* and does not start or end the process keeps every plugin's promise.
LEMMA Untouched ==
    ASSUME IInv, UNCHANGED <<file, memory, failRun, excess, confirmed, phase>>
    PROVE  Evidence' /\ BudgetHolds' /\ \A p \in Plugins : PluginOK(p)'
BY DEF IInv, Evidence, BudgetHolds, PluginOK, FileOK, RecordOK, FlagOK, Sealed, Counts,
       InBudget, Durable, memory

\* What is known of a plugin's numbers, in the shape the steps below need.
LEMMA Numbers ==
    ASSUME Types, NEW p \in Plugins
    PROVE  /\ failRun[p] \in Nat /\ excess \in Nat /\ Threshold \in Nat \ {0}
           /\ records[p].fails \in Nat /\ records[p].quarantined \in BOOLEAN
           /\ blockedFlag[p] \in BOOLEAN
           /\ file # Corrupt => file[p].fails \in Nat /\ file[p].quarantined \in BOOLEAN
BY QuarantineAssumption DEF Types, TypeOK, Record

\* Fewer failures or more excess make no promise harder to keep.
LEMMA Eases ==
    ASSUME Types, Types', NEW p \in Plugins, failRun'[p] <= failRun[p], excess <= excess'
    PROVE  /\ InBudget(p) => InBudget(p)'
           /\ failRun[p] <= Threshold + excess => failRun'[p] <= Threshold + excess'
           /\ Counts(records[p], p) => failRun'[p] <= records[p].fails + excess'
           /\ file # Corrupt /\ Counts(file[p], p) => failRun'[p] <= file[p].fails + excess'
<1>1. /\ failRun[p] \in Nat /\ failRun'[p] \in Nat /\ excess \in Nat /\ excess' \in Nat
      /\ Threshold \in Nat /\ records[p].fails \in Nat
      /\ file # Corrupt => file[p].fails \in Nat
  <2>1. failRun'[p] \in Nat /\ excess' \in Nat
    BY DEF Types, TypeOK
  <2> QED  BY <2>1, Numbers
<1>2. \A a, b, c, e, h \in Nat : b <= a /\ e <= h /\ a < c + e => b < c + h
  OBVIOUS
<1>7. \A a, b, c, e, h \in Nat : b <= a /\ e <= h /\ a <= c + e => b <= c + h
  OBVIOUS
<1>3. InBudget(p) => InBudget(p)'
  BY <1>1, <1>2 DEF InBudget
<1>4. failRun[p] <= Threshold + excess => failRun'[p] <= Threshold + excess'
  BY <1>1, <1>7
<1>5. Counts(records[p], p) => failRun'[p] <= records[p].fails + excess'
  BY <1>1, <1>7 DEF Counts
<1>6. file # Corrupt /\ Counts(file[p], p) => failRun'[p] <= file[p].fails + excess'
  BY <1>1, <1>7 DEF Counts
<1> QED  BY <1>3, <1>4, <1>5, <1>6

\* A successful save: the file holds the records in memory.
LEMMA Saved ==
    ASSUME Types', NEW p \in Plugins, file' = records', RecordOK(p)', phase' # "down", recovery' = FALSE
    PROVE  FileOK(p)'
BY DEF FileOK, RecordOK, Sealed, Counts

-----------------------------------------------------------------------------
(* The actions. *)

LEMMA InitEstablishes == Init => IInv
<1> SUFFICES ASSUME Init PROVE IInv  OBVIOUS
<1>1. Nothing \in [Plugins -> Record] /\ \A p \in Plugins : Nothing[p] = NoRecord
      /\ NoRecord.fails = 0 /\ NoRecord.quarantined = FALSE
  BY DEF Nothing, NoRecord, Record
<1>2. <<>> \in Seq(Plugins) /\ Len(<<>>) = 0
  OBVIOUS
<1>3. Types
  BY <1>1, <1>2 DEF Init, Types, TypeOK
<1>4. Chain /\ Evidence
  BY <1>2 DEF Init, Chain, Evidence
<1>5. Threshold \in Nat \ {0} /\ Nothing # Corrupt
  BY <1>1, QuarantineAssumption, CorruptAssumption DEF Record
<1>6. \A p \in Plugins : PluginOK(p)
  BY <1>1, <1>5 DEF Init, PluginOK, FileOK, RecordOK, FlagOK, Sealed, Counts
<1>7. BudgetHolds
  BY <1>5 DEF Init, BudgetHolds
<1> QED  BY <1>3, <1>4, <1>6, <1>7 DEF IInv

LEMMA ConfigureKeeps == ASSUME IInv, configure PROVE IInv'
<1>1. Types /\ Chain /\ Threshold \in Nat \ {0}
  BY QuarantineAssumption DEF IInv
<1>2. Read \in [Plugins -> Record]
  BY <1>1 DEF Types, TypeOK, Read, Nothing, NoRecord, Record
<1>3. Types'
  <2>1. blockedFlag' \in [Plugins -> BOOLEAN]
    BY <1>2 DEF configure, BlocksAll, Record
  <2> QED  BY <1>1, <1>2, <2>1 DEF configure, Types, TypeOK
<1>4. call = <<>> /\ call' = <<>> /\ Len(call') = 0
  BY <1>1 DEF Chain, configure
<1>5. Chain'
  BY <1>4 DEF Chain, configure
<1>55. Evidence'
  BY DEF Evidence, configure
<1>6. BudgetHolds'
  BY DEF IInv, BudgetHolds, configure
<1>7. ASSUME NEW p \in Plugins PROVE PluginOK(p)'
  <2>1. /\ failRun' = failRun /\ excess' = excess /\ file' = file /\ failRun[p] \in Nat /\ excess \in Nat
        /\ records' = Read /\ recovery' = (file = Corrupt)
        /\ blockedFlag'[p] = (file = Corrupt \/ Read[p].quarantined)
    BY <1>1 DEF configure, BlocksAll, Types, TypeOK
  <2>2. FileOK(p)' /\ FileOK(p)
    BY <2>1 DEF FileOK, Sealed, Counts, IInv, PluginOK
  <2>3. CASE file = Corrupt
    <3>1. Read[p] = NoRecord /\ NoRecord.fails = 0 /\ NoRecord.quarantined = FALSE
      BY <2>3 DEF Read, Nothing, NoRecord
    <3>2. blockedFlag'[p] = TRUE /\ recovery' = TRUE
      BY <2>1, <2>3
    <3> QED  BY <3>1, <3>2, <2>1, <2>2, <1>1 DEF PluginOK, RecordOK, FlagOK, Sealed
  <2>4. CASE file # Corrupt
    <3>1. Read = file /\ file[p] \in Record
      BY <2>4, <1>2 DEF Read
    <3>2. file[p].fails \in Nat /\ file[p].quarantined \in BOOLEAN
      BY <3>1 DEF Record
    <3>3. Sealed(file[p]) /\ Counts(file[p], p)
      BY <2>2, <2>4 DEF FileOK
    <3>4. RecordOK(p)'
      BY <3>1, <3>3, <2>1 DEF RecordOK, Sealed, Counts
    <3>5. file[p].quarantined = FALSE => InBudget(p)
      <4>1. \A a, b, e, h \in Nat : a <= b + e /\ b < h => a < h + e
        OBVIOUS
      <4> QED  BY <4>1, <3>2, <3>3, <2>1, <1>1 DEF Sealed, Counts, InBudget
    <3>6. FlagOK(p)'
      <4>1. blockedFlag'[p] = file[p].quarantined /\ records' = file /\ file' = file
        BY <2>1, <2>4, <3>1, <3>2
      <4>2. InBudget(p)' <=> InBudget(p)
        BY <2>1 DEF InBudget
      <4> QED  BY <4>1, <4>2, <3>5, <3>2, <2>4 DEF FlagOK, Durable
    <3> QED  BY <2>2, <3>4, <3>6 DEF PluginOK
  <2> QED  BY <2>3, <2>4
<1> QED  BY <1>3, <1>5, <1>55, <1>6, <1>7 DEF IInv

LEMMA ShutdownKeeps == ASSUME IInv, Shutdown PROVE IInv'
<1>0. <<>> \in Seq(Plugins) /\ Len(<<>>) = 0
  OBVIOUS
<1>1. Types'
  BY <1>0 DEF IInv, Types, TypeOK, Shutdown, memory, history
<1>2. Chain' /\ Evidence'
  BY <1>0 DEF Shutdown, Chain, Evidence
<1>3. BudgetHolds' /\ \A p \in Plugins : PluginOK(p)'
  BY DEF IInv, Shutdown, BudgetHolds, PluginOK, FileOK, RecordOK, FlagOK, Sealed, Counts,
         memory, history
<1> QED  BY <1>1, <1>2, <1>3 DEF IInv

LEMMA FileDamagedKeeps == ASSUME IInv, FileDamaged PROVE IInv'
<1>1. Types'
  BY DEF IInv, Types, TypeOK, FileDamaged, memory, history
<1>2. Chain' /\ Evidence'
  BY DEF IInv, FileDamaged, Chain, Evidence, InBudget, Required, history
<1>3. BudgetHolds' /\ \A p \in Plugins : PluginOK(p)'
  BY DEF IInv, FileDamaged, BudgetHolds, PluginOK, FileOK, RecordOK, FlagOK, Sealed, Counts,
         memory, history
<1> QED  BY <1>1, <1>2, <1>3 DEF IInv

LEMMA RequestsKeep ==
    ASSUME IInv, BootEnds \/ \E p \in Plugins : RequestStart(p) \/ StopPlugin(p)
    PROVE  IInv'
<1>1. UNCHANGED <<file, memory, failRun, excess, confirmed, call, throwing>> /\ phase # "down"
      /\ (phase' = phase \/ (phase = "boot" /\ phase' = "up"))
  BY DEF BootEnds, RequestStart, StopPlugin, Idle, history, memory
<1>2. Types'
  BY DEF IInv, Types, TypeOK, BootEnds, RequestStart, StopPlugin, memory, history
<1>3. Chain' /\ Evidence'
  BY <1>1 DEF IInv, Chain, Evidence, InBudget, Required, memory
<1>4. BudgetHolds' /\ \A p \in Plugins : PluginOK(p)'
  BY <1>1 DEF IInv, BudgetHolds, PluginOK, FileOK, RecordOK, FlagOK, Sealed, Counts,
              InBudget, Durable, memory
<1> QED  BY <1>2, <1>3, <1>4 DEF IInv

LEMMA AutoStartKeeps == ASSUME IInv, NEW p \in Plugins, AutoStart(p) PROVE IInv'
<1>1. /\ UNCHANGED <<file, memory, failRun, excess, confirmed, phase>>
      /\ phase # "down" /\ call' \in {<<p>>, <<>>}
      /\ call' = <<p>> => blockedFlag[p] = FALSE
  BY DEF AutoStart, Idle, history, MayAutoStart, IInv, Types, TypeOK
<1>2. <<p>> \in Seq(Plugins) /\ <<>> \in Seq(Plugins) /\ Len(<<p>>) = 1 /\ Len(<<>>) = 0
      /\ <<p>>[1] = p
  OBVIOUS
<1>3. call' \in Seq(Plugins)
  BY <1>1, <1>2
<1>4. Types'
  BY <1>3 DEF IInv, Types, TypeOK, AutoStart, memory, history
<1>5. Chain'
  <2>1. call' = <<p>> => InBudget(p)'
    BY <1>1 DEF IInv, PluginOK, FlagOK, InBudget
  <2> QED  BY <1>1, <1>2, <2>1 DEF Chain
<1> QED  BY <1>1, <1>4, <1>5, Untouched DEF IInv

LEMMA StartDependencyKeeps == ASSUME IInv, NEW p \in Plugins, StartDependency(p) PROVE IInv'
<1>1. /\ UNCHANGED <<file, memory, failRun, excess, confirmed, phase>>
      /\ call' = Append(call, p) /\ call # <<>> /\ p \in Deps[Top]
      /\ call \in Seq(Plugins)
  BY DEF StartDependency, history, IInv, Types, TypeOK
<1>2. Required(p)
  BY <1>1, Innermost DEF Required, IInv, Types
<1>3. call' \in Seq(Plugins) /\ Len(call) \in Nat \ {0} /\ Len(call') = Len(call) + 1
      /\ call'[Len(call')] = p /\ \A i \in 1..Len(call) : call'[i] = call[i]
  BY <1>1
<1>4. Types'
  BY <1>3 DEF IInv, Types, TypeOK, StartDependency, memory, history
<1>5. Chain'
  <2>1. call' # <<>> => phase' # "down"
    BY <1>1 DEF IInv, Chain
  <2>2. \A i \in 1..Len(call') : i \in 1..Len(call) \/ i = Len(call')
    BY <1>3
  <2>3. \A i \in 1..Len(call') : i > 1 => Required(call'[i])
    BY <1>2, <1>3, <2>2 DEF IInv, Chain
  <2>4. call'[1] = call[1]
    BY <1>3
  <2>5. \A q \in Plugins : InBudget(q)' <=> InBudget(q)
    BY <1>1 DEF InBudget
  <2>6. \A q \in Plugins : call' # <<>> /\ call'[1] = q => Required(q) \/ InBudget(q)'
    BY <1>1, <2>4, <2>5 DEF IInv, Chain
  <2> QED  BY <2>1, <2>3, <2>6 DEF Chain, Required
<1> QED  BY <1>1, <1>4, <1>5, Untouched DEF IInv

LEMMA ExecuteStartKeeps ==
    ASSUME IInv, NEW p \in Plugins, ExecuteStart(p) \/ AdminStart(p) PROVE IInv'
<1>1. /\ UNCHANGED <<file, memory, failRun, confirmed, phase>>
      /\ phase # "down" /\ call' \in {<<p>>, <<>>} /\ Types
      /\ excess' = IF p \notin active /\ blocked(p) THEN excess + 1 ELSE excess
      /\ call' = <<p>> /\ blocked(p) => excess' = excess + 1
  BY DEF ExecuteStart, AdminStart, Begin, Idle, history, IInv
<1>2. <<p>> \in Seq(Plugins) /\ <<>> \in Seq(Plugins) /\ Len(<<p>>) = 1 /\ Len(<<>>) = 0
      /\ <<p>>[1] = p /\ <<p>> # <<>>
  OBVIOUS
<1>3. excess \in Nat /\ excess' \in Nat /\ excess <= excess'
  BY <1>1 DEF Types, TypeOK
<1>4. Types'
  BY <1>1, <1>2, <1>3 DEF Types, TypeOK, ExecuteStart, AdminStart, memory
<1>5. \A q \in Plugins : failRun'[q] = failRun[q] /\ failRun'[q] <= failRun[q]
  BY <1>1, <1>4 DEF Types, TypeOK
<1>6. ASSUME call' = <<p>>, ~Required(p) PROVE InBudget(p)'
  <2>1. failRun[p] \in Nat /\ Threshold \in Nat /\ records[p].fails \in Nat
        /\ records[p].quarantined \in BOOLEAN
    BY <1>1, Numbers
  <2>2. CASE blocked(p)
    <3>1. failRun[p] <= Threshold + excess
      BY <1>6 DEF IInv, BudgetHolds, Required
    <3>2. failRun'[p] < Threshold + excess'
      BY <3>1, <1>1, <1>3, <1>5, <1>6, <2>1, <2>2
    <3> QED  BY <3>2 DEF InBudget
  <2>3. CASE ~blocked(p)
    <3>1. recovery = FALSE /\ records[p].quarantined = FALSE
      BY <2>3, <2>1, <1>1 DEF blocked, Types, TypeOK
    <3>2. failRun[p] <= records[p].fails + excess /\ records[p].fails < Threshold
      BY <3>1, <1>1 DEF IInv, PluginOK, RecordOK, Sealed, Counts
    <3>3. failRun'[p] < Threshold + excess'
      BY <3>2, <1>3, <1>5, <2>1
    <3> QED  BY <3>3 DEF InBudget
  <2> QED  BY <2>2, <2>3
<1>7. Chain'
  BY <1>1, <1>2, <1>6 DEF Chain, Required
<1>8. Evidence'
  BY <1>1 DEF IInv, Evidence, memory
<1>9. BudgetHolds'
  BY <1>1, <1>3, <1>4, <1>5, Eases DEF IInv, BudgetHolds
<1>10. ASSUME NEW q \in Plugins PROVE PluginOK(q)'
  <2>1. PluginOK(q) /\ records'[q] = records[q] /\ recovery' = recovery /\ file' = file
        /\ blockedFlag' = blockedFlag
    BY <1>1 DEF IInv, memory
  <2>2. FileOK(q)'
    BY <2>1, <1>1, <1>3, <1>4, <1>5, Eases DEF PluginOK, FileOK, Sealed, Counts
  <2>3. RecordOK(q)'
    BY <2>1, <1>1, <1>3, <1>4, <1>5, Eases DEF PluginOK, RecordOK, Sealed, Counts
  <2>4. InBudget(q) => InBudget(q)'
    BY <1>1, <1>3, <1>4, <1>5, Eases
  <2>5. FlagOK(q)'
    BY <2>1, <2>4, <1>1 DEF PluginOK, FlagOK, Durable
  <2> QED  BY <2>2, <2>3, <2>5 DEF PluginOK
<1> QED  BY <1>4, <1>7, <1>8, <1>9, <1>10 DEF IInv

LEMMA SucceedsKeeps == ASSUME IInv, StartSucceeds PROVE IInv'
<1> DEFINE t == Top
<1>1. Types /\ Chain /\ t \in Plugins /\ call # <<>> /\ phase # "down"
  BY Innermost DEF IInv, Types, StartSucceeds, Chain
<1>2. /\ call' = Front(call) /\ failRun' = [failRun EXCEPT ![t] = 0] /\ active' = active \cup {t}
      /\ UNCHANGED <<blockedFlag, phase, todo, throwing, admitted, confirmed>>
  BY DEF StartSucceeds
<1>3. \/ UNCHANGED <<file, records, recovery, excess>>
      \/ /\ records' = Succeeded(t)
         /\ \/ recovery = FALSE /\ recovery' = FALSE /\ file' = Succeeded(t) /\ excess' = excess
            \/ recovery' = TRUE /\ file' = file /\ excess' = excess + 1
  BY <1>1, PersistEnds DEF StartSucceeds, Types
<1> HIDE DEF t
<1>4. /\ excess \in Nat /\ excess' \in Nat /\ excess <= excess'
      /\ failRun' \in [Plugins -> Nat] /\ failRun'[t] = 0
      /\ \A p \in Plugins : p # t => failRun'[p] = failRun[p]
      /\ \A p \in Plugins : failRun'[p] <= failRun[p]
  BY <1>1, <1>2, <1>3 DEF Types, TypeOK
<1>5. /\ Succeeded(t) \in [Plugins -> Record]
      /\ \A p \in Plugins : /\ Succeeded(t)[p].quarantined = records[p].quarantined
                            /\ Succeeded(t)[p].fails = IF p = t THEN 0 ELSE records[p].fails
  BY <1>1 DEF Succeeded, Types, TypeOK, Record
<1>6. Types'
  <2>1. call' \in Seq(Plugins)
    BY <1>1, <1>2, Innermost DEF Types
  <2> QED  BY <1>1, <1>2, <1>3, <1>4, <1>5, <2>1 DEF Types, TypeOK
<1>7. Chain'
  <2>1. \A p \in Plugins : p # Top => failRun'[p] = failRun[p]
    BY <1>4 DEF t
  <2> QED  BY <1>1, <1>2, <1>4, <2>1, Unwinds
<1>8. Evidence'
  <2>1. Succeeded(t) # Corrupt
    BY <1>5, CorruptAssumption DEF Record
  <2> QED  BY <1>1, <1>2, <1>3, <2>1 DEF IInv, Evidence
<1>9. BudgetHolds'
  BY <1>1, <1>4, <1>6, Eases DEF IInv, BudgetHolds
<1>10. ASSUME NEW q \in Plugins PROVE PluginOK(q)'
  <2>1. PluginOK(q) /\ failRun'[q] <= failRun[q] /\ failRun'[q] \in Nat
        /\ records[q].fails \in Nat /\ Threshold \in Nat \ {0} /\ excess' \in Nat
    BY <1>1, <1>4, Numbers DEF IInv
  <2>2. /\ records'[q].quarantined = records[q].quarantined
        /\ records'[q].fails = records[q].fails \/ (q = t /\ records'[q].fails = 0)
    BY <1>3, <1>5
  <2>3. Sealed(records'[q])
    BY <2>1, <2>2 DEF PluginOK, RecordOK, Sealed
  <2>4. recovery' = FALSE => failRun'[q] <= records'[q].fails + excess'
    <3>1. CASE q = t
      <4>1. records'[q].fails \in Nat /\ failRun'[q] = 0
        BY <2>1, <2>2, <1>4, <3>1
      <4> QED  BY <4>1, <2>1
    <3>2. CASE q # t /\ recovery' = FALSE
      <4>1. recovery = FALSE /\ records'[q].fails = records[q].fails
        BY <3>2, <2>2, <1>3
      <4> QED  BY <4>1, <2>1, <1>1, <1>4, <1>6, Eases DEF PluginOK, RecordOK, Counts
    <3> QED  BY <3>1, <3>2
  <2>5. RecordOK(q)'
    BY <2>3, <2>4 DEF RecordOK, Sealed, Counts
  <2>6. FileOK(q)'
    <3>1. CASE file' = file
      BY <3>1, <2>1, <1>1, <1>4, <1>6, Eases DEF PluginOK, FileOK, Sealed, Counts
    <3>2. CASE file' # file
      BY <3>2, <2>5, <1>1, <1>2, <1>3, <1>6, Saved
    <3> QED  BY <3>1, <3>2
  <2>7. FlagOK(q)'
    <3>1. InBudget(q) => InBudget(q)'
      BY <1>1, <1>4, <1>6, Eases
    <3>2. Succeeded(t) # Corrupt
      BY <1>5, CorruptAssumption DEF Record
    <3>3. Durable(q)' => Durable(q) \/ records[q].quarantined
      BY <3>2, <1>3, <1>5 DEF Durable
    <3> QED  BY <3>1, <3>3, <2>1, <2>2, <1>1, <1>2 DEF PluginOK, FlagOK
  <2> QED  BY <2>5, <2>6, <2>7 DEF PluginOK
<1> QED  BY <1>6, <1>7, <1>8, <1>9, <1>10 DEF IInv

LEMMA FailsKeeps == ASSUME IInv, StartFails PROVE IInv'
<1> DEFINE t == Top
<1>1. Types /\ Chain /\ t \in Plugins /\ call # <<>> /\ phase # "down"
  BY Innermost DEF IInv, Types, StartFails, Chain
<1>2. /\ call' = Front(call) /\ failRun' = [failRun EXCEPT ![t] = @ + 1]
      /\ records' = Failed(t) /\ throwing' = (Len(call) > 1)
      /\ blockedFlag' = [blockedFlag EXCEPT ![t] = Failed(t)[t].quarantined \/ recovery']
      /\ UNCHANGED <<active, phase, todo, admitted, confirmed>>
  BY DEF StartFails
<1>3. \/ recovery = FALSE /\ recovery' = FALSE /\ file' = Failed(t) /\ excess' = excess
      \/ recovery' = TRUE /\ file' = file /\ excess' = excess + 1
  BY <1>1, PersistEnds DEF StartFails, Types
<1>4. t = call[1] \/ Required(t)
  BY <1>1, Innermost DEF Chain, Types
<1> HIDE DEF t
<1>5. /\ excess \in Nat /\ excess' \in Nat /\ excess <= excess' /\ Threshold \in Nat \ {0}
      /\ failRun' \in [Plugins -> Nat] /\ failRun'[t] = failRun[t] + 1 /\ failRun[t] \in Nat
      /\ \A p \in Plugins : p # t => failRun'[p] = failRun[p] /\ failRun'[p] <= failRun[p]
  BY <1>1, <1>2, <1>3, QuarantineAssumption DEF Types, TypeOK
<1>6. /\ Failed(t) \in [Plugins -> Record]
      /\ \A p \in Plugins : p # t => Failed(t)[p] = records[p]
      /\ Failed(t)[t].fails = records[t].fails + 1
      /\ Failed(t)[t].quarantined = (records[t].quarantined \/ records[t].fails + 1 >= Threshold)
      /\ records[t].fails \in Nat /\ records[t].quarantined \in BOOLEAN
  BY <1>1, <1>5 DEF Failed, OverBudget, Types, TypeOK, Record
<1>7. Failed(t) # Corrupt
  BY <1>6, CorruptAssumption DEF Record
<1>8. Types'
  <2>1. call' \in Seq(Plugins)
    BY <1>1, <1>2, Innermost DEF Types
  <2>2. throwing' \in BOOLEAN /\ recovery' \in BOOLEAN
    <3>1. recovery' \in BOOLEAN
      BY <1>3
    <3>2. (Len(call) > 1) \in BOOLEAN
      OBVIOUS
    <3> QED  BY <3>1, <3>2, <1>2, Zenon
  <2>3. blockedFlag' \in [Plugins -> BOOLEAN]
    BY <1>1, <1>2, <1>6, <2>2 DEF Types, TypeOK
  <2>4. file' = Corrupt \/ file' \in [Plugins -> Record]
    BY <1>1, <1>3, <1>6 DEF Types, TypeOK
  <2> QED  BY <1>1, <1>2, <1>5, <1>6, <2>1, <2>2, <2>3, <2>4 DEF Types, TypeOK
<1>9. Chain'
  <2>1. \A p \in Plugins : p # Top => failRun'[p] = failRun[p]
    BY <1>5 DEF t
  <2> QED  BY <1>1, <1>2, <1>5, <2>1, Unwinds
<1>10. Evidence'
  BY <1>1, <1>2, <1>3, <1>7 DEF IInv, Evidence
<1>11. BudgetHolds'
  <2> SUFFICES ASSUME NEW p \in Plugins, ~Required(p) PROVE failRun'[p] <= Threshold + excess'
    BY DEF BudgetHolds, Required
  <2>1. CASE p = t
    <3>1. InBudget(t)
      BY <1>1, <1>4, <2>1 DEF Chain
    <3>2. failRun[t] < Threshold + excess
      BY <3>1 DEF InBudget
    <3> QED  BY <3>2, <2>1, <1>5
  <2>2. CASE p # t
    <3>1. failRun[p] <= Threshold + excess
      BY DEF IInv, BudgetHolds, Required
    <3> QED  BY <3>1, <2>2, <1>1, <1>5, <1>8, Eases
  <2> QED  BY <2>1, <2>2
<1>12. ASSUME NEW q \in Plugins PROVE PluginOK(q)'
  <2>1. PluginOK(q)
    BY DEF IInv
  <2>2. CASE q # t
    <3>1. records'[q] = records[q] /\ blockedFlag'[q] = blockedFlag[q]
          /\ failRun'[q] <= failRun[q]
      BY <1>1, <1>2, <1>5, <1>6, <2>2 DEF Types, TypeOK
    <3>2. RecordOK(q)'
      <4>1. recovery' = FALSE => failRun'[q] <= records[q].fails + excess'
        BY <2>1, <3>1, <1>1, <1>3, <1>5, <1>8, Eases DEF PluginOK, RecordOK
      <4> QED  BY <4>1, <3>1, <2>1 DEF PluginOK, RecordOK, Sealed, Counts
    <3>3. FileOK(q)'
      <4>1. CASE file' = file
        BY <4>1, <2>1, <3>1, <1>1, <1>5, <1>8, Eases DEF PluginOK, FileOK, Sealed, Counts
      <4>2. CASE file' # file
        BY <4>2, <3>2, <1>1, <1>2, <1>3, <1>8, Saved
      <4> QED  BY <4>1, <4>2
    <3>4. FlagOK(q)'
      <4>1. InBudget(q) => InBudget(q)'
        BY <3>1, <1>1, <1>5, <1>8, Eases
      <4>2. Durable(q)' => Durable(q) \/ records[q].quarantined
        BY <1>3, <1>6, <1>7, <2>2 DEF Durable
      <4> QED  BY <4>1, <4>2, <3>1, <2>1, <1>1, <1>2 DEF PluginOK, FlagOK
    <3> QED  BY <3>2, <3>3, <3>4 DEF PluginOK
  <2>3. CASE q = t
    <3>1. /\ records'[q].fails = records[t].fails + 1
          /\ records'[q].quarantined = (records[t].quarantined \/ records[t].fails + 1 >= Threshold)
          /\ blockedFlag'[q] = (records'[q].quarantined \/ recovery')
          /\ failRun'[q] = failRun[t] + 1
      BY <1>1, <1>2, <1>5, <1>6, <2>3 DEF Types, TypeOK
    <3>2. Sealed(records'[q])
      <4>1. records'[q].quarantined = FALSE => ~(records[t].fails + 1 >= Threshold)
        BY <3>1, Zenon
      <4>2. ~(records[t].fails + 1 >= Threshold) => records[t].fails + 1 < Threshold
        BY <1>5, <1>6
      <4>3. records'[q].quarantined = FALSE => records'[q].fails < Threshold
        BY <3>1, <4>1, <4>2, Zenon
      <4> QED  BY <4>3 DEF Sealed
    <3>3. recovery' = FALSE => failRun'[q] <= records'[q].fails + excess'
      <4>1. ASSUME recovery' = FALSE PROVE failRun[t] <= records[t].fails + excess /\ excess' = excess
        BY <4>1, <2>1, <2>3, <1>1, <1>3 DEF PluginOK, RecordOK, Counts
      <4>2. \A a, b, e \in Nat : a <= b + e => a + 1 <= (b + 1) + e
        OBVIOUS
      <4>3. failRun[t] <= records[t].fails + excess => failRun[t] + 1 <= (records[t].fails + 1) + excess
        BY <4>2, <1>5, <1>6
      <4>4. failRun'[q] = failRun[t] + 1 /\ records'[q].fails = records[t].fails + 1
        BY <3>1
      <4> QED  BY <4>1, <4>3, <4>4
    <3>4. RecordOK(q)'
      BY <3>2, <3>3 DEF RecordOK, Sealed, Counts
    <3>5. FileOK(q)'
      <4>1. CASE recovery' = FALSE
        BY <4>1, <3>4, <1>1, <1>2, <1>3, <1>8, Saved
      <4>2. CASE recovery' = TRUE
        <5>1. file' = file /\ excess' = excess + 1
          BY <4>2, <1>3
        <5>2. file # Corrupt => /\ Sealed(file[q]) /\ file[q].fails \in Nat
                                /\ failRun[t] <= file[q].fails + excess
          BY <2>1, <2>3, <1>1, Numbers DEF PluginOK, FileOK, Counts
        <5>3. file # Corrupt => failRun'[q] <= file[q].fails + excess'
          BY <5>1, <5>2, <3>1, <1>5
        <5> QED  BY <5>1, <5>2, <5>3 DEF FileOK, Sealed, Counts
      <4> QED  BY <4>1, <4>2, <1>3
    <3>6. FlagOK(q)'
      <4>1. ASSUME blockedFlag'[q] = FALSE PROVE InBudget(q)'
        <5>1. recovery' = FALSE /\ records'[q].quarantined = FALSE
          BY <4>1, <3>1, <1>3
        <5>2. records'[q].fails < Threshold /\ failRun'[q] <= records'[q].fails + excess'
          BY <5>1, <3>2, <3>3 DEF Sealed
        <5>3. failRun'[q] < Threshold + excess'
          BY <5>2, <3>1, <1>5, <1>6
        <5> QED  BY <5>3 DEF InBudget
      <4>2. recovery' = TRUE => blockedFlag'[q] = TRUE
        BY <3>1
      <4>3. Durable(q)' => blockedFlag'[q] = TRUE
        <5>1. CASE recovery' = FALSE
          <6>1. file' = records' /\ file' # Corrupt
            BY <5>1, <1>2, <1>3, <1>7
          <6> QED  BY <6>1, <3>1 DEF Durable
        <5> QED  BY <5>1, <4>2, <1>3
      <4>4. records'[q].quarantined => blockedFlag'[q] = TRUE
        BY <3>1
      <4> QED  BY <4>1, <4>3, <4>4 DEF FlagOK
    <3> QED  BY <3>4, <3>5, <3>6 DEF PluginOK
  <2> QED  BY <2>2, <2>3
<1> QED  BY <1>8, <1>9, <1>10, <1>11, <1>12 DEF IInv

LEMMA ResetKeeps ==
    ASSUME IInv, NEW t \in Plugins, NEW confirm \in BOOLEAN, reset(t, confirm)
    PROVE  IInv'
<1> DEFINE kept == IF recovery THEN Nothing ELSE records
           new == [kept EXCEPT ![t] = NoRecord]
<1>1. Types /\ Chain /\ phase # "down"
  BY DEF IInv, reset
<1>2. /\ records' = new /\ recovery' = FALSE
      /\ confirmed' = (confirmed \/ (recovery /\ confirm))
      /\ recovery => confirm
      /\ failRun' = [q \in Plugins |-> IF recovery \/ q = t THEN 0 ELSE failRun[q]]
      /\ \/ file' = new /\ blockedFlag' = [blockedFlag EXCEPT ![t] = FALSE]
         \/ file' = file /\ blockedFlag' = blockedFlag
      /\ UNCHANGED <<active, phase, todo, call, throwing, admitted, excess>>
  BY DEF reset, MayReset
<1>3. kept \in [Plugins -> Record] /\ NoRecord \in Record /\ NoRecord.fails = 0
      /\ NoRecord.quarantined = FALSE /\ \A q \in Plugins : Nothing[q] = NoRecord
  BY <1>1 DEF Types, TypeOK, Nothing, NoRecord, Record
<1>4. /\ new \in [Plugins -> Record] /\ new # Corrupt
      /\ \A q \in Plugins : recovery = TRUE \/ q = t => new[q] = NoRecord
      /\ \A q \in Plugins : recovery = FALSE /\ q # t => new[q] = records[q]
  <2>1. new \in [Plugins -> Record]
    BY <1>3
  <2>2. new # Corrupt
    BY <2>1, CorruptAssumption DEF Record
  <2> QED  BY <2>1, <2>2, <1>3
<1> HIDE DEF kept, new
<1>5. /\ excess \in Nat /\ excess' = excess /\ Threshold \in Nat \ {0}
      /\ failRun' \in [Plugins -> Nat] /\ failRun \in [Plugins -> Nat]
      /\ recovery \in BOOLEAN /\ blockedFlag \in [Plugins -> BOOLEAN]
  BY <1>1, <1>2, QuarantineAssumption DEF Types, TypeOK
<1>6. \A q \in Plugins : /\ recovery = TRUE \/ q = t => failRun'[q] = 0
                         /\ recovery = FALSE /\ q # t => failRun'[q] = failRun[q]
                         /\ failRun'[q] <= failRun[q]
  BY <1>2, <1>5
<1>7. Types'
  <2>1. blockedFlag' \in [Plugins -> BOOLEAN]
    BY <1>2, <1>5
  <2>2. confirmed' \in BOOLEAN
    BY <1>1, <1>2, <1>5 DEF Types
  <2>3. file' = Corrupt \/ file' \in [Plugins -> Record]
    BY <1>1, <1>2, <1>4 DEF Types, TypeOK
  <2> QED  BY <1>1, <1>2, <1>4, <1>5, <2>1, <2>2, <2>3 DEF Types, TypeOK
<1>8. \A q \in Plugins : InBudget(q) => InBudget(q)'
  BY <1>1, <1>5, <1>6, <1>7, Eases
<1>9. Chain'
  BY <1>1, <1>2, <1>8 DEF Chain, Required
<1>10. Evidence'
  <2>1. CASE file' = file /\ file = Corrupt
    BY <2>1, <1>1, <1>2, <1>5 DEF IInv, Evidence, Types
  <2>2. CASE file' # Corrupt
    BY <2>2 DEF Evidence
  <2> QED  BY <2>1, <2>2, <1>2, <1>4
<1>11. BudgetHolds'
  BY <1>1, <1>5, <1>6, <1>7, Eases DEF IInv, BudgetHolds
<1>12. ASSUME NEW q \in Plugins PROVE PluginOK(q)'
  <2>1. PluginOK(q) /\ failRun'[q] \in Nat
    BY <1>5 DEF IInv
  <2>2. RecordOK(q)'
    <3>1. CASE recovery = TRUE \/ q = t
      <4>1. records'[q].fails = 0 /\ failRun'[q] = 0
        BY <3>1, <1>2, <1>3, <1>4, <1>6
      <4> QED  BY <4>1, <1>5 DEF RecordOK, Sealed, Counts
    <3>2. CASE recovery = FALSE /\ q # t
      <4>1. records'[q] = records[q] /\ failRun'[q] = failRun[q]
        BY <3>2, <1>2, <1>4, <1>6
      <4> QED  BY <4>1, <3>2, <2>1, <1>1, <1>5 DEF PluginOK, RecordOK, Sealed, Counts
    <3> QED  BY <3>1, <3>2, <1>5
  <2>3. FileOK(q)'
    <3>1. CASE file' = file
      BY <3>1, <2>1, <1>1, <1>5, <1>6, <1>7, Eases DEF PluginOK, FileOK, Sealed, Counts
    <3>2. CASE file' = new
      BY <3>2, <2>2, <1>1, <1>2, <1>7, Saved
    <3> QED  BY <3>1, <3>2, <1>2
  <2>4. FlagOK(q)'
    <3>1. records'[q].quarantined => records[q].quarantined /\ q # t
      BY <1>2, <1>3, <1>4, <1>5
    <3>2. Durable(q)' => (Durable(q) /\ file' = file) \/ records'[q].quarantined
      BY <1>2, <1>4 DEF Durable
    <3>3. CASE blockedFlag'[q] = blockedFlag[q]
      BY <3>1, <3>2, <3>3, <2>1, <1>1, <1>2, <1>8 DEF PluginOK, FlagOK
    <3>4. CASE blockedFlag'[q] # blockedFlag[q]
      <4>1. q = t /\ file' = new /\ blockedFlag'[q] = FALSE
        BY <3>4, <1>2, <1>5
      <4>2. records'[q].quarantined = FALSE /\ ~Durable(q)'
        BY <4>1, <1>2, <1>3, <1>4 DEF Durable
      <4>3. InBudget(q)'
        BY <4>1, <1>5, <1>6 DEF InBudget
      <4> QED  BY <4>1, <4>2, <4>3 DEF FlagOK
    <3> QED  BY <3>3, <3>4
  <2> QED  BY <2>2, <2>3, <2>4 DEF PluginOK
<1> QED  BY <1>7, <1>9, <1>10, <1>11, <1>12 DEF IInv

LEMMA NextKeeps == ASSUME IInv, [Next]_vars PROVE IInv'
<1>1. CASE UNCHANGED vars
  <2>1. UNCHANGED <<file, memory, failRun, excess, confirmed, phase>>
    BY <1>1 DEF vars, history
  <2>2. Types'
    BY <1>1 DEF IInv, Types, TypeOK, vars, memory, history
  <2>3. Chain'
    BY <1>1 DEF IInv, Chain, InBudget, Required, vars, history
  <2> QED  BY <2>1, <2>2, <2>3, Untouched DEF IInv
<1>2. CASE Next
  BY <1>2, ConfigureKeeps, ShutdownKeeps, FileDamagedKeeps, RequestsKeep, AutoStartKeeps,
     StartDependencyKeeps, ExecuteStartKeeps, SucceedsKeeps, FailsKeeps, ResetKeeps DEF Next
<1> QED  BY <1>1, <1>2

-----------------------------------------------------------------------------
(* The results. *)

\* The quarantine invariant holds in every reachable state.
THEOREM QuarantineInvariance == Spec => []IInv
BY InitEstablishes, NextKeeps, PTL DEF Spec

\* A plugin no other plugin requires fails at most Threshold times in a row
\* over all boots, API requests and damaged snapshots, but for the failures
\* whose write failed, the starts admitted before the quarantine and those of a
\* blocked plugin through BundleAdmin, which does not ask.
THEOREM BudgetHoldsAlways == Spec => []BudgetHolds
<1>1. IInv => BudgetHolds
  BY DEF IInv
<1> QED  BY <1>1, QuarantineInvariance, PTL

\* startAllBundles starts no plugin the snapshot on disk holds as quarantined,
\* and none when the snapshot cannot be read.
THEOREM NoAutoStartHolds == Spec => NoAutoStart
<1>1. ASSUME IInv, [Next]_vars
      PROVE  [\A p \in Plugins : AutoStart(p) /\ call' # <<>> => ~Durable(p)]_vars
  <2> SUFFICES ASSUME NEW p \in Plugins, AutoStart(p), call' # <<>> PROVE ~Durable(p)
    OBVIOUS
  <2>1. phase # "down" /\ ~blockedFlag[p]
    BY DEF AutoStart, Idle, MayAutoStart
  <2> QED  BY <1>1, <2>1 DEF IInv, PluginOK, FlagOK
<1> QED  BY <1>1, QuarantineInvariance, PTL DEF Spec, NoAutoStart

\* No start that succeeds or fails writes over a snapshot that could not be
\* read before an operator has tried to confirm the recovery.
THEOREM CorruptKeptHolds == Spec => CorruptKept
<1>1. ASSUME IInv, [Next]_vars
      PROVE  [file = Corrupt /\ file' # file => confirmed']_vars
  <2> SUFFICES ASSUME Next, file = Corrupt, file' # file PROVE confirmed'
    BY <1>1
  <2>1. Types /\ Evidence
    BY <1>1 DEF IInv
  <2>2. CASE StartSucceeds \/ StartFails
    <3>1. recovery = FALSE /\ confirmed' = confirmed
      BY <2>1, <2>2 DEF StartSucceeds, StartFails, Persist, MayPersist, Types, TypeOK
    <3>2. phase # "down"
      BY <1>1, <2>2 DEF IInv, Chain, StartSucceeds, StartFails
    <3> QED  BY <3>1, <3>2, <2>1 DEF Evidence
  <2>3. CASE \E p \in Plugins, confirm \in BOOLEAN : reset(p, confirm)
    <3>1. phase # "down" /\ confirmed' = (confirmed \/ recovery)
      BY <2>3 DEF reset, MayReset
    <3> QED  BY <3>1, <2>1 DEF Evidence
  <2>4. file' = file \/ FileDamaged \/ StartSucceeds \/ StartFails
        \/ \E p \in Plugins, confirm \in BOOLEAN : reset(p, confirm)
    BY DEF Next, configure, Shutdown, BootEnds, AutoStart, StartDependency, RequestStart,
           ExecuteStart, AdminStart, StopPlugin
  <2>5. ~FileDamaged
    BY DEF FileDamaged
  <2> QED  BY <2>2, <2>3, <2>4, <2>5
<1> QED  BY <1>1, QuarantineInvariance, PTL DEF Spec, CorruptKept
-----------------------------------------------------------------------------
(***************************************************************************)
(* The loader that starts the plugins: module BundleLoader.                *)
(***************************************************************************)
States == {"installed", "resolved", "starting", "active", "stopping", "uninstalled"}
Started == {"starting", "active", "stopping"}
Places == {"check", "set", "enter", "needs", "act", "join", "leave", "done"}
Ops == {"resolve", "start", "stop", "uninstall", "unload"}

Calls == [op : Ops, b : Bundles, old : States \cup {None}, at : Places,
          todo : SUBSET Bundles, ok : BOOLEAN, stale : BOOLEAN]

NeedsTyped == needs \in [Bundles -> SUBSET Bundles] /\ \A b \in Bundles : needs[b] \subseteq Requires[b]

LoaderTypes ==
    /\ disk \subseteq Bundles /\ known \subseteq Bundles /\ raced \subseteq Bundles
    /\ state \in [Bundles -> States] /\ up \in [Bundles -> BOOLEAN]
    /\ library \in [Bundles -> {"none", "loaded", "broken"}]
    /\ stack \in [Threads -> Seq(Calls)] /\ NeedsTyped

\* What a thread has to do.
JobSet == [b : Bundles \cup {None}, plan : Seq(Bundles \cup {"resolve", "start", "stop"}),
           threw : BOOLEAN, stale : BOOLEAN]
Jobs ==
    /\ job \in [Threads -> JobSet]
    /\ job[Control].plan \in Seq(Bundles)
    /\ \A w \in Servants : job[w].plan # <<>> =>
          job[w].b \in Bundles /\ job[w].plan \in Seq({"resolve", "start", "stop"})

\* One call: start and stop write the state twice, the others only at the end.
Formed(f) ==
    /\ f.at \in {"check", "set", "enter", "needs", "act", "join"} => f.ok = TRUE
    /\ f.at \in {"check", "set"} => f.old = None
    /\ f.op \in {"start", "stop"} /\ f.at \in {"enter", "needs", "act", "join"} => f.old # None
    /\ f.op \in {"start", "stop"} /\ f.at \in {"leave", "done"} /\ f.ok = TRUE => f.old # None
    /\ f.op \notin {"start", "stop"} => f.old = None
    /\ f.at = "set" => f.op \in {"resolve", "start", "stop"}
    /\ f.at = "needs" => f.op = "start"
    /\ f.at = "join" => f.op = "stop" /\ f.b = Host
    /\ f.op = "start" /\ f.at = "act" => f.todo = {}

Holds(t, i) == i > 1 \/ stack[t][i].at \in {"needs", "act", "join"}

Frames == \A t \in Threads : \A i \in DOMAIN stack[t] :
    LET f == stack[t][i]
    IN  /\ Formed(f)
        /\ i < Len(stack[t]) => f.op = "start" /\ f.at \in {"needs", "act"}
        /\ i > 1 => f.op = "start" /\ f.at # "leave"
        /\ Holds(t, i) => owner = t
        /\ f.at \in {"needs", "act", "join"} /\ f.op \in {"start", "stop"} => f.b \in known

\* What the control thread calls.
Callers == \A i \in DOMAIN stack[Control] :
    \/ stage = "startAll" /\ stack[Control][i].op = "start"
    \/ Stopping /\ i = 1 /\ stack[Control][i].op \in {"stop", "unload"} /\ job[Control].threw = FALSE

Free(b) == \A t \in Threads : \A i \in DOMAIN stack[t] : stack[t][i].b = b => ~Passed(stack[t][i])

\* The activator runs, or the Bundle has none to run.
Runs(u, l) == u = TRUE \/ l = "broken"

\* What the state s, the activator u and the library l of a Bundle are at each
\* place of a call.
Tells(f, s, u, l) ==
    /\ f.stale = FALSE
    /\ f.op \notin {"start", "stop"} => u = FALSE /\ s \notin Started
    /\ f.op = "start" /\ f.at = "set" => u = FALSE /\ s \notin Started
    /\ f.op = "start" /\ f.at # "set" =>
          /\ s = "starting" /\ f.old \notin Started
          /\ IF f.at \in {"leave", "done"} /\ f.ok = TRUE THEN Runs(u, l) ELSE u = FALSE
    /\ f.op = "stop" /\ f.at = "set" => Runs(u, l) /\ s = "active"
    /\ f.op = "stop" /\ f.at # "set" =>
          /\ s = "stopping" /\ f.old = "active"
          /\ IF f.at \in {"leave", "done"} /\ f.ok = TRUE THEN u = FALSE ELSE Runs(u, l)

Rests(s, u, l) == s \notin {"starting", "stopping"} /\ (u = TRUE => s = "active")
                  /\ (s = "active" => Runs(u, l))

Truth ==
    /\ \A b \in Bundles \ raced : Free(b) => Rests(state[b], up[b], library[b])
    /\ \A t \in Threads : \A i \in DOMAIN stack[t] :
          LET f == stack[t][i]
          IN  Passed(f) /\ f.b \notin raced => Tells(f, state[f.b], up[f.b], library[f.b])
    /\ \A b \in Bundles \ raced : b \notin known => up[b] = FALSE

\* Only calls that raced are in progress for the same Bundle.
Sole ==
    \A t, u \in Threads : \A i \in DOMAIN stack[t], j \in DOMAIN stack[u] :
        /\ Passed(stack[t][i]) /\ Passed(stack[u][j])
        /\ stack[t][i].b = stack[u][j].b /\ stack[t][i].b \notin raced
        => t = u /\ i = j

LoaderInv == LoaderTypes /\ Jobs /\ Frames /\ Callers /\ Truth /\ Sole

\* A required Bundle is up, or still to be looked at, or being started.
NeedsInv == \A t \in Threads : \A i \in DOMAIN stack[t] :
    LET f == stack[t][i]
    IN  /\ f.op = "start" /\ f.at \in {"needs", "act"} =>
             \A d \in needs[f.b] \ raced :
                 \/ Runs(up[d], library[d]) \/ d \in f.todo
                 \/ i < Len(stack[t]) /\ stack[t][i + 1].b = d
        /\ i > 1 /\ f.at = "done" /\ f.ok = TRUE => Runs(up[f.b], library[f.b])

\* What is left to be stopped, dependents first.
Working(c) == 1 \in DOMAIN stack[Control] /\ stack[Control][1].b = c
Current(c) == Working(c) /\ stack[Control][1].op = "stop"
InPlan(c) == \E i \in DOMAIN job[Control].plan : job[Control].plan[i] = c

\* What another thread has begun to change is told apart.
LateTold == \A w \in Servants : \A i \in DOMAIN stack[w] : stack[w][i].old # None => stack[w][i].b \in late

Ahead(c) ==
    /\ InPlan(c) \/ Current(c)
    /\ Current(c) => \A d \in needs[c] : InPlan(d)
    /\ \A i \in DOMAIN job[Control].plan : job[Control].plan[i] = c =>
          \A d \in needs[c] : \E j \in DOMAIN job[Control].plan : i < j /\ job[Control].plan[j] = d

Once ==
    /\ \A i, j \in DOMAIN job[Control].plan : job[Control].plan[i] = job[Control].plan[j] => i = j
    /\ \A c \in Bundles : Working(c) \/ job[Control].b = c => ~InPlan(c)

StopInv ==
    /\ Stopping \/ stage = "ended" => LateTold
    /\ Stopping => Once
    /\ Stopping \/ job[Control].b = None
    /\ Stopping /\ job[Control].threw = FALSE =>
          \A c \in known \ (late \cup raced) : up[c] = TRUE => Ahead(c)
    /\ NothingLeft

LEMMA LoaderThreads ==
    /\ Servants \subseteq Threads /\ Control \in Threads /\ Workers \subseteq Servants /\ Web \subseteq Servants
    /\ Control \notin Servants /\ Nobody \notin Threads /\ Threads = Servants \cup {Control}
    /\ Host \in Bundles /\ None \notin Bundles /\ None \notin States
    /\ Manageable \subseteq Bundles /\ Administered \subseteq Bundles
    /\ Requires \in [Bundles -> SUBSET Bundles]
  BY ManifestAssumption, ThreadAssumption DEF Threads, Servants, States, None

LEMMA TopFrame ==
    ASSUME LoaderTypes, NEW t \in Threads, Busy(t)
    PROVE  /\ TopCall(t) \in Calls /\ TopCall(t) = stack[t][Len(stack[t])]
           /\ Len(stack[t]) \in DOMAIN stack[t] /\ Len(stack[t]) \in Nat /\ Len(stack[t]) > 0
           /\ stack[t] \in Seq(Calls) /\ DOMAIN stack[t] = 1..Len(stack[t])
           /\ \A i \in DOMAIN stack[t] : i \in Nat /\ i >= 1 /\ i <= Len(stack[t]) /\ stack[t][i] \in Calls
  BY DEF LoaderTypes, Busy, TopCall

\* The frame of a call after a step of it.
LEMMA CallMoves ==
    ASSUME NEW f \in Calls, NEW a \in Places
    PROVE  LET g == [f EXCEPT !.at = a]
           IN  /\ g \in Calls /\ g.at = a /\ g.op = f.op /\ g.b = f.b
               /\ g.old = f.old /\ g.todo = f.todo /\ g.ok = f.ok /\ g.stale = f.stale
  BY DEF Calls, Places

LEMMA CallFails ==
    ASSUME NEW f \in Calls, NEW a \in Places
    PROVE  LET g == [f EXCEPT !.at = a, !.ok = FALSE]
           IN  /\ g \in Calls /\ g.at = a /\ g.op = f.op /\ g.b = f.b
               /\ g.old = f.old /\ g.todo = f.todo /\ g.ok = FALSE /\ g.stale = f.stale
  BY DEF Calls, Places

LEMMA CallSets ==
    ASSUME NEW f \in Calls, NEW s \in States \cup {None}
    PROVE  LET g == [f EXCEPT !.at = "enter", !.old = s]
           IN  /\ g \in Calls /\ g.at = "enter" /\ g.op = f.op /\ g.b = f.b
               /\ g.old = s /\ g.todo = f.todo /\ g.ok = f.ok /\ g.stale = f.stale
  BY DEF Calls, Places

LEMMA CallNeeds ==
    ASSUME NEW f \in Calls, NEW T \in SUBSET Bundles
    PROVE  LET g == NextNeed([f EXCEPT !.todo = T])
           IN  /\ g \in Calls /\ g.at = (IF T = {} THEN "act" ELSE "needs") /\ g.op = f.op /\ g.b = f.b
               /\ g.old = f.old /\ g.todo = T /\ g.ok = f.ok /\ g.stale = f.stale
<1> DEFINE h == [f EXCEPT !.todo = T]
           a == IF T = {} THEN "act" ELSE "needs"
<1>1. /\ h \in Calls /\ h.op = f.op /\ h.b = f.b /\ h.at = f.at
      /\ h.old = f.old /\ h.todo = T /\ h.ok = f.ok /\ h.stale = f.stale
  BY DEF Calls
<1>2. a \in Places
  BY DEF Places
<1>3. NextNeed(h) = [h EXCEPT !.at = a]
  BY <1>1 DEF NextNeed
<1> HIDE DEF h, a
<1>4. LET g == [h EXCEPT !.at = a]
      IN  /\ g \in Calls /\ g.at = a /\ g.op = h.op /\ g.b = h.b
          /\ g.old = h.old /\ g.todo = h.todo /\ g.ok = h.ok /\ g.stale = h.stale
  BY <1>1, <1>2, CallMoves
<1> QED BY <1>1, <1>3, <1>4 DEF h, a

LEMMA NewCall ==
    ASSUME NEW op \in Ops, NEW b \in Bundles, NEW stale \in BOOLEAN
    PROVE  LET g == Frame(op, b, stale)
           IN  /\ g \in Calls /\ g.at = "check" /\ g.op = op /\ g.b = b
               /\ g.old = None /\ g.todo = {} /\ g.ok = TRUE /\ g.stale = stale
  BY DEF Frame, Calls, Ops, Places, States, None

\* What becomes of the stack of t; the others keep theirs.
Others(t) == stack' \in [Threads -> Seq(Calls)] /\ \A u \in Threads \ {t} : stack'[u] = stack[u]

TopBecomes(t, g) ==
    /\ Others(t) /\ DOMAIN stack'[t] = DOMAIN stack[t] /\ Len(stack'[t]) = Len(stack[t])
    /\ stack'[t][Len(stack[t])] = g
    /\ \A i \in DOMAIN stack[t] : i # Len(stack[t]) => stack'[t][i] = stack[t][i]

LEMMA TopUpdate ==
    ASSUME LoaderTypes, NEW t \in Threads, Busy(t), NEW g \in Calls, SetTop(t, g)
    PROVE  TopBecomes(t, g)
<1>1. stack[t] \in Seq(Calls) /\ Len(stack[t]) \in DOMAIN stack[t]
  BY TopFrame
<1> DEFINE s == [stack[t] EXCEPT ![Len(stack[t])] = g]
<1>2. /\ s \in Seq(Calls) /\ DOMAIN s = DOMAIN stack[t] /\ Len(s) = Len(stack[t])
      /\ s[Len(stack[t])] = g
      /\ \A i \in DOMAIN stack[t] : i # Len(stack[t]) => s[i] = stack[t][i]
  BY <1>1
<1>3. stack' = [stack EXCEPT ![t] = s]
  BY DEF SetTop
<1> HIDE DEF s
<1> QED BY <1>2, <1>3 DEF LoaderTypes, TopBecomes, Others

\* A call begins on an empty stack.
Begins(t, g) ==
    /\ Others(t) /\ stack[t] = <<>> /\ stack'[t] = <<g>>

LEMMA CallBegins ==
    ASSUME LoaderTypes, NEW t \in Threads, ~Busy(t),
           NEW op \in Ops, NEW b \in Bundles, NEW stale \in BOOLEAN,
           Call(t, op, b, stale)
    PROVE  Begins(t, Frame(op, b, stale))
<1>1. Frame(op, b, stale) \in Calls /\ stack' = [stack EXCEPT ![t] = <<Frame(op, b, stale)>>]
  BY NewCall DEF Call
<1> QED BY <1>1 DEF Begins, Others, Busy, LoaderTypes

\* A required Bundle's start is called by the top frame.
Pushes(t, g, h) ==
    /\ Others(t) /\ Len(stack'[t]) = Len(stack[t]) + 1 /\ DOMAIN stack'[t] = 1..(Len(stack[t]) + 1)
    /\ stack'[t][Len(stack[t])] = g /\ stack'[t][Len(stack[t]) + 1] = h
    /\ \A i \in DOMAIN stack[t] : i # Len(stack[t]) => stack'[t][i] = stack[t][i]

LEMMA CallPushes ==
    ASSUME LoaderTypes, NEW t \in Threads, Busy(t), NEW g \in Calls, NEW h \in Calls,
           stack' = [stack EXCEPT ![t] = Append([@ EXCEPT ![Len(@)] = g], h)]
    PROVE  Pushes(t, g, h)
<1>1. stack[t] \in Seq(Calls) /\ Len(stack[t]) \in DOMAIN stack[t] /\ Len(stack[t]) \in Nat
      /\ DOMAIN stack[t] = 1..Len(stack[t])
  BY TopFrame
<1> DEFINE r == [stack[t] EXCEPT ![Len(stack[t])] = g]
           s == Append(r, h)
<1>2. /\ r \in Seq(Calls) /\ DOMAIN r = DOMAIN stack[t] /\ Len(r) = Len(stack[t])
      /\ r[Len(stack[t])] = g
      /\ \A i \in DOMAIN stack[t] : i # Len(stack[t]) => r[i] = stack[t][i]
  BY <1>1
<1>3. stack' = [stack EXCEPT ![t] = s]
  BY DEF LoaderTypes
<1> HIDE DEF r
<1>4. /\ s \in Seq(Calls) /\ Len(s) = Len(r) + 1 /\ s[Len(r) + 1] = h
      /\ \A i \in 1..Len(r) : s[i] = r[i]
  BY <1>2
<1>5. DOMAIN s = 1..(Len(stack[t]) + 1)
  BY <1>2, <1>4
<1> HIDE DEF s
<1>6. stack'[t] = s /\ Others(t)
  BY <1>3, <1>4 DEF LoaderTypes, Others
<1> QED BY <1>1, <1>2, <1>4, <1>5, <1>6 DEF Pushes

\* The top call returns; the one below fails when g is given.
Pops(t) ==
    /\ Others(t) /\ Len(stack'[t]) = Len(stack[t]) - 1 /\ DOMAIN stack'[t] = 1..(Len(stack[t]) - 1)
    /\ \A i \in DOMAIN stack'[t] : stack'[t][i] = stack[t][i]

PopsTo(t, g) ==
    /\ Others(t) /\ Len(stack'[t]) = Len(stack[t]) - 1 /\ DOMAIN stack'[t] = 1..(Len(stack[t]) - 1)
    /\ Len(stack[t]) > 1 /\ stack'[t][Len(stack[t]) - 1] = g
    /\ \A i \in DOMAIN stack'[t] : i # Len(stack[t]) - 1 => stack'[t][i] = stack[t][i]

Fails(t, f, g) ==
    /\ PopsTo(t, g) /\ g.op = f.op /\ g.b = f.b /\ g.old = f.old /\ g.todo = f.todo
    /\ g.stale = f.stale /\ g.ok = FALSE /\ g.at = (IF Len(stack[t]) = 2 THEN "leave" ELSE "done")

LEMMA DonePops ==
    ASSUME LoaderTypes, NEW t \in Threads, Done(t)
    PROVE  \/ (TopCall(t).ok = TRUE \/ Len(stack[t]) = 1) /\ Pops(t)
           \/ /\ TopCall(t).ok = FALSE /\ Len(stack[t]) > 1
              /\ \E g \in Calls : Fails(t, stack[t][Len(stack[t]) - 1], g)
<1> DEFINE n == Len(stack[t])
           rest == SubSeq(stack[t], 1, n - 1)
           e == [rest EXCEPT ![Len(rest)].at = IF Len(rest) = 1 THEN "leave" ELSE "done",
                             ![Len(rest)].ok = FALSE]
<1>0. Busy(t)
  BY DEF Done, At
<1>1. /\ stack[t] \in Seq(Calls) /\ n \in Nat /\ n > 0 /\ DOMAIN stack[t] = 1..n
      /\ TopCall(t) \in Calls
  BY <1>0, TopFrame
<1>7. n = 1 \/ n > 1
  <2>1. n \in Nat /\ n > 0
    BY <1>1
  <2> HIDE DEF n
  <2> QED BY <2>1
<1>2. /\ rest \in Seq(Calls) /\ Len(rest) = n - 1 /\ DOMAIN rest = 1..(n - 1)
      /\ \A i \in 1..(n - 1) : rest[i] = stack[t][i]
  BY <1>1
<1>3. stack' = [stack EXCEPT ![t] =
         IF TopCall(t).ok \/ rest = <<>> THEN rest ELSE e]
  BY DEF Done
<1> HIDE DEF rest, e
<1>4. TopCall(t).ok \in BOOLEAN /\ (rest = <<>> <=> n = 1)
  <2>1. TopCall(t).ok \in BOOLEAN
    BY <1>1 DEF Calls
  <2>2. rest = <<>> <=> Len(rest) = 0
    BY <1>2, EmptySeq
  <2> QED BY <1>1, <1>2, <2>1, <2>2
<1>5. CASE TopCall(t).ok = TRUE \/ n = 1
  <2>1. stack' = [stack EXCEPT ![t] = rest]
    BY <1>3, <1>4, <1>5
  <2>2. stack'[t] = rest /\ Others(t)
    BY <1>2, <2>1 DEF LoaderTypes, Others
  <2> QED BY <1>1, <1>2, <1>5, <2>2 DEF Pops
<1>6. CASE TopCall(t).ok = FALSE /\ n > 1
  <2> DEFINE a == IF Len(rest) = 1 THEN "leave" ELSE "done"
             k == Len(rest)
             g == [rest[k] EXCEPT !.at = a, !.ok = FALSE]
             s == [rest EXCEPT ![k] = g]
  <2>1. a \in Places /\ a = (IF n = 2 THEN "leave" ELSE "done")
    BY <1>1, <1>2 DEF Places
  <2>2. rest[n - 1] \in Calls /\ rest[n - 1] = stack[t][n - 1] /\ n - 1 \in DOMAIN rest
    BY <1>1, <1>2, <1>6
  <2>3. stack' = [stack EXCEPT ![t] = s]
    <3>1. e = s
      <4>1. rest[k] \in Calls /\ k \in DOMAIN rest /\ rest \in Seq(Calls)
        BY <1>2, <2>2
      <4>2. e = [rest EXCEPT ![k].at = a, ![k].ok = FALSE]
        BY DEF e
      <4> HIDE DEF a, k
      <4> QED BY <4>1, <4>2 DEF Calls
    <3> HIDE DEF s
    <3>2. n # 1
      <4>1. n \in Nat /\ n > 1
        BY <1>1, <1>6
      <4> HIDE DEF n
      <4> QED BY <4>1
    <3> QED BY <1>3, <1>4, <1>6, <3>1, <3>2
  <2> HIDE DEF a
  <2>0. k = n - 1
    BY <1>2
  <2> HIDE DEF k
  <2>4. /\ g \in Calls /\ g.at = a /\ g.op = rest[k].op /\ g.b = rest[k].b
        /\ g.old = rest[k].old /\ g.todo = rest[k].todo /\ g.ok = FALSE /\ g.stale = rest[k].stale
    BY <2>0, <2>1, <2>2, CallFails
  <2> HIDE DEF g
  <2>5. /\ s \in Seq(Calls) /\ Len(s) = n - 1 /\ DOMAIN s = 1..(n - 1) /\ s[n - 1] = g
        /\ \A i \in 1..(n - 1) : i # n - 1 => s[i] = rest[i]
    BY <1>1, <1>2, <2>0, <2>2, <2>4
  <2> HIDE DEF s
  <2>6. stack'[t] = s /\ Others(t)
    BY <2>3, <2>5 DEF LoaderTypes, Others
  <2>7. PopsTo(t, g)
    BY <1>1, <1>2, <1>6, <2>5, <2>6 DEF PopsTo
  <2>8. Fails(t, stack[t][n - 1], g)
    BY <2>0, <2>1, <2>2, <2>4, <2>7 DEF Fails
  <2> QED BY <1>6, <2>4, <2>8
<1> QED BY <1>4, <1>5, <1>6, <1>7

\* The top call of t goes on.
TopStep(t, g) ==
    /\ Busy(t) /\ TopBecomes(t, g) /\ g \in Calls /\ Formed(g)
    /\ g.op = TopCall(t).op /\ g.b = TopCall(t).b /\ g.stale = TopCall(t).stale
    /\ (g.at = "leave" => Len(stack[t]) = 1)

LEMMA TopFrames ==
    ASSUME LoaderTypes, Frames, NEW t \in Threads, NEW g, TopStep(t, g),
           \A u \in Threads \ {t} : owner = u => owner' = u,
           Len(stack[t]) > 1 \/ g.at \in {"needs", "act", "join"} => owner' = t,
           known' = known \/ (owner = t /\ Len(stack[t]) = 1),
           g.at \in {"needs", "act", "join"} /\ g.op \in {"start", "stop"} => g.b \in known'
    PROVE  Frames'
<1> DEFINE n == Len(stack[t])
<1>1. /\ n \in DOMAIN stack[t] /\ n \in Nat /\ n > 0 /\ DOMAIN stack[t] = 1..n
      /\ TopCall(t) = stack[t][n]
  BY TopFrame DEF TopStep
<1>2. ASSUME NEW u \in Threads, NEW i \in DOMAIN stack'[u]
      PROVE  LET f == stack'[u][i]
             IN  /\ Formed(f)
                 /\ i < Len(stack'[u]) => f.op = "start" /\ f.at \in {"needs", "act"}
                 /\ i > 1 => f.op = "start" /\ f.at # "leave"
                 /\ i > 1 \/ f.at \in {"needs", "act", "join"} => owner' = u
                 /\ f.at \in {"needs", "act", "join"} /\ f.op \in {"start", "stop"} => f.b \in known'
  <2>1. CASE u # t
    <3>1. stack'[u] = stack[u]
      BY <2>1 DEF TopStep, TopBecomes, Others
    <3>2. i > 1 \/ stack[u][i].at \in {"needs", "act", "join"} => owner = u
      BY <1>2, <3>1 DEF Frames, Holds
    <3> QED BY <1>2, <2>1, <3>1, <3>2 DEF Frames
  <2>2. CASE u = t /\ i = n
    <3>1. stack'[u][i] = g /\ Len(stack'[u]) = n
      BY <2>2 DEF TopStep, TopBecomes
    <3>2. i > 1 => g.op = "start"
      BY <1>1, <2>2 DEF Frames, TopStep
    <3> QED BY <1>1, <2>2, <3>1, <3>2 DEF TopStep
  <2>3. CASE u = t /\ i # n
    <3>1. /\ stack'[u][i] = stack[t][i] /\ Len(stack'[u]) = n /\ i \in DOMAIN stack[t] /\ i < n
          /\ n > 1
      BY <1>1, <1>2, <2>3 DEF TopStep, TopBecomes
    <3>2. owner' = t /\ known' = known
      BY <1>1, <3>1
    <3> QED BY <2>3, <3>1, <3>2 DEF Frames
  <2> QED BY <2>1, <2>2, <2>3
<1> QED BY <1>2 DEF Frames, Holds, Formed, Threads, Servants

\* The frames after a step of the top call are those before, but for the top.
LEMMA TopOthers ==
    ASSUME LoaderTypes, NEW t \in Threads, NEW g, TopStep(t, g),
           NEW u \in Threads, NEW i \in DOMAIN stack'[u]
    PROVE  /\ i \in DOMAIN stack[u] /\ stack'[u][i].b = stack[u][i].b /\ stack'[u][i].op = stack[u][i].op
           /\ (u = t /\ i = Len(stack[t]) => stack'[u][i] = g /\ stack[u][i] = TopCall(t))
           /\ (~(u = t /\ i = Len(stack[t])) => stack'[u][i] = stack[u][i])
<1>1. TopCall(t) = stack[t][Len(stack[t])] /\ Len(stack[t]) \in DOMAIN stack[t]
  BY TopFrame DEF TopStep
<1>2. CASE u # t
  BY <1>2 DEF TopStep, TopBecomes, Others
<1>3. CASE u = t
  BY <1>1, <1>3 DEF TopStep, TopBecomes
<1> QED BY <1>2, <1>3

LEMMA TopBack ==
    ASSUME LoaderTypes, NEW t \in Threads, NEW g, TopStep(t, g)
    PROVE  /\ \A u \in Threads : DOMAIN stack'[u] = DOMAIN stack[u] /\ (stack'[u] = <<>> <=> stack[u] = <<>>)
           /\ Len(stack[t]) \in DOMAIN stack[t] /\ stack'[t][Len(stack[t])] = g
<1>1. Len(stack[t]) \in DOMAIN stack[t] /\ stack[t] # <<>>
  BY TopFrame DEF TopStep, Busy
<1>2. stack'[t] # <<>> /\ DOMAIN stack'[t] = DOMAIN stack[t] /\ stack'[t][Len(stack[t])] = g
  BY <1>1 DEF TopStep, TopBecomes
<1> QED BY <1>1, <1>2 DEF TopStep, TopBecomes, Others

LEMMA SoleCall ==
    ASSUME Sole, NEW u \in Threads, NEW v \in Threads, NEW i \in DOMAIN stack[u], NEW j \in DOMAIN stack[v],
           Passed(stack[u][i]), Passed(stack[v][j]),
           stack[u][i].b = stack[v][j].b, stack[u][i].b \notin raced
    PROVE  u = v /\ i = j
  BY Zenon DEF Sole

LEMMA TopSole ==
    ASSUME LoaderTypes, Sole, NEW t \in Threads, NEW g, TopStep(t, g), raced \subseteq raced',
           Passed(g) => Passed(TopCall(t)) \/ g.b \in raced' \/ Free(g.b)
    PROVE  Sole'
<1>1. ASSUME NEW u \in Threads, NEW v \in Threads,
             NEW i \in DOMAIN stack'[u], NEW j \in DOMAIN stack'[v],
             Passed(stack'[u][i]), Passed(stack'[v][j]),
             stack'[u][i].b = stack'[v][j].b, stack'[u][i].b \notin raced'
      PROVE  u = v /\ i = j
  <2>1. /\ i \in DOMAIN stack[u] /\ stack'[u][i].b = stack[u][i].b
        /\ (u = t /\ i = Len(stack[t]) => stack'[u][i] = g /\ stack[u][i] = TopCall(t))
        /\ (~(u = t /\ i = Len(stack[t])) => stack'[u][i] = stack[u][i])
    BY TopOthers
  <2>2. /\ j \in DOMAIN stack[v] /\ stack'[v][j].b = stack[v][j].b
        /\ (v = t /\ j = Len(stack[t]) => stack'[v][j] = g /\ stack[v][j] = TopCall(t))
        /\ (~(v = t /\ j = Len(stack[t])) => stack'[v][j] = stack[v][j])
    BY TopOthers
  <2>3. CASE Passed(stack[u][i]) /\ Passed(stack[v][j])
    <3>1. stack[u][i].b = stack[v][j].b /\ stack[u][i].b \notin raced
      BY <1>1, <2>1, <2>2
    <3>2. i \in DOMAIN stack[u] /\ j \in DOMAIN stack[v]
      BY <2>1, <2>2
    <3> QED BY <2>3, <3>1, <3>2, SoleCall
  <2>4. CASE ~Passed(stack[u][i]) /\ ~(v = t /\ j = Len(stack[t]))
    <3>1. u = t /\ i = Len(stack[t]) /\ Free(g.b)
      BY <1>1, <2>1, <2>4
    <3> QED BY <1>1, <2>1, <2>2, <2>4, <3>1 DEF Free
  <2>5. CASE ~Passed(stack[v][j]) /\ ~(u = t /\ i = Len(stack[t]))
    <3>1. v = t /\ j = Len(stack[t]) /\ Free(g.b)
      BY <1>1, <2>2, <2>5
    <3> QED BY <1>1, <2>1, <2>2, <2>5, <3>1 DEF Free
  <2> QED BY <1>1, <2>1, <2>2, <2>3, <2>4, <2>5
<1> QED BY <1>1 DEF Sole, Threads, Servants, Passed, None

\* What a step says of the Bundle it works on.
TopTells(t, g) ==
    \/ /\ Passed(g) /\ Tells(g, state'[g.b], up'[g.b], library'[g.b])
       /\ Passed(TopCall(t)) \/ Free(g.b)
    \/ Passed(TopCall(t)) /\ ~Passed(g) /\ Rests(state'[g.b], up'[g.b], library'[g.b])
    \/ ~Passed(g) /\ ~Passed(TopCall(t)) /\ state'[g.b] = state[g.b] /\ up'[g.b] = up[g.b] /\ library'[g.b] = library[g.b]

\* What a step may do to another Bundle: resolve it.
Kept(c) ==
    /\ up'[c] = up[c] /\ library'[c] = library[c] /\ (c \in known => c \in known')
    /\ state'[c] = state[c] \/ c \in raced' \/ (Free(c) /\ Rests(state'[c], up'[c], library'[c]))

LEMMA TopTruth ==
    ASSUME LoaderTypes, Truth, Sole, NEW t \in Threads, NEW g, TopStep(t, g), raced \subseteq raced',
           \A c \in Bundles : c # g.b => Kept(c),
           g.b \notin raced' => TopTells(t, g) /\ (g.b \notin known' => up'[g.b] = FALSE)
    PROVE  Truth'
<1>0. g.b \in Bundles
  BY DEF TopStep, Calls
<1>1. ASSUME NEW u \in Threads, NEW i \in DOMAIN stack'[u],
             Passed(stack'[u][i]), stack'[u][i].b \notin raced'
      PROVE  Tells(stack'[u][i], state'[stack'[u][i].b], up'[stack'[u][i].b], library'[stack'[u][i].b])
  <2> DEFINE b == stack'[u][i].b
  <2>1. /\ i \in DOMAIN stack[u] /\ b = stack[u][i].b
        /\ (u = t /\ i = Len(stack[t]) => stack'[u][i] = g /\ stack[u][i] = TopCall(t))
        /\ (~(u = t /\ i = Len(stack[t])) => stack'[u][i] = stack[u][i])
    BY TopOthers
  <2>2. CASE u = t /\ i = Len(stack[t])
    BY <1>1, <2>1, <2>2 DEF TopTells
  <2>3. CASE ~(u = t /\ i = Len(stack[t])) /\ state'[b] = state[b] /\ up'[b] = up[b] /\ library'[b] = library[b]
    <3>1. Passed(stack[u][i]) /\ b \notin raced
      BY <1>1, <2>1, <2>3
    <3>2. Tells(stack[u][i], state[stack[u][i].b], up[stack[u][i].b], library[stack[u][i].b])
      BY <2>1, <3>1 DEF Truth
    <3> QED BY <2>1, <2>3, <3>2
  <2>4. CASE ~(u = t /\ i = Len(stack[t])) /\ b = g.b
    <3>1. Passed(stack[u][i]) /\ b \notin raced /\ stack[u][i].b = g.b
      BY <1>1, <2>1, <2>4
    <3>2. TopCall(t) = stack[t][Len(stack[t])] /\ Len(stack[t]) \in DOMAIN stack[t]
      BY TopFrame DEF TopStep
    <3>3. ~Free(g.b)
      BY <2>1, <3>1 DEF Free
    <3>4. ~Passed(TopCall(t))
      BY <2>1, <2>4, <3>1, <3>2 DEF Sole, TopStep
    <3>5. state'[b] = state[b] /\ up'[b] = up[b] /\ library'[b] = library[b]
      BY <1>1, <2>4, <3>3, <3>4 DEF TopTells
    <3> QED BY <2>3, <2>4, <3>5
  <2>5. b \in Bundles
    <3>1. stack'[u] \in Seq(Calls)
      BY DEF TopStep, TopBecomes, Others
    <3>2. stack'[u][i] \in Calls
      BY <3>1
    <3> QED BY <3>2 DEF Calls
  <2>6. CASE ~(u = t /\ i = Len(stack[t])) /\ b # g.b
    <3>1. Passed(stack[u][i]) /\ b \notin raced /\ stack[u][i].b = b
      BY <1>1, <2>1, <2>6
    <3>2. ~Free(b)
      BY <2>1, <3>1 DEF Free
    <3> QED BY <1>1, <2>3, <2>5, <2>6, <3>2 DEF Kept
  <2> QED BY <2>2, <2>4, <2>6
<1>2. ASSUME NEW c \in Bundles \ raced', Free(c)' PROVE Rests(state'[c], up'[c], library'[c])
  <2>1. ASSUME NEW u \in Threads, NEW i \in DOMAIN stack[u], ~(u = t /\ i = Len(stack[t])), stack[u][i].b = c
        PROVE  ~Passed(stack[u][i])
    <3>1. i \in DOMAIN stack'[u]
      BY TopBack
    <3>2. stack'[u][i] = stack[u][i]
      BY <2>1, <3>1, TopOthers
    <3> QED BY <1>2, <2>1, <3>1, <3>2 DEF Free, Threads, Servants, Passed, None
  <2>2. c = g.b => ~Passed(g)
    BY <1>2, TopBack DEF Free, Threads, Servants, Passed, None
  <2>3. TopCall(t) = stack[t][Len(stack[t])] /\ TopCall(t).b = g.b
    BY TopFrame DEF TopStep
  <2>4. \/ Free(c) /\ state'[c] = state[c] /\ up'[c] = up[c] /\ library'[c] = library[c]
        \/ Rests(state'[c], up'[c], library'[c])
    <3>1. CASE c = g.b
      BY <1>2, <2>1, <2>2, <2>3, <3>1 DEF TopTells, Free
    <3>2. CASE c # g.b
      BY <1>2, <2>1, <2>3, <3>2 DEF Free, Kept
    <3> QED BY <3>1, <3>2
  <2>5. Free(c) => Rests(state[c], up[c], library[c])
    BY <1>2 DEF Truth
  <2> QED BY <2>4, <2>5
<1>3. ASSUME NEW c \in Bundles \ raced', c \notin known' PROVE up'[c] = FALSE
  BY <1>3 DEF Truth, Kept
<1>4. ASSUME NEW c \in Bundles \ raced' PROVE Free(c)' => Rests(state'[c], up'[c], library'[c])
  BY <1>2
<1>5. ASSUME NEW u \in Threads, NEW i \in DOMAIN stack'[u],
             Passed(stack'[u][i]) /\ stack'[u][i].b \notin raced'
      PROVE  Tells(stack'[u][i], state'[stack'[u][i].b], up'[stack'[u][i].b], library'[stack'[u][i].b])
  BY <1>1, <1>5
<1>6. ASSUME NEW c \in Bundles \ raced' PROVE c \notin known' => up'[c] = FALSE
  BY <1>3
<1>7. (\A c \in Bundles \ raced : Free(c) => Rests(state[c], up[c], library[c]))'
  BY <1>4 DEF Rests, Runs
<1>8. (\A u \in Threads : \A i \in DOMAIN stack[u] :
          Passed(stack[u][i]) /\ stack[u][i].b \notin raced
          => Tells(stack[u][i], state[stack[u][i].b], up[stack[u][i].b], library[stack[u][i].b]))'
  BY <1>5, Zenon DEF Tells, Runs, Passed, None, Threads, Servants, Started
<1> QED BY <1>6, <1>7, <1>8 DEF Truth

LEMMA TopCallers ==
    ASSUME LoaderTypes, Callers, NEW t \in Threads, NEW g, TopStep(t, g), UNCHANGED <<job, stage>>
    PROVE  Callers'
<1>1. ASSUME NEW i \in DOMAIN stack'[Control]
      PROVE  \/ stage = "startAll" /\ stack'[Control][i].op = "start"
             \/ Stopping /\ i = 1 /\ stack'[Control][i].op \in {"stop", "unload"} /\ job[Control].threw = FALSE
  BY TopOthers, LoaderThreads DEF Callers
<1> QED BY <1>1 DEF Callers, Stopping

\* A step of a call that leaves the rest alone but what it is told here.
LEMMA TopInv ==
    ASSUME LoaderInv, NEW t \in Threads, NEW g, TopStep(t, g),
           UNCHANGED <<job, stage>>, disk' \subseteq disk, known' \subseteq known, NeedsTyped',
           state' \in [Bundles -> States], up' \in [Bundles -> BOOLEAN],
           library' \in [Bundles -> {"none", "loaded", "broken"}],
           \A u \in Threads \ {t} : owner = u => owner' = u,
           Len(stack[t]) > 1 \/ g.at \in {"needs", "act", "join"} => owner' = t,
           known' = known \/ (owner = t /\ Len(stack[t]) = 1),
           g.at \in {"needs", "act", "join"} /\ g.op \in {"start", "stop"} => g.b \in known',
           raced \subseteq raced', raced' \subseteq Bundles,
           Passed(g) => Passed(TopCall(t)) \/ g.b \in raced' \/ Free(g.b),
           \A c \in Bundles : c # g.b => Kept(c),
           g.b \notin raced' => TopTells(t, g) /\ (g.b \notin known' => up'[g.b] = FALSE)
    PROVE  LoaderInv'
<1>1. LoaderTypes'
  BY DEF LoaderInv, LoaderTypes, TopStep, TopBecomes, Others, Threads, Servants, Calls, Ops, Places, States, None
<1>2. Jobs'
  BY DEF LoaderInv, Jobs, JobSet, Threads, Servants, None
<1>3. Frames'
  BY TopFrames DEF LoaderInv
<1>4. Callers'
  BY TopCallers DEF LoaderInv
<1>5. Truth'
  BY TopTruth DEF LoaderInv
<1>6. Sole'
  BY TopSole DEF LoaderInv
<1> QED BY <1>1, <1>2, <1>3, <1>4, <1>5, <1>6 DEF LoaderInv

\* What the invariant says of the top call of a thread.
LEMMA TopFacts ==
    ASSUME LoaderInv, NEW t \in Threads, Busy(t)
    PROVE  LET f == TopCall(t) IN
           /\ f \in Calls /\ Formed(f) /\ f.b \in Bundles
           /\ Len(stack[t]) \in Nat /\ Len(stack[t]) > 0
           /\ Len(stack[t]) > 1 => owner = t /\ f.op = "start" /\ f.at # "leave"
           /\ f.at \in {"needs", "act", "join"} => owner = t
           /\ f.at \in {"needs", "act", "join"} /\ f.op \in {"start", "stop"} => f.b \in known
           /\ f.b \notin raced /\ Passed(f) => Tells(f, state[f.b], up[f.b], library[f.b])
           /\ f.b \notin raced /\ f.b \notin known => up[f.b] = FALSE
<1> DEFINE n == Len(stack[t])
<1>1. /\ TopCall(t) \in Calls /\ TopCall(t) = stack[t][n] /\ n \in DOMAIN stack[t] /\ n \in Nat /\ n > 0
  BY TopFrame DEF LoaderInv
<1>2. /\ Formed(stack[t][n])
      /\ n > 1 => stack[t][n].op = "start" /\ stack[t][n].at # "leave"
      /\ Holds(t, n) => owner = t
      /\ stack[t][n].at \in {"needs", "act", "join"} /\ stack[t][n].op \in {"start", "stop"} => stack[t][n].b \in known
  BY <1>1 DEF LoaderInv, Frames
<1>3. TopCall(t).b \in Bundles
  BY <1>1 DEF Calls
<1>4. /\ TopCall(t).b \notin raced /\ Passed(TopCall(t)) => Tells(TopCall(t), state[TopCall(t).b], up[TopCall(t).b], library[TopCall(t).b])
      /\ TopCall(t).b \notin raced /\ TopCall(t).b \notin known => up[TopCall(t).b] = FALSE
  BY <1>1, <1>3 DEF LoaderInv, Truth
<1> QED BY <1>1, <1>2, <1>3, <1>4 DEF Holds

\* A Bundle whose activator is up is in a started state, and one in the
\* state "active" is up, or has no activator.
LEMMA UpIsStarted ==
    ASSUME LoaderInv, NEW b \in Bundles \ raced
    PROVE  (up[b] = TRUE => state[b] \in Started) /\ (state[b] = "active" => Runs(up[b], library[b]))
<1>1. CASE Free(b)
  <2>1. Rests(state[b], up[b], library[b])
    BY <1>1 DEF LoaderInv, Truth
  <2> QED BY <2>1 DEF Rests, Started, Runs
<1>2. CASE ~Free(b)
  <2>0. PICK u \in Threads : \E i \in DOMAIN stack[u] : stack[u][i].b = b /\ Passed(stack[u][i])
    BY <1>2 DEF Free
  <2>1. PICK i \in DOMAIN stack[u] : stack[u][i].b = b /\ Passed(stack[u][i])
    BY <2>0
  <2>2. Tells(stack[u][i], state[b], up[b], library[b])
    BY <2>1 DEF LoaderInv, Truth
  <2>3. stack[u][i] \in Calls
    BY DEF LoaderInv, LoaderTypes
  <2>4. stack[u][i].op \in Ops
    BY <2>3 DEF Calls
  <2>5. up[b] \in BOOLEAN
    BY DEF LoaderInv, LoaderTypes
  <2> QED BY <2>2, <2>4, <2>5 DEF Tells, Started, Ops, Runs
<1> QED BY <1>1, <1>2

LEMMA ExitPlace ==
    ASSUME NEW t
    PROVE  Exit(t) \in {"leave", "done"} /\ (Exit(t) = "leave" => Len(stack[t]) = 1)
  BY DEF Exit

\* A call that goes on, or fails.
Moves(t, g, a, ok) ==
    /\ TopBecomes(t, g) /\ g.at = a /\ g.op = TopCall(t).op /\ g.b = TopCall(t).b
    /\ g.old = TopCall(t).old /\ g.todo = TopCall(t).todo /\ g.ok = ok /\ g.stale = TopCall(t).stale

LEMMA GoesOn ==
    ASSUME LoaderInv, NEW t \in Threads, Busy(t), NEW a \in Places, Goto(t, a)
    PROVE  \E g \in Calls : Moves(t, g, a, TopCall(t).ok)
<1> DEFINE g == [TopCall(t) EXCEPT !.at = a]
<1>1. TopCall(t) \in Calls /\ LoaderTypes
  BY TopFrame DEF LoaderInv
<1>2. /\ g \in Calls /\ g.at = a /\ g.op = TopCall(t).op /\ g.b = TopCall(t).b
      /\ g.old = TopCall(t).old /\ g.todo = TopCall(t).todo /\ g.ok = TopCall(t).ok
      /\ g.stale = TopCall(t).stale
  BY <1>1, CallMoves
<1>3. SetTop(t, g)
  BY DEF Goto
<1> HIDE DEF g
<1>4. TopBecomes(t, g)
  BY <1>1, <1>2, <1>3, TopUpdate
<1> QED BY <1>2, <1>4 DEF Moves

LEMMA Throws ==
    ASSUME LoaderInv, NEW t \in Threads, Busy(t), Throw(t)
    PROVE  \E g \in Calls : Moves(t, g, Exit(t), FALSE)
<1> DEFINE a == Exit(t)
           g == [TopCall(t) EXCEPT !.at = a, !.ok = FALSE]
<1>0. a \in Places
  BY ExitPlace DEF Places
<1>1. TopCall(t) \in Calls /\ LoaderTypes
  BY TopFrame DEF LoaderInv
<1>2. /\ g \in Calls /\ g.at = a /\ g.op = TopCall(t).op /\ g.b = TopCall(t).b
      /\ g.old = TopCall(t).old /\ g.todo = TopCall(t).todo /\ g.ok = FALSE
      /\ g.stale = TopCall(t).stale
  <2> HIDE DEF a
  <2> QED BY <1>0, <1>1, CallFails
<1>3. SetTop(t, g)
  BY DEF Throw
<1> HIDE DEF g
<1>4. TopBecomes(t, g)
  BY <1>1, <1>2, <1>3, TopUpdate
<1> QED BY <1>2, <1>4 DEF Moves

\* A call that fails: an activator or the file may have failed after the
\* library was loaded or unloaded, and a resolve has resolved others.
LEMMA ThrowInv ==
    ASSUME LoaderInv, NEW t \in Threads, Busy(t), Throw(t),
           TopCall(t).at \in {"check", "enter", "needs", "act"},
           UNCHANGED <<disk, known, up, job, stage>>, NeedsTyped',
           state' \in [Bundles -> States], library' \in [Bundles -> {"none", "loaded", "broken"}],
           raced \subseteq raced', raced' \subseteq Bundles,
           owner' = owner \/ (owner = Nobody /\ owner' = t),
           \A c \in Bundles : c # TopCall(t).b => Kept(c),
           TopCall(t).b \notin raced' => state'[TopCall(t).b] = state[TopCall(t).b],
           \/ library'[TopCall(t).b] = library[TopCall(t).b]
           \/ TopCall(t).at = "act" /\ TopCall(t).op # "stop"
    PROVE  LoaderInv'
<1> DEFINE f == TopCall(t)
<1>1. PICK g \in Calls : /\ TopBecomes(t, g) /\ g.at = Exit(t) /\ g.op = f.op /\ g.b = f.b
                         /\ g.old = f.old /\ g.todo = f.todo /\ g.ok = FALSE /\ g.stale = f.stale
  BY Throws DEF Moves
<1>2. /\ f \in Calls /\ Formed(f) /\ f.b \in Bundles
      /\ Len(stack[t]) > 1 => owner = t /\ f.op = "start" /\ f.at # "leave"
      /\ f.at \in {"needs", "act", "join"} => owner = t
      /\ f.b \notin raced /\ Passed(f) => Tells(f, state[f.b], up[f.b], library[f.b])
      /\ f.b \notin raced /\ f.b \notin known => up[f.b] = FALSE
  BY TopFacts
<1>3. g.at \in {"leave", "done"} /\ (g.at = "leave" => Len(stack[t]) = 1)
  BY <1>1, ExitPlace
<1>4. f.at = "check" => f.old = None
  BY <1>2 DEF Formed
<1>5. f.at # "check" => f.ok = TRUE /\ (f.op \in {"start", "stop"} => f.old # None)
  BY <1>2 DEF Formed
<1>6. f.op \notin {"start", "stop"} => f.old = None
  BY <1>2 DEF Formed
<1>7. Formed(g)
  BY <1>1, <1>2, <1>3, <1>4, <1>5, <1>6 DEF Formed
<1>8. TopStep(t, g)
  BY <1>1, <1>3, <1>7 DEF TopStep
<1>9. Passed(g) => Passed(f)
  BY <1>1, <1>4, <1>5 DEF Passed
<1>10. ASSUME g.b \notin raced' PROVE TopTells(t, g)
  <2>0. f.b \notin raced /\ state'[f.b] = state[f.b] /\ up'[f.b] = up[f.b]
    BY <1>1, <1>10
  <2>1. CASE f.at = "check"
    <3>1. ~Passed(f) /\ ~Passed(g) /\ library'[f.b] = library[f.b]
      BY <1>1, <1>4, <2>1 DEF Passed
    <3> QED BY <1>1, <2>0, <3>1 DEF TopTells
  <2>2. CASE f.at # "check"
    <3>1. Passed(f) /\ Tells(f, state[f.b], up[f.b], library[f.b]) /\ f.at \in {"enter", "needs", "act"}
      BY <1>2, <1>5, <2>0, <2>2 DEF Passed
    <3>2. CASE f.op \in {"start", "stop"}
      <4>1. Passed(g)
        BY <1>1, <1>3, <1>5, <2>2, <3>2 DEF Passed
      <4>2. Tells(g, state[g.b], up[g.b], library'[g.b])
        BY <1>1, <1>3, <3>1, <3>2 DEF Tells, Runs
      <4> QED BY <1>1, <2>0, <3>1, <4>1, <4>2 DEF TopTells
    <3>3. CASE f.op \notin {"start", "stop"}
      <4>1. ~Passed(g)
        BY <1>1, <1>6, <3>3 DEF Passed
      <4>2. Rests(state[g.b], up[g.b], library'[g.b])
        BY <1>1, <3>1, <3>3 DEF Tells, Rests, Started
      <4> QED BY <1>1, <2>0, <3>1, <4>1, <4>2 DEF TopTells
    <3> QED BY <3>2, <3>3
  <2> QED BY <2>1, <2>2
<1>11. \A u \in Threads \ {t} : owner = u => owner' = u
  BY LoaderThreads
<1>12. Len(stack[t]) > 1 \/ g.at \in {"needs", "act", "join"} => owner' = t
  BY <1>2, <1>3
<1>13. up' \in [Bundles -> BOOLEAN]
  BY DEF LoaderInv, LoaderTypes
<1>14. /\ \A c \in Bundles : c # g.b => Kept(c)
       /\ g.at \notin {"needs", "act", "join"} /\ known' \subseteq known /\ disk' \subseteq disk
       /\ g.b \notin raced' => TopTells(t, g) /\ (g.b \notin known' => up'[g.b] = FALSE)
  BY <1>1, <1>2, <1>3, <1>10
<1> HIDE DEF f
<1> QED BY <1>8, <1>9, <1>11, <1>12, <1>13, <1>14, TopInv DEF f

\* A call that fails and changes nothing else.
LEMMA ThrowOnly ==
    ASSUME LoaderInv, NEW t \in Threads, Busy(t), Throw(t),
           TopCall(t).at \in {"check", "enter", "needs", "act"},
           UNCHANGED <<disk, known, state, needs, up, library, job, stage, raced>>,
           owner' = owner \/ (owner = Nobody /\ owner' = t)
    PROVE  LoaderInv'
<1>1. LoaderTypes
  BY DEF LoaderInv
<1>2. \A c \in Bundles : Kept(c)
  BY DEF Kept
<1>3. NeedsTyped' /\ raced' \subseteq Bundles /\ raced \subseteq raced'
  BY <1>1 DEF LoaderTypes, NeedsTyped
<1>4. state' \in [Bundles -> States] /\ library' \in [Bundles -> {"none", "loaded", "broken"}]
  BY <1>1 DEF LoaderTypes
<1> QED BY <1>2, <1>3, <1>4, ThrowInv

LEMMA LoaderCheck ==
    ASSUME LoaderInv, NEW t \in Threads, Check(t) PROVE LoaderInv'
<1> DEFINE f == TopCall(t)
           b == f.b
           a == IF f.op \in {"uninstall", "unload"} THEN "enter" ELSE "set"
<1>0. /\ Busy(t) /\ f.at = "check"
      /\ UNCHANGED <<disk, known, state, needs, up, owner, job, stage, library>>
  BY DEF Check, At
<1>1. CASE Throw(t) /\ UNCHANGED raced
  BY <1>0, <1>1, ThrowOnly
<1>2. CASE /\ TRUE \in Looks(f.stale, b, Expected(f.op)) /\ Goto(t, a)
           /\ raced' = IF f.stale \/ Called(b) THEN raced \cup {b} ELSE raced
  <2>0. a \in Places /\ a # "check" /\ a \in {"enter", "set"}
    BY DEF Places
  <2>1. PICK g \in Calls : /\ TopBecomes(t, g) /\ g.at = a /\ g.op = f.op /\ g.b = f.b
                           /\ g.old = f.old /\ g.todo = f.todo /\ g.ok = f.ok /\ g.stale = f.stale
    <3> HIDE DEF a
    <3> QED BY <1>0, <1>2, <2>0, GoesOn DEF Moves
  <2>2. /\ f \in Calls /\ Formed(f) /\ f.b \in Bundles
        /\ Len(stack[t]) > 1 => owner = t /\ f.op = "start" /\ f.at # "leave"
        /\ f.b \notin raced /\ f.b \notin known => up[f.b] = FALSE
    BY <1>0, TopFacts
  <2>3. f.ok = TRUE /\ f.old = None /\ f.op \in Ops /\ f.stale \in BOOLEAN
    BY <1>0, <2>2 DEF Formed, Calls
  <2>4. Formed(g)
    BY <2>0, <2>1, <2>2, <2>3 DEF Formed, Ops
  <2>5. TopStep(t, g)
    BY <1>0, <2>0, <2>1, <2>4 DEF TopStep
  <2>6. g.b \in raced' \/ (Free(g.b) /\ f.stale = FALSE)
    BY <1>2, <2>1, <2>3 DEF Free, InCall, Called
  <2>7. raced \subseteq raced' /\ raced' \subseteq Bundles
    BY <1>2, <2>2 DEF LoaderInv, LoaderTypes
  <2>8. Passed(g)
    BY <2>0, <2>1, <2>3 DEF Passed
  <2>9. ASSUME g.b \notin raced' PROVE TopTells(t, g)
    <3>1. Free(b) /\ b \in Bundles \ raced /\ f.stale = FALSE
      BY <2>1, <2>2, <2>6, <2>7, <2>9
    <3>2. Rests(state[b], up[b], library[b])
      BY <3>1 DEF LoaderInv, Truth
    <3>3. up[b] \in BOOLEAN
      BY <2>2 DEF LoaderInv, LoaderTypes
    <3>4. state[b] \in Expected(f.op)
      BY <1>2, <3>1 DEF Looks
    <3>5. f.op = "start" => state[b] = "resolved"
      BY <3>4 DEF Expected
    <3>6. f.op = "stop" => state[b] = "active"
      BY <3>4 DEF Expected
    <3>7. f.op \in {"resolve", "uninstall", "unload"} => state[b] \in {"installed", "resolved", "uninstalled"}
      BY <3>4 DEF Expected
    <3>8. f.op \in {"start", "stop"} => g.at = "set"
      BY <2>1
    <3>9. Tells(g, state[b], up[b], library[b])
      BY <2>1, <2>3, <3>1, <3>2, <3>3, <3>5, <3>6, <3>7, <3>8 DEF Tells, Rests, Started, Ops
    <3> QED BY <1>0, <2>1, <2>8, <3>1, <3>9 DEF TopTells
  <2>10. LoaderTypes
    BY DEF LoaderInv
  <2>11. NeedsTyped'
    BY <1>0, <2>10 DEF LoaderTypes, NeedsTyped
  <2>12. g.at \notin {"needs", "act", "join"}
    BY <2>0, <2>1
  <2>13. \A c \in Bundles : c # g.b => Kept(c)
    BY <1>0 DEF Kept
  <2> HIDE DEF a
  <2> QED BY <1>0, <2>1, <2>2, <2>5, <2>6, <2>7, <2>9, <2>10, <2>11, <2>12, <2>13, TopInv DEF LoaderTypes
<1> QED BY <1>1, <1>2 DEF Check

LEMMA LoaderSet ==
    ASSUME LoaderInv, NEW t \in Threads, Set(t) PROVE LoaderInv'
<1> DEFINE f == TopCall(t)
           o == IF f.op = "resolve" THEN f.old ELSE state[f.b]
           g == [f EXCEPT !.at = "enter", !.old = o]
           mine == IF f.stale THEN {} ELSE {f.b}
<1>0. /\ Busy(t) /\ f.at = "set" /\ SetTop(t, g)
      /\ state' = [b \in Bundles |-> IF b \in mine /\ f.op # "resolve" THEN Passing(f.op) ELSE state[b]]
      /\ needs' = [b \in Bundles |-> IF b \in mine /\ f.op = "resolve" THEN {} ELSE needs[b]]
      /\ UNCHANGED <<disk, known, up, owner, job, stage, library, raced>>
  BY DEF Set, At
<1>1. /\ f \in Calls /\ Formed(f) /\ f.b \in Bundles
      /\ Len(stack[t]) > 1 => owner = t
      /\ f.b \notin raced /\ Passed(f) => Tells(f, state[f.b], up[f.b], library[f.b])
      /\ f.b \notin raced /\ f.b \notin known => up[f.b] = FALSE
  BY <1>0, TopFacts
<1>2. LoaderTypes /\ state[f.b] \in States /\ f.op \in Ops /\ o \in States \cup {None}
  BY <1>1 DEF LoaderInv, LoaderTypes, Calls
<1> HIDE DEF o
<1>3. /\ g \in Calls /\ g.at = "enter" /\ g.op = f.op /\ g.b = f.b
      /\ g.old = o /\ g.todo = f.todo /\ g.ok = f.ok /\ g.stale = f.stale
  BY <1>1, <1>2, CallSets
<1>4. f.ok = TRUE /\ f.old = None
  BY <1>0, <1>1 DEF Formed
<1> HIDE DEF g
<1>5. TopBecomes(t, g)
  BY <1>0, <1>2, <1>3, TopUpdate
<1>6. /\ f.op \in {"start", "stop"} => g.old # None
      /\ f.op \in {"start", "stop"} => g.old = state[f.b]
      /\ f.op = "resolve" => g.old = None
  BY <1>2, <1>3, <1>4, LoaderThreads DEF o
<1>7. Formed(g) /\ Passed(g) /\ Passed(f) /\ f.op \in {"resolve", "start", "stop"}
  BY <1>0, <1>1, <1>3, <1>4, <1>6 DEF Formed, Passed
<1>8. TopStep(t, g)
  BY <1>0, <1>3, <1>5, <1>7 DEF TopStep
<1>9. Passing(f.op) \in States /\ (\A c \in Bundles : c # g.b => state'[c] = state[c])
      /\ state' \in [Bundles -> States] /\ NeedsTyped'
  <2>1. Passing(f.op) \in States
    BY DEF Passing, States
  <2>2. NeedsTyped'
    BY <1>0, <1>2 DEF LoaderTypes, NeedsTyped
  <2> QED BY <1>0, <1>1, <1>2, <1>3, <2>1, <2>2 DEF LoaderTypes
<1>10. ASSUME g.b \notin raced PROVE TopTells(t, g)
  <2>1. Tells(f, state[f.b], up[f.b], library[f.b]) /\ f.stale = FALSE
    BY <1>1, <1>3, <1>7, <1>10 DEF Tells
  <2>2. f.op = "start" => state'[f.b] = "starting"
    BY <1>0, <1>1, <2>1 DEF Passing
  <2>3. f.op = "stop" => state'[f.b] = "stopping"
    BY <1>0, <1>1, <2>1 DEF Passing
  <2>4. f.op = "resolve" => state'[f.b] = state[f.b]
    BY <1>0, <1>1
  <2>5. Tells(g, state'[g.b], up'[g.b], library'[g.b])
    BY <1>0, <1>3, <1>6, <1>7, <2>1, <2>2, <2>3, <2>4 DEF Tells, Runs
  <2> QED BY <1>7, <2>5 DEF TopTells
<1>11. \A c \in Bundles : c # g.b => Kept(c)
  BY <1>0, <1>9 DEF Kept
<1>12. /\ g.at \notin {"needs", "act", "join"} /\ up' \in [Bundles -> BOOLEAN]
       /\ library' \in [Bundles -> {"none", "loaded", "broken"}]
       /\ raced \subseteq raced' /\ raced' \subseteq Bundles /\ disk' \subseteq disk
       /\ known' \subseteq known /\ known' = known
       /\ \A u \in Threads \ {t} : owner = u => owner' = u
       /\ Len(stack[t]) > 1 => owner' = t
       /\ UNCHANGED <<job, stage>>
  BY <1>0, <1>1, <1>2, <1>3 DEF LoaderTypes
<1>13. g.b \notin raced' => TopTells(t, g) /\ (g.b \notin known' => up'[g.b] = FALSE)
  BY <1>0, <1>1, <1>3, <1>10
<1> HIDE DEF f
<1> QED BY <1>7, <1>8, <1>9, <1>11, <1>12, <1>13, TopInv DEF f

\* A step of a call that passed the check; only the stack and the mutex change.
LEMMA CallGoesOn ==
    ASSUME LoaderInv, NEW t \in Threads, NEW g, TopStep(t, g),
           UNCHANGED <<disk, known, state, needs, up, library, job, stage, raced>>,
           \A u \in Threads \ {t} : owner = u => owner' = u,
           Len(stack[t]) > 1 \/ g.at \in {"needs", "act", "join"} => owner' = t,
           g.at \in {"needs", "act", "join"} /\ g.op \in {"start", "stop"} => g.b \in known,
           Passed(g) <=> Passed(TopCall(t)),
           Tells(TopCall(t), state[g.b], up[g.b], library[g.b]) => Tells(g, state[g.b], up[g.b], library[g.b])
    PROVE  LoaderInv'
<1> DEFINE f == TopCall(t)
<1>0. Busy(t) /\ g.b = f.b
  BY DEF TopStep
<1>1. /\ f.b \in Bundles
      /\ f.b \notin raced /\ Passed(f) => Tells(f, state[f.b], up[f.b], library[f.b])
      /\ f.b \notin raced /\ f.b \notin known => up[f.b] = FALSE
  BY <1>0, TopFacts
<1>2. g.b \notin raced => TopTells(t, g)
  BY <1>0, <1>1 DEF TopTells
<1>3. LoaderTypes
  BY DEF LoaderInv
<1>4. NeedsTyped' /\ \A c \in Bundles : Kept(c)
  BY <1>3 DEF LoaderTypes, NeedsTyped, Kept
<1> QED BY <1>0, <1>1, <1>2, <1>3, <1>4, TopInv DEF LoaderTypes

LEMMA LoaderLeave ==
    ASSUME LoaderInv, NEW t \in Threads, Leave(t) PROVE LoaderInv'
<1> DEFINE f == TopCall(t)
<1>0. /\ Busy(t) /\ f.at = "leave" /\ Goto(t, "done")
      /\ owner' = IF owner = t THEN Nobody ELSE owner
      /\ UNCHANGED <<disk, known, state, needs, up, library, job, stage, raced>>
  BY DEF Leave, At, marks
<1>1. /\ Formed(f) /\ (Len(stack[t]) > 1 => f.at # "leave")
  BY <1>0, TopFacts
<1>2. PICK g \in Calls : /\ TopBecomes(t, g) /\ g.at = "done" /\ g.op = f.op /\ g.b = f.b
                         /\ g.old = f.old /\ g.todo = f.todo /\ g.ok = f.ok /\ g.stale = f.stale
  BY <1>0, GoesOn DEF Places, Moves
<1>3. Formed(g) /\ (Passed(g) <=> Passed(f))
  BY <1>0, <1>1, <1>2 DEF Formed, Passed
<1>4. TopStep(t, g)
  BY <1>0, <1>2, <1>3 DEF TopStep
<1>5. ASSUME Tells(f, state[g.b], up[g.b], library[g.b]) PROVE Tells(g, state[g.b], up[g.b], library[g.b])
  BY <1>0, <1>2, <1>5 DEF Tells
<1>6. \A u \in Threads \ {t} : owner = u => owner' = u
  BY <1>0
<1> QED BY <1>0, <1>1, <1>2, <1>3, <1>4, <1>5, <1>6, CallGoesOn

\* The required Bundles are looked at: the call has those of T still to do.
LEMMA LooksAt ==
    ASSUME LoaderInv, NEW t \in Threads, Busy(t), NEW T \in SUBSET Bundles,
           TopCall(t).op = "start", TopCall(t).at \in {"enter", "needs"}
    PROVE  LET f == TopCall(t)
               g == NextNeed([f EXCEPT !.todo = T])
           IN  /\ g \in Calls /\ Formed(g) /\ g.at \in {"needs", "act"}
               /\ g.op = "start" /\ g.b = f.b /\ g.todo = T /\ g.old = f.old /\ g.ok = TRUE
               /\ g.stale = f.stale /\ Passed(g) /\ Passed(f)
               /\ Tells(f, state[g.b], up[g.b], library[g.b]) => Tells(g, state[g.b], up[g.b], library[g.b])
<1> DEFINE f == TopCall(t)
           g == NextNeed([f EXCEPT !.todo = T])
<1>1. f \in Calls /\ Formed(f)
  BY TopFacts
<1>2. /\ g \in Calls /\ g.at = (IF T = {} THEN "act" ELSE "needs") /\ g.op = f.op /\ g.b = f.b
      /\ g.old = f.old /\ g.todo = T /\ g.ok = f.ok /\ g.stale = f.stale
  BY <1>1, CallNeeds
<1> HIDE DEF g
<1>3. f.ok = TRUE /\ f.old # None
  BY <1>1 DEF Formed
<1>4. Formed(g) /\ Passed(g) /\ Passed(f)
  BY <1>2, <1>3 DEF Formed, Passed
<1>5. ASSUME Tells(f, state[g.b], up[g.b], library[g.b]) PROVE Tells(g, state[g.b], up[g.b], library[g.b])
  BY <1>2, <1>5 DEF Tells
<1>6. g.at \in {"needs", "act"}
  BY <1>2
<1> QED BY <1>2, <1>3, <1>4, <1>5, <1>6 DEF g

LEMMA LoaderEnter ==
    ASSUME LoaderInv, NEW t \in Threads, Enter(t) PROVE LoaderInv'
<1> DEFINE f == TopCall(t)
           T == IF f.stale THEN Requires[f.b] ELSE needs[f.b]
           h == NextNeed([f EXCEPT !.todo = T])
<1>0. /\ Busy(t) /\ f.at = "enter" /\ owner \in {t, Nobody} /\ owner' = t
      /\ UNCHANGED <<disk, known, state, needs, up, library, job, stage, raced>>
  BY DEF Enter, At, marks
<1>1. Formed(f) /\ f \in Calls /\ f.b \in Bundles
  BY <1>0, TopFacts
<1>2. \A u \in Threads \ {t} : owner = u => owner' = u
  BY <1>0, LoaderThreads
<1>6. \/ Throw(t)
      \/ f.b \in known /\ f.op = "start" /\ SetTop(t, h)
      \/ (f.b \in known \/ f.op # "stop") /\ f.op # "start" /\ Goto(t, "act")
  BY Zenon DEF Enter
<1> HIDE DEF h
<1>3. CASE Throw(t)
  BY <1>0, <1>3, ThrowOnly
<1>4. CASE f.b \in known /\ f.op = "start" /\ SetTop(t, h)
  <2>1. T \in SUBSET Bundles /\ LoaderTypes
    BY <1>1, LoaderThreads DEF LoaderInv, LoaderTypes, NeedsTyped
  <2> HIDE DEF T
  <2>2. /\ h \in Calls /\ Formed(h) /\ h.at \in {"needs", "act"} /\ h.op = "start" /\ h.b = f.b
        /\ Passed(h) /\ Passed(f) /\ h.stale = f.stale
        /\ Tells(f, state[h.b], up[h.b], library[h.b]) => Tells(h, state[h.b], up[h.b], library[h.b])
    BY <1>0, <1>4, <2>1, LooksAt DEF h
  <2>3. TopBecomes(t, h)
    BY <1>0, <1>4, <2>1, <2>2, TopUpdate
  <2>4. TopStep(t, h)
    BY <1>0, <1>4, <2>2, <2>3 DEF TopStep
  <2> QED BY <1>0, <1>2, <1>4, <2>2, <2>4, CallGoesOn
<1>5. CASE (f.b \in known \/ f.op # "stop") /\ f.op # "start" /\ Goto(t, "act")
  <2>1. PICK g \in Calls : /\ TopBecomes(t, g) /\ g.at = "act" /\ g.op = f.op /\ g.b = f.b
                           /\ g.old = f.old /\ g.todo = f.todo /\ g.ok = f.ok /\ g.stale = f.stale
    BY <1>0, <1>5, GoesOn DEF Places, Moves
  <2>2. Formed(g) /\ (Passed(g) <=> Passed(f))
    BY <1>0, <1>1, <1>5, <2>1 DEF Formed, Passed
  <2>3. TopStep(t, g)
    BY <1>0, <2>1, <2>2 DEF TopStep
  <2>4. ASSUME Tells(f, state[g.b], up[g.b], library[g.b]) PROVE Tells(g, state[g.b], up[g.b], library[g.b])
    BY <1>0, <1>5, <2>1, <2>4 DEF Tells
  <2> QED BY <1>0, <1>2, <1>5, <2>1, <2>2, <2>3, <2>4, CallGoesOn
<1> QED BY <1>3, <1>4, <1>5, <1>6

\* What a call has done to its Bundle when the loader's part is over.
Acted(f, a, b) ==
    /\ state'[b] = state[b]
    /\ a = "join" => up'[b] = up[b] /\ library'[b] = library[b]
    /\ a # "join" /\ f.op = "start" => Runs(up'[b], library'[b])
    /\ a # "join" /\ f.op # "start" => up'[b] = FALSE

LEMMA ActInv ==
    ASSUME LoaderInv, NEW t \in Threads, NEW a \in {Exit(t), "join"}, Busy(t), Goto(t, a),
           TopCall(t).at \in {"act", "join"},
           UNCHANGED <<owner, job, stage>>, disk' \subseteq disk, NeedsTyped',
           state' \in [Bundles -> States], up' \in [Bundles -> BOOLEAN],
           library' \in [Bundles -> {"none", "loaded", "broken"}],
           raced \subseteq raced', raced' \subseteq Bundles,
           \A c \in Bundles : c # TopCall(t).b => Kept(c),
           known' \subseteq known, TopCall(t).op \in {"start", "stop"} => known' = known,
           a = "join" => TopCall(t).op = "stop" /\ TopCall(t).b = Host,
           TopCall(t).b \notin raced' /\ Tells(TopCall(t), state[TopCall(t).b], up[TopCall(t).b], library[TopCall(t).b])
              => Acted(TopCall(t), a, TopCall(t).b)
    PROVE  LoaderInv'
<1> DEFINE f == TopCall(t)
<1>1. /\ f \in Calls /\ Formed(f) /\ f.b \in Bundles /\ owner = t
      /\ Len(stack[t]) \in Nat /\ Len(stack[t]) > 0
      /\ Len(stack[t]) > 1 => f.op = "start"
      /\ f.op \in {"start", "stop"} => f.b \in known
      /\ f.b \notin raced /\ Passed(f) => Tells(f, state[f.b], up[f.b], library[f.b])
  BY TopFacts
<1>2. f.ok = TRUE /\ f.op \in Ops /\ (f.op \in {"start", "stop"} <=> f.old # None)
  BY <1>1 DEF Formed, Calls
<1>3. Exit(t) \in {"leave", "done"} /\ (Exit(t) = "leave" => Len(stack[t]) = 1)
  BY ExitPlace
<1>4. PICK g \in Calls : /\ TopBecomes(t, g) /\ g.at = a /\ g.op = f.op /\ g.b = f.b
                         /\ g.old = f.old /\ g.todo = f.todo /\ g.ok = f.ok /\ g.stale = f.stale
  <2>1. a \in Places
    BY <1>3 DEF Places
  <2> QED BY <2>1, GoesOn DEF Moves
<1>5. /\ Formed(g) /\ Passed(g) /\ Passed(f) /\ (g.at = "leave" => Len(stack[t]) = 1)
      /\ g.at \in {"join", "leave", "done"}
  BY <1>2, <1>3, <1>4 DEF Formed, Passed
<1>6. TopStep(t, g)
  BY <1>4, <1>5 DEF TopStep
<1>7. ASSUME g.b \notin raced'
      PROVE  TopTells(t, g) /\ (g.op \notin {"start", "stop"} => up'[g.b] = FALSE)
  <2>1. Tells(f, state[f.b], up[f.b], library[f.b])
    BY <1>1, <1>4, <1>5, <1>7
  <2>2. Acted(f, a, f.b)
    BY <1>4, <1>7, <2>1
  <2>3. CASE g.at = "join"
    <3>1. g.op = "stop" /\ up'[g.b] = up[g.b] /\ library'[g.b] = library[g.b] /\ state'[g.b] = state[g.b]
      BY <1>3, <1>4, <2>2, <2>3 DEF Acted
    <3>2. Tells(g, state'[g.b], up'[g.b], library'[g.b])
      BY <1>2, <1>4, <2>1, <2>3, <3>1 DEF Tells
    <3> QED BY <1>5, <3>1, <3>2 DEF TopTells
  <2>4. CASE g.at \in {"leave", "done"}
    <3>0. f.at # "set"
      OBVIOUS
    <3>1. Tells(g, state'[g.b], up'[g.b], library'[g.b])
      BY <1>2, <1>4, <2>1, <2>2, <2>4, <3>0 DEF Tells, Acted, Ops
    <3>2. g.op \notin {"start", "stop"} => up'[g.b] = FALSE
      BY <1>4, <2>2, <2>4 DEF Acted
    <3> QED BY <1>5, <3>1, <3>2 DEF TopTells
  <2> QED BY <1>5, <2>3, <2>4
<1>8. \A c \in Bundles : c # g.b => Kept(c)
  BY <1>4
<1>9. Len(stack[t]) = 1 \/ f.op = "start"
  <2> DEFINE n == Len(stack[t])
  <2>1. n \in Nat /\ n > 0 /\ (n > 1 => f.op = "start")
    BY <1>1
  <2> HIDE DEF n, f
  <2>2. n = 1 \/ f.op = "start"
    BY <2>1
  <2> QED BY <2>2 DEF n
<1>10. /\ g.b \notin raced' => TopTells(t, g) /\ (g.b \notin known' => up'[g.b] = FALSE)
       /\ g.at \in {"needs", "act", "join"} /\ g.op \in {"start", "stop"} => g.b \in known'
       /\ known' = known \/ (owner = t /\ Len(stack[t]) = 1)
  BY <1>1, <1>4, <1>7, <1>9
<1>11. Passed(g) => Passed(TopCall(t)) \/ g.b \in raced' \/ Free(g.b)
  BY <1>5
<1>12. owner' = t /\ \A u \in Threads \ {t} : owner = u => owner' = u
  BY <1>1
<1> HIDE DEF f
<1> QED BY <1>6, <1>8, <1>10, <1>11, <1>12, TopInv

LEMMA LoaderActStart ==
    ASSUME LoaderInv, NEW t \in Threads, ActStart(t) PROVE LoaderInv'
<1> DEFINE f == TopCall(t)
<1>0. /\ Busy(t) /\ f.at = "act" /\ f.op = "start"
      /\ UNCHANGED <<disk, known, state, needs, owner, job, stage, raced>>
  BY DEF ActStart, At, marks
<1>1. f.b \in Bundles /\ LoaderTypes
  BY <1>0, TopFacts DEF LoaderInv
<1>2. NeedsTyped' /\ raced' \subseteq Bundles /\ raced \subseteq raced' /\ state' \in [Bundles -> States]
  BY <1>0, <1>1 DEF LoaderTypes, NeedsTyped
<1>3. CASE /\ Goto(t, Exit(t))
           /\ \/ up' = [up EXCEPT ![f.b] = TRUE] /\ library' = [library EXCEPT ![f.b] = "loaded"]
              \/ up' = up /\ library' = library /\ library[f.b] = "broken"
  <2>1. /\ up' \in [Bundles -> BOOLEAN] /\ library' \in [Bundles -> {"none", "loaded", "broken"}]
        /\ \A c \in Bundles : c # f.b => up'[c] = up[c] /\ library'[c] = library[c]
        /\ Runs(up'[f.b], library'[f.b])
    BY <1>1, <1>3 DEF LoaderTypes, Runs
  <2>2. \A c \in Bundles : c # f.b => Kept(c)
    BY <1>0, <2>1 DEF Kept
  <2>3. Exit(t) # "join"
    BY ExitPlace
  <2>4. Acted(f, Exit(t), f.b)
    BY <1>0, <2>1, <2>3 DEF Acted
  <2> QED BY <1>0, <1>2, <1>3, <2>1, <2>2, <2>3, <2>4, ActInv
<1>4. CASE Throw(t) /\ UNCHANGED up
           /\ (library' = [library EXCEPT ![f.b] = "loaded"] \/ library' = [library EXCEPT ![f.b] = "broken"])
  <2>1. /\ library' \in [Bundles -> {"none", "loaded", "broken"}]
        /\ \A c \in Bundles : c # f.b => up'[c] = up[c] /\ library'[c] = library[c]
    BY <1>1, <1>4 DEF LoaderTypes
  <2>2. \A c \in Bundles : c # f.b => Kept(c)
    BY <1>0, <2>1 DEF Kept
  <2> QED BY <1>0, <1>2, <1>4, <2>1, <2>2, ThrowInv
<1> QED BY <1>3, <1>4 DEF ActStart

LEMMA LoaderActStop ==
    ASSUME LoaderInv, NEW t \in Threads, ActStop(t) PROVE LoaderInv'
<1> DEFINE f == TopCall(t)
<1>0. /\ Busy(t) /\ f.at = "act" /\ f.op = "stop"
      /\ UNCHANGED <<disk, known, state, needs, owner, job, stage, library, raced>>
  BY DEF ActStop, At, marks
<1>1. f.b \in Bundles /\ LoaderTypes
  BY <1>0, TopFacts DEF LoaderInv
<1>2. /\ NeedsTyped' /\ raced' \subseteq Bundles /\ raced \subseteq raced' /\ state' \in [Bundles -> States]
      /\ library' \in [Bundles -> {"none", "loaded", "broken"}]
  BY <1>0, <1>1 DEF LoaderTypes, NeedsTyped
<1>3. CASE f.b = Host /\ Goto(t, "join") /\ UNCHANGED up
  <2>1. up' \in [Bundles -> BOOLEAN] /\ \A c \in Bundles : Kept(c)
    BY <1>0, <1>1, <1>3 DEF LoaderTypes, Kept
  <2>2. Acted(f, "join", f.b)
    BY <1>0, <1>3 DEF Acted
  <2> QED BY <1>0, <1>2, <1>3, <2>1, <2>2, ActInv
<1>4. CASE up' = [up EXCEPT ![f.b] = FALSE] /\ Goto(t, Exit(t))
  <2>1. /\ up' \in [Bundles -> BOOLEAN] /\ up'[f.b] = FALSE
        /\ \A c \in Bundles : c # f.b => up'[c] = up[c]
    BY <1>1, <1>4 DEF LoaderTypes
  <2>2. \A c \in Bundles : c # f.b => Kept(c)
    BY <1>0, <2>1 DEF Kept
  <2>3. Exit(t) # "join"
    BY ExitPlace
  <2>4. Acted(f, Exit(t), f.b)
    BY <1>0, <2>1, <2>3 DEF Acted
  <2> QED BY <1>0, <1>2, <1>4, <2>1, <2>2, <2>3, <2>4, ActInv
<1>5. CASE Throw(t) /\ UNCHANGED up
  BY <1>0, <1>5, ThrowOnly
<1> QED BY <1>3, <1>4, <1>5 DEF ActStop

LEMMA LoaderJoin ==
    ASSUME LoaderInv, NEW t \in Threads, Join(t) PROVE LoaderInv'
<1> DEFINE f == TopCall(t)
<1>0. /\ Busy(t) /\ f.at = "join"
      /\ up' = [up EXCEPT ![Host] = FALSE] /\ Goto(t, Exit(t))
      /\ UNCHANGED <<disk, known, state, needs, owner, job, stage, library, raced>>
  BY DEF Join, At, marks
<1>1. f.b \in Bundles /\ LoaderTypes /\ Formed(f)
  BY <1>0, TopFacts DEF LoaderInv
<1>2. f.op = "stop" /\ f.b = Host
  BY <1>0, <1>1 DEF Formed
<1>3. /\ NeedsTyped' /\ raced' \subseteq Bundles /\ raced \subseteq raced' /\ state' \in [Bundles -> States]
      /\ library' \in [Bundles -> {"none", "loaded", "broken"}]
  BY <1>0, <1>1 DEF LoaderTypes, NeedsTyped
<1>4. /\ up' \in [Bundles -> BOOLEAN] /\ up'[f.b] = FALSE
      /\ \A c \in Bundles : c # f.b => up'[c] = up[c]
  BY <1>0, <1>1, <1>2 DEF LoaderTypes
<1>5. \A c \in Bundles : c # f.b => Kept(c)
  BY <1>0, <1>4 DEF Kept
<1>6. Exit(t) # "join"
  BY ExitPlace
<1>7. Acted(f, Exit(t), f.b)
  BY <1>0, <1>2, <1>4, <1>6 DEF Acted
<1> QED BY <1>0, <1>2, <1>3, <1>4, <1>5, <1>6, <1>7, ActInv

LEMMA LoaderActUnload ==
    ASSUME LoaderInv, NEW t \in Threads, ActUnload(t) PROVE LoaderInv'
<1> DEFINE f == TopCall(t)
<1>0. /\ Busy(t) /\ f.at = "act" /\ f.op \in {"uninstall", "unload"}
      /\ UNCHANGED <<state, needs, up, owner, job, stage, raced>>
  BY DEF ActUnload, At, marks
<1>1. f.b \in Bundles /\ LoaderTypes
  BY <1>0, TopFacts DEF LoaderInv
<1>2. /\ NeedsTyped' /\ raced' \subseteq Bundles /\ raced \subseteq raced' /\ state' \in [Bundles -> States]
      /\ up' \in [Bundles -> BOOLEAN]
  BY <1>0, <1>1 DEF LoaderTypes, NeedsTyped
<1>3. CASE /\ library' = [library EXCEPT ![f.b] = "none"] /\ known' = known \ {f.b} /\ Goto(t, Exit(t))
           /\ disk' = IF f.op = "uninstall" THEN disk \ {f.b} ELSE disk
  <2>1. /\ library' \in [Bundles -> {"none", "loaded", "broken"}]
        /\ \A c \in Bundles : c # f.b => library'[c] = library[c]
    BY <1>1, <1>3 DEF LoaderTypes
  <2>2. /\ \A c \in Bundles : c # f.b => Kept(c)
        /\ known' \subseteq known /\ disk' \subseteq disk
    BY <1>0, <1>3, <2>1 DEF Kept
  <2>3. Exit(t) # "join"
    BY ExitPlace
  <2>4. Tells(f, state[f.b], up[f.b], library[f.b]) => Acted(f, Exit(t), f.b)
    BY <1>0, <2>3 DEF Acted, Tells
  <2> QED BY <1>0, <1>2, <1>3, <2>1, <2>2, <2>3, <2>4, ActInv
<1>4. CASE Throw(t) /\ UNCHANGED <<known, disk>>
           /\ (library' = library \/ library' = [library EXCEPT ![f.b] = "none"])
  <2>1. /\ library' \in [Bundles -> {"none", "loaded", "broken"}]
        /\ \A c \in Bundles : c # f.b => library'[c] = library[c]
    BY <1>1, <1>4 DEF LoaderTypes
  <2>2. \A c \in Bundles : c # f.b => Kept(c)
    BY <1>0, <1>4, <2>1 DEF Kept
  <2> QED BY <1>0, <1>2, <1>4, <2>1, <2>2, ThrowInv
<1> QED BY <1>3, <1>4 DEF ActUnload

\* Several Bundles are resolved at once: only those nobody has a call on keep
\* out of the races.
LEMMA ResolvedKept ==
    ASSUME LoaderInv, NEW done \in SUBSET Bundles, Resolves(done), UNCHANGED <<up, library, known>>,
           \A b \in done : state[b] = "installed"
    PROVE  /\ \A c \in Bundles : Kept(c) /\ (Called(c) /\ c \notin raced' => state'[c] = state[c])
           /\ raced \subseteq raced' /\ raced' \subseteq Bundles /\ state' \in [Bundles -> States]
<1>1. /\ state' = [b \in Bundles |-> IF b \in done THEN "resolved" ELSE state[b]]
      /\ raced' = raced \cup {b \in done : Called(b)} /\ LoaderTypes
  BY DEF Resolves, LoaderInv
<1>2. raced \subseteq raced' /\ raced' \subseteq Bundles /\ state' \in [Bundles -> States]
  BY <1>1 DEF LoaderTypes, States
<1>3. ASSUME NEW c \in Bundles PROVE Kept(c) /\ (Called(c) /\ c \notin raced' => state'[c] = state[c])
  <2>1. CASE c \notin done
    BY <1>1, <2>1 DEF Kept
  <2>2. CASE c \in done /\ Called(c)
    BY <1>1, <2>2 DEF Kept
  <2>3. CASE c \in done /\ ~Called(c)
    <3>1. Free(c) /\ state'[c] = "resolved" /\ state[c] = "installed" /\ up[c] \in BOOLEAN
      BY <1>1, <2>3 DEF Called, InCall, Free, LoaderTypes
    <3>2. c \notin raced' => Rests(state[c], up[c], library[c])
      BY <1>2, <3>1 DEF LoaderInv, Truth
    <3>3. c \notin raced' => Rests(state'[c], up'[c], library'[c])
      BY <3>1, <3>2 DEF Rests
    <3> QED BY <2>3, <3>1, <3>3 DEF Kept
  <2> QED BY <2>1, <2>2, <2>3
<1> QED BY <1>2, <1>3

LEMMA RecordedTyped ==
    ASSUME LoaderInv, NEW set, NEW none, needs' = Recorded(set, none)
    PROVE  NeedsTyped'
<1>1. NeedsTyped /\ Requires \in [Bundles -> SUBSET Bundles]
  BY LoaderThreads DEF LoaderInv, LoaderTypes
<1>2. needs' = [b \in Bundles |-> IF b \in none THEN {} ELSE IF b \in set THEN Requires[b] ELSE needs[b]]
  BY DEF Recorded
<1> QED BY <1>1, <1>2 DEF NeedsTyped

LEMMA LoaderActResolve ==
    ASSUME LoaderInv, NEW t \in Threads, ActResolve(t) PROVE LoaderInv'
<1> DEFINE f == TopCall(t)
           mine == IF f.stale THEN {} ELSE {f.b}
<1>0. /\ Busy(t) /\ f.at = "act" /\ f.op = "resolve"
      /\ UNCHANGED <<disk, known, up, owner, job, stage, library>>
  BY DEF ActResolve, At
<1>1. f.b \in Bundles /\ LoaderTypes /\ Formed(f)
  BY <1>0, TopFacts DEF LoaderInv
<1>2. Called(f.b)
  <2>1. Passed(f) /\ f = stack[t][Len(stack[t])] /\ Len(stack[t]) \in DOMAIN stack[t]
    BY <1>0, <1>1, TopFrame DEF Formed, Passed
  <2> QED BY <2>1 DEF Called, InCall
<1>3. /\ up' \in [Bundles -> BOOLEAN] /\ library' \in [Bundles -> {"none", "loaded", "broken"}]
      /\ known \subseteq Bundles
  BY <1>0, <1>1 DEF LoaderTypes
<1>4. CASE /\ Resolvable(f.b) /\ Resolves(Unresolved(f.b)) /\ Goto(t, Exit(t))
           /\ needs' = Recorded(Unresolved(f.b) \cup mine, {})
  <2>1. Unresolved(f.b) \in SUBSET Bundles /\ \A d \in Unresolved(f.b) : state[d] = "installed"
    BY <1>3, <1>4 DEF Resolvable, Unresolved
  <2>2. /\ \A c \in Bundles : Kept(c)
        /\ f.b \notin raced' => state'[f.b] = state[f.b]
        /\ raced \subseteq raced' /\ raced' \subseteq Bundles /\ state' \in [Bundles -> States]
    BY <1>0, <1>1, <1>2, <1>4, <2>1, ResolvedKept
  <2>3. Exit(t) # "join" /\ NeedsTyped'
    BY <1>4, ExitPlace, RecordedTyped
  <2>4. f.b \notin raced' /\ Tells(f, state[f.b], up[f.b], library[f.b]) => Acted(f, Exit(t), f.b)
    BY <1>0, <2>2, <2>3 DEF Acted, Tells
  <2> QED BY <1>0, <1>3, <1>4, <2>2, <2>3, <2>4, ActInv
<1>5. CASE /\ Throw(t)
           /\ \E done \in SUBSET {d \in Unresolved(f.b) \cap known :
                                    state[d] = "installed" /\ Resolvable(d)} :
                 Resolves(done) /\ needs' = Recorded(done, mine)
  <2>1. PICK done \in SUBSET {d \in Unresolved(f.b) \cap known : state[d] = "installed" /\ Resolvable(d)} :
           Resolves(done) /\ needs' = Recorded(done, mine)
    BY <1>5
  <2>2. done \in SUBSET Bundles /\ \A d \in done : state[d] = "installed"
    BY <1>3, <2>1
  <2>3. /\ \A c \in Bundles : Kept(c)
        /\ f.b \notin raced' => state'[f.b] = state[f.b]
        /\ raced \subseteq raced' /\ raced' \subseteq Bundles /\ state' \in [Bundles -> States]
    BY <1>0, <1>1, <1>2, <2>1, <2>2, ResolvedKept
  <2>4. NeedsTyped'
    BY <2>1, RecordedTyped
  <2> QED BY <1>0, <1>3, <1>5, <2>3, <2>4, ThrowInv
<1> QED BY <1>4, <1>5 DEF ActResolve

\* The calls that passed the check are among those before.
CallsKept ==
    \A u \in Threads : \A i \in DOMAIN stack'[u] :
        Passed(stack'[u][i]) /\ stack'[u][i].b \notin raced' =>
           /\ i \in DOMAIN stack[u] /\ Passed(stack[u][i]) /\ stack[u][i].b = stack'[u][i].b
           /\ Tells(stack'[u][i], state'[stack'[u][i].b], up'[stack'[u][i].b], library'[stack'[u][i].b])

LEMMA KeepsTruth ==
    ASSUME LoaderTypes, Sole, raced \subseteq raced', stack' \in [Threads -> Seq(Calls)],
           CallsKept,
           \A c \in Bundles \ raced' : Free(c)' => Rests(state'[c], up'[c], library'[c]),
           \A c \in Bundles \ raced' : c \notin known' => up'[c] = FALSE
    PROVE  Truth' /\ Sole'
<1>1. (\A c \in Bundles \ raced : Free(c) => Rests(state[c], up[c], library[c]))'
  BY DEF Rests, Runs
<1>2. (\A u \in Threads : \A i \in DOMAIN stack[u] :
          Passed(stack[u][i]) /\ stack[u][i].b \notin raced
          => Tells(stack[u][i], state[stack[u][i].b], up[stack[u][i].b], library[stack[u][i].b]))'
  <2>1. ASSUME NEW u \in Threads, NEW i \in DOMAIN stack'[u],
               Passed(stack'[u][i]) /\ stack'[u][i].b \notin raced'
        PROVE  Tells(stack'[u][i], state'[stack'[u][i].b], up'[stack'[u][i].b], library'[stack'[u][i].b])
    BY <2>1 DEF CallsKept
  <2> QED BY <2>1, Zenon DEF Tells, Runs, Passed, None, Threads, Servants, Started
<1>3. ASSUME NEW u \in Threads, NEW v \in Threads,
             NEW i \in DOMAIN stack'[u], NEW j \in DOMAIN stack'[v],
             Passed(stack'[u][i]), Passed(stack'[v][j]),
             stack'[u][i].b = stack'[v][j].b, stack'[u][i].b \notin raced'
      PROVE  u = v /\ i = j
  <2>1. /\ i \in DOMAIN stack[u] /\ Passed(stack[u][i]) /\ stack[u][i].b = stack'[u][i].b
        /\ j \in DOMAIN stack[v] /\ Passed(stack[v][j]) /\ stack[v][j].b = stack'[v][j].b
    BY <1>3 DEF CallsKept
  <2>2. stack[u][i].b = stack[v][j].b /\ stack[u][i].b \notin raced
    BY <1>3, <2>1
  <2>3. Passed(stack[u][i]) /\ Passed(stack[v][j])
    BY <2>1
  <2>4. i \in DOMAIN stack[u] /\ j \in DOMAIN stack[v]
    BY <2>1
  <2> QED BY <2>2, <2>3, <2>4, SoleCall
<1>4. Truth'
  BY <1>1, <1>2 DEF Truth
<1>5. Sole'
  BY <1>3 DEF Sole, Threads, Servants, Passed, None
<1> QED BY <1>4, <1>5

\* The Bundles nobody works on are the same.
LEMMA FreeKept ==
    ASSUME \A u \in Threads : \A i \in DOMAIN stack[u] :
              Passed(stack[u][i]) => /\ i \in DOMAIN stack'[u] /\ Passed(stack'[u][i])
                                     /\ stack'[u][i].b = stack[u][i].b,
           NEW c, Free(c)'
    PROVE  Free(c)
<1>1. \A u \in Threads : \A i \in DOMAIN stack'[u] : stack'[u][i].b = c => ~Passed(stack'[u][i])
  BY DEF Free, Threads, Servants, Passed, None
<1> QED BY <1>1 DEF Free

LEMMA SameFree ==
    ASSUME stack' = stack, NEW c, Free(c)'
    PROVE  Free(c)
  BY FreeKept

\* The frames after a required Bundle's start is called.
LEMMA PushOthers ==
    ASSUME LoaderTypes, NEW t \in Threads, Busy(t), NEW g, NEW h, Pushes(t, g, h),
           NEW u \in Threads, NEW i \in DOMAIN stack'[u]
    PROVE  \/ u = t /\ i = Len(stack[t]) + 1 /\ stack'[u][i] = h /\ i > 1
           \/ u = t /\ i = Len(stack[t]) /\ i \in DOMAIN stack[u] /\ stack'[u][i] = g /\ stack[u][i] = TopCall(t)
           \/ /\ i \in DOMAIN stack[u] /\ stack'[u][i] = stack[u][i]
              /\ IF u = t THEN i < Len(stack[t]) /\ Len(stack[t]) > 1 ELSE stack'[u] = stack[u]
<1> DEFINE n == Len(stack[t])
<1>1. /\ TopCall(t) = stack[t][n] /\ n \in DOMAIN stack[t] /\ n \in Nat /\ n > 0 /\ DOMAIN stack[t] = 1..n
  BY TopFrame
<1>2. CASE u # t
  BY <1>2 DEF Pushes, Others
<1>3. CASE u = t
  <2>1. i \in 1..(n + 1) /\ stack'[t][n] = g /\ stack'[t][n + 1] = h
        /\ \A k \in 1..n : k # n => stack'[t][k] = stack[t][k]
    BY <1>1, <1>3 DEF Pushes
  <2>2. n \in Nat /\ n > 0
    BY <1>1
  <2>3. i = n + 1 \/ i = n \/ (i \in 1..n /\ i < n /\ n > 1)
    <3> HIDE DEF n
    <3> QED BY <2>1, <2>2
  <2>4. n + 1 > 1
    <3> HIDE DEF n
    <3> QED BY <2>2
  <2>5. CASE i = n + 1
    BY <1>3, <2>1, <2>4, <2>5
  <2>6. CASE i = n
    BY <1>1, <1>3, <2>1, <2>6
  <2>7. CASE i \in 1..n /\ i < n /\ n > 1
    <3>1. i # n
      <4> HIDE DEF n
      <4> QED BY <2>2, <2>7
    <3> QED BY <1>1, <1>3, <2>1, <2>7, <3>1
  <2> QED BY <2>3, <2>5, <2>6, <2>7
<1> QED BY <1>2, <1>3

LEMMA PushFrames ==
    ASSUME LoaderTypes, Frames, NEW t \in Threads, Busy(t), NEW g \in Calls, NEW h \in Calls, Pushes(t, g, h),
           UNCHANGED <<known, owner>>, owner = t, Formed(g), Formed(h),
           g.op = "start", g.at \in {"needs", "act"}, g.b \in known, h.op = "start", h.at = "check"
    PROVE  Frames'
<1> DEFINE n == Len(stack[t])
<1>1. n \in Nat /\ Len(stack'[t]) = n + 1
  BY TopFrame DEF Pushes
<1>2. ASSUME NEW u \in Threads, NEW i \in DOMAIN stack'[u]
      PROVE  LET f == stack'[u][i]
             IN  /\ Formed(f)
                 /\ i < Len(stack'[u]) => f.op = "start" /\ f.at \in {"needs", "act"}
                 /\ i > 1 => f.op = "start" /\ f.at # "leave"
                 /\ i > 1 \/ f.at \in {"needs", "act", "join"} => owner' = u
                 /\ f.at \in {"needs", "act", "join"} /\ f.op \in {"start", "stop"} => f.b \in known'
  <2>1. CASE u = t /\ i = n + 1 /\ stack'[u][i] = h /\ i > 1
    <3>1. ~(i < Len(stack'[u]))
      BY <1>1, <2>1
    <3> QED BY <2>1, <3>1
  <2>2. CASE u = t /\ i = n /\ i \in DOMAIN stack[u] /\ stack'[u][i] = g
    BY <2>2
  <2>3. CASE i \in DOMAIN stack[u] /\ stack'[u][i] = stack[u][i]
             /\ IF u = t THEN i < n /\ n > 1 ELSE stack'[u] = stack[u]
    <3>1. i > 1 \/ stack[u][i].at \in {"needs", "act", "join"} => owner = u
      BY <1>2, <2>3 DEF Frames, Holds
    <3>2. i < Len(stack'[u]) => i < Len(stack[u])
      BY <2>3
    <3> QED BY <1>2, <2>3, <3>1, <3>2 DEF Frames
  <2> QED BY <1>2, <2>1, <2>2, <2>3, PushOthers
<1> QED BY <1>2 DEF Frames, Holds, Formed, Threads, Servants

LEMMA LoaderNeed ==
    ASSUME LoaderInv, NEW t \in Threads, Need(t) PROVE LoaderInv'
<1> DEFINE f == TopCall(t)
           G(d) == NextNeed([f EXCEPT !.todo = f.todo \ {d}])
<1>0. /\ Busy(t) /\ f.at = "needs"
      /\ UNCHANGED <<disk, known, state, needs, up, owner, library, job, stage, raced>>
  BY DEF Need, At, marks
<1>1. /\ Formed(f) /\ f \in Calls /\ f.b \in known /\ f.b \in Bundles /\ f.op = "start" /\ owner = t
  BY <1>0, TopFacts DEF Formed
<1>2. f.todo \in SUBSET Bundles /\ LoaderTypes
  BY <1>1 DEF Calls, LoaderInv
<1>3. PICK d \in f.todo :
         \/ d \notin known /\ Throw(t)
         \/ d \in known /\ SetTop(t, G(d))
         \/ d \in known /\ stack' = [stack EXCEPT ![t] = Append([@ EXCEPT ![Len(@)] = G(d)],
                                                                     Frame("start", d, FALSE))]
  BY <1>1 DEF Need, Calls
<1> DEFINE g == G(d)
           h == Frame("start", d, FALSE)
<1>4. /\ g \in Calls /\ Formed(g) /\ g.at \in {"needs", "act"} /\ g.op = "start" /\ g.b = f.b
      /\ g.stale = f.stale /\ Passed(g) /\ Passed(f)
      /\ Tells(f, state[g.b], up[g.b], library[g.b]) => Tells(g, state[g.b], up[g.b], library[g.b])
  <2>1. f.todo \ {d} \in SUBSET Bundles
    BY <1>2
  <2> QED BY <1>0, <1>1, <2>1, LooksAt
<1>5. h \in Calls /\ h.at = "check" /\ h.op = "start" /\ h.b = d /\ h.old = None /\ h.ok = TRUE
  BY <1>2 DEF Frame, Calls, Ops, Places, States, None
<1>6. \/ Throw(t) \/ SetTop(t, g)
      \/ stack' = [stack EXCEPT ![t] = Append([@ EXCEPT ![Len(@)] = g], h)]
  BY <1>3
<1> HIDE DEF G, g, h
<1>7. CASE Throw(t)
  BY <1>0, <1>7, ThrowOnly
<1>8. CASE SetTop(t, g)
  <2>1. TopBecomes(t, g)
    BY <1>0, <1>2, <1>4, <1>8, TopUpdate
  <2>2. TopStep(t, g)
    BY <1>0, <1>1, <1>4, <2>1 DEF TopStep
  <2> QED BY <1>0, <1>1, <1>4, <2>2, CallGoesOn
<1>9. CASE stack' = [stack EXCEPT ![t] = Append([@ EXCEPT ![Len(@)] = g], h)]
  <2>1. Pushes(t, g, h)
    BY <1>0, <1>2, <1>4, <1>5, <1>9, CallPushes
  <2>2. Formed(h) /\ ~Passed(h)
    BY <1>5 DEF Formed, Passed
  <2>3. Frames'
    BY <1>0, <1>1, <1>2, <1>4, <1>5, <2>1, <2>2, PushFrames DEF LoaderInv
  <2> DEFINE n == Len(stack[t])
  <2>4. ASSUME NEW u \in Threads, NEW i \in DOMAIN stack'[u]
        PROVE  \/ u = t /\ i = n + 1 /\ stack'[u][i] = h /\ i > 1
               \/ u = t /\ i = n /\ i \in DOMAIN stack[u] /\ stack'[u][i] = g /\ stack[u][i] = f
               \/ i \in DOMAIN stack[u] /\ stack'[u][i] = stack[u][i]
    <3> HIDE DEF f, n
    <3> QED BY <1>0, <1>2, <2>1, PushOthers DEF f, n
  <2>5. ASSUME NEW u \in Threads, NEW i \in DOMAIN stack[u]
        PROVE  i \in DOMAIN stack'[u] /\ (stack'[u][i] = stack[u][i]
                                          \/ (u = t /\ i = n /\ stack'[u][i] = g /\ stack[u][i] = f))
    <3>1. n \in Nat /\ n > 0 /\ DOMAIN stack[t] = 1..n /\ f = stack[t][n]
      BY <1>0, <1>2, TopFrame
    <3>2. CASE u = t
      <4>1. 1..n \subseteq 1..(n + 1)
        <5>1. n \in Nat
          BY <3>1
        <5> HIDE DEF n
        <5> QED BY <5>1
      <4> QED BY <2>1, <3>1, <3>2, <4>1 DEF Pushes
    <3>3. CASE u # t
      BY <2>1, <3>3 DEF Pushes, Others
    <3> QED BY <3>2, <3>3
  <2> HIDE DEF n, f
  <2>6. Truth' /\ Sole'
    <3>1. ASSUME NEW u \in Threads, NEW i \in DOMAIN stack'[u],
                 Passed(stack'[u][i]), stack'[u][i].b \notin raced
          PROVE  /\ i \in DOMAIN stack[u] /\ Passed(stack[u][i]) /\ stack[u][i].b = stack'[u][i].b
                 /\ Tells(stack'[u][i], state'[stack'[u][i].b], up'[stack'[u][i].b], library'[stack'[u][i].b])
      <4>1. /\ i \in DOMAIN stack[u] /\ Passed(stack[u][i]) /\ stack[u][i].b = stack'[u][i].b
        BY <1>4, <2>2, <2>4, <3>1
      <4>2. Tells(stack[u][i], state[stack[u][i].b], up[stack[u][i].b], library[stack[u][i].b])
        BY <3>1, <4>1 DEF LoaderInv, Truth
      <4>3. Tells(stack'[u][i], state[stack'[u][i].b], up[stack'[u][i].b], library[stack'[u][i].b])
        BY <1>4, <2>2, <2>4, <3>1, <4>1, <4>2
      <4> QED BY <1>0, <4>1, <4>3
    <3>2. ASSUME NEW c \in Bundles \ raced, Free(c)' PROVE Rests(state'[c], up'[c], library'[c])
      <4>1. Free(c)
        BY <1>4, <2>5, <3>2, FreeKept
      <4> QED BY <1>0, <3>2, <4>1 DEF LoaderInv, Truth
    <3>3. ASSUME NEW c \in Bundles \ raced, c \notin known' PROVE up'[c] = FALSE
      BY <1>0, <3>3 DEF LoaderInv, Truth
    <3>4. stack' \in [Threads -> Seq(Calls)]
      BY <2>1 DEF Pushes, Others
    <3>5. CallsKept
      BY <1>0, <3>1 DEF CallsKept
    <3> QED BY <1>0, <1>2, <3>2, <3>3, <3>4, <3>5, KeepsTruth DEF LoaderInv
  <2>7. Callers'
    <3>3. ASSUME NEW i \in DOMAIN stack'[Control]
          PROVE  \/ stage = "startAll" /\ stack'[Control][i].op = "start"
                 \/ Stopping /\ i = 1 /\ stack'[Control][i].op \in {"stop", "unload"} /\ job[Control].threw = FALSE
      <4>1. t = Control => stage = "startAll"
        <5>1. f = stack[t][Len(stack[t])] /\ Len(stack[t]) \in DOMAIN stack[t]
          BY <1>0, <1>2, TopFrame DEF f
        <5> QED BY <1>1, <5>1 DEF LoaderInv, Callers
      <4>2. Control \in Threads
        BY LoaderThreads
      <4> QED BY <1>1, <1>4, <1>5, <2>4, <4>1, <4>2 DEF LoaderInv, Callers
    <3> QED BY <1>0, <3>3 DEF Callers, Stopping
  <2>9. LoaderTypes'
    BY <1>0, <1>2, <2>1 DEF LoaderTypes, NeedsTyped, Pushes, Others, Threads, Servants, Calls, Ops, Places, States, None
  <2>10. Jobs'
    BY <1>0 DEF LoaderInv, Jobs, JobSet, Threads, Servants, None
  <2> QED BY <2>3, <2>6, <2>7, <2>9, <2>10 DEF LoaderInv
<1> QED BY <1>6, <1>7, <1>8, <1>9

\* A call that has failed as the one it had called did.
LEMMA FailedCall ==
    ASSUME NEW f, NEW g, Formed(f), f.op = "start", f.at \in {"needs", "act"},
           g.op = f.op, g.b = f.b, g.old = f.old, g.stale = f.stale, g.ok = FALSE, g.at \in {"leave", "done"}
    PROVE  /\ Formed(g) /\ Passed(f) /\ Passed(g)
           /\ \A s, u, l : Tells(f, s, u, l) => Tells(g, s, u, l)
<1>1. f.ok = TRUE /\ f.old # None
  BY DEF Formed
<1>2. Formed(g) /\ Passed(f) /\ Passed(g)
  BY <1>1 DEF Formed, Passed
<1>3. ASSUME NEW s, NEW u, NEW l, Tells(f, s, u, l) PROVE Tells(g, s, u, l)
  BY <1>3 DEF Tells
<1> QED BY <1>2, <1>3

\* The frames after the top call has returned.
LEMMA DoneOthers ==
    ASSUME LoaderTypes, Frames, NEW t \in Threads, Done(t),
           NEW u \in Threads, NEW i \in DOMAIN stack'[u]
    PROVE  /\ i \in DOMAIN stack[u] /\ (u = t => i < Len(stack[t])) /\ (u # t => stack'[u] = stack[u])
           /\ stack'[u][i].b = stack[u][i].b /\ stack'[u][i].op = stack[u][i].op
           /\ (Passed(stack'[u][i]) <=> Passed(stack[u][i])) /\ Formed(stack'[u][i])
           /\ \A s, x, l : Tells(stack[u][i], s, x, l) => Tells(stack'[u][i], s, x, l)
           /\ \/ stack'[u][i] = stack[u][i]
              \/ /\ u = t /\ i = Len(stack'[t]) /\ stack'[u][i].at \in {"leave", "done"}
                 /\ stack'[u][i].at = "leave" => i = 1
<1> DEFINE n == Len(stack[t])
<1>0. Busy(t)
  BY DEF Done, At
<1>1. n \in Nat /\ n > 0 /\ DOMAIN stack[t] = 1..n
  BY <1>0, TopFrame
<1>2. Formed(stack[u][i]) \/ i \notin DOMAIN stack[u]
  BY DEF Frames
<1>3. CASE u # t
  <2>1. stack'[u] = stack[u]
    BY <1>3, DonePops DEF Pops, Fails, PopsTo, Others
  <2> QED BY <1>2, <1>3, <2>1
<1>4. CASE u = t /\ Pops(t)
  <2>1. i \in 1..(n - 1) /\ stack'[t][i] = stack[t][i]
    BY <1>4 DEF Pops
  <2>2. i \in 1..n /\ i < n
    <3> HIDE DEF n
    <3> QED BY <1>1, <2>1
  <2> QED BY <1>1, <1>2, <1>4, <2>1, <2>2
<1>5. CASE u = t /\ \E g \in Calls : Fails(t, stack[t][n - 1], g)
  <2>1. PICK g \in Calls : Fails(t, stack[t][n - 1], g)
    BY <1>5
  <2>2. /\ i \in 1..(n - 1) /\ n > 1 /\ Len(stack'[t]) = n - 1 /\ stack'[t][n - 1] = g
        /\ i # n - 1 => stack'[t][i] = stack[t][i]
    BY <1>5, <2>1 DEF Fails, PopsTo
  <2>3. i \in 1..n /\ i < n /\ n - 1 \in 1..n /\ n - 1 < n /\ (n = 2 => n - 1 = 1)
    <3> HIDE DEF n
    <3> QED BY <1>1, <2>2
  <2>4. CASE i # n - 1
    BY <1>1, <1>2, <1>5, <2>2, <2>3, <2>4
  <2>5. CASE i = n - 1
    <3> DEFINE f == stack[t][n - 1]
    <3>1. Formed(f) /\ f.op = "start" /\ f.at \in {"needs", "act"}
      BY <1>1, <2>3 DEF Frames
    <3>2. /\ g.op = f.op /\ g.b = f.b /\ g.old = f.old /\ g.stale = f.stale /\ g.ok = FALSE
          /\ g.at = (IF n = 2 THEN "leave" ELSE "done")
      BY <2>1 DEF Fails
    <3>3. g.at \in {"leave", "done"} /\ (g.at = "leave" => n - 1 = 1)
      <4> HIDE DEF n, f
      <4> QED BY <2>3, <3>2
    <3>4. /\ Formed(g) /\ Passed(f) /\ Passed(g)
          /\ \A s, x, l : Tells(f, s, x, l) => Tells(g, s, x, l)
      <4> HIDE DEF f
      <4> QED BY <3>1, <3>2, <3>3, FailedCall
    <3> QED BY <1>1, <1>5, <2>2, <2>3, <2>5, <3>2, <3>3, <3>4
  <2> QED BY <2>4, <2>5
<1> QED BY <1>3, <1>4, <1>5, DonePops

LEMMA DoneBack ==
    ASSUME LoaderTypes, NEW t \in Threads, Done(t),
           NEW u \in Threads, NEW i \in DOMAIN stack[u], ~(u = t /\ i = Len(stack[t]))
    PROVE  i \in DOMAIN stack'[u]
<1> DEFINE n == Len(stack[t])
<1>1. n \in Nat /\ n > 0 /\ DOMAIN stack[t] = 1..n
  BY TopFrame DEF Done, At
<1>2. CASE u # t
  BY <1>2, DonePops DEF Pops, Fails, PopsTo, Others
<1>3. CASE u = t
  <2>1. i \in 1..(n - 1)
    <3>1. i \in 1..n /\ i # n
      BY <1>1, <1>3
    <3> HIDE DEF n
    <3> QED BY <1>1, <3>1
  <2> QED BY <1>3, <2>1, DonePops DEF Pops, Fails, PopsTo
<1> QED BY <1>2, <1>3

LEMMA DoneTyped ==
    ASSUME LoaderTypes, NEW t \in Threads, Done(t)
    PROVE  stack' \in [Threads -> Seq(Calls)]
  BY DonePops DEF Pops, Fails, PopsTo, Others

LEMMA DoneFrames ==
    ASSUME LoaderTypes, Frames, NEW t \in Threads, Done(t)
    PROVE  Frames'
<1> DEFINE n == Len(stack[t])
<1>0. known' = known /\ owner' = owner
  BY DEF Done
<1>2. ASSUME NEW u \in Threads, NEW i \in DOMAIN stack'[u]
      PROVE  LET f == stack'[u][i]
             IN  /\ Formed(f)
                 /\ i < Len(stack'[u]) => f.op = "start" /\ f.at \in {"needs", "act"}
                 /\ i > 1 => f.op = "start" /\ f.at # "leave"
                 /\ i > 1 \/ f.at \in {"needs", "act", "join"} => owner' = u
                 /\ f.at \in {"needs", "act", "join"} /\ f.op \in {"start", "stop"} => f.b \in known'
  <2>1. /\ i \in DOMAIN stack[u] /\ (u = t => i < Len(stack[t])) /\ (u # t => stack'[u] = stack[u])
        /\ stack'[u][i].b = stack[u][i].b /\ stack'[u][i].op = stack[u][i].op /\ Formed(stack'[u][i])
        /\ \/ stack'[u][i] = stack[u][i]
           \/ /\ u = t /\ i = Len(stack'[t]) /\ stack'[u][i].at \in {"leave", "done"}
              /\ stack'[u][i].at = "leave" => i = 1
    BY DoneOthers
  <2>2. /\ i < Len(stack[u]) => stack[u][i].op = "start" /\ stack[u][i].at \in {"needs", "act"}
        /\ i > 1 => stack[u][i].op = "start" /\ stack[u][i].at # "leave"
        /\ i > 1 \/ stack[u][i].at \in {"needs", "act", "join"} => owner = u
        /\ stack[u][i].at \in {"needs", "act", "join"} /\ stack[u][i].op \in {"start", "stop"} => stack[u][i].b \in known
    BY <2>1 DEF Frames, Holds
  <2>3. i < Len(stack'[u]) => i < Len(stack[u])
    BY <2>1
  <2>4. i \in Nat
    <3>1. stack[u] \in Seq(Calls)
      BY DEF LoaderTypes
    <3> QED BY <2>1, <3>1
  <2>5. CASE stack'[u][i] = stack[u][i]
    BY <1>0, <2>1, <2>2, <2>3, <2>5
  <2>6. CASE /\ u = t /\ i = Len(stack'[t]) /\ stack'[u][i].at \in {"leave", "done"}
             /\ stack'[u][i].at = "leave" => i = 1
    <3>1. ~(i < Len(stack'[u]))
      BY <2>4, <2>6
    <3>2. i > 1 => stack'[u][i].at # "leave"
      BY <2>4, <2>6
    <3> QED BY <1>0, <2>1, <2>2, <2>6, <3>1, <3>2
  <2> QED BY <2>1, <2>5, <2>6
<1> QED BY <1>2 DEF Frames, Holds, Formed, Threads, Servants

\* The state a call leaves behind agrees with the activator.
Left(f, s) == CASE f.stale -> s [] ~f.stale /\ f.ok -> Reached(f.op, s) [] OTHER -> Restored(f, s)

LEMMA DoneRests ==
    ASSUME NEW f \in Calls, f.at = "done", Formed(f), Passed(f), NEW s, NEW u \in BOOLEAN, NEW l,
           Tells(f, s, u, l)
    PROVE  Rests(Left(f, s), u, l)
<1>1. f.op \in Ops /\ f.ok \in BOOLEAN /\ f.stale = FALSE
  BY DEF Calls, Tells
<1>2. CASE f.ok = TRUE
  <2>0. Left(f, s) = Reached(f.op, s)
    BY <1>1, <1>2 DEF Left
  <2>1. f.op = "start" => Reached(f.op, s) = "active"
    BY DEF Reached
  <2>2. f.op \in {"stop", "resolve"} => Reached(f.op, s) = "resolved"
    BY DEF Reached
  <2>3. f.op = "uninstall" => Reached(f.op, s) = "uninstalled"
    BY DEF Reached
  <2>4. f.op = "unload" => Reached(f.op, s) = s
    BY DEF Reached
  <2>5. Rests(Reached(f.op, s), u, l)
    <3>1. CASE f.op = "start"
      BY <1>2, <2>1, <3>1 DEF Rests, Tells
    <3>2. CASE f.op \in {"stop", "resolve"}
      BY <1>2, <2>2, <3>2 DEF Rests, Tells
    <3>3. CASE f.op = "uninstall"
      BY <2>3, <3>3 DEF Rests, Tells
    <3>4. CASE f.op = "unload"
      BY <2>4, <3>4 DEF Rests, Tells, Started
    <3> QED BY <1>1, <3>1, <3>2, <3>3, <3>4 DEF Ops
  <2> QED BY <2>0, <2>5
<1>3. CASE f.ok = FALSE
  <2>1. f.old # None /\ f.op \in {"start", "stop"}
    BY <1>3 DEF Passed, Formed
  <2>2. Left(f, s) = f.old
    BY <1>1, <1>3, <2>1 DEF Left, Restored
  <2>3. f.op = "start" => f.old \notin Started /\ u = FALSE
    BY <1>3 DEF Tells
  <2>4. f.op = "stop" => f.old = "active" /\ Runs(u, l)
    BY <1>3 DEF Tells
  <2>5. Rests(f.old, u, l)
    BY <1>1, <2>1, <2>3, <2>4 DEF Rests, Started
  <2> QED BY <2>2, <2>5
<1> QED BY <1>1, <1>2, <1>3

LEMMA DoneState ==
    ASSUME LoaderInv, NEW t \in Threads, Done(t)
    PROVE  LET f == TopCall(t) IN
           /\ state' \in [Bundles -> States] /\ (\A c \in Bundles : c # f.b => state'[c] = state[c])
           /\ f.b \notin raced /\ Passed(f) => Rests(state'[f.b], up[f.b], library[f.b])
           /\ ~Passed(f) => state'[f.b] = state[f.b]
<1> DEFINE f == TopCall(t)
           r == Left(f, state[f.b])
<1>0. Busy(t) /\ f.at = "done"
  BY DEF Done, At
<1>1. /\ f \in Calls /\ Formed(f) /\ f.b \in Bundles
      /\ f.b \notin raced /\ Passed(f) => Tells(f, state[f.b], up[f.b], library[f.b])
  BY <1>0, TopFacts
<1>2. /\ state \in [Bundles -> States] /\ up[f.b] \in BOOLEAN /\ state[f.b] \in States
      /\ f.ok \in BOOLEAN /\ f.stale \in BOOLEAN /\ f.op \in Ops /\ f.old \in States \cup {None}
  BY <1>1 DEF LoaderInv, LoaderTypes, Calls
<1>7. state' = [state EXCEPT ![f.b] = r]
  <2>1. state' = [state EXCEPT ![f.b] = CASE f.stale -> state[f.b]
                                          [] ~f.stale /\ f.ok -> Reached(f.op, state[f.b])
                                          [] OTHER -> Restored(f, state[f.b])]
    BY <1>1, <1>2 DEF Done
  <2> QED BY <2>1, Zenon DEF Left
<1>3. r \in States
  <2>1. Reached(f.op, state[f.b]) \in States
    BY <1>2 DEF Reached, States, Ops
  <2>2. Restored(f, state[f.b]) \in States
    BY <1>2 DEF Restored
  <2> QED BY <1>2, <2>1, <2>2 DEF Left
<1>4. ASSUME f.b \notin raced, Passed(f) PROVE Rests(r, up[f.b], library[f.b])
  BY <1>0, <1>1, <1>2, <1>4, DoneRests
<1>5. ASSUME ~Passed(f) PROVE r = state[f.b]
  <2>1. f.ok = FALSE /\ f.old = None
    BY <1>0, <1>2, <1>5 DEF Passed
  <2> QED BY <1>2, <2>1 DEF Restored, Left
<1> HIDE DEF r, f
<1>6. state' \in [Bundles -> States] /\ (\A c \in Bundles : c # f.b => state'[c] = state[c]) /\ state'[f.b] = r
  BY <1>1, <1>2, <1>3, <1>7
<1> QED BY <1>4, <1>5, <1>6 DEF f

LEMMA LoaderDone ==
    ASSUME LoaderInv, NEW t \in Threads, Done(t) PROVE LoaderInv'
<1> DEFINE f == TopCall(t)
           n == Len(stack[t])
<1>0. /\ Busy(t) /\ f.at = "done"
      /\ UNCHANGED <<disk, known, needs, up, library, owner, stage, raced>>
      /\ \E x : x \in BOOLEAN /\ job' = [job EXCEPT ![t].threw = x]
  BY DEF Done, At, marks
<1>1. LoaderTypes /\ Frames /\ Sole /\ Truth
  BY DEF LoaderInv
<1>2. /\ f \in Calls /\ f = stack[t][n] /\ n \in DOMAIN stack[t] /\ n \in Nat /\ n > 0 /\ f.b \in Bundles
  BY <1>0, <1>1, TopFrame, TopFacts
<1>3. /\ state' \in [Bundles -> States] /\ (\A c \in Bundles : c # f.b => state'[c] = state[c])
      /\ f.b \notin raced /\ Passed(f) => Rests(state'[f.b], up[f.b], library[f.b])
      /\ ~Passed(f) => state'[f.b] = state[f.b]
  BY DoneState
<1>4. stack' \in [Threads -> Seq(Calls)]
  BY <1>1, DoneTyped
<1>5. ASSUME NEW u \in Threads, NEW i \in DOMAIN stack'[u]
      PROVE  /\ i \in DOMAIN stack[u] /\ (u = t => i < n) /\ (u # t => stack'[u] = stack[u])
             /\ stack'[u][i].b = stack[u][i].b /\ stack'[u][i].op = stack[u][i].op
             /\ (Passed(stack'[u][i]) <=> Passed(stack[u][i]))
             /\ \A s, x, l : Tells(stack[u][i], s, x, l) => Tells(stack'[u][i], s, x, l)
             /\ \/ stack'[u][i] = stack[u][i]
                \/ u = t /\ stack'[u][i].at \in {"leave", "done"}
  <2> HIDE DEF f, n
  <2>1. /\ i \in DOMAIN stack[u] /\ (u = t => i < Len(stack[t])) /\ (u # t => stack'[u] = stack[u])
        /\ stack'[u][i].b = stack[u][i].b /\ stack'[u][i].op = stack[u][i].op
        /\ (Passed(stack'[u][i]) <=> Passed(stack[u][i]))
    BY <1>1, DoneOthers
  <2>2. \A s, x, l : Tells(stack[u][i], s, x, l) => Tells(stack'[u][i], s, x, l)
    BY <1>1, DoneOthers
  <2>3. \/ stack'[u][i] = stack[u][i]
        \/ u = t /\ stack'[u][i].at \in {"leave", "done"}
    BY <1>1, DoneOthers
  <2> QED BY <2>1, <2>2, <2>3 DEF n
<1> HIDE DEF f, n
<1>6. CallsKept
  <2>1. ASSUME NEW u \in Threads, NEW i \in DOMAIN stack'[u],
               Passed(stack'[u][i]), stack'[u][i].b \notin raced
        PROVE  /\ i \in DOMAIN stack[u] /\ Passed(stack[u][i]) /\ stack[u][i].b = stack'[u][i].b
               /\ Tells(stack'[u][i], state'[stack'[u][i].b], up'[stack'[u][i].b], library'[stack'[u][i].b])
    <3> DEFINE b == stack'[u][i].b
    <3>1. i \in DOMAIN stack[u] /\ Passed(stack[u][i]) /\ stack[u][i].b = b /\ (u = t => i < n)
      BY <1>5, <2>1
    <3>2. state'[b] = state[b]
      <4>1. b \in Bundles
        <5>1. stack[u][i] \in Calls
          BY <1>1, <3>1 DEF LoaderTypes
        <5>2. stack[u][i].b \in Bundles
          BY <5>1 DEF Calls
        <5> QED BY <3>1, <5>2
      <4>2. CASE b # f.b
        BY <1>3, <4>1, <4>2
      <4>3. CASE b = f.b
        <5>1. ASSUME Passed(f) PROVE FALSE
          <6>1. stack[u][i].b = stack[t][n].b /\ stack[u][i].b \notin raced /\ Passed(stack[t][n])
            BY <1>2, <2>1, <3>1, <4>3, <5>1
          <6>2. u = t /\ i = n
            BY <1>1, <1>2, <3>1, <6>1, SoleCall
          <6> QED BY <1>2, <3>1, <6>2
        <5> QED BY <1>3, <4>3, <5>1
      <4> QED BY <4>2, <4>3
    <3>3. Tells(stack[u][i], state[stack[u][i].b], up[stack[u][i].b], library[stack[u][i].b])
      BY <1>1, <2>1, <3>1 DEF Truth
    <3>4. Tells(stack'[u][i], state[b], up[b], library[b])
      BY <1>5, <3>1, <3>3
    <3> QED BY <1>0, <3>1, <3>2, <3>4
  <2> QED BY <1>0, <2>1 DEF CallsKept
<1>7. ASSUME NEW c \in Bundles \ raced, Free(c)' PROVE Rests(state'[c], up'[c], library'[c])
  <2>1. \A u \in Threads : \A i \in DOMAIN stack'[u] : stack'[u][i].b = c => ~Passed(stack'[u][i])
    BY <1>7 DEF Free, Threads, Servants, Passed, None
  <2>2. ASSUME NEW u \in Threads, NEW i \in DOMAIN stack[u], ~(u = t /\ i = n), stack[u][i].b = c
        PROVE  ~Passed(stack[u][i])
    <3>1. i \in DOMAIN stack'[u]
      BY <1>1, <2>2, DoneBack DEF n
    <3> QED BY <1>5, <2>1, <2>2, <3>1
  <2>3. CASE c = f.b /\ Passed(f)
    BY <1>0, <1>3, <1>7, <2>3
  <2>4. CASE ~(c = f.b /\ Passed(f))
    <3>1. Free(c)
      BY <1>2, <2>2, <2>4 DEF Free
    <3>2. state'[c] = state[c]
      BY <1>3, <2>4
    <3> QED BY <1>0, <1>1, <1>7, <3>1, <3>2 DEF Truth
  <2> QED BY <2>3, <2>4
<1>8. Truth' /\ Sole'
  <2>1. ASSUME NEW c \in Bundles \ raced, c \notin known' PROVE up'[c] = FALSE
    BY <1>0, <1>1, <2>1 DEF Truth
  <2> QED BY <1>0, <1>1, <1>4, <1>6, <1>7, <2>1, KeepsTruth
<1>9. Frames'
  BY <1>1, DoneFrames
<1>10. /\ job' \in [Threads -> JobSet]
       /\ \A u \in Threads : job'[u].b = job[u].b /\ job'[u].plan = job[u].plan
       /\ \A u \in Threads \ {t} : job'[u] = job[u]
  <2>1. job \in [Threads -> JobSet]
    BY DEF LoaderInv, Jobs
  <2>2. PICK x \in BOOLEAN : job' = [job EXCEPT ![t].threw = x]
    BY <1>0
  <2> QED BY <2>1, <2>2 DEF JobSet
<1>11. Jobs'
  <2>1. /\ job[Control].plan \in Seq(Bundles)
        /\ \A w \in Servants : job[w].plan # <<>> =>
              job[w].b \in Bundles /\ job[w].plan \in Seq({"resolve", "start", "stop"})
    BY DEF LoaderInv, Jobs
  <2> QED BY <1>10, <2>1, LoaderThreads DEF Jobs, JobSet, Threads, Servants, None
<1>12. Callers'
  <2>3. ASSUME NEW i \in DOMAIN stack'[Control]
        PROVE  \/ stage = "startAll" /\ stack'[Control][i].op = "start"
               \/ Stopping /\ i = 1 /\ stack'[Control][i].op \in {"stop", "unload"} /\ job'[Control].threw = FALSE
    <3>1. Control \in Threads
      BY LoaderThreads
    <3>2. /\ i \in DOMAIN stack[Control] /\ (Control = t => i < n)
          /\ stack'[Control][i].op = stack[Control][i].op
      BY <1>5, <3>1
    <3>3. CASE Control = t
      <4>1. stack[Control][i].op = "start"
        BY <1>1, <3>2, <3>3 DEF Frames, n
      <4> QED BY <3>2, <4>1 DEF LoaderInv, Callers
    <3>4. CASE Control # t
      <4>1. job'[Control] = job[Control]
        BY <1>10, <3>1, <3>4
      <4> QED BY <3>2, <4>1 DEF LoaderInv, Callers
    <3> QED BY <3>3, <3>4
  <2> QED BY <1>0, <2>3 DEF Callers, Stopping
<1>14. LoaderTypes'
  BY <1>0, <1>1, <1>3, <1>4 DEF LoaderTypes, NeedsTyped, Threads, Servants, Calls, Ops, Places, States, None
<1> QED BY <1>8, <1>9, <1>11, <1>12, <1>14 DEF LoaderInv

\* One step of a call.
\* One step of a call.
LEMMA LoaderCallStep ==
    ASSUME LoaderInv, NEW t \in Threads, CallStep(t)
    PROVE  LoaderInv'
  BY LoaderCheck, LoaderSet, LoaderEnter, LoaderNeed, LoaderActResolve, LoaderActStart, LoaderActStop,
     LoaderJoin, LoaderActUnload, LoaderLeave, LoaderDone DEF CallStep

\* A call begins.
LEMMA BeginInv ==
    ASSUME LoaderInv, NEW t \in Threads, ~Busy(t),
           NEW op \in Ops, NEW b \in Bundles, NEW stale \in BOOLEAN, Call(t, op, b, stale),
           UNCHANGED <<disk, known, state, needs, up, library, owner, raced, stage>>, Jobs',
           t = Control => \/ stage = "startAll" /\ op = "start"
                          \/ Stopping /\ op \in {"stop", "unload"} /\ job'[Control].threw = FALSE,
           t # Control => job'[Control] = job[Control]
    PROVE  LoaderInv'
<1> DEFINE g == Frame(op, b, stale)
<1>1. LoaderTypes /\ Frames /\ Sole /\ Truth
  BY DEF LoaderInv
<1>2. Begins(t, g)
  BY <1>1, CallBegins
<1>3. /\ g \in Calls /\ g.at = "check" /\ g.op = op /\ g.b = b
      /\ g.old = None /\ g.todo = {} /\ g.ok = TRUE
  BY DEF Frame, Calls, Ops, Places, States, None
<1> HIDE DEF g
<1>4. Formed(g) /\ ~Passed(g)
  BY <1>3 DEF Formed, Passed
<1>5. /\ stack' \in [Threads -> Seq(Calls)] /\ stack[t] = <<>> /\ stack'[t] = <<g>>
      /\ \A u \in Threads \ {t} : stack'[u] = stack[u]
  BY <1>2 DEF Begins, Others
<1>6. DOMAIN stack[t] = {} /\ DOMAIN stack'[t] = {1} /\ stack'[t][1] = g /\ Len(stack'[t]) = 1
  BY <1>5
<1>7. ASSUME NEW u \in Threads, NEW i \in DOMAIN stack'[u]
      PROVE  \/ u = t /\ i = 1 /\ stack'[u][i] = g /\ Len(stack'[u]) = 1
             \/ u # t /\ i \in DOMAIN stack[u] /\ stack'[u] = stack[u]
  BY <1>5, <1>6
<1>8. Frames'
  <2>1. ASSUME NEW u \in Threads, NEW i \in DOMAIN stack'[u]
        PROVE  LET f == stack'[u][i]
               IN  /\ Formed(f)
                   /\ i < Len(stack'[u]) => f.op = "start" /\ f.at \in {"needs", "act"}
                   /\ i > 1 => f.op = "start" /\ f.at # "leave"
                   /\ i > 1 \/ f.at \in {"needs", "act", "join"} => owner' = u
                   /\ f.at \in {"needs", "act", "join"} /\ f.op \in {"start", "stop"} => f.b \in known'
    <3>1. CASE u = t /\ i = 1 /\ stack'[u][i] = g /\ Len(stack'[u]) = 1
      BY <1>3, <1>4, <3>1
    <3>2. CASE u # t /\ i \in DOMAIN stack[u] /\ stack'[u] = stack[u]
      BY <1>1, <3>2 DEF Frames, Holds
    <3> QED BY <1>7, <3>1, <3>2
  <2> QED BY <2>1 DEF Frames, Holds, Formed, Threads, Servants
<1>9. Truth' /\ Sole'
  <2>1. CallsKept
    <3>1. ASSUME NEW u \in Threads, NEW i \in DOMAIN stack'[u],
                 Passed(stack'[u][i]), stack'[u][i].b \notin raced
          PROVE  /\ i \in DOMAIN stack[u] /\ Passed(stack[u][i]) /\ stack[u][i].b = stack'[u][i].b
                 /\ Tells(stack'[u][i], state'[stack'[u][i].b], up'[stack'[u][i].b], library'[stack'[u][i].b])
      BY <1>1, <1>4, <1>7, <3>1 DEF Truth
    <3> QED BY <3>1 DEF CallsKept
  <2>2. ASSUME NEW c \in Bundles \ raced, Free(c)' PROVE Rests(state'[c], up'[c], library'[c])
    <3>1. ASSUME NEW u \in Threads, NEW i \in DOMAIN stack[u], Passed(stack[u][i])
          PROVE  i \in DOMAIN stack'[u] /\ Passed(stack'[u][i]) /\ stack'[u][i].b = stack[u][i].b
      <4>1. u # t
        BY <1>6
      <4> QED BY <1>5, <3>1, <4>1
    <3>2. Free(c)
      BY <2>2, <3>1, FreeKept
    <3> QED BY <1>1, <2>2, <3>2 DEF Truth
  <2>3. ASSUME NEW c \in Bundles \ raced, c \notin known' PROVE up'[c] = FALSE
    BY <1>1, <2>3 DEF Truth
  <2> QED BY <1>1, <1>5, <2>1, <2>2, <2>3, KeepsTruth
<1>10. Callers'
  <2>3. ASSUME NEW i \in DOMAIN stack'[Control]
        PROVE  \/ stage = "startAll" /\ stack'[Control][i].op = "start"
               \/ Stopping /\ i = 1 /\ stack'[Control][i].op \in {"stop", "unload"} /\ job'[Control].threw = FALSE
    BY <1>3, <1>7, LoaderThreads DEF LoaderInv, Callers
  <2> QED BY <2>3 DEF Callers, Stopping
<1>12. LoaderTypes'
  BY <1>1, <1>5 DEF LoaderTypes, NeedsTyped, Threads, Servants, Calls, Ops, Places, States, None
<1> QED BY <1>8, <1>9, <1>10, <1>12 DEF LoaderInv

\* No call goes on, begins or ends.
LEMMA StillInv ==
    ASSUME LoaderInv, UNCHANGED <<stack, owner, up, library, known>>, disk' \subseteq Bundles,
           state' \in [Bundles -> States], NeedsTyped', raced \subseteq raced', raced' \subseteq Bundles,
           Jobs', Callers',
           \A c \in Bundles : Kept(c) /\ (Called(c) /\ c \notin raced' => state'[c] = state[c])
    PROVE  LoaderInv'
<1>1. LoaderTypes /\ Frames /\ Sole /\ Truth
  BY DEF LoaderInv
<1>2. Frames'
  BY <1>1 DEF Frames, Holds, Formed, Threads, Servants
<1>3. Truth' /\ Sole'
  <2>1. CallsKept
    <3>1. ASSUME NEW u \in Threads, NEW i \in DOMAIN stack[u],
                 Passed(stack[u][i]), stack[u][i].b \notin raced'
          PROVE  Tells(stack[u][i], state'[stack[u][i].b], up[stack[u][i].b], library[stack[u][i].b])
      <4>1. stack[u][i] \in Calls
        BY <1>1 DEF LoaderTypes
      <4>2. stack[u][i].b \in Bundles /\ Called(stack[u][i].b)
        BY <3>1, <4>1 DEF Calls, Called, InCall
      <4> QED BY <1>1, <3>1, <4>2 DEF Truth
    <3> QED BY <3>1 DEF CallsKept
  <2>2. ASSUME NEW c \in Bundles \ raced', Free(c)' PROVE Rests(state'[c], up'[c], library'[c])
    <3>1. Free(c)
      BY <2>2, SameFree
    <3>2. Rests(state[c], up[c], library[c])
      BY <1>1, <2>2, <3>1 DEF Truth
    <3> QED BY <2>2, <3>2 DEF Kept
  <2>3. stack' \in [Threads -> Seq(Calls)]
    BY <1>1 DEF LoaderTypes
  <2>4. \A c \in Bundles \ raced' : c \notin known' => up'[c] = FALSE
    BY <1>1 DEF Truth
  <2> QED BY <1>1, <2>1, <2>2, <2>3, <2>4, KeepsTruth
<1>6. LoaderTypes'
  BY <1>1 DEF LoaderTypes, Threads, Servants, Calls, Ops, Places, States, None
<1> QED BY <1>2, <1>3, <1>6 DEF LoaderInv

\* Only what the threads have to do changes.
LEMMA JobInv ==
    ASSUME LoaderInv, UNCHANGED <<disk, known, state, needs, up, library, owner, stack, raced>>,
           Jobs', Callers'
    PROVE  LoaderInv'
<1>1. \A c \in Bundles : Kept(c) /\ (Called(c) /\ c \notin raced' => state'[c] = state[c])
  BY DEF Kept
<1>2. LoaderTypes
  BY DEF LoaderInv
<1>3. NeedsTyped'
  BY <1>2 DEF LoaderTypes, NeedsTyped
<1> QED BY <1>1, <1>2, <1>3, StillInv DEF LoaderTypes

LEMMA LoaderStutters ==
    ASSUME LoaderInv, UNCHANGED loaderVars
    PROVE  LoaderInv'
<1>1. UNCHANGED <<disk, known, state, needs, up, library, owner, stack, job, stage, raced>>
  BY DEF loaderVars, marks
<1>2. Jobs' /\ Callers'
  BY <1>1 DEF LoaderInv, Jobs, JobSet, Callers, Threads, Servants, None, Stopping
<1> QED BY <1>1, <1>2, JobInv

LEMMA JobFacts ==
    ASSUME LoaderInv, NEW t \in Threads
    PROVE  /\ job \in [Threads -> JobSet] /\ job[t] \in JobSet
           /\ job[t].b \in Bundles \cup {None} /\ job[t].threw \in BOOLEAN /\ job[t].stale \in BOOLEAN
           /\ job[t].plan \in Seq(Bundles \cup {"resolve", "start", "stop"})
           /\ t = Control => job[t].plan \in Seq(Bundles)
           /\ t \in Servants /\ job[t].plan # <<>> =>
                 job[t].b \in Bundles /\ job[t].plan \in Seq({"resolve", "start", "stop"})
<1>1. job \in [Threads -> JobSet]
  BY DEF LoaderInv, Jobs
<1>2. job[t] \in JobSet
  BY <1>1
<1>3. job[t].b \in Bundles \cup {None} /\ job[t].threw \in BOOLEAN /\ job[t].stale \in BOOLEAN
      /\ job[t].plan \in Seq(Bundles \cup {"resolve", "start", "stop"})
  BY <1>2 DEF JobSet
<1> QED BY <1>1, <1>2, <1>3 DEF LoaderInv, Jobs

\* The job of a worker or a request changes.
LEMMA ServantJob ==
    ASSUME LoaderInv, NEW t \in Servants, NEW j \in JobSet, job' = [job EXCEPT ![t] = j],
           j.plan # <<>> => j.b \in Bundles /\ j.plan \in Seq({"resolve", "start", "stop"})
    PROVE  Jobs' /\ job'[t] = j /\ job'[Control] = job[Control]
<1>1. t \in Threads /\ Control \in Threads /\ t # Control /\ Servants \subseteq Threads
  BY LoaderThreads
<1>2. job \in [Threads -> JobSet]
  BY <1>1, JobFacts
<1>3. /\ job' \in [Threads -> JobSet] /\ job'[t] = j /\ job'[Control] = job[Control]
      /\ \A w \in Servants : w # t => job'[w] = job[w]
  BY <1>1, <1>2
<1>4. /\ job'[Control].plan \in Seq(Bundles)
      /\ \A w \in Servants : job'[w].plan # <<>> =>
            job'[w].b \in Bundles /\ job'[w].plan \in Seq({"resolve", "start", "stop"})
  BY <1>3 DEF LoaderInv, Jobs
<1>5. Jobs'
  BY <1>3, <1>4 DEF Jobs, JobSet, Threads, Servants, None
<1> QED BY <1>3, <1>5

\* The control thread's does.
LEMMA ControlJob ==
    ASSUME LoaderInv, NEW j \in JobSet, job' = [job EXCEPT ![Control] = j], j.plan \in Seq(Bundles)
    PROVE  Jobs' /\ job'[Control] = j /\ \A w \in Servants : job'[w] = job[w]
<1>1. Control \in Threads /\ Control \notin Servants /\ Servants \subseteq Threads
  BY LoaderThreads
<1>2. job \in [Threads -> JobSet]
  BY <1>1, JobFacts
<1>3. /\ job' \in [Threads -> JobSet] /\ job'[Control] = j /\ \A w \in Servants : job'[w] = job[w]
  BY <1>1, <1>2
<1>4. \A w \in Servants : job'[w].plan # <<>> =>
            job'[w].b \in Bundles /\ job'[w].plan \in Seq({"resolve", "start", "stop"})
  BY <1>3 DEF LoaderInv, Jobs
<1>5. Jobs'
  BY <1>3, <1>4 DEF Jobs, JobSet, Threads, Servants, None
<1> QED BY <1>3, <1>5

LEMMA ControlSame ==
    ASSUME LoaderInv, stage' = stage, stack'[Control] = stack[Control], job'[Control] = job[Control]
    PROVE  Callers'
  BY DEF LoaderInv, Callers, Stopping

LEMMA ControlIdle ==
    ASSUME LoaderInv, ~Busy(Control) \/ (stage # "startAll" /\ ~Stopping)
    PROVE  stack[Control] = <<>> /\ (stack' = stack => Callers')
<1>1. stack[Control] \in Seq(Calls)
  BY LoaderThreads DEF LoaderInv, LoaderTypes
<1>2. stack[Control] = <<>>
  <2>1. CASE ~Busy(Control)
    BY <2>1 DEF Busy
  <2>2. CASE stage # "startAll" /\ ~Stopping
    <3>1. DOMAIN stack[Control] = {}
      BY <2>2 DEF LoaderInv, Callers
    <3>2. DOMAIN stack[Control] = 1..Len(stack[Control]) /\ Len(stack[Control]) \in Nat
      BY <1>1
    <3>3. Len(stack[Control]) = 0
      <4> DEFINE n == Len(stack[Control])
      <4>1. n \in Nat /\ 1..n = {}
        BY <3>1, <3>2
      <4> HIDE DEF n
      <4>2. n = 0
        BY <4>1
      <4> QED BY <4>2 DEF n
    <3> QED BY <1>1, <3>3, EmptySeq
  <2> QED BY <2>1, <2>2
<1>3. ASSUME stack' = stack PROVE Callers'
  <2>1. DOMAIN stack'[Control] = {}
    BY <1>2, <1>3
  <2> QED BY <2>1 DEF Callers
<1> QED BY <1>2, <1>3

\* What is left of a plan.
LEMMA PlanTail ==
    ASSUME NEW S, NEW p \in Seq(S), p # <<>>
    PROVE  /\ Tail(p) \in Seq(S) /\ Head(p) \in S /\ Head(p) = p[1] /\ Len(Tail(p)) = Len(p) - 1
           /\ \A i \in DOMAIN Tail(p) : i \in Nat /\ i + 1 \in DOMAIN p /\ Tail(p)[i] = p[i + 1]
           /\ \A i \in DOMAIN p : i = 1 \/ (i - 1 \in DOMAIN Tail(p) /\ Tail(p)[i - 1] = p[i])
<1>1. p \in Seq(S) /\ Len(p) \in Nat /\ Len(p) > 0 /\ DOMAIN p = 1..Len(p)
  BY EmptySeq
<1>2. Tail(p) \in Seq(S) /\ Len(Tail(p)) = Len(p) - 1 /\ \A i \in 1..(Len(p) - 1) : Tail(p)[i] = p[i + 1]
  BY <1>1
<1>3. DOMAIN Tail(p) = 1..(Len(p) - 1)
  BY <1>1, <1>2
<1>4. Head(p) = p[1] /\ Head(p) \in S
  BY <1>1
<1>5. \A i \in 1..(Len(p) - 1) : i \in Nat /\ i + 1 \in 1..Len(p)
  BY <1>1
<1>6. \A i \in 1..Len(p) : i = 1 \/ (i - 1 \in 1..(Len(p) - 1) /\ (i - 1) + 1 = i)
  BY <1>1
<1> QED BY <1>1, <1>2, <1>3, <1>4, <1>5, <1>6

LEMMA LoaderTaskBegins ==
    ASSUME LoaderInv, NEW t \in Servants, NEW action \in {"start", "stop", "restart"}, NEW b \in Bundles,
           TaskBegins(t, action, b)
    PROVE  LoaderInv'
<1> DEFINE j == [b |-> b, plan |-> TaskPlan(action), threw |-> FALSE, stale |-> FALSE]
<1>0. /\ job' = [job EXCEPT ![t] = j]
      /\ UNCHANGED <<disk, known, state, needs, up, library, owner, stack, raced, stage>>
  BY DEF TaskBegins, marks
<1>1. TaskPlan(action) \in Seq({"resolve", "start", "stop"})
  <2>1. CASE action = "start"
    <3>1. TaskPlan(action) = <<"resolve", "start">>
      BY <2>1 DEF TaskPlan
    <3> QED BY <3>1
  <2>2. CASE action = "stop"
    <3>1. TaskPlan(action) = <<"stop">>
      BY <2>2 DEF TaskPlan
    <3> QED BY <3>1
  <2>3. CASE action = "restart"
    <3>1. TaskPlan(action) = <<"stop", "resolve", "start">>
      BY <2>3 DEF TaskPlan
    <3> QED BY <3>1
  <2> QED BY <2>1, <2>2, <2>3
<1>2. j \in JobSet /\ j.b = b /\ j.plan \in Seq({"resolve", "start", "stop"})
  <2>1. TaskPlan(action) \in Seq(Bundles \cup {"resolve", "start", "stop"})
    BY <1>1
  <2> QED BY <1>1, <2>1 DEF JobSet
<1> HIDE DEF j
<1>3. Jobs' /\ job'[Control] = job[Control]
  BY <1>0, <1>2, ServantJob
<1>4. Callers'
  BY <1>0, <1>3, ControlSame
<1> QED BY <1>0, <1>3, <1>4, JobInv

LEMMA LoaderTaskNext ==
    ASSUME LoaderInv, NEW t \in Threads, NEW calls \in BOOLEAN, TaskNext(t, calls)
    PROVE  LoaderInv'
<1> DEFINE op == Head(job[t].plan)
           b == job[t].b
           stale == job[t].stale
           j == [job[t] EXCEPT !.plan = Tail(job[t].plan)]
<1>0. /\ t \in Servants /\ job[t].plan # <<>> /\ Plan(t, Tail(job[t].plan)) /\ ~Busy(t)
      /\ IF calls THEN Call(t, op, b, stale) ELSE UNCHANGED stack
      /\ UNCHANGED <<disk, known, state, needs, up, library, owner, raced, stage>>
  BY DEF TaskNext, Ready, marks
<1>1. /\ job \in [Threads -> JobSet] /\ job[t] \in JobSet /\ b \in Bundles /\ stale \in BOOLEAN
      /\ job[t].plan \in Seq({"resolve", "start", "stop"})
      /\ job[t].plan \in Seq(Bundles \cup {"resolve", "start", "stop"})
  BY <1>0, JobFacts
<1>2. /\ Tail(job[t].plan) \in Seq({"resolve", "start", "stop"}) /\ op \in {"resolve", "start", "stop"}
      /\ Tail(job[t].plan) \in Seq(Bundles \cup {"resolve", "start", "stop"})
  BY <1>0, <1>1, PlanTail
<1>3. j \in JobSet /\ j.b = b /\ j.plan = Tail(job[t].plan) /\ job' = [job EXCEPT ![t] = j]
  BY <1>0, <1>1, <1>2 DEF JobSet, Plan
<1> HIDE DEF j
<1>4. Jobs' /\ job'[Control] = job[Control] /\ t # Control
  BY <1>0, <1>1, <1>2, <1>3, ServantJob, LoaderThreads
<1>5. CASE ~calls
  <2>1. Callers'
    BY <1>0, <1>4, <1>5, ControlSame
  <2> QED BY <1>0, <1>4, <1>5, <2>1, JobInv
<1>6. CASE calls
  <2>1. op \in Ops
    BY <1>2 DEF Ops
  <2> HIDE DEF op, b, stale
  <2> QED BY <1>0, <1>1, <1>4, <1>6, <2>1, BeginInv
<1> QED BY <1>5, <1>6

LEMMA LoaderTaskEnds ==
    ASSUME LoaderInv, NEW t \in Threads, TaskEnds(t)
    PROVE  LoaderInv'
<1>0. /\ t \in Servants /\ job' = [job EXCEPT ![t] = IdleJob]
      /\ UNCHANGED <<disk, known, state, needs, up, library, owner, stack, raced, stage>>
  BY DEF TaskEnds, marks
<1>1. IdleJob \in JobSet /\ IdleJob.plan = <<>>
  BY DEF IdleJob, JobSet
<1>2. Jobs' /\ job'[Control] = job[Control]
  BY <1>0, <1>1, ServantJob
<1>3. Callers'
  BY <1>0, <1>2, ControlSame
<1> QED BY <1>0, <1>2, <1>3, JobInv

LEMMA LoaderPerforms ==
    ASSUME LoaderInv, NEW t \in Web, NEW op \in {"resolve", "start", "stop", "uninstall"}, NEW b \in Bundles,
           performAction(t, op, b)
    PROVE  LoaderInv'
<1>0. /\ ~Busy(t) /\ Call(t, op, b, FALSE)
      /\ UNCHANGED <<disk, known, state, needs, up, library, owner, raced, stage, job>>
  BY DEF performAction, AtRest, marks
<1>1. t \in Threads /\ t # Control /\ op \in Ops
  BY LoaderThreads DEF Ops
<1>2. Jobs'
  BY <1>0 DEF LoaderInv, Jobs, JobSet, Threads, Servants, None
<1> DEFINE stale == FALSE
<1>3. stale \in BOOLEAN /\ Call(t, op, b, stale)
  BY <1>0
<1> HIDE DEF stale
<1> QED BY <1>0, <1>1, <1>2, <1>3, BeginInv

LEMMA KnownFinite ==
    ASSUME LoaderInv
    PROVE  Cardinality(known) \in Nat
<1>1. IsFiniteSet(Bundles) /\ known \subseteq Bundles
  BY ManifestAssumption DEF LoaderInv, LoaderTypes
<1>2. IsFiniteSet(known)
  BY <1>1, FS_Subset
<1> QED BY <1>2, FS_CardinalityType

LEMMA Listed ==
    ASSUME NEW n \in Nat, NEW K \in SUBSET Bundles, NEW q \in [1..n -> K]
    PROVE  q \in Seq(Bundles) /\ Len(q) = n /\ DOMAIN q = 1..n
<1>1. q \in Seq(K) /\ Len(q) = n /\ DOMAIN q = 1..n
  OBVIOUS
<1> QED BY <1>1

\* The control thread gets a new plan.
LEMMA NewPlan ==
    ASSUME LoaderInv, NEW p \in Seq(Bundles), job' = [job EXCEPT ![Control].plan = p]
    PROVE  /\ Jobs' /\ job'[Control].plan = p /\ job'[Control].b = job[Control].b
           /\ job'[Control].threw = job[Control].threw
           /\ \A w \in Servants : job'[w] = job[w]
<1> DEFINE j == [job[Control] EXCEPT !.plan = p]
<1>1. Control \in Threads /\ job \in [Threads -> JobSet] /\ job[Control] \in JobSet
  BY LoaderThreads, JobFacts
<1>2. p \in Seq(Bundles \cup {"resolve", "start", "stop"})
  OBVIOUS
<1>3. j \in JobSet /\ j.b = job[Control].b /\ j.plan = p /\ j.threw = job[Control].threw
  BY <1>1, <1>2 DEF JobSet
<1>4. job' = [job EXCEPT ![Control] = j]
  BY <1>1
<1> HIDE DEF j
<1> QED BY <1>3, <1>4, ControlJob

LEMMA LoaderResolveAll ==
    ASSUME LoaderInv, resolveAllBundles
    PROVE  LoaderInv'
<1> DEFINE done == {b \in known : state[b] = "installed" /\ Resolvable(b)}
<1>0. /\ stage = "resolve" /\ Resolves(done) /\ needs' = Recorded(done, {})
      /\ UNCHANGED <<disk, known, up, owner, stack, library>>
  BY DEF resolveAllBundles
<1>1. PICK plan \in ByLevel(known) : job' = [job EXCEPT ![Control].plan = plan]
  BY DEF resolveAllBundles
<1>2. plan \in Seq(Bundles)
  <2>1. plan \in [1..Cardinality(known) -> known] /\ known \in SUBSET Bundles
    BY DEF ByLevel, LoaderInv, LoaderTypes
  <2> QED BY <2>1, KnownFinite, Listed
<1>3. Jobs'
  BY <1>1, <1>2, NewPlan
<1>4. Callers'
  BY <1>0, ControlIdle DEF Stopping
<1>5. /\ \A c \in Bundles : Kept(c) /\ (Called(c) /\ c \notin raced' => state'[c] = state[c])
      /\ raced \subseteq raced' /\ raced' \subseteq Bundles /\ state' \in [Bundles -> States]
  <2>1. done \in SUBSET Bundles /\ \A c \in done : state[c] = "installed"
    BY DEF LoaderInv, LoaderTypes
  <2> HIDE DEF done
  <2> QED BY <1>0, <2>1, ResolvedKept
<1>6. NeedsTyped' /\ disk' \subseteq Bundles
  BY <1>0, RecordedTyped DEF LoaderInv, LoaderTypes
<1> QED BY <1>0, <1>3, <1>4, <1>5, <1>6, StillInv

\* What other threads hold of a Bundle that is loaded is its old object.
LEMMA LoadMarks ==
    ASSUME LoaderTypes, NEW b \in Bundles, loadBundle(b), NEW t \in Threads
    PROVE  /\ stack'[t] \in Seq(Calls) /\ Len(stack'[t]) = Len(stack[t]) /\ DOMAIN stack'[t] = DOMAIN stack[t]
           /\ (stack'[t] = <<>> <=> stack[t] = <<>>)
           /\ \A i \in DOMAIN stack[t] :
                 LET f == stack[t][i]
                     g == stack'[t][i]
                 IN  /\ f \in Calls /\ g \in Calls /\ g.op = f.op /\ g.b = f.b /\ g.at = f.at
                     /\ g.old = f.old /\ g.todo = f.todo /\ g.ok = f.ok
                     /\ f.b # b => g.stale = f.stale
<1> DEFINE G(f) == [f EXCEPT !.stale = @ \/ f.b = b]
           n == Len(stack[t])
<1>1. stack[t] \in Seq(Calls) /\ n \in Nat /\ DOMAIN stack[t] = 1..n
  BY DEF LoaderTypes
<1>2. \A i \in 1..n : stack[t][i] \in Calls
  BY <1>1
<1>3. ASSUME NEW f \in Calls
      PROVE  /\ G(f) \in Calls /\ G(f).op = f.op /\ G(f).b = f.b /\ G(f).at = f.at
             /\ G(f).old = f.old /\ G(f).todo = f.todo /\ G(f).ok = f.ok
             /\ f.b # b => G(f).stale = f.stale
  BY DEF Calls
<1>4. stack'[t] = [i \in 1..n |-> G(stack[t][i])]
  BY DEF loadBundle
<1> HIDE DEF G, n
<1>5. stack'[t] \in Seq(Calls) /\ Len(stack'[t]) = n /\ DOMAIN stack'[t] = 1..n
  <2>1. stack'[t] \in [1..n -> Calls]
    BY <1>2, <1>3, <1>4
  <2> QED BY <1>1, <2>1
<1>6. stack'[t] = <<>> <=> stack[t] = <<>>
  BY <1>1, <1>5, EmptySeq DEF n
<1> QED BY <1>1, <1>2, <1>3, <1>4, <1>5, <1>6 DEF n

LEMMA LoaderLoad ==
    ASSUME LoaderInv, NEW b \in Bundles, loadBundle(b)
    PROVE  LoaderInv'
<1>0. /\ stage = "load" /\ owner = Nobody /\ b \notin known /\ known' = known \cup {b}
      /\ state' = [state EXCEPT ![b] = "installed"] /\ needs' = [needs EXCEPT ![b] = {}]
      /\ job' = [t \in Threads |-> [job[t] EXCEPT !.stale = @ \/ job[t].b = b]]
      /\ raced' = (IF Called(b) THEN raced \cup {b} ELSE raced)
      /\ UNCHANGED <<disk, up, owner, stage, library>>
  BY DEF loadBundle
<1>1. LoaderTypes /\ Frames /\ Sole /\ Truth
  BY DEF LoaderInv
<1>2. /\ stack' \in [Threads -> Seq(Calls)]
      /\ \A t \in Threads : stack'[t] \in Seq(Calls) /\ Len(stack'[t]) = Len(stack[t]) /\ DOMAIN stack'[t] = DOMAIN stack[t]
  <2>1. stack' = [t \in Threads |-> stack'[t]]
    BY DEF loadBundle
  <2> QED BY <1>1, <2>1, LoadMarks
<1>3. ASSUME NEW t \in Threads, NEW i \in DOMAIN stack[t]
      PROVE  LET f == stack[t][i]
                 g == stack'[t][i]
             IN  /\ f \in Calls /\ g \in Calls /\ g.op = f.op /\ g.b = f.b /\ g.at = f.at
                 /\ g.old = f.old /\ g.todo = f.todo /\ g.ok = f.ok /\ (f.b # b => g.stale = f.stale)
                 /\ (Passed(g) <=> Passed(f)) /\ (Formed(f) => Formed(g))
  <2>1. LET f == stack[t][i]
            g == stack'[t][i]
        IN  /\ f \in Calls /\ g \in Calls /\ g.op = f.op /\ g.b = f.b /\ g.at = f.at
            /\ g.old = f.old /\ g.todo = f.todo /\ g.ok = f.ok /\ (f.b # b => g.stale = f.stale)
    BY <1>1, LoadMarks
  <2> QED BY <2>1 DEF Passed, Formed
<1>4. /\ state' \in [Bundles -> States] /\ NeedsTyped' /\ known' \subseteq Bundles /\ raced \subseteq raced'
      /\ raced' \subseteq Bundles /\ state'[b] = "installed" /\ \A c \in Bundles : c # b => state'[c] = state[c]
  BY <1>0, <1>1 DEF LoaderTypes, NeedsTyped, States
<1>5. Frames'
  <2>1. ASSUME NEW u \in Threads, NEW i \in DOMAIN stack'[u]
        PROVE  LET f == stack'[u][i]
               IN  /\ Formed(f)
                   /\ i < Len(stack'[u]) => f.op = "start" /\ f.at \in {"needs", "act"}
                   /\ i > 1 => f.op = "start" /\ f.at # "leave"
                   /\ i > 1 \/ f.at \in {"needs", "act", "join"} => owner' = u
                   /\ f.at \in {"needs", "act", "join"} /\ f.op \in {"start", "stop"} => f.b \in known'
    <3>1. i \in DOMAIN stack[u] /\ Len(stack'[u]) = Len(stack[u])
      BY <1>2
    <3>2. LET f == stack[u][i]
          IN  /\ Formed(f)
              /\ i < Len(stack[u]) => f.op = "start" /\ f.at \in {"needs", "act"}
              /\ i > 1 => f.op = "start" /\ f.at # "leave"
              /\ i > 1 \/ f.at \in {"needs", "act", "join"} => owner = u
              /\ f.at \in {"needs", "act", "join"} /\ f.op \in {"start", "stop"} => f.b \in known
      BY <1>1, <3>1 DEF Frames, Holds
    <3> QED BY <1>0, <1>3, <3>1, <3>2
  <2> QED BY <2>1 DEF Frames, Holds, Formed, Threads, Servants
<1>6. Truth' /\ Sole'
  <2>1. CallsKept
    <3>1. ASSUME NEW u \in Threads, NEW i \in DOMAIN stack'[u],
                 Passed(stack'[u][i]), stack'[u][i].b \notin raced'
          PROVE  /\ i \in DOMAIN stack[u] /\ Passed(stack[u][i]) /\ stack[u][i].b = stack'[u][i].b
                 /\ Tells(stack'[u][i], state'[stack'[u][i].b], up'[stack'[u][i].b], library'[stack'[u][i].b])
      <4> DEFINE f == stack[u][i]
                 g == stack'[u][i]
      <4>1. i \in DOMAIN stack[u]
        BY <1>2
      <4>2. /\ f \in Calls /\ g.op = f.op /\ g.b = f.b /\ g.at = f.at
            /\ g.old = f.old /\ g.ok = f.ok /\ (f.b # b => g.stale = f.stale) /\ Passed(f)
        BY <1>3, <3>1, <4>1
      <4>3. f.b # b
        BY <1>0, <3>1, <4>1, <4>2 DEF Called, InCall
      <4>4. Tells(f, state[f.b], up[f.b], library[f.b]) /\ f.b \in Bundles
        BY <1>1, <1>4, <3>1, <4>1, <4>2 DEF Truth, Calls
      <4> HIDE DEF f, g
      <4>5. Tells(g, state'[g.b], up'[g.b], library'[g.b])
        BY <1>0, <1>4, <4>2, <4>3, <4>4 DEF Tells
      <4> QED BY <4>1, <4>2, <4>5 DEF f, g
    <3> QED BY <3>1 DEF CallsKept
  <2>2. ASSUME NEW c \in Bundles \ raced', Free(c)' PROVE Rests(state'[c], up'[c], library'[c])
    <3>1. Free(c)
      <4>1. ASSUME NEW u \in Threads, NEW i \in DOMAIN stack[u], Passed(stack[u][i])
            PROVE  i \in DOMAIN stack'[u] /\ Passed(stack'[u][i]) /\ stack'[u][i].b = stack[u][i].b
        BY <1>2, <1>3, <4>1
      <4> QED BY <2>2, <4>1, FreeKept
    <3>2. Rests(state[c], up[c], library[c]) /\ (c \notin known => up[c] = FALSE)
      BY <1>1, <1>4, <2>2, <3>1 DEF Truth
    <3>3. CASE c = b
      BY <1>0, <1>4, <3>2, <3>3 DEF Rests
    <3>4. CASE c # b
      BY <1>0, <1>4, <3>2, <3>4
    <3> QED BY <3>3, <3>4
  <2>3. \A c \in Bundles \ raced' : c \notin known' => up'[c] = FALSE
    BY <1>0, <1>1, <1>4 DEF Truth
  <2> QED BY <1>1, <1>2, <1>4, <2>1, <2>2, <2>3, KeepsTruth
<1>7. LoaderTypes'
  BY <1>0, <1>1, <1>2, <1>4 DEF LoaderTypes, Threads, Servants, Calls, Ops, Places, States, None
<1>8. Callers'
  <2>1. stack[Control] = <<>>
    BY <1>0, ControlIdle DEF Stopping
  <2>2. DOMAIN stack'[Control] = {}
    BY <1>2, <2>1, LoaderThreads
  <2> QED BY <2>2 DEF Callers
<1>9. Jobs'
  <2> DEFINE G(j) == [j EXCEPT !.stale = @ \/ j.b = b]
  <2>1. ASSUME NEW j \in JobSet PROVE G(j) \in JobSet /\ G(j).b = j.b /\ G(j).plan = j.plan
    BY DEF JobSet
  <2>2. job \in [Threads -> JobSet] /\ job' = [t \in Threads |-> G(job[t])]
    BY <1>0, JobFacts, LoaderThreads
  <2> HIDE DEF G
  <2>3. job' \in [Threads -> JobSet] /\ \A t \in Threads : job'[t].b = job[t].b /\ job'[t].plan = job[t].plan
    BY <2>1, <2>2
  <2>4. /\ job'[Control].plan \in Seq(Bundles)
        /\ \A w \in Servants : job'[w].plan # <<>> =>
              job'[w].b \in Bundles /\ job'[w].plan \in Seq({"resolve", "start", "stop"})
    BY <2>3, LoaderThreads DEF LoaderInv, Jobs
  <2> QED BY <2>3, <2>4 DEF Jobs, JobSet, Threads, Servants, None
<1> QED BY <1>5, <1>6, <1>7, <1>8, <1>9 DEF LoaderInv

LEMMA LoaderLoaded ==
    ASSUME LoaderInv, Loaded
    PROVE  LoaderInv'
<1>0. /\ stage = "load" /\ UNCHANGED <<disk, known, state, needs, up, library, owner, stack, raced, job>>
  BY DEF Loaded, marks
<1>1. Callers'
  BY <1>0, ControlIdle DEF Stopping
<1>2. Jobs'
  BY <1>0 DEF LoaderInv, Jobs, JobSet, Threads, Servants, None
<1> QED BY <1>0, <1>1, <1>2, JobInv

LEMMA IdleTyped ==
    IdleJob \in JobSet /\ IdleJob.plan = <<>> /\ IdleJob.plan \in Seq(Bundles)
    /\ IdleJob.b = None /\ IdleJob.threw = FALSE
  BY DEF IdleJob, JobSet

LEMMA LoaderStartAll ==
    ASSUME LoaderInv, startAllBundles
    PROVE  LoaderInv'
<1> DEFINE plan == job[Control].plan
           j == [job[Control] EXCEPT !.threw = FALSE, !.plan = Tail(plan)]
<1>0. /\ stage = "startAll" /\ ~Busy(Control)
      /\ UNCHANGED <<disk, known, state, needs, up, library, owner, raced>>
  BY DEF startAllBundles, marks
<1>1. Control \in Threads /\ job[Control] \in JobSet /\ plan \in Seq(Bundles) /\ Control \notin Servants
  BY LoaderThreads, JobFacts
<1>2. CASE job' = [job EXCEPT ![Control] = IdleJob] /\ UNCHANGED stack
  <2>1. Jobs'
    BY <1>2, IdleTyped, ControlJob
  <2>2. Callers'
    BY <1>0, <1>2, ControlIdle
  <2> QED BY <1>0, <1>2, <2>1, <2>2, JobInv
<1>3. CASE /\ plan # <<>> /\ UNCHANGED stage /\ job' = [job EXCEPT ![Control] = j]
           /\ UNCHANGED stack \/ Call(Control, "start", Head(plan), FALSE)
  <2>1. Tail(plan) \in Seq(Bundles) /\ Head(plan) \in Bundles
    <3> HIDE DEF plan
    <3> QED BY <1>1, <1>3, PlanTail
  <2> HIDE DEF plan
  <2>2. j \in JobSet /\ j.plan \in Seq(Bundles)
    <3>1. Tail(plan) \in Seq(Bundles \cup {"resolve", "start", "stop"})
      BY <2>1
    <3> QED BY <1>1, <2>1, <3>1 DEF JobSet
  <2> HIDE DEF j
  <2>3. Jobs'
    BY <1>3, <2>2, ControlJob
  <2>4. CASE UNCHANGED stack
    <3>1. Callers'
      BY <1>0, <2>4, ControlIdle
    <3> QED BY <1>0, <2>3, <2>4, <3>1, JobInv
  <2>5. CASE Call(Control, "start", Head(plan), FALSE)
    <3> DEFINE stale == FALSE
               op == "start"
    <3>1. stale \in BOOLEAN /\ op \in Ops /\ op = "start" /\ Call(Control, op, Head(plan), stale)
      BY <2>5 DEF Ops
    <3> HIDE DEF stale, op
    <3> QED BY <1>0, <1>1, <1>3, <2>1, <2>3, <3>1, BeginInv
  <2> QED BY <1>3, <2>4, <2>5
<1> QED BY <1>2, <1>3 DEF startAllBundles

LEMMA OrderListed ==
    ASSUME LoaderInv, NEW order \in Orders
    PROVE  /\ order \in Seq(Bundles) /\ Len(order) \in Nat /\ DOMAIN order = 1..Len(order)
           /\ StopOrder(order) \in Seq(Bundles) /\ Len(StopOrder(order)) = Len(order)
           /\ DOMAIN StopOrder(order) = 1..Len(order)
           /\ \A i \in 1..Len(order) : /\ Len(order) + 1 - i \in 1..Len(order)
                                       /\ StopOrder(order)[i] = order[Len(order) + 1 - i]
                                       /\ StopOrder(order)[Len(order) + 1 - i] = order[i]
           /\ \A b \in known : \E i \in 1..Len(order) : order[i] = b
           /\ Sorts(order)
<1>1. /\ order \in [1..Cardinality(known) -> known] /\ known \in SUBSET Bundles
      /\ Sorts(order) /\ \A b \in known : \E i \in DOMAIN order : order[i] = b
  BY DEF Orders, LoaderInv, LoaderTypes
<1>2. order \in Seq(Bundles) /\ Len(order) \in Nat /\ DOMAIN order = 1..Len(order)
  BY <1>1, KnownFinite, Listed
<1> DEFINE n == Len(order)
           q == [i \in 1..n |-> order[n + 1 - i]]
<1>3. n \in Nat /\ \A i \in 1..n : n + 1 - i \in 1..n /\ n + 1 - (n + 1 - i) = i
  <2>1. n \in Nat
    BY <1>2
  <2> HIDE DEF n
  <2> QED BY <2>1
<1>4. \A i \in 1..n : order[i] \in Bundles
  BY <1>2
<1>5. StopOrder(order) = q
  BY DEF StopOrder
<1>6. q \in [1..n -> Bundles] /\ \A i \in 1..n : q[i] = order[n + 1 - i] /\ q[n + 1 - i] = order[i]
  <2> HIDE DEF n
  <2> QED BY <1>3, <1>4
<1>7. q \in Seq(Bundles) /\ Len(q) = n /\ DOMAIN q = 1..n
  <2> HIDE DEF q, n
  <2> QED BY <1>3, <1>6, Listed
<1> HIDE DEF q
<1> QED BY <1>1, <1>2, <1>3, <1>5, <1>6, <1>7

LEMMA LoaderSort ==
    ASSUME LoaderInv, SortBundles
    PROVE  LoaderInv'
<1>0. /\ stage \in {"sort", "sortReload", "sortUnload"}
      /\ UNCHANGED <<disk, known, state, needs, up, library, owner, stack, raced>>
  BY DEF SortBundles
<1>1. PICK order \in Orders : job' = [job EXCEPT ![Control].plan = StopOrder(order)]
  BY DEF SortBundles
<1>2. StopOrder(order) \in Seq(Bundles)
  BY OrderListed
<1>3. Jobs'
  BY <1>1, <1>2, NewPlan
<1>4. Callers'
  BY <1>0, ControlIdle DEF Stopping
<1> QED BY <1>0, <1>3, <1>4, JobInv

\* What stopAllBundles makes of the control thread's job.
LEMMA StopsNext ==
    ASSUME LoaderInv, stopAllBundles
    PROVE  LET plan == job[Control].plan IN
           /\ plan \in Seq(Bundles) /\ Tail(plan) \in Seq(Bundles) /\ Head(plan) \in Bundles /\ Head(plan) = plan[1]
           /\ \A i \in DOMAIN plan : i = 1 \/ (i - 1 \in DOMAIN Tail(plan) /\ Tail(plan)[i - 1] = plan[i])
           /\ \A i \in DOMAIN Tail(plan) : i \in Nat /\ i + 1 \in DOMAIN plan /\ Tail(plan)[i] = plan[i + 1]
           /\ Jobs' /\ job'[Control].plan = Tail(plan) /\ job'[Control].threw = FALSE
           /\ job'[Control].b = (IF stage = "reloadUnload" THEN Head(plan) ELSE None)
<1> DEFINE plan == job[Control].plan
           bb == IF stage = "reloadUnload" THEN Head(plan) ELSE None
           j == [job[Control] EXCEPT !.plan = Tail(plan), !.b = bb]
<1>0. /\ ~job[Control].threw /\ plan # <<>>
      /\ job' = [job EXCEPT ![Control].plan = Tail(plan), ![Control].b = bb]
  BY DEF stopAllBundles, Ready, Advanced
<1>1. /\ Control \in Threads /\ job \in [Threads -> JobSet] /\ job[Control] \in JobSet /\ plan \in Seq(Bundles)
      /\ job[Control].threw \in BOOLEAN
  BY LoaderThreads, JobFacts
<1>2. /\ Tail(plan) \in Seq(Bundles) /\ Head(plan) \in Bundles /\ Head(plan) = plan[1]
      /\ \A i \in DOMAIN plan : i = 1 \/ (i - 1 \in DOMAIN Tail(plan) /\ Tail(plan)[i - 1] = plan[i])
      /\ \A i \in DOMAIN Tail(plan) : i \in Nat /\ i + 1 \in DOMAIN plan /\ Tail(plan)[i] = plan[i + 1]
  <2> HIDE DEF plan
  <2> QED BY <1>0, <1>1, PlanTail
<1>3. bb \in Bundles \cup {None}
  BY <1>2
<1>4. job' = [job EXCEPT ![Control] = j]
  <2> HIDE DEF bb
  <2> QED BY <1>0, <1>1
<1> HIDE DEF plan
<1>5. j \in JobSet /\ j.plan = Tail(plan) /\ j.threw = FALSE /\ j.b = bb
  <2>1. Tail(plan) \in Seq(Bundles \cup {"resolve", "start", "stop"})
    BY <1>2
  <2> HIDE DEF bb
  <2> QED BY <1>0, <1>1, <1>3, <2>1 DEF JobSet
<1> HIDE DEF j
<1>6. Jobs' /\ job'[Control] = j
  BY <1>2, <1>4, <1>5, ControlJob
<1> QED BY <1>1, <1>2, <1>5, <1>6 DEF plan

LEMMA LoaderStopAll ==
    ASSUME LoaderInv, stopAllBundles
    PROVE  LoaderInv'
<1> DEFINE b == Head(job[Control].plan)
<1>0. /\ Stopping /\ ~Busy(Control)
      /\ UNCHANGED <<disk, known, state, needs, up, library, owner, raced, stage>>
      /\ UNCHANGED stack \/ Call(Control, "stop", b, FALSE)
  BY DEF stopAllBundles, Ready, marks
<1>1. b \in Bundles /\ Jobs' /\ job'[Control].threw = FALSE /\ Control \in Threads
  BY StopsNext, LoaderThreads
<1> HIDE DEF b
<1>2. CASE UNCHANGED stack
  <2>1. Callers'
    BY <1>0, <1>2, ControlIdle
  <2> QED BY <1>0, <1>1, <1>2, <2>1, JobInv
<1>3. CASE Call(Control, "stop", b, FALSE)
  <2> DEFINE stale == FALSE
             op == "stop"
  <2>1. stale \in BOOLEAN /\ op \in Ops /\ op \in {"stop", "unload"} /\ Call(Control, op, b, stale)
    BY <1>3 DEF Ops
  <2> HIDE DEF stale, op
  <2> QED BY <1>0, <1>1, <2>1, BeginInv
<1> QED BY <1>0, <1>2, <1>3

LEMMA UnloadsNext ==
    ASSUME LoaderInv, unloadBundle
    PROVE  /\ job[Control].b \in Bundles /\ Jobs' /\ job'[Control].b = None
           /\ job'[Control].plan = job[Control].plan /\ job'[Control].threw = FALSE
<1> DEFINE j == [job[Control] EXCEPT !.b = None]
<1>0. ~job[Control].threw /\ job[Control].b # None /\ job' = [job EXCEPT ![Control].b = None]
  BY DEF unloadBundle, Ready
<1>1. /\ Control \in Threads /\ job \in [Threads -> JobSet] /\ job[Control] \in JobSet
      /\ job[Control].plan \in Seq(Bundles) /\ job[Control].b \in Bundles /\ job[Control].threw \in BOOLEAN
  BY <1>0, LoaderThreads, JobFacts
<1>2. /\ j \in JobSet /\ j.b = None /\ j.plan = job[Control].plan /\ j.threw = FALSE
      /\ job' = [job EXCEPT ![Control] = j]
  BY <1>0, <1>1 DEF JobSet
<1> HIDE DEF j
<1> QED BY <1>1, <1>2, ControlJob

LEMMA LoaderUnload ==
    ASSUME LoaderInv, unloadBundle
    PROVE  LoaderInv'
<1> DEFINE b == job[Control].b
           stale == FALSE
           op == "unload"
<1>0. /\ stage = "reloadUnload" /\ ~Busy(Control) /\ Call(Control, op, b, stale)
      /\ UNCHANGED <<disk, known, state, needs, up, library, owner, raced, stage>>
  BY DEF unloadBundle, Ready, marks
<1>1. b \in Bundles /\ Jobs' /\ job'[Control].threw = FALSE /\ Control \in Threads /\ Stopping
  BY <1>0, UnloadsNext, LoaderThreads DEF Stopping
<1>2. stale \in BOOLEAN /\ op \in Ops /\ op \in {"stop", "unload"}
  BY DEF Ops
<1> HIDE DEF b, stale, op
<1> QED BY <1>0, <1>1, <1>2, BeginInv

LEMMA LoaderStoppingEnds ==
    ASSUME LoaderInv, StoppingEnds
    PROVE  LoaderInv'
<1>0. /\ ~Busy(Control) /\ job' = [job EXCEPT ![Control] = IdleJob]
      /\ UNCHANGED <<disk, known, state, needs, up, library, owner, stack, raced>>
  BY DEF StoppingEnds, marks
<1>1. Jobs'
  BY <1>0, IdleTyped, ControlJob
<1>2. Callers'
  BY <1>0, ControlIdle
<1> QED BY <1>0, <1>1, <1>2, JobInv

LEMMA LoaderRequests ==
    ASSUME LoaderInv, RequestReload \/ RequestShutdown
    PROVE  LoaderInv'
<1>0. /\ stage = "run"
      /\ UNCHANGED <<disk, known, state, needs, up, library, owner, stack, raced, job>>
  BY DEF RequestReload, RequestShutdown, marks
<1>1. Callers'
  BY <1>0, ControlIdle DEF Stopping
<1>2. Jobs'
  BY <1>0 DEF LoaderInv, Jobs, JobSet, Threads, Servants, None
<1> QED BY <1>0, <1>1, <1>2, JobInv

LEMMA LoaderInitial ==
    ASSUME LoaderInit
    PROVE  LoaderInv
<1>1. /\ stack = [t \in Threads |-> <<>>] /\ job = [t \in Threads |-> IdleJob]
      /\ \A t \in Threads : stack[t] = <<>> /\ DOMAIN stack[t] = {} /\ job[t] = IdleJob
  BY DEF LoaderInit
<1>2. LoaderTypes
  <2>1. stack \in [Threads -> Seq(Calls)]
    BY <1>1
  <2> QED BY <2>1 DEF LoaderInit, LoaderTypes, NeedsTyped, States
<1>3. Jobs
  BY <1>1, IdleTyped, LoaderThreads DEF Jobs
<1>4. Frames /\ Callers /\ Sole
  BY <1>1, LoaderThreads DEF Frames, Callers, Sole
<1>5. Truth
  BY <1>1 DEF LoaderInit, Truth, Rests
<1> QED BY <1>2, <1>3, <1>4, <1>5 DEF LoaderInv

LEMMA LoaderKept ==
    ASSUME LoaderInv, [LoaderNext]_loaderVars
    PROVE  LoaderInv'
<1>1. CASE \E t \in Threads : Step(t)
  BY <1>1, LoaderCallStep, LoaderTaskNext, LoaderTaskEnds DEF Step
<1>2. CASE \E t \in Servants, action \in {"start", "stop", "restart"}, b \in Bundles : TaskBegins(t, action, b)
  BY <1>2, LoaderTaskBegins
<1>3. CASE \E t \in Web, op \in {"resolve", "start", "stop", "uninstall"}, b \in Bundles : performAction(t, op, b)
  BY <1>3, LoaderPerforms
<1>4. CASE ControlStep
  BY <1>4, LoaderLoad, LoaderLoaded, LoaderResolveAll, LoaderStartAll, LoaderSort, LoaderStopAll, LoaderUnload,
     LoaderStoppingEnds DEF ControlStep
<1>5. CASE RequestReload \/ RequestShutdown
  BY <1>5, LoaderRequests
<1>6. CASE Over \/ UNCHANGED loaderVars
  BY <1>6, LoaderStutters DEF Over
<1> QED BY <1>1, <1>2, <1>3, <1>4, <1>5, <1>6 DEF LoaderNext

(* A Bundle nobody is working on is active if its activator runs, and runs   *)
(* if it is active and has one, for every set of Bundles, workers and        *)
(* requests: Bundle::start and stop put the state back where an activator    *)
(* throws, and the checks of the state keep other threads from a call under  *)
(* way.  Raced Bundles are excepted, as StateIsTrue says: those on which two *)
(* calls passed the check together or a call went to a replaced object.      *)
THEOREM StateIsTrueHolds == LoaderSpec => []StateIsTrue
<1>1. LoaderInit => LoaderInv
  BY LoaderInitial
<1>2. LoaderInv /\ [LoaderNext]_loaderVars => LoaderInv'
  BY LoaderKept
<1>3. ASSUME LoaderInv PROVE StateIsTrue
  <2>1. ASSUME NEW b \in known \ raced, Quiet(b)
        PROVE  (up[b] => isActive(b)) /\ (isActive(b) => up[b] \/ library[b] = "broken")
    <3>1. b \in Bundles \ raced /\ up[b] \in BOOLEAN
      BY <1>3 DEF LoaderInv, LoaderTypes
    <3>2. Free(b)
      BY <2>1 DEF Free, Quiet
    <3>3. Rests(state[b], up[b], library[b])
      BY <1>3, <3>1, <3>2 DEF LoaderInv, Truth
    <3> QED BY <3>1, <3>3 DEF Rests, Runs, isActive
  <2> QED BY <2>1 DEF StateIsTrue
<1> QED BY <1>1, <1>2, <1>3, PTL DEF LoaderSpec

\* No activator that runs goes down, and nothing else is required.
RunsMore == \A c \in Bundles : Runs(up[c], library[c]) => Runs(up'[c], library'[c])
NeedsLess == \A c \in Bundles : needs'[c] \subseteq needs[c]

\* A step of the top call.
LEMMA NeedsTop ==
    ASSUME LoaderTypes, NeedsInv, NEW t \in Threads, Busy(t), NEW g \in Calls, TopBecomes(t, g), g.b = TopCall(t).b,
           NeedsLess, raced \subseteq raced', RunsMore,
           g.op = "start" /\ g.at \in {"needs", "act"} => \A d \in needs[g.b] \ raced' : Runs(up'[d], library'[d]) \/ d \in g.todo,
           Len(stack[t]) > 1 /\ g.at = "done" /\ g.ok = TRUE => Runs(up'[g.b], library'[g.b])
    PROVE  NeedsInv'
<1> DEFINE n == Len(stack[t])
<1>1. /\ n \in DOMAIN stack[t] /\ n \in Nat /\ n > 0 /\ DOMAIN stack[t] = 1..n
      /\ TopCall(t) = stack[t][n]
  BY TopFrame
<1>2. ASSUME NEW u \in Threads, NEW i \in DOMAIN stack'[u]
      PROVE  LET f == stack'[u][i]
             IN  /\ f.op = "start" /\ f.at \in {"needs", "act"} =>
                      \A d \in needs'[f.b] \ raced' :
                          Runs(up'[d], library'[d]) \/ d \in f.todo \/ (i < Len(stack'[u]) /\ stack'[u][i + 1].b = d)
                 /\ i > 1 /\ f.at = "done" /\ f.ok = TRUE => Runs(up'[f.b], library'[f.b])
  <2>0. stack'[u] \in Seq(Calls) /\ stack'[u][i] \in Calls
    BY DEF TopBecomes, Others
  <2>1. stack'[u][i].b \in Bundles /\ needs[stack'[u][i].b] \subseteq Bundles
    BY <2>0 DEF Calls, LoaderTypes, NeedsTyped
  <2>2. CASE u = t /\ i = n
    <3>1. stack'[u][i] = g
      BY <2>2 DEF TopBecomes
    <3> QED BY <1>1, <2>1, <2>2, <3>1 DEF NeedsLess
  <2>3. CASE ~(u = t /\ i = n)
    <3>1. /\ i \in DOMAIN stack[u] /\ stack'[u][i] = stack[u][i] /\ Len(stack'[u]) = Len(stack[u])
      BY <2>3 DEF TopBecomes, Others
    <3>2. ASSUME i < Len(stack[u]) PROVE stack'[u][i + 1].b = stack[u][i + 1].b
      <4>1. i + 1 \in DOMAIN stack[u]
        <5>1. stack[u] \in Seq(Calls)
          BY DEF LoaderTypes
        <5> QED BY <3>1, <3>2, <5>1
      <4>2. CASE u = t /\ i + 1 = n
        BY <1>1, <4>2 DEF TopBecomes
      <4>3. CASE ~(u = t /\ i + 1 = n)
        BY <4>1, <4>3 DEF TopBecomes, Others
      <4> QED BY <4>2, <4>3
    <3>3. /\ stack[u][i].op = "start" /\ stack[u][i].at \in {"needs", "act"} =>
                \A d \in needs[stack[u][i].b] \ raced :
                   Runs(up[d], library[d]) \/ d \in stack[u][i].todo \/ (i < Len(stack[u]) /\ stack[u][i + 1].b = d)
          /\ i > 1 /\ stack[u][i].at = "done" /\ stack[u][i].ok = TRUE => Runs(up[stack[u][i].b], library[stack[u][i].b])
      BY <3>1 DEF NeedsInv
    <3> QED BY <2>1, <3>1, <3>2, <3>3 DEF NeedsLess, RunsMore
  <2> QED BY <2>2, <2>3
<1> QED BY <1>2 DEF NeedsInv, Runs, Threads, Servants

LEMMA NeedsGoes ==
    ASSUME LoaderInv, NeedsInv, NEW t \in Threads, Busy(t), NEW a \in Places, Goto(t, a),
           a \in {"needs", "act"} => TopCall(t).op # "start",
           NeedsLess, raced \subseteq raced', RunsMore,
           Len(stack[t]) > 1 /\ a = "done" => Runs(up'[TopCall(t).b], library'[TopCall(t).b])
    PROVE  NeedsInv'
<1>1. PICK g \in Calls : TopBecomes(t, g) /\ g.at = a /\ g.op = TopCall(t).op /\ g.b = TopCall(t).b
  BY GoesOn DEF Moves
<1> QED BY <1>1, NeedsTop DEF LoaderInv

LEMMA NeedsThrows ==
    ASSUME LoaderInv, NeedsInv, NEW t \in Threads, Busy(t), Throw(t), UNCHANGED <<needs, raced, up, library>>
    PROVE  NeedsInv'
<1>1. PICK g \in Calls : TopBecomes(t, g) /\ g.at = Exit(t) /\ g.op = TopCall(t).op /\ g.b = TopCall(t).b /\ g.ok = FALSE
  BY Throws DEF Moves
<1>2. g.at \notin {"needs", "act"}
  BY <1>1, ExitPlace
<1>3. NeedsLess /\ RunsMore
  BY DEF NeedsLess, RunsMore
<1> QED BY <1>1, <1>2, <1>3, NeedsTop DEF LoaderInv

\* Nobody is starting a Bundle under the mutex.
LEMMA NeedsVacuous ==
    ASSUME \A u \in Threads : \A i \in DOMAIN stack'[u] :
              /\ ~(stack'[u][i].op = "start" /\ stack'[u][i].at \in {"needs", "act"})
              /\ ~(i > 1)
    PROVE  NeedsInv'
  BY DEF NeedsInv, Runs, Threads, Servants

LEMMA NeedsSame ==
    ASSUME NeedsInv, UNCHANGED <<stack, needs, up, library, raced>>
    PROVE  NeedsInv'
  BY DEF NeedsInv, Runs, Threads, Servants

\* The mutex is held by a stop or by nobody: nothing is being started.
LEMMA NobodyStarts ==
    ASSUME LoaderInv,
           owner = Nobody \/ \E t \in Threads : owner = t /\ Busy(t) /\ TopCall(t).op # "start",
           NEW u \in Threads, NEW i \in DOMAIN stack[u]
    PROVE  ~(stack[u][i].op = "start" /\ stack[u][i].at \in {"needs", "act"}) /\ ~(i > 1)
<1>1. SUFFICES ASSUME (stack[u][i].op = "start" /\ stack[u][i].at \in {"needs", "act"}) \/ i > 1
               PROVE FALSE
  OBVIOUS
<1>2. owner = u
  BY <1>1 DEF LoaderInv, Frames, Holds
<1>3. Busy(u) /\ TopCall(u).op # "start"
  BY <1>2, LoaderThreads
<1> DEFINE n == Len(stack[u])
<1>4. TopCall(u) = stack[u][n] /\ n \in DOMAIN stack[u] /\ DOMAIN stack[u] = 1..n /\ n \in Nat
  BY <1>3, TopFrame DEF LoaderInv
<1>5. ~(n > 1)
  BY <1>3, <1>4 DEF LoaderInv, Frames
<1>6. n \in Nat /\ i \in 1..n
  BY <1>4
<1>7. i = n /\ ~(i > 1)
  <2> HIDE DEF n
  <2> QED BY <1>5, <1>6
<1> QED BY <1>1, <1>3, <1>4, <1>7

LEMMA NeedsPush ==
    ASSUME LoaderTypes, NeedsInv, NEW t \in Threads, Busy(t), NEW g \in Calls, NEW h \in Calls, Pushes(t, g, h),
           UNCHANGED <<needs, raced, up, library>>, h.at = "check", g.b = TopCall(t).b,
           \A d \in needs[g.b] \ raced : Runs(up[d], library[d]) \/ d \in g.todo \/ h.b = d,
           g.at # "done"
    PROVE  NeedsInv'
<1> DEFINE n == Len(stack[t])
<1>1. /\ n \in DOMAIN stack[t] /\ n \in Nat /\ n > 0 /\ DOMAIN stack[t] = 1..n /\ TopCall(t) = stack[t][n]
      /\ Len(stack'[t]) = n + 1 /\ stack'[t][n + 1] = h /\ stack'[t][n] = g
      /\ \A i \in 1..n : i # n => stack'[t][i] = stack[t][i]
  BY TopFrame DEF Pushes
<1>2. ASSUME NEW u \in Threads, NEW i \in DOMAIN stack'[u]
      PROVE  LET f == stack'[u][i]
             IN  /\ f.op = "start" /\ f.at \in {"needs", "act"} =>
                      \A d \in needs'[f.b] \ raced' :
                          Runs(up'[d], library'[d]) \/ d \in f.todo \/ (i < Len(stack'[u]) /\ stack'[u][i + 1].b = d)
                 /\ i > 1 /\ f.at = "done" /\ f.ok = TRUE => Runs(up'[f.b], library'[f.b])
  <2>1. CASE u = t /\ i = n + 1 /\ stack'[u][i] = h
    BY <2>1
  <2>2. CASE u = t /\ i = n /\ stack'[u][i] = g
    <3>1. n < n + 1
      BY <1>1
    <3> QED BY <1>1, <2>2, <3>1
  <2>3. CASE /\ i \in DOMAIN stack[u] /\ stack'[u][i] = stack[u][i]
             /\ IF u = t THEN i < n /\ n > 1 ELSE stack'[u] = stack[u]
    <3>1. /\ stack[u][i].op = "start" /\ stack[u][i].at \in {"needs", "act"} =>
                \A d \in needs[stack[u][i].b] \ raced :
                   Runs(up[d], library[d]) \/ d \in stack[u][i].todo \/ (i < Len(stack[u]) /\ stack[u][i + 1].b = d)
          /\ i > 1 /\ stack[u][i].at = "done" /\ stack[u][i].ok = TRUE => Runs(up[stack[u][i].b], library[stack[u][i].b])
      BY <2>3 DEF NeedsInv
    <3>2. CASE u # t
      BY <2>3, <3>1, <3>2
    <3>3. CASE u = t
      <4>1. i \in 1..n /\ i < n /\ n \in Nat
        BY <1>1, <2>3, <3>3
      <4>2. i + 1 \in 1..n /\ i < n + 1
        <5> HIDE DEF n
        <5> QED BY <4>1
      <4>3. stack'[t][i + 1].b = stack[t][i + 1].b
        BY <1>1, <4>2
      <4> QED BY <1>1, <2>3, <3>1, <3>3, <4>2, <4>3
    <3> QED BY <3>2, <3>3
  <2>4. \/ u = t /\ i = n + 1 /\ stack'[u][i] = h
        \/ u = t /\ i = n /\ stack'[u][i] = g
        \/ /\ i \in DOMAIN stack[u] /\ stack'[u][i] = stack[u][i]
           /\ IF u = t THEN i < n /\ n > 1 ELSE stack'[u] = stack[u]
    BY PushOthers
  <2> HIDE DEF n
  <2> QED BY <2>1, <2>2, <2>3, <2>4
<1> QED BY <1>2 DEF NeedsInv, Runs, Threads, Servants

LEMMA NeedsDone ==
    ASSUME LoaderInv, NeedsInv, NEW t \in Threads, Done(t)
    PROVE  NeedsInv'
<1> DEFINE n == Len(stack[t])
           f == TopCall(t)
<1>0. Busy(t) /\ f.at = "done" /\ UNCHANGED <<needs, raced, up, library>> /\ LoaderTypes /\ Frames
  BY DEF Done, At, LoaderInv, marks
<1>1. /\ n \in DOMAIN stack[t] /\ n \in Nat /\ n > 0 /\ DOMAIN stack[t] = 1..n /\ f = stack[t][n]
      /\ f \in Calls
  BY <1>0, TopFrame
<1>2. ASSUME NEW u \in Threads, NEW i \in DOMAIN stack'[u]
      PROVE  LET h == stack'[u][i]
             IN  /\ h.op = "start" /\ h.at \in {"needs", "act"} =>
                      \A d \in needs'[h.b] \ raced' :
                          Runs(up'[d], library'[d]) \/ d \in h.todo \/ (i < Len(stack'[u]) /\ stack'[u][i + 1].b = d)
                 /\ i > 1 /\ h.at = "done" /\ h.ok = TRUE => Runs(up'[h.b], library'[h.b])
  <2>1. /\ i \in DOMAIN stack[u] /\ (u = t => i < n) /\ (u # t => stack'[u] = stack[u])
    BY <1>0, DoneOthers
  <2>2. /\ stack[u][i].op = "start" /\ stack[u][i].at \in {"needs", "act"} =>
              \A d \in needs[stack[u][i].b] \ raced :
                 Runs(up[d], library[d]) \/ d \in stack[u][i].todo \/ (i < Len(stack[u]) /\ stack[u][i + 1].b = d)
        /\ i > 1 /\ stack[u][i].at = "done" /\ stack[u][i].ok = TRUE => Runs(up[stack[u][i].b], library[stack[u][i].b])
    BY <2>1 DEF NeedsInv
  <2>3. CASE u # t
    BY <1>0, <2>1, <2>2, <2>3
  <2>4. CASE u = t /\ (f.ok = TRUE \/ n = 1) /\ Pops(t)
    <3>1. i \in 1..(n - 1) /\ Len(stack'[t]) = n - 1 /\ \A k \in 1..(n - 1) : stack'[t][k] = stack[t][k]
      BY <2>4 DEF Pops
    <3>2. n \in Nat /\ n > 0
      BY <1>1
    <3>3. n > 1 /\ (i + 1 = n \/ (i + 1 \in 1..(n - 1) /\ i < n - 1)) /\ n # 1
      <4> HIDE DEF n
      <4> QED BY <3>1, <3>2
    <3>4. f.ok = TRUE /\ Runs(up[f.b], library[f.b])
      BY <1>0, <1>1, <2>4, <3>3 DEF NeedsInv
    <3>5. CASE i + 1 = n
      <4>1. stack[t][i + 1] = f
        BY <1>1, <3>5
      <4> HIDE DEF n, f
      <4> QED BY <1>0, <2>2, <2>4, <3>1, <3>4, <4>1
    <3>6. CASE i + 1 \in 1..(n - 1) /\ i < n - 1
      <4>1. stack'[t][i + 1] = stack[t][i + 1] /\ i < Len(stack'[t]) /\ stack'[t][i] = stack[t][i]
        BY <3>1, <3>6
      <4> HIDE DEF n, f
      <4> QED BY <1>0, <2>2, <2>4, <4>1
    <3> QED BY <3>3, <3>5, <3>6
  <2>5. CASE u = t /\ f.ok = FALSE /\ n > 1 /\ \E g \in Calls : Fails(t, stack[t][n - 1], g)
    <3>1. PICK g \in Calls : Fails(t, stack[t][n - 1], g)
      BY <2>5
    <3>2. /\ i \in 1..(n - 1) /\ Len(stack'[t]) = n - 1 /\ stack'[t][n - 1] = g
          /\ \A k \in 1..(n - 1) : k # n - 1 => stack'[t][k] = stack[t][k]
          /\ g.at \in {"leave", "done"} /\ g.ok = FALSE /\ g.b = stack[t][n - 1].b
      BY <2>5, <3>1 DEF Fails, PopsTo
    <3>3. n \in Nat /\ n > 1
      BY <1>1, <2>5
    <3>4. i = n - 1 \/ (i # n - 1 /\ i + 1 \in 1..(n - 1) /\ i < n - 1)
      <4> HIDE DEF n
      <4> QED BY <3>2, <3>3
    <3>5. CASE i = n - 1
      BY <2>5, <3>2, <3>5
    <3>6. CASE i # n - 1 /\ i + 1 \in 1..(n - 1) /\ i < n - 1
      <4>1. stack'[t][i] = stack[t][i] /\ i < Len(stack'[t])
        BY <3>2, <3>6
      <4>2. stack'[t][i + 1].b = stack[t][i + 1].b
        BY <3>2, <3>6
      <4> HIDE DEF n, f
      <4> QED BY <1>0, <2>2, <2>5, <4>1, <4>2
    <3> QED BY <3>4, <3>5, <3>6
  <2> QED BY <1>0, <2>3, <2>4, <2>5, DonePops
<1> QED BY <1>2 DEF NeedsInv, Runs, Threads, Servants

\* A call with the mutex that starts nothing: no other is starting a Bundle.
LEMMA NeedsNone ==
    ASSUME LoaderInv, NEW t \in Threads, Busy(t), TopCall(t).op # "start", owner = t,
           NEW a \in Places, Throw(t) \/ Goto(t, a)
    PROVE  NeedsInv'
<1>1. PICK g \in Calls : TopBecomes(t, g) /\ g.op = TopCall(t).op
  BY Throws, GoesOn DEF Moves
<1>2. ASSUME NEW u \in Threads, NEW i \in DOMAIN stack'[u]
      PROVE  ~(stack'[u][i].op = "start" /\ stack'[u][i].at \in {"needs", "act"}) /\ ~(i > 1)
  <2>1. i \in DOMAIN stack[u] /\ stack'[u][i] \in {stack[u][i], g}
    BY <1>1 DEF TopBecomes, Others
  <2>2. ~(stack[u][i].op = "start" /\ stack[u][i].at \in {"needs", "act"}) /\ ~(i > 1)
    BY <2>1, NobodyStarts
  <2> QED BY <1>1, <2>1, <2>2
<1> QED BY <1>2, NeedsVacuous

LEMMA NeedsCallStep ==
    ASSUME LoaderInv, NeedsInv, NEW t \in Threads, CallStep(t)
    PROVE  NeedsInv'
<1> DEFINE f == TopCall(t)
<1>1. CASE Check(t)
  <2>1. Busy(t) /\ UNCHANGED <<needs, up, library>> /\ raced \subseteq raced'
        /\ ((UNCHANGED raced /\ Throw(t)) \/ Goto(t, IF f.op \in {"uninstall", "unload"} THEN "enter" ELSE "set"))
    BY <1>1 DEF Check, At
  <2>2. CASE UNCHANGED raced /\ Throw(t)
    BY <2>1, <2>2, NeedsThrows
  <2>3. CASE Goto(t, IF f.op \in {"uninstall", "unload"} THEN "enter" ELSE "set")
    <3>1. PICK a : a \in {"enter", "set"} /\ Goto(t, a)
      BY <2>3
    <3>2. NeedsLess /\ RunsMore
      BY <2>1 DEF NeedsLess, RunsMore
    <3> QED BY <2>1, <3>1, <3>2, NeedsGoes DEF Places
  <2> QED BY <2>1, <2>2, <2>3
<1>2. CASE Set(t)
  <2> DEFINE s == IF f.op = "resolve" THEN f.old ELSE state[f.b]
             g == [f EXCEPT !.at = "enter", !.old = s]
             mine == IF f.stale THEN {} ELSE {f.b}
  <2>1. /\ Busy(t) /\ UNCHANGED <<up, library, raced>> /\ SetTop(t, g)
        /\ needs' = [b \in Bundles |-> IF b \in mine /\ f.op = "resolve" THEN {} ELSE needs[b]]
    BY <1>2 DEF Set, At
  <2>2. f \in Calls /\ s \in States \cup {None} /\ LoaderTypes
    BY <2>1, TopFacts DEF LoaderInv, LoaderTypes, Calls
  <2>3. NeedsLess /\ RunsMore
    BY <2>1 DEF NeedsLess, RunsMore
  <2> HIDE DEF s
  <2>4. g \in Calls /\ g.at = "enter" /\ g.b = f.b
    BY <2>2, CallSets
  <2> HIDE DEF g
  <2>5. TopBecomes(t, g)
    BY <2>1, <2>2, <2>4, TopUpdate
  <2> QED BY <2>1, <2>2, <2>3, <2>4, <2>5, NeedsTop
<1>3. CASE Enter(t)
  <2> DEFINE T == IF f.stale THEN Requires[f.b] ELSE needs[f.b]
             h == NextNeed([f EXCEPT !.todo = T])
  <2>1. Busy(t) /\ f.at = "enter" /\ UNCHANGED <<needs, up, library, raced>>
    BY <1>3 DEF Enter, At, marks
  <2>2. \/ Throw(t)
        \/ f.op = "start" /\ SetTop(t, h)
        \/ f.op # "start" /\ Goto(t, "act")
    BY <1>3 DEF Enter
  <2>3. f \in Calls /\ f.b \in Bundles /\ LoaderTypes
    BY <2>1, TopFacts DEF LoaderInv
  <2>4. T \in SUBSET Bundles /\ needs[f.b] \subseteq T
    BY <2>3, LoaderThreads DEF LoaderTypes, NeedsTyped
  <2> HIDE DEF T
  <2>5. f.op = "start" => h \in Calls /\ h.at \in {"needs", "act"} /\ h.b = f.b /\ h.todo = T
    BY <2>3, <2>4, CallNeeds
  <2> HIDE DEF h
  <2>6. NeedsLess /\ RunsMore
    BY <2>1 DEF NeedsLess, RunsMore
  <2>7. CASE f.op = "start" /\ SetTop(t, h)
    <3>1. TopBecomes(t, h)
      BY <2>1, <2>3, <2>5, <2>7, TopUpdate
    <3>2. \A d \in needs[h.b] \ raced' : Runs(up'[d], library'[d]) \/ d \in h.todo
      BY <2>4, <2>5, <2>7
    <3> QED BY <2>1, <2>3, <2>5, <2>6, <2>7, <3>1, <3>2, NeedsTop
  <2> QED BY <2>1, <2>2, <2>6, <2>7, NeedsThrows, NeedsGoes DEF Places
<1>4. CASE Need(t)
  <2> DEFINE G(d) == NextNeed([f EXCEPT !.todo = f.todo \ {d}])
  <2>1. Busy(t) /\ f.at = "needs" /\ UNCHANGED <<needs, up, library, raced>>
    BY <1>4 DEF Need, At, marks
  <2>2. f \in Calls /\ f.b \in Bundles /\ LoaderTypes /\ f.op = "start"
    BY <2>1, TopFacts DEF LoaderInv, Formed
  <2>3. f.todo \in SUBSET Bundles /\ needs[f.b] \subseteq Bundles
    BY <2>2 DEF Calls, LoaderTypes, NeedsTyped
  <2>4. PICK d \in f.todo :
         \/ Throw(t)
         \/ state[d] = "active" /\ SetTop(t, G(d))
         \/ stack' = [stack EXCEPT ![t] = Append([@ EXCEPT ![Len(@)] = G(d)], Frame("start", d, FALSE))]
    BY <1>4, <2>2 DEF Need, Calls, NeedMet, isActive
  <2> DEFINE g == G(d)
             h == Frame("start", d, FALSE)
  <2>5. g \in Calls /\ g.at \in {"needs", "act"} /\ g.b = f.b /\ g.todo = f.todo \ {d}
    <3>1. f.todo \ {d} \in SUBSET Bundles
      BY <2>3
    <3> QED BY <2>1, <2>2, <3>1, LooksAt
  <2>6. h \in Calls /\ h.at = "check" /\ h.b = d
    BY <2>3 DEF Frame, Calls, Ops, Places, States, None
  <2>7. \/ Throw(t)
        \/ state[d] = "active" /\ SetTop(t, g)
        \/ stack' = [stack EXCEPT ![t] = Append([@ EXCEPT ![Len(@)] = g], h)]
    BY <2>4
  <2> HIDE DEF G, g, h
  <2>8. \A e \in needs[f.b] \ raced : Runs(up[e], library[e]) \/ e \in f.todo
    <3>1. f = stack[t][Len(stack[t])] /\ Len(stack[t]) \in DOMAIN stack[t] /\ Len(stack[t]) \in Nat
      BY <2>1, <2>2, TopFrame
    <3>2. ~(Len(stack[t]) < Len(stack[t]))
      BY <3>1
    <3> QED BY <2>1, <2>2, <3>1, <3>2 DEF NeedsInv
  <2>9. CASE state[d] = "active" /\ SetTop(t, g)
    <3>1. TopBecomes(t, g)
      BY <2>1, <2>2, <2>5, <2>9, TopUpdate
    <3>2. d \notin raced => Runs(up[d], library[d])
      BY <2>3, <2>9, UpIsStarted
    <3>3. \A e \in needs[g.b] \ raced' : Runs(up'[e], library'[e]) \/ e \in g.todo
      BY <2>1, <2>5, <2>8, <3>2
    <3>4. NeedsLess /\ RunsMore
      BY <2>1 DEF NeedsLess, RunsMore
    <3> QED BY <2>1, <2>2, <2>5, <3>1, <3>3, <3>4, NeedsTop
  <2>10. CASE stack' = [stack EXCEPT ![t] = Append([@ EXCEPT ![Len(@)] = g], h)]
    <3>1. Pushes(t, g, h)
      BY <2>1, <2>2, <2>5, <2>6, <2>10, CallPushes
    <3>2. \A e \in needs[g.b] \ raced : Runs(up[e], library[e]) \/ e \in g.todo \/ h.b = e
      BY <2>5, <2>6, <2>8
    <3>3. g.at # "done"
      BY <2>5
    <3> QED BY <2>1, <2>2, <2>5, <2>6, <3>1, <3>2, <3>3, NeedsPush
  <2> QED BY <2>1, <2>7, <2>9, <2>10, NeedsThrows
<1>5. CASE ActStart(t)
  <2>1. Busy(t) /\ UNCHANGED <<needs, raced>>
    BY <1>5 DEF ActStart, At, marks
  <2>2. /\ f.b \in Bundles /\ up \in [Bundles -> BOOLEAN] /\ Exit(t) \in {"leave", "done"}
        /\ library \in [Bundles -> {"none", "loaded", "broken"}]
    BY <2>1, TopFacts, ExitPlace DEF LoaderInv, LoaderTypes
  <2>3. CASE /\ Goto(t, Exit(t))
             /\ \/ /\ library[f.b] # "broken" /\ up' = [up EXCEPT ![f.b] = TRUE]
                   /\ library' = [library EXCEPT ![f.b] = "loaded"]
                \/ library[f.b] = "broken" /\ UNCHANGED <<up, library>>
    <3>1. RunsMore /\ NeedsLess /\ Runs(up'[f.b], library'[f.b])
      BY <2>1, <2>2, <2>3 DEF RunsMore, NeedsLess, Runs
    <3>2. Exit(t) \in Places /\ Exit(t) \notin {"needs", "act"}
      BY <2>2 DEF Places
    <3> QED BY <2>1, <2>3, <3>1, <3>2, NeedsGoes
  <2>4. CASE /\ Throw(t) /\ library[f.b] # "broken" /\ UNCHANGED up
             /\ \E l : library' = [library EXCEPT ![f.b] = l]
    <3>1. RunsMore /\ NeedsLess
      BY <2>1, <2>2, <2>4 DEF RunsMore, NeedsLess, Runs
    <3>2. PICK g \in Calls : TopBecomes(t, g) /\ g.at = Exit(t) /\ g.b = f.b /\ g.ok = FALSE
      BY <2>1, <2>4, Throws DEF Moves
    <3> QED BY <2>1, <2>2, <3>1, <3>2, NeedsTop DEF LoaderInv
  <2> QED BY <1>5, <2>3, <2>4 DEF ActStart
<1>6. CASE ActStop(t) \/ Join(t) \/ ActUnload(t) \/ ActResolve(t)
  <2>1. /\ Busy(t) /\ f.at \in {"act", "join"} /\ (f.at = "act" => f.op # "start")
        /\ Throw(t) \/ Goto(t, "join") \/ Goto(t, Exit(t))
    BY <1>6 DEF ActStop, Join, ActUnload, ActResolve, At
  <2>2. owner = t /\ f.op # "start"
    BY <2>1, TopFacts DEF Formed
  <2>3. "join" \in Places /\ Exit(t) \in Places
    BY ExitPlace DEF Places
  <2> QED BY <2>1, <2>2, <2>3, NeedsNone
<1>8. CASE Leave(t)
  <2>1. Busy(t) /\ f.at = "leave" /\ UNCHANGED <<needs, up, library, raced>> /\ Goto(t, "done")
    BY <1>8 DEF Leave, At, marks
  <2>2. ~(Len(stack[t]) > 1) /\ "done" \in Places
    BY <2>1, TopFacts DEF Places
  <2>3. NeedsLess /\ RunsMore
    BY <2>1 DEF NeedsLess, RunsMore
  <2> QED BY <2>1, <2>2, <2>3, NeedsGoes
<1>9. CASE Done(t)
  BY <1>9, NeedsDone
<1> QED BY <1>1, <1>2, <1>3, <1>4, <1>5, <1>6, <1>8, <1>9 DEF CallStep

LEMMA NeedsBegins ==
    ASSUME LoaderInv, NeedsInv, NEW t \in Threads, ~Busy(t),
           NEW op \in Ops, NEW b \in Bundles, NEW stale \in BOOLEAN, Call(t, op, b, stale),
           UNCHANGED <<needs, up, library, raced>>
    PROVE  NeedsInv'
<1> DEFINE g == Frame(op, b, stale)
<1>1. Begins(t, g)
  BY CallBegins DEF LoaderInv
<1>2. g \in Calls /\ g.at = "check"
  BY DEF Frame, Calls, Ops, Places, States, None
<1> HIDE DEF g
<1>3. ASSUME NEW u \in Threads, NEW i \in DOMAIN stack'[u]
      PROVE  \/ i = 1 /\ stack'[u][i] = g
             \/ i \in DOMAIN stack[u] /\ stack'[u] = stack[u]
  <2>1. DOMAIN stack'[t] = {1} /\ stack'[t][1] = g
    BY <1>1 DEF Begins
  <2> QED BY <1>1, <2>1 DEF Begins, Others
<1>4. ASSUME NEW u \in Threads, NEW i \in DOMAIN stack'[u]
      PROVE  LET f == stack'[u][i]
             IN  /\ f.op = "start" /\ f.at \in {"needs", "act"} =>
                      \A d \in needs'[f.b] \ raced' :
                          Runs(up'[d], library'[d]) \/ d \in f.todo \/ (i < Len(stack'[u]) /\ stack'[u][i + 1].b = d)
                 /\ i > 1 /\ f.at = "done" /\ f.ok = TRUE => Runs(up'[f.b], library'[f.b])
  <2>1. CASE i = 1 /\ stack'[u][i] = g
    BY <1>2, <2>1
  <2>2. CASE i \in DOMAIN stack[u] /\ stack'[u] = stack[u]
    BY <2>2 DEF NeedsInv
  <2> QED BY <1>3, <2>1, <2>2
<1> QED BY <1>4 DEF NeedsInv, Runs, Threads, Servants

LEMMA NeedsNext ==
    ASSUME LoaderInv, NeedsInv, [LoaderNext]_loaderVars
    PROVE  NeedsInv'
<1>1. CASE \E t \in Threads : Step(t)
  <2>1. PICK t \in Threads : Step(t)
    BY <1>1
  <2>2. CASE CallStep(t)
    BY <2>2, NeedsCallStep
  <2>3. CASE TaskEnds(t)
    BY <2>3, NeedsSame DEF TaskEnds, marks
  <2>4. ASSUME NEW calls \in BOOLEAN, TaskNext(t, calls) PROVE NeedsInv'
    <3> DEFINE op == Head(job[t].plan)
               b == job[t].b
               stale == job[t].stale
    <3>1. /\ t \in Servants /\ job[t].plan # <<>> /\ ~Busy(t) /\ UNCHANGED <<needs, up, library, raced>>
          /\ IF calls THEN Call(t, op, b, stale) ELSE UNCHANGED stack
      BY <2>4 DEF TaskNext, Ready, marks
    <3>2. b \in Bundles /\ stale \in BOOLEAN /\ job[t].plan \in Seq({"resolve", "start", "stop"})
      BY <3>1, JobFacts
    <3>3. op \in Ops
      <4>1. op \in {"resolve", "start", "stop"}
        BY <3>1, <3>2, PlanTail
      <4> QED BY <4>1 DEF Ops
    <3> HIDE DEF op, b, stale
    <3> QED BY <3>1, <3>2, <3>3, NeedsBegins, NeedsSame
  <2> QED BY <2>1, <2>2, <2>3, <2>4 DEF Step
<1>2. CASE \E t \in Servants, action \in {"start", "stop", "restart"}, b \in Bundles : TaskBegins(t, action, b)
  BY <1>2, NeedsSame DEF TaskBegins, marks
<1>3. CASE \E t \in Web, op \in {"resolve", "start", "stop", "uninstall"}, b \in Bundles : performAction(t, op, b)
  <2>1. PICK t \in Web, op \in {"resolve", "start", "stop", "uninstall"}, b \in Bundles : performAction(t, op, b)
    BY <1>3
  <2> DEFINE stale == FALSE
  <2>2. /\ t \in Threads /\ op \in Ops /\ stale \in BOOLEAN /\ ~Busy(t) /\ Call(t, op, b, stale)
        /\ UNCHANGED <<needs, up, library, raced>>
    BY <2>1, LoaderThreads DEF performAction, AtRest, marks, Ops
  <2> HIDE DEF stale
  <2> QED BY <2>2, NeedsBegins
<1>4. CASE \E b \in Bundles : loadBundle(b)
  <2>1. PICK b \in Bundles : loadBundle(b)
    BY <1>4
  <2>2. owner = Nobody /\ LoaderTypes
    BY <2>1 DEF loadBundle, LoaderInv
  <2>3. ASSUME NEW u \in Threads, NEW i \in DOMAIN stack'[u]
        PROVE  ~(stack'[u][i].op = "start" /\ stack'[u][i].at \in {"needs", "act"}) /\ ~(i > 1)
    <3>1. /\ i \in DOMAIN stack[u] /\ stack'[u][i].op = stack[u][i].op /\ stack'[u][i].at = stack[u][i].at
      BY <2>1, <2>2, LoadMarks
    <3>2. ~(stack[u][i].op = "start" /\ stack[u][i].at \in {"needs", "act"}) /\ ~(i > 1)
      BY <2>2, <3>1, NobodyStarts
    <3> QED BY <3>1, <3>2
  <2> QED BY <2>3, NeedsVacuous
<1>5. CASE resolveAllBundles
  <2>1. owner = Nobody /\ stack' = stack
    BY <1>5 DEF resolveAllBundles
  <2> QED BY <2>1, NobodyStarts, NeedsVacuous
<1>6. CASE startAllBundles \/ stopAllBundles
  <2> DEFINE plan == job[Control].plan
             stale == FALSE
  <2>1. /\ ~Busy(Control) /\ UNCHANGED <<needs, up, library, raced>> /\ stale \in BOOLEAN
        /\ \/ UNCHANGED stack
           \/ plan # <<>> /\ \E op \in {"start", "stop"} : Call(Control, op, Head(plan), stale)
    BY <1>6 DEF startAllBundles, stopAllBundles, Ready, marks
  <2>2. Control \in Threads /\ plan \in Seq(Bundles)
    BY LoaderThreads, JobFacts
  <2>3. plan # <<>> => Head(plan) \in Bundles
    <3> HIDE DEF plan
    <3> QED BY <2>2, PlanTail
  <2>4. "start" \in Ops /\ "stop" \in Ops
    BY DEF Ops
  <2> HIDE DEF plan, stale
  <2> QED BY <2>1, <2>2, <2>3, <2>4, NeedsBegins, NeedsSame
<1>7. CASE unloadBundle
  <2> DEFINE b == job[Control].b
             stale == FALSE
             op == "unload"
  <2>1. ~Busy(Control) /\ UNCHANGED <<needs, up, library, raced>> /\ Call(Control, op, b, stale)
    BY <1>7 DEF unloadBundle, Ready, marks
  <2>2. b \in Bundles /\ stale \in BOOLEAN /\ op \in Ops /\ Control \in Threads
    BY <1>7, UnloadsNext, LoaderThreads DEF Ops
  <2> HIDE DEF b, stale, op
  <2> QED BY <2>1, <2>2, NeedsBegins
<1>8. CASE Loaded \/ SortBundles \/ StoppingEnds \/ RequestReload \/ RequestShutdown
  BY <1>8, NeedsSame DEF Loaded, SortBundles, StoppingEnds, RequestReload, RequestShutdown, marks
<1>9. CASE Over \/ UNCHANGED loaderVars
  BY <1>9, NeedsSame DEF Over, loaderVars, marks
<1> QED BY <1>1, <1>2, <1>3, <1>4, <1>5, <1>6, <1>7, <1>8, <1>9 DEF LoaderNext, ControlStep

\* An activator goes up or down only in a call.
LEMMA UpChanges ==
    ASSUME [LoaderNext]_loaderVars, up' # up
    PROVE  \E t \in Threads : ActStart(t) \/ ActStop(t) \/ Join(t)
<1>1. PICK t \in Threads : Step(t)
  BY DEF LoaderNext, loaderVars, TaskBegins, performAction, ControlStep, RequestReload, RequestShutdown, Over,
         loadBundle, Loaded, resolveAllBundles, startAllBundles, SortBundles, stopAllBundles, unloadBundle,
         StoppingEnds
<1>2. CallStep(t)
  BY <1>1 DEF Step, TaskNext, TaskEnds
<1> QED BY <1>2 DEF CallStep, Check, Set, Enter, Need, ActResolve, ActUnload, Leave, Done

\* An activator goes up only in ActStart.
LEMMA UpRises ==
    ASSUME LoaderInv, [LoaderNext]_loaderVars, NEW b \in Bundles, ~up[b], up'[b]
    PROVE  \E t \in Threads : ActStart(t) /\ TopCall(t).b = b
<1>0. up \in [Bundles -> BOOLEAN]
  BY DEF LoaderInv, LoaderTypes
<1>1. up' # up
  OBVIOUS
<1>2. PICK t \in Threads : ActStart(t) \/ ActStop(t) \/ Join(t)
  BY <1>1, UpChanges
<1>3. ~ActStop(t) /\ ~Join(t)
  <2>1. ASSUME ActStop(t) \/ Join(t) PROVE up' = up \/ \E c : up' = [up EXCEPT ![c] = FALSE]
    BY <2>1 DEF ActStop, Join
  <2> QED BY <1>0, <1>1, <2>1
<1>4. TopCall(t).b = b
  <2>1. up' = [up EXCEPT ![TopCall(t).b] = TRUE]
    BY <1>1, <1>2, <1>3 DEF ActStart
  <2> QED BY <1>0, <2>1
<1> QED BY <1>2, <1>3, <1>4

(* An activator is started only while those of all the Bundles its own one   *)
(* requires run, with the exceptions of NeedsUp: startDependencies holds the *)
(* loader's mutex from the first look at a required Bundle to the start,     *)
(* every activator is stopped and every library unloaded under it, and what  *)
(* a Bundle requires is written under it or cleared.                         *)
THEOREM NeedsUpHolds == LoaderSpec => NeedsUp
<1> DEFINE Only == \A b \in Bundles : ~up[b] /\ up'[b] => \A d \in needs[b] \ raced : up[d] \/ library[d] = "broken"
<1>1. LoaderInit => LoaderInv /\ NeedsInv
  <2>1. ASSUME LoaderInit PROVE NeedsInv
    <3>1. \A t \in Threads : DOMAIN stack[t] = {}
      BY <2>1 DEF LoaderInit
    <3> QED BY <3>1 DEF NeedsInv
  <2> QED BY <2>1, LoaderInitial
<1>2. LoaderInv /\ NeedsInv /\ [LoaderNext]_loaderVars => LoaderInv' /\ NeedsInv'
  BY LoaderKept, NeedsNext
<1>3. ASSUME LoaderInv, NeedsInv, [LoaderNext]_loaderVars PROVE [Only]_loaderVars
  <2>1. ASSUME NEW b \in Bundles, ~up[b], up'[b], NEW d \in needs[b] \ raced
        PROVE  up[d] \/ library[d] = "broken"
    <3>1. PICK t \in Threads : ActStart(t) /\ TopCall(t).b = b
      BY <1>3, <2>1, UpRises
    <3>2. Busy(t) /\ TopCall(t).at = "act" /\ TopCall(t).op = "start"
      BY <3>1 DEF ActStart, At
    <3>3. TopCall(t).todo = {}
      BY <1>3, <3>2, TopFacts DEF Formed
    <3> DEFINE n == Len(stack[t])
    <3>4. TopCall(t) = stack[t][n] /\ n \in DOMAIN stack[t] /\ n \in Nat
      BY <1>3, <3>2, TopFrame DEF LoaderInv
    <3>5. ~(n < n)
      BY <3>4
    <3> HIDE DEF n
    <3>6. Runs(up[d], library[d])
      BY <1>3, <2>1, <3>1, <3>2, <3>3, <3>4, <3>5 DEF NeedsInv, n
    <3> QED BY <3>6 DEF Runs
  <2> QED BY <2>1
<1>4. [][Only]_loaderVars => NeedsUp
  BY DEF NeedsUp
<1> HIDE DEF Only
<1> QED BY <1>1, <1>2, <1>3, <1>4, PTL DEF LoaderSpec


\* How the stack of the thread that takes a step of a call changes.
TopChanges(t, g) ==
    /\ TopBecomes(t, g) /\ g.b = TopCall(t).b /\ g.op = TopCall(t).op
    /\ g.old = TopCall(t).old \/ (t \in Servants => g.b \in late')
TopCalls(t, g, h) ==
    /\ Pushes(t, g, h) /\ g.b = TopCall(t).b /\ g.op = TopCall(t).op /\ g.old = TopCall(t).old /\ h.old = None

LEMMA CallShape ==
    ASSUME LoaderInv, NEW t \in Threads, CallStep(t)
    PROVE  \/ \E g \in Calls : TopChanges(t, g)
           \/ \E g \in Calls : \E h \in Calls : TopCalls(t, g, h)
           \/ Done(t)
<1> DEFINE f == TopCall(t)
<1>1. Busy(t) /\ LoaderTypes
  BY DEF LoaderInv, CallStep, Check, Set, Enter, Need, ActResolve, ActStart, ActStop, Join, ActUnload,
         Leave, Done, At
<1>2. ASSUME NEW a \in Places, Goto(t, a) PROVE \E g \in Calls : TopChanges(t, g)
  BY <1>1, <1>2, GoesOn DEF TopChanges, Moves
<1>3. ASSUME Throw(t) PROVE \E g \in Calls : TopChanges(t, g)
  BY <1>1, <1>3, Throws DEF TopChanges, Moves
<1>4. Exit(t) \in Places /\ {"set", "enter", "act", "join", "done"} \subseteq Places
  BY ExitPlace DEF Places
<1>5. f \in Calls /\ f.b \in Bundles /\ f.todo \in SUBSET Bundles /\ needs[f.b] \in SUBSET Bundles /\ state[f.b] \in States
  <2>1. f \in Calls /\ f.b \in Bundles
    BY <1>1, TopFacts
  <2> QED BY <1>1, <2>1 DEF Calls, LoaderTypes, NeedsTyped
<1>6. CASE Check(t)
  <2>1. Throw(t) \/ \E a \in {"set", "enter"} : Goto(t, a)
    BY <1>6 DEF Check
  <2> QED BY <1>2, <1>3, <1>4, <2>1
<1>7. CASE Set(t)
  <2> DEFINE s == IF f.op = "resolve" THEN f.old ELSE state[f.b]
             g == [f EXCEPT !.at = "enter", !.old = s]
  <2>1. SetTop(t, g) /\ late' = (IF t = Control THEN late ELSE late \cup {f.b})
    BY <1>7 DEF Set
  <2>2. s \in States \cup {None}
    BY <1>5 DEF Calls
  <2> HIDE DEF s
  <2>3. g \in Calls /\ g.b = f.b /\ g.op = f.op
    BY <1>5, <2>2, CallSets
  <2> HIDE DEF g
  <2>4. TopBecomes(t, g)
    BY <1>1, <2>1, <2>3, TopUpdate
  <2> QED BY <2>1, <2>3, <2>4, LoaderThreads DEF TopChanges
<1>8. CASE Enter(t)
  <2> DEFINE T == IF f.stale THEN Requires[f.b] ELSE needs[f.b]
             h == NextNeed([f EXCEPT !.todo = T])
  <2>1. \/ Throw(t) \/ Goto(t, "act")
        \/ f.op = "start" /\ f.at = "enter" /\ SetTop(t, h)
    BY <1>8 DEF Enter, At
  <2>2. T \in SUBSET Bundles
    BY <1>5, LoaderThreads
  <2> HIDE DEF T
  <2>3. h \in Calls /\ h.b = f.b /\ h.old = f.old /\ h.op = f.op
    BY <1>5, <2>2, CallNeeds
  <2> HIDE DEF h
  <2>4. SetTop(t, h) => TopBecomes(t, h)
    BY <1>1, <2>3, TopUpdate
  <2> QED BY <1>2, <1>3, <1>4, <2>1, <2>3, <2>4 DEF TopChanges
<1>9. CASE Need(t)
  <2> DEFINE G(d) == NextNeed([f EXCEPT !.todo = f.todo \ {d}])
  <2>4. PICK d \in f.todo :
         \/ Throw(t)
         \/ SetTop(t, G(d))
         \/ stack' = [stack EXCEPT ![t] = Append([@ EXCEPT ![Len(@)] = G(d)], Frame("start", d, FALSE))]
    BY <1>5, <1>9 DEF Need, Calls
  <2> DEFINE g == G(d)
             h == Frame("start", d, FALSE)
  <2>5. g \in Calls /\ g.b = f.b /\ g.old = f.old /\ g.op = f.op
    <3>1. f.todo \ {d} \in SUBSET Bundles
      BY <1>5
    <3> QED BY <1>5, <3>1, CallNeeds
  <2>6. h \in Calls /\ h.old = None
    <3>1. d \in Bundles
      BY <1>5
    <3> QED BY <3>1 DEF Frame, Calls, Ops, Places, States, None
  <2>7. \/ Throw(t)
        \/ SetTop(t, g)
        \/ stack' = [stack EXCEPT ![t] = Append([@ EXCEPT ![Len(@)] = g], h)]
    BY <2>4
  <2> HIDE DEF G, g, h
  <2>8. CASE SetTop(t, g)
    <3>1. TopBecomes(t, g)
      BY <1>1, <2>5, <2>8, TopUpdate
    <3> QED BY <2>5, <3>1 DEF TopChanges
  <2>9. CASE stack' = [stack EXCEPT ![t] = Append([@ EXCEPT ![Len(@)] = g], h)]
    <3>1. Pushes(t, g, h)
      BY <1>1, <2>5, <2>6, <2>9, CallPushes
    <3> QED BY <2>5, <2>6, <3>1 DEF TopCalls
  <2> QED BY <1>3, <2>7, <2>8, <2>9
<1>10. CASE ActResolve(t) \/ ActStart(t) \/ ActStop(t) \/ Join(t) \/ ActUnload(t) \/ Leave(t)
  <2>1. Throw(t) \/ \E a \in {"join", "done", Exit(t)} : Goto(t, a)
    BY <1>10 DEF ActResolve, ActStart, ActStop, Join, ActUnload, Leave
  <2> QED BY <1>2, <1>3, <1>4, <2>1
<1> QED BY <1>6, <1>7, <1>8, <1>9, <1>10 DEF CallStep

LEMMA LateKept ==
    ASSUME LoaderInv, NEW t \in Threads, CallStep(t)
    PROVE  /\ late \subseteq late' /\ known' \subseteq known /\ raced \subseteq raced'
           /\ stage' = stage /\ (Done(t) \/ job' = job)
  BY DEF CallStep, Check, Set, Enter, Need, ActResolve, ActStart, ActStop, Join, ActUnload,
         Leave, Done, Resolves, marks

\* What a Bundle that is up requires is not resolved again.
LEMMA NeedsStay ==
    ASSUME LoaderInv, NEW t \in Threads, CallStep(t), NEW c \in Bundles \ raced, up[c] = TRUE
    PROVE  needs'[c] = needs[c]
<1> DEFINE f == TopCall(t)
           mine == IF f.stale THEN {} ELSE {f.b}
<1>1. state[c] # "installed"
  BY UpIsStarted DEF Started
<1>2. ASSUME Busy(t), f.op = "resolve", f.at \in {"set", "act"} PROVE f.b # c
  <2>1. Formed(f) /\ (f.b \notin raced /\ Passed(f) => Tells(f, state[f.b], up[f.b], library[f.b]))
    BY <1>2, TopFacts
  <2>2. Passed(f)
    BY <1>2, <2>1 DEF Formed, Passed
  <2> QED BY <1>2, <2>1, <2>2 DEF Tells
<1>3. CASE Set(t)
  <2>1. /\ Busy(t) /\ f.at = "set"
        /\ needs' = [b \in Bundles |-> IF b \in mine /\ f.op = "resolve" THEN {} ELSE needs[b]]
    BY <1>3 DEF Set, At
  <2> QED BY <1>2, <2>1
<1>4. CASE ActResolve(t)
  <2>1. Busy(t) /\ f.at = "act" /\ f.op = "resolve"
    BY <1>4 DEF ActResolve, At
  <2>2. c \notin mine
    BY <1>2, <2>1
  <2>3. \E set, none : /\ needs' = Recorded(set, none) /\ c \notin none
                       /\ c \in set => c \in mine \/ state[c] = "installed"
    <3>1. CASE Resolvable(f.b) /\ needs' = Recorded(Unresolved(f.b) \cup mine, {})
      <4>1. c \in Unresolved(f.b) => state[c] = "installed"
        BY <3>1 DEF Resolvable, Unresolved
      <4>2. c \in Unresolved(f.b) \cup mine => c \in mine \/ state[c] = "installed"
        BY <4>1
      <4> QED BY <3>1, <4>2
    <3>2. CASE \E done \in SUBSET {d \in Unresolved(f.b) \cap known : state[d] = "installed" /\ Resolvable(d)} :
                  needs' = Recorded(done, mine)
      BY <2>2, <3>2
    <3> QED BY <1>4, <3>1, <3>2 DEF ActResolve
  <2> QED BY <1>1, <2>2, <2>3 DEF Recorded
<1>5. CASE ~Set(t) /\ ~ActResolve(t)
  BY <1>5 DEF CallStep, Check, Enter, Need, ActStart, ActStop, Join, ActUnload, Leave, Done
<1> QED BY <1>3, <1>4, <1>5

\* Where the calls of a thread come from, and its outermost one.
LEMMA CallOld ==
    ASSUME LoaderInv, NEW t \in Threads, CallStep(t),
           NEW u \in Threads, NEW i \in DOMAIN stack'[u]
    PROVE  /\ \/ stack'[u][i].old = None
              \/ u \in Servants => stack'[u][i].b \in late'
              \/ i \in DOMAIN stack[u] /\ stack'[u][i].b = stack[u][i].b /\ stack'[u][i].old = stack[u][i].old
           /\ i = 1 => 1 \in DOMAIN stack[u] /\ stack'[u][1].b = stack[u][1].b /\ stack'[u][1].op = stack[u][1].op
<1>0. LoaderTypes /\ Frames
  BY DEF LoaderInv
<1>1. Busy(t)
  BY DEF LoaderInv, CallStep, Check, Set, Enter, Need, ActResolve, ActStart, ActStop, Join, ActUnload,
         Leave, Done, At
<1> DEFINE n == Len(stack[t])
<1>2. TopCall(t) = stack[t][n] /\ n \in DOMAIN stack[t] /\ n \in Nat /\ n > 0 /\ DOMAIN stack[t] = 1..n
  BY <1>0, <1>1, TopFrame
<1>3. CASE \E g \in Calls : TopChanges(t, g)
  <2>1. PICK g \in Calls : TopChanges(t, g)
    BY <1>3
  <2>2. CASE u = t /\ i = n
    BY <1>2, <2>1, <2>2 DEF TopChanges, TopBecomes
  <2>3. CASE ~(u = t /\ i = n)
    BY <2>1, <2>3 DEF TopChanges, TopBecomes, Others
  <2> QED BY <2>2, <2>3
<1>4. CASE \E g \in Calls : \E h \in Calls : TopCalls(t, g, h)
  <2>1. PICK g \in Calls, h \in Calls : TopCalls(t, g, h)
    BY <1>4
  <2>2. \/ u = t /\ i = n + 1 /\ stack'[u][i] = h /\ i > 1
        \/ u = t /\ i = n /\ i \in DOMAIN stack[u] /\ stack'[u][i] = g /\ stack[u][i] = TopCall(t)
        \/ i \in DOMAIN stack[u] /\ stack'[u][i] = stack[u][i]
    BY <1>0, <1>1, <2>1, PushOthers DEF TopCalls
  <2>3. i = 1 => ~(i > 1)
    OBVIOUS
  <2> HIDE DEF n
  <2> QED BY <2>1, <2>2, <2>3 DEF TopCalls
<1>5. CASE Done(t)
  <2>1. /\ i \in DOMAIN stack[u] /\ stack'[u][i].b = stack[u][i].b /\ stack'[u][i].op = stack[u][i].op
        /\ (u # t => stack'[u] = stack[u])
    BY <1>0, <1>5, DoneOthers
  <2>2. stack'[u][i].old = stack[u][i].old
    <3>1. CASE u # t
      BY <2>1, <3>1
    <3>2. CASE u = t /\ Pops(t)
      BY <3>2 DEF Pops
    <3>3. CASE u = t /\ \E g \in Calls : Fails(t, stack[t][n - 1], g)
      BY <3>3 DEF Fails, PopsTo
    <3> QED BY <1>0, <1>5, <3>1, <3>2, <3>3, DonePops
  <2> QED BY <2>1, <2>2
<1> QED BY <1>3, <1>4, <1>5, CallShape

\* No activator goes up during a stop, but for what the tasks change.
LEMMA NoRise ==
    ASSUME LoaderInv, [LoaderNext]_loaderVars, Stopping \/ stage = "ended", LateTold,
           NEW c \in Bundles \ late, up'[c] = TRUE
    PROVE  up[c] = TRUE
<1> SUFFICES ASSUME up[c] # TRUE PROVE FALSE
  OBVIOUS
<1>1. ~up[c] /\ up'[c]
  BY DEF LoaderInv, LoaderTypes
<1>2. PICK t \in Threads : ActStart(t) /\ TopCall(t).b = c
  BY <1>1, UpRises
<1>3. Busy(t) /\ TopCall(t).at = "act" /\ TopCall(t).op = "start"
  BY <1>2 DEF ActStart, At
<1>4. TopCall(t).old # None
  BY <1>3, TopFacts DEF Formed
<1> DEFINE n == Len(stack[t])
<1>5. TopCall(t) = stack[t][n] /\ n \in DOMAIN stack[t]
  BY <1>3, TopFrame DEF LoaderInv
<1> HIDE DEF n
<1>6. CASE t \in Servants
  BY <1>2, <1>4, <1>5, <1>6 DEF LateTold
<1>7. CASE t = Control
  BY <1>3, <1>5, <1>7 DEF LoaderInv, Callers, Stopping
<1> QED BY <1>6, <1>7, LoaderThreads

\* What a step leaves of what was true of c.
Lasts(c) ==
    up'[c] = TRUE => /\ up[c] = TRUE /\ needs'[c] = needs[c]
                     /\ Current(c) => Current(c)' \/ job'[Control].threw # FALSE

LEMMA StopKept ==
    ASSUME LoaderInv, LoaderInv', StopInv, stage' = stage, job'[Control].plan = job[Control].plan, known' \subseteq known,
           late \subseteq late', raced \subseteq raced',
           job'[Control].b = job[Control].b,
           \A c \in Bundles : (Current(c)' => Current(c)) /\ (Working(c)' => Working(c)),
           Stopping \/ stage = "ended" => LateTold',
           Stopping /\ job'[Control].threw = FALSE => job[Control].threw = FALSE,
           Stopping \/ stage = "ended" => \A c \in known' \ (late' \cup raced') : Lasts(c)
    PROVE  StopInv'
<1>1. (Stopping' <=> Stopping) /\ (stage' = "ended" <=> stage = "ended")
  BY DEF Stopping
<1>2. \A c : InPlan(c)' <=> InPlan(c)
  BY DEF InPlan
<1>3. Stopping' => Once'
  <2>1. ASSUME Stopping' PROVE Once
    BY <1>1, <2>1 DEF StopInv
  <2> QED BY <1>2, <2>1 DEF Once
<1>4. ASSUME Stopping', job'[Control].threw = FALSE, NEW c \in known' \ (late' \cup raced'), up'[c] = TRUE
      PROVE  Ahead(c)'
  <2>1. Lasts(c) /\ c \in known \ (late \cup raced)
    BY <1>1, <1>4
  <2>2. up[c] = TRUE /\ needs'[c] = needs[c] /\ (Current(c) => Current(c)')
    BY <1>4, <2>1 DEF Lasts
  <2>3. Ahead(c)
    BY <1>1, <1>4, <2>1, <2>2 DEF StopInv
  <2>4. Current(c)' <=> Current(c)
    BY <2>1, <2>2 DEF LoaderInv, LoaderTypes
  <2> QED BY <1>2, <2>2, <2>3, <2>4 DEF Ahead
<1>5. NothingLeft'
  <2>1. ASSUME stage' = "ended", NEW b \in known', up'[b], b \notin late' \cup raced' PROVE FALSE
    <3>1. up'[b] = TRUE
      BY <2>1 DEF LoaderInv, LoaderTypes
    <3>2. up[b] = TRUE
      BY <1>1, <2>1, <3>1 DEF Lasts
    <3> QED BY <1>1, <2>1, <3>2 DEF StopInv, NothingLeft
  <2> QED BY <2>1 DEF NothingLeft
<1> QED BY <1>1, <1>3, <1>4, <1>5 DEF StopInv

\* The control thread, the activators and the loader's list are left alone.
LEMMA StopSame ==
    ASSUME LoaderInv, LoaderInv', StopInv, UNCHANGED <<stage, known, late, raced, up>>,
           stack'[Control] = stack[Control], job'[Control] = job[Control],
           LateTold => LateTold',
           \A c \in Bundles \ raced : up[c] = TRUE => needs'[c] = needs[c]
    PROVE  StopInv'
<1>1. \A c : (Current(c)' <=> Current(c)) /\ (Working(c)' <=> Working(c))
  BY DEF Current, Working
<1>2. \A c \in known' \ (late' \cup raced') : Lasts(c)
  BY <1>1 DEF Lasts, LoaderInv, LoaderTypes
<1>3. Stopping \/ stage = "ended" => LateTold'
  BY DEF StopInv
<1> QED BY <1>1, <1>2, <1>3, StopKept

LEMMA StopVacuous ==
    ASSUME ~Stopping', stage' # "ended", job'[Control].b = None
    PROVE  StopInv'
  BY DEF StopInv, NothingLeft

\* What the end of a call leaves for the thread.
LEMMA DoneJob ==
    ASSUME LoaderInv, NEW t \in Threads, Done(t)
    PROVE  /\ \A u \in Threads : job'[u].plan = job[u].plan /\ job'[u].b = job[u].b /\ (u # t => job'[u] = job[u])
           /\ TopCall(t).ok = FALSE /\ Len(stack[t]) = 1 => job'[t].threw = TRUE
<1> DEFINE rest == SubSeq(stack[t], 1, Len(stack[t]) - 1)
           x == ~TopCall(t).ok /\ rest = <<>>
<1>1. job' = [job EXCEPT ![t].threw = x] /\ Busy(t)
  BY DEF Done, At
<1>2. job \in [Threads -> JobSet]
  BY JobFacts
<1>3. ASSUME TopCall(t).ok = FALSE, Len(stack[t]) = 1 PROVE x = TRUE
  <2>1. stack[t] \in Seq(Calls)
    BY DEF LoaderInv, LoaderTypes
  <2>2. rest \in Seq(Calls) /\ Len(rest) = 0
    BY <1>3, <2>1
  <2>3. rest = <<>>
    BY <2>2, EmptySeq
  <2> QED BY <1>3, <2>3
<1> HIDE DEF x
<1>4. /\ \A u \in Threads : job'[u].plan = job[u].plan /\ job'[u].b = job[u].b /\ (u # t => job'[u] = job[u])
      /\ job'[t].threw = x
  BY <1>1, <1>2 DEF JobSet
<1> QED BY <1>3, <1>4

\* The call the control thread is in stays until it ends.
LEMMA CurrentStays ==
    ASSUME LoaderInv, NEW t \in Threads, CallStep(t), NEW c, Current(c), t # Control \/ ~Done(t)
    PROVE  Current(c)'
<1>0. LoaderTypes /\ Control \in Threads
  BY LoaderThreads DEF LoaderInv
<1>1. Busy(t)
  BY DEF LoaderInv, CallStep, Check, Set, Enter, Need, ActResolve, ActStart, ActStop, Join, ActUnload,
         Leave, Done, At
<1>2. CASE t # Control
  <2>1. Others(t)
    BY <1>0, CallShape, DonePops DEF TopChanges, TopBecomes, TopCalls, Pushes, Pops, Fails, PopsTo
  <2> QED BY <1>0, <1>2, <2>1 DEF Others, Current, Working
<1>3. CASE t = Control
  <2> DEFINE n == Len(stack[t])
  <2>1. TopCall(t) = stack[t][n] /\ n \in DOMAIN stack[t] /\ DOMAIN stack[t] = 1..n /\ n \in Nat
    BY <1>0, <1>1, TopFrame
  <2>2. 1 \in 1..n /\ 1 \in 1..(n + 1) /\ stack[t][1].b = c /\ stack[t][1].op = "stop"
    BY <1>3, <2>1 DEF Current, Working
  <2>3. CASE \E g \in Calls : TopChanges(t, g)
    BY <1>3, <2>1, <2>2, <2>3 DEF TopChanges, TopBecomes, Current, Working
  <2>4. CASE \E g \in Calls : \E h \in Calls : TopCalls(t, g, h)
    <3>1. PICK g \in Calls, h \in Calls : TopCalls(t, g, h)
      BY <2>4
    <3>2. 1 \in DOMAIN stack'[t] /\ (stack'[t][1] = stack[t][1] \/ (n = 1 /\ stack'[t][1].b = TopCall(t).b /\ stack'[t][1].op = TopCall(t).op))
      <4> HIDE DEF n
      <4> QED BY <2>1, <2>2, <3>1 DEF TopCalls, Pushes, n
    <3> QED BY <1>3, <2>1, <2>2, <3>2 DEF Current, Working
  <2> QED BY <1>3, <2>3, <2>4, CallShape
<1> QED BY <1>2, <1>3

\* The end of the control thread's call of stop: the activator is down, or
\* the call has failed.
LEMMA ControlDone ==
    ASSUME LoaderInv, Done(Control), Stopping \/ stage = "ended",
           NEW c \in Bundles \ raced, Current(c), up[c] = TRUE
    PROVE  job'[Control].threw = TRUE
<1> DEFINE f == TopCall(Control)
           n == Len(stack[Control])
<1>1. Busy(Control) /\ f.at = "done" /\ Control \in Threads
  BY LoaderThreads DEF Done, At
<1>2. f = stack[Control][n] /\ n \in DOMAIN stack[Control] /\ f \in Calls
  BY <1>1, TopFrame DEF LoaderInv
<1>3. n = 1 /\ f.op = "stop"
  BY <1>2 DEF LoaderInv, Callers, Stopping, Current, Working
<1>4. f.b = c /\ f.ok \in BOOLEAN
  BY <1>2, <1>3 DEF Current, Working, Calls
<1>5. f.ok = TRUE => Passed(f)
  BY <1>1 DEF Passed
<1>6. Passed(f) => Tells(f, state[c], up[c], library[c])
  BY <1>1, <1>4, TopFacts
<1> HIDE DEF f, n
<1>7. f.ok # TRUE
  BY <1>1, <1>3, <1>5, <1>6 DEF Tells
<1> QED BY <1>1, <1>3, <1>4, <1>7, DoneJob DEF f, n

LEMMA StopCallStep ==
    ASSUME LoaderInv, LoaderInv', StopInv, [LoaderNext]_loaderVars, NEW t \in Threads, CallStep(t)
    PROVE  StopInv'
<1>1. /\ late \subseteq late' /\ known' \subseteq known /\ raced \subseteq raced'
      /\ stage' = stage /\ (Done(t) \/ job' = job) /\ Control \in Threads /\ Servants \subseteq Threads
  BY LateKept, LoaderThreads
<1>2. ASSUME Stopping \/ stage = "ended" PROVE LateTold'
  <2>1. LateTold
    BY <1>2 DEF StopInv
  <2>2. ASSUME NEW w \in Servants, NEW i \in DOMAIN stack'[w], stack'[w][i].old # None
        PROVE  stack'[w][i].b \in late'
    <3>1. \/ stack'[w][i].b \in late'
          \/ i \in DOMAIN stack[w] /\ stack'[w][i].b = stack[w][i].b /\ stack'[w][i].old = stack[w][i].old
      BY <1>1, <2>2, CallOld
    <3> QED BY <1>1, <2>1, <2>2, <3>1 DEF LateTold
  <2> QED BY <2>2 DEF LateTold, None, Servants
<1>3. job'[Control].plan = job[Control].plan /\ job'[Control].b = job[Control].b
  BY <1>1, DoneJob
<1>4. \A c \in Bundles : (Current(c)' => Current(c)) /\ (Working(c)' => Working(c))
  BY <1>1, CallOld DEF Current, Working
<1>5. ASSUME Stopping, job'[Control].threw = FALSE PROVE job[Control].threw = FALSE
  <2>1. CASE Done(t) /\ t = Control
    <3>1. Busy(Control)
      BY <2>1 DEF Done, At
    <3>2. Len(stack[Control]) \in DOMAIN stack[Control]
      BY <1>1, <3>1, TopFrame DEF LoaderInv
    <3> QED BY <1>5, <3>2 DEF LoaderInv, Callers, Stopping
  <2>2. CASE ~(Done(t) /\ t = Control)
    <3>1. job'[Control] = job[Control]
      BY <1>1, <2>2, DoneJob
    <3> QED BY <1>5, <3>1
  <2> QED BY <2>1, <2>2
<1>6. ASSUME Stopping \/ stage = "ended", NEW c \in known' \ (late' \cup raced') PROVE Lasts(c)
  <2>1. c \in Bundles \ late /\ c \in Bundles \ raced /\ LateTold
    BY <1>1, <1>6 DEF LoaderInv, LoaderTypes, StopInv
  <2>2. up'[c] = TRUE => up[c] = TRUE
    BY <1>6, <2>1, NoRise
  <2>3. ASSUME up[c] = TRUE, Current(c) PROVE Current(c)' \/ job'[Control].threw # FALSE
    <3>1. CASE Done(t) /\ t = Control
      <4>1. job'[Control].threw = TRUE
        BY <1>6, <2>1, <2>3, <3>1, ControlDone
      <4> QED BY <4>1
    <3>2. CASE ~(Done(t) /\ t = Control)
      BY <2>3, <3>2, CurrentStays
    <3> QED BY <3>1, <3>2
  <2>4. up[c] = TRUE => needs'[c] = needs[c]
    BY <2>1, NeedsStay
  <2> QED BY <2>2, <2>3, <2>4 DEF Lasts
<1> QED BY <1>1, <1>2, <1>3, <1>4, <1>5, <1>6, StopKept

\* A task or a request calls an operation.
LEMMA StopBegins ==
    ASSUME LoaderInv, LoaderInv', StopInv, NEW t \in Threads, t # Control, ~Busy(t),
           NEW op \in Ops, NEW b \in Bundles, NEW stale \in BOOLEAN, Call(t, op, b, stale),
           UNCHANGED <<stage, known, late, raced, up, needs>>, job'[Control] = job[Control]
    PROVE  StopInv'
<1> DEFINE g == Frame(op, b, stale)
<1>1. Begins(t, g)
  BY CallBegins DEF LoaderInv
<1>2. g.old = None
  BY DEF Frame
<1> HIDE DEF g
<1>3. stack'[Control] = stack[Control]
  BY <1>1, LoaderThreads DEF Begins, Others
<1>4. ASSUME LateTold PROVE LateTold'
  <2>1. ASSUME NEW w \in Servants, NEW i \in DOMAIN stack'[w], stack'[w][i].old # None
        PROVE  stack'[w][i].b \in late'
    <3>1. CASE w = t
      <4>1. DOMAIN stack'[t] = {1} /\ stack'[t][1] = g
        BY <1>1 DEF Begins
      <4> QED BY <1>2, <2>1, <3>1, <4>1
    <3>2. CASE w # t
      <4>1. stack'[w] = stack[w]
        BY <1>1, <3>2, LoaderThreads DEF Begins, Others
      <4> QED BY <1>4, <2>1, <4>1 DEF LateTold
    <3> QED BY <3>1, <3>2
  <2> QED BY <2>1 DEF LateTold, None, Servants
<1> QED BY <1>3, <1>4, StopSame

\* The steps of a task.
LEMMA StopTasks ==
    ASSUME LoaderInv, LoaderInv', StopInv, NEW t \in Threads,
           TaskEnds(t) \/ \E calls \in BOOLEAN : TaskNext(t, calls)
    PROVE  StopInv'
<1>1. /\ t \in Servants /\ t # Control /\ Control \in Threads
      /\ UNCHANGED <<stage, known, late, raced, up, needs>>
  BY LoaderThreads DEF TaskNext, TaskEnds, marks
<1>2. job'[Control] = job[Control]
  <2>1. \E x : job' = [job EXCEPT ![t] = x]
    BY JobFacts DEF TaskNext, TaskEnds, Plan
  <2> QED BY <1>1, <2>1, JobFacts
<1>3. CASE stack' = stack
  <2>1. LateTold => LateTold'
    BY <1>1, <1>3 DEF LateTold, None, Servants
  <2> QED BY <1>1, <1>2, <1>3, <2>1, StopSame
<1>4. CASE stack' # stack
  <2> DEFINE op == Head(job[t].plan)
             b == job[t].b
             stale == job[t].stale
  <2>1. job[t].plan # <<>> /\ ~Busy(t) /\ Call(t, op, b, stale)
    BY <1>4 DEF TaskNext, TaskEnds, Ready
  <2>2. b \in Bundles /\ stale \in BOOLEAN /\ job[t].plan \in Seq({"resolve", "start", "stop"})
    BY <1>1, <2>1, JobFacts
  <2>3. op \in Ops
    <3>1. op \in {"resolve", "start", "stop"}
      BY <2>1, <2>2, PlanTail
    <3> QED BY <3>1 DEF Ops
  <2> HIDE DEF op, b, stale
  <2> QED BY <1>1, <1>2, <2>1, <2>2, <2>3, StopBegins
<1> QED BY <1>3, <1>4

\* In the order every Bundle comes once, and after those it needs.
LEMMA SortedOrder ==
    ASSUME LoaderInv, NEW order \in Orders
    PROVE  /\ \A i, j \in 1..Len(order) : order[i] = order[j] => i = j
           /\ \A i \in 1..Len(order) : \A d \in Wants(order[i]) :
                 \E j \in 1..Len(order) : j < i /\ order[j] = d
<1> DEFINE n == Len(order)
<1>1. n \in Nat /\ DOMAIN order = 1..n /\ Sorts(order)
  BY OrderListed
<1> HIDE DEF n
<1>2. ASSUME NEW i \in 1..n
      PROVE  /\ \A j \in 1..(i - 1) : order[j] # order[i]
             /\ \A d \in Wants(order[i]) : \E j \in 1..(i - 1) : order[j] = d
  BY <1>1 DEF Sorts
<1>3. ASSUME NEW i \in 1..n, NEW j \in 1..n, i # j PROVE order[i] # order[j]
  <2>1. i \in 1..(j - 1) \/ j \in 1..(i - 1)
    BY <1>1, <1>3
  <2> QED BY <1>2, <2>1
<1>4. ASSUME NEW i \in 1..n, NEW d \in Wants(order[i]) PROVE \E j \in 1..n : j < i /\ order[j] = d
  <2>1. PICK j \in 1..(i - 1) : order[j] = d
    BY <1>2
  <2>2. j \in 1..n /\ j < i
    BY <1>1
  <2> QED BY <2>1, <2>2
<1> QED BY <1>3, <1>4 DEF n

LEMMA StopSort ==
    ASSUME LoaderInv, StopInv, SortBundles
    PROVE  StopInv'
<1>0. /\ stage' \in {"stopAll", "reloadStop", "reloadUnload"} /\ UNCHANGED <<known, needs, up, stack, raced>>
      /\ late' = {b \in Bundles : \E w \in Servants : \E i \in DOMAIN stack[w] : stack[w][i].b = b}
  BY DEF SortBundles
<1>1. PICK order \in Orders : job' = [job EXCEPT ![Control].plan = StopOrder(order)]
  BY DEF SortBundles
<1> DEFINE q == StopOrder(order)
           n == Len(order)
<1>2. /\ q \in Seq(Bundles) /\ DOMAIN q = 1..n /\ n \in Nat
      /\ \A i \in 1..n : n + 1 - i \in 1..n /\ q[n + 1 - i] = order[i]
      /\ \A b \in known : \E i \in 1..n : order[i] = b
  BY OrderListed
<1>3. /\ \A i, j \in 1..n : order[i] = order[j] => i = j
      /\ \A i \in 1..n : \A d \in Wants(order[i]) : \E j \in 1..n : j < i /\ order[j] = d
  BY SortedOrder
<1> HIDE DEF q, n
<1>4. job'[Control].plan = q /\ job'[Control].b = None
  <2>1. job[Control].b = None
    BY DEF StopInv, SortBundles, Stopping
  <2> QED BY <1>1, <1>2, <2>1, NewPlan DEF q
<1>5. \A i \in 1..n : q[i] = order[n + 1 - i] /\ n + 1 - i \in 1..n
  <2>1. ASSUME NEW i \in 1..n PROVE n + 1 - (n + 1 - i) = i /\ n + 1 - i \in 1..n
    BY <1>2
  <2> QED BY <1>2, <2>1
<1>6. stack'[Control] = <<>> /\ \A c : ~Current(c)' /\ ~Working(c)'
  <2>1. stack[Control] = <<>>
    BY <1>0, ControlIdle DEF Stopping, SortBundles
  <2>2. stack'[Control] = <<>> /\ 1 \notin DOMAIN stack'[Control]
    BY <1>0, <2>1
  <2> QED BY <2>2 DEF Current, Working
<1>7. LateTold'
  <2>1. ASSUME NEW w \in Servants, NEW i \in DOMAIN stack[w] PROVE stack[w][i].b \in late'
    <3>1. stack[w][i] \in Calls
      BY LoaderThreads DEF LoaderInv, LoaderTypes
    <3>2. stack[w][i].b \in Bundles
      BY <3>1 DEF Calls
    <3> QED BY <1>0, <3>2
  <2> QED BY <1>0, <2>1 DEF LateTold, Servants
<1>8. Once'
  <2>1. ASSUME NEW i \in 1..n, NEW j \in 1..n, q[i] = q[j] PROVE i = j
    <3>1. n + 1 - i = n + 1 - j
      BY <1>3, <1>5, <2>1
    <3> QED BY <1>2, <3>1
  <2> QED BY <1>2, <1>4, <1>6, <2>1, LoaderThreads DEF Once
<1>9. ASSUME NEW c \in known \ raced, up[c] = TRUE PROVE Ahead(c)'
  <2>1. c \in Bundles \ raced
    BY DEF LoaderInv, LoaderTypes
  <2>2. Wants(c) = needs[c]
    BY <1>9, <2>1, UpIsStarted DEF Wants, isResolved, Started
  <2>3. \E i \in 1..n : q[i] = c
    BY <1>2
  <2>4. ASSUME NEW i \in 1..n, q[i] = c, NEW d \in needs[c] PROVE \E j \in 1..n : i < j /\ q[j] = d
    <3>1. order[n + 1 - i] = c /\ n + 1 - i \in 1..n
      BY <1>5, <2>4
    <3>2. PICK k \in 1..n : k < n + 1 - i /\ order[k] = d
      BY <1>3, <2>2, <3>1
    <3>3. i < n + 1 - k
      BY <1>2, <3>2
    <3> QED BY <1>2, <3>2, <3>3
  <2>5. InPlan(c)' /\ needs' = needs
    BY <1>0, <1>2, <1>4, <2>3 DEF InPlan
  <2>6. \A i \in DOMAIN job'[Control].plan : job'[Control].plan[i] = c =>
           \A d \in needs'[c] : \E j \in DOMAIN job'[Control].plan : i < j /\ job'[Control].plan[j] = d
    <3>1. /\ DOMAIN job'[Control].plan = 1..n /\ needs'[c] = needs[c]
          /\ \A i : job'[Control].plan[i] = q[i]
      BY <1>2, <1>4, <2>5
    <3> QED BY <2>4, <3>1
  <2> QED BY <1>6, <2>5, <2>6 DEF Ahead
<1> QED BY <1>0, <1>4, <1>7, <1>8, <1>9 DEF StopInv, NothingLeft

\* What the control thread has not stopped is active, or a task has begun
\* to stop it.
LEMMA ActiveOrLate ==
    ASSUME LoaderInv, ~Busy(Control), LateTold, NEW c \in Bundles \ (late \cup raced), up[c] = TRUE
    PROVE  state[c] = "active"
<1>1. CASE Free(c)
  <2>1. Rests(state[c], up[c], library[c])
    BY <1>1 DEF LoaderInv, Truth
  <2> QED BY <2>1 DEF Rests
<1>2. CASE ~Free(c)
  <2>0. PICK u \in Threads : \E i \in DOMAIN stack[u] : stack[u][i].b = c /\ Passed(stack[u][i])
    BY <1>2 DEF Free
  <2>1. PICK i \in DOMAIN stack[u] : stack[u][i].b = c /\ Passed(stack[u][i])
    BY <2>0
  <2> DEFINE f == stack[u][i]
  <2>2. Tells(f, state[c], up[c], library[c])
    BY <2>1 DEF LoaderInv, Truth
  <2>3. f \in Calls /\ Formed(f)
    BY DEF LoaderInv, LoaderTypes, Frames
  <2>4. f.op \in Ops /\ f.at \in Places /\ f.ok \in BOOLEAN
    BY <2>3 DEF Calls, Places
  <2>5. f.op \in {"start", "stop"}
    BY <2>2 DEF Tells
  <2>6. u \in Servants
    <3>1. u # Control
      BY DEF Busy
    <3> QED BY <3>1, LoaderThreads
  <2>7. f.old = None
    BY <2>1, <2>6 DEF LateTold
  <2> HIDE DEF f
  <2>8. f.at # "check" /\ f.ok = TRUE
    BY <2>1, <2>4, <2>7 DEF Passed, f
  <2>9. f.at = "set"
    BY <2>3, <2>4, <2>5, <2>7, <2>8 DEF Formed, Places
  <2> QED BY <2>2, <2>4, <2>5, <2>9 DEF Tells
<1> QED BY <1>1, <1>2

LEMMA StopStopAll ==
    ASSUME LoaderInv, StopInv, stopAllBundles
    PROVE  StopInv'
<1> DEFINE plan == job[Control].plan
           b == Head(plan)
<1>0. /\ Stopping /\ ~Busy(Control) /\ ~job[Control].threw /\ plan # <<>>
      /\ UNCHANGED <<known, state, needs, up, raced, late, stage>>
      /\ IF state[b] = "active" THEN Call(Control, "stop", b, FALSE) ELSE UNCHANGED stack
  BY DEF stopAllBundles, Ready, isActive, marks
<1>1. /\ Control \in Threads /\ Control \notin Servants /\ job[Control].threw = FALSE
  BY <1>0, LoaderThreads, JobFacts
<1>2. job'[Control].plan = Tail(plan) /\ job'[Control].b \in {b, None}
  BY StopsNext
<1>3. /\ Tail(plan) \in Seq(Bundles) /\ b \in Bundles /\ b = plan[1] /\ plan \in Seq(Bundles)
      /\ \A i \in DOMAIN Tail(plan) : i \in Nat /\ i + 1 \in DOMAIN plan /\ Tail(plan)[i] = plan[i + 1]
      /\ \A i \in DOMAIN plan : i \in Nat /\ (i = 1 \/ (i - 1 \in DOMAIN Tail(plan) /\ Tail(plan)[i - 1] = plan[i]))
      /\ 1 \in DOMAIN plan
  <2>0. /\ Tail(plan) \in Seq(Bundles) /\ b \in Bundles /\ b = plan[1] /\ plan \in Seq(Bundles)
        /\ \A i \in DOMAIN Tail(plan) : i \in Nat /\ i + 1 \in DOMAIN plan /\ Tail(plan)[i] = plan[i + 1]
        /\ \A i \in DOMAIN plan : i = 1 \/ (i - 1 \in DOMAIN Tail(plan) /\ Tail(plan)[i - 1] = plan[i])
    BY StopsNext
  <2> HIDE DEF plan, b
  <2>1. DOMAIN plan = 1..Len(plan) /\ Len(plan) \in Nat /\ Len(plan) > 0
    BY <1>0, <2>0, EmptySeq
  <2>2. \A i \in DOMAIN plan : i \in Nat
    BY <2>1
  <2>3. 1 \in DOMAIN plan
    BY <2>1
  <2> QED BY <2>0, <2>2, <2>3
<1> DEFINE rest == Tail(plan)
<1> HIDE DEF b
<1>4. Once /\ LateTold /\ \A c \in known \ (late \cup raced) : up[c] = TRUE => Ahead(c)
  BY <1>0, <1>1 DEF StopInv
<1>5. \A i, j \in DOMAIN plan : plan[i] = plan[j] => i = j
  BY <1>4 DEF Once
<1>6. \A c : ~Current(c) /\ ~Working(c)
  <2>1. stack[Control] = <<>>
    BY <1>0 DEF Busy
  <2> QED BY <2>1 DEF Current, Working
<1>7. /\ \A w \in Servants : stack'[w] = stack[w]
      /\ \A c : (Current(c)' <=> (c = b /\ state[b] = "active")) /\ (Working(c)' => c = b)
  <2>1. CASE state[b] = "active"
    <3> DEFINE stale == FALSE
               op == "stop"
    <3>1. Call(Control, op, b, stale) /\ op \in Ops /\ stale \in BOOLEAN
      BY <1>0, <2>1 DEF Ops
    <3>2. Frame(op, b, stale).b = b /\ Frame(op, b, stale).op = "stop"
      BY DEF Frame
    <3> HIDE DEF op, stale
    <3>3. Begins(Control, Frame(op, b, stale))
      BY <1>0, <1>1, <1>3, <3>1, CallBegins DEF LoaderInv
    <3>4. DOMAIN stack'[Control] = {1} /\ stack'[Control][1].b = b /\ stack'[Control][1].op = "stop"
      BY <3>2, <3>3 DEF Begins
    <3>5. \A w \in Servants : stack'[w] = stack[w]
      BY <1>1, <3>3, LoaderThreads DEF Begins, Others
    <3> QED BY <2>1, <3>4, <3>5 DEF Current, Working
  <2>2. CASE state[b] # "active"
    BY <1>0, <1>6, <2>2 DEF Current, Working
  <2> QED BY <2>1, <2>2
<1>8. LateTold'
  BY <1>0, <1>4, <1>7 DEF LateTold, None, Servants
<1> HIDE DEF plan
<1>9. /\ \A i, j \in DOMAIN rest : rest[i] = rest[j] => i = j
      /\ \A i \in DOMAIN rest : rest[i] # b
  <2>1. ASSUME NEW i \in DOMAIN rest, NEW j \in DOMAIN rest, rest[i] = rest[j] PROVE i = j
    <3>1. i + 1 = j + 1 /\ i \in Nat /\ j \in Nat
      BY <1>3, <1>5, <2>1
    <3> QED BY <3>1
  <2>2. ASSUME NEW i \in DOMAIN rest, rest[i] = b PROVE FALSE
    <3>1. i + 1 = 1 /\ i \in Nat /\ i + 1 \in DOMAIN plan
      BY <1>3, <1>5, <2>2
    <3>2. i = 0
      BY <3>1
    <3>3. rest \in Seq(Bundles) /\ DOMAIN rest = 1..Len(rest)
      BY <1>3
    <3> HIDE DEF rest
    <3> QED BY <3>2, <3>3
  <2> QED BY <2>1, <2>2
<1>10. Once'
  BY <1>2, <1>7, <1>9, LoaderThreads DEF Once, InPlan
<1>11. ASSUME NEW c \in known \ (late \cup raced), up[c] = TRUE PROVE Ahead(c)'
  <2>1. Ahead(c) /\ InPlan(c) /\ c \in Bundles \ (late \cup raced)
    BY <1>4, <1>6, <1>11 DEF Ahead, LoaderInv, LoaderTypes
  <2>2. ASSUME NEW i \in DOMAIN plan, plan[i] = c, NEW d \in needs[c]
        PROVE  \E j \in DOMAIN rest : i < j + 1 /\ rest[j] = d
    <3>1. PICK j \in DOMAIN plan : i < j /\ plan[j] = d
      BY <2>1, <2>2 DEF Ahead, plan
    <3>2. i \in Nat /\ j \in Nat
      BY <1>3
    <3>3. i # 0
      <4>1. DOMAIN plan = 1..Len(plan)
        BY <1>3
      <4> QED BY <4>1
    <3>4. j # 1 /\ i < (j - 1) + 1
      BY <3>1, <3>2, <3>3
    <3> QED BY <1>3, <3>1, <3>4
  <2>3. c # b => InPlan(c)'
    <3>1. PICK i \in DOMAIN plan : plan[i] = c
      BY <2>1 DEF InPlan, plan
    <3> QED BY <1>2, <1>3, <3>1 DEF InPlan
  <2>4. c = b => Current(c)' /\ \A d \in needs[c] : InPlan(d)'
    <3>1. ASSUME c = b PROVE state[b] = "active"
      BY <1>0, <1>4, <1>11, <2>1, <3>1, ActiveOrLate
    <3>2. ASSUME c = b, NEW d \in needs[c] PROVE InPlan(d)'
      BY <1>2, <1>3, <2>2, <3>2 DEF InPlan
    <3> QED BY <1>7, <3>1, <3>2
  <2>5. ASSUME NEW i \in DOMAIN rest, rest[i] = c, NEW d \in needs[c] PROVE \E j \in DOMAIN rest : i < j /\ rest[j] = d
    <3>1. i \in Nat /\ i + 1 \in DOMAIN plan /\ plan[i + 1] = c
      BY <1>3, <2>5
    <3>2. PICK j \in DOMAIN rest : i + 1 < j + 1 /\ rest[j] = d
      BY <2>2, <3>1
    <3>3. j \in Nat
      BY <1>3
    <3>4. i < j
      BY <3>1, <3>2, <3>3
    <3> QED BY <3>2, <3>4
  <2>6. Current(c)' => c = b
    BY <1>7
  <2>7. job'[Control].plan = rest /\ needs' = needs
    BY <1>0, <1>2
  <2> HIDE DEF rest
  <2>8. \A i \in DOMAIN job'[Control].plan : job'[Control].plan[i] = c =>
           \A d \in needs'[c] : \E j \in DOMAIN job'[Control].plan : i < j /\ job'[Control].plan[j] = d
    BY <2>5, <2>7
  <2> QED BY <1>0, <2>3, <2>4, <2>6, <2>8 DEF Ahead
<1>12. stage' # "ended"
  BY <1>0 DEF Stopping
<1>13. Stopping'
  BY <1>0 DEF Stopping
<1> QED BY <1>0, <1>8, <1>10, <1>11, <1>12, <1>13 DEF StopInv, NothingLeft

LEMMA StopUnload ==
    ASSUME LoaderInv, StopInv, unloadBundle
    PROVE  StopInv'
<1> DEFINE b == job[Control].b
           stale == FALSE
           op == "unload"
<1>0. /\ Stopping /\ Stopping' /\ stage' # "ended" /\ ~Busy(Control) /\ Call(Control, op, b, stale) /\ op \in Ops
      /\ UNCHANGED <<known, needs, up, raced, late, stage>> /\ ~job[Control].threw /\ stale \in BOOLEAN
  BY DEF unloadBundle, Ready, Stopping, marks, Ops
<1>1. b \in Bundles /\ job'[Control].b = None /\ job'[Control].plan = job[Control].plan
  BY UnloadsNext
<1>2. Frame(op, b, stale).b = b /\ Frame(op, b, stale).op = "unload"
  BY DEF Frame
<1>3. Control \in Threads /\ Control \notin Servants /\ job[Control].threw = FALSE
  BY <1>0, LoaderThreads, JobFacts
<1>4. Once /\ LateTold /\ \A c \in known \ (late \cup raced) : up[c] = TRUE => Ahead(c)
  BY <1>0, <1>3 DEF StopInv
<1>5. ~InPlan(b)
  BY <1>1, <1>4 DEF Once
<1> HIDE DEF b, op, stale
<1>6. Begins(Control, Frame(op, b, stale))
  BY <1>0, <1>1, <1>3, CallBegins DEF LoaderInv
<1>7. DOMAIN stack'[Control] = {1} /\ stack'[Control][1].b = b /\ stack'[Control][1].op = "unload"
  BY <1>2, <1>6 DEF Begins
<1>8. \A c : ~Current(c)' /\ ~Current(c) /\ (Working(c)' => c = b) /\ (InPlan(c)' <=> InPlan(c))
  <2>1. stack[Control] = <<>>
    BY <1>0 DEF Busy
  <2> QED BY <1>1, <1>7, <2>1 DEF Current, Working, InPlan
<1>9. LateTold'
  <2>1. \A w \in Servants : stack'[w] = stack[w]
    BY <1>3, <1>6, LoaderThreads DEF Begins, Others
  <2> QED BY <1>0, <1>4, <2>1 DEF LateTold, None, Servants
<1>10. Once'
  BY <1>1, <1>4, <1>5, <1>8, LoaderThreads DEF Once
<1>11. ASSUME NEW c \in known \ (late \cup raced), up[c] = TRUE PROVE Ahead(c)'
  BY <1>0, <1>1, <1>4, <1>8, <1>11 DEF Ahead
<1> QED BY <1>0, <1>9, <1>10, <1>11 DEF StopInv, NothingLeft

LEMMA StopStoppingEnds ==
    ASSUME LoaderInv, StopInv, StoppingEnds
    PROVE  StopInv'
<1>0. /\ Stopping /\ ~Busy(Control) /\ UNCHANGED <<known, up, stack, raced, late>>
      /\ job' = [job EXCEPT ![Control] = IdleJob]
      /\ stage' \in {"ended", "sortUnload", "load", "aborted", "run"}
      /\ stage' = "ended" => ~job[Control].threw /\ job[Control].plan = <<>>
  BY DEF StoppingEnds, Ready, marks
<1>3. job'[Control].b = None
  BY <1>0, IdleTyped, ControlJob
<1>1. CASE stage' # "ended"
  BY <1>0, <1>1, <1>3, StopVacuous DEF Stopping
<1>2. CASE stage' = "ended"
  <2>1. LateTold' /\ ~Stopping'
    BY <1>0, <1>2 DEF StopInv, LateTold, None, Stopping, Servants
  <2>2. ASSUME NEW b \in known, up[b], b \notin late \cup raced PROVE FALSE
    <3>1. up[b] = TRUE /\ job[Control].threw = FALSE
      BY <1>0, <1>2, <2>2, JobFacts, LoaderThreads DEF LoaderInv, LoaderTypes
    <3>2. Ahead(b)
      BY <1>0, <2>2, <3>1 DEF StopInv
    <3>3. stack[Control] = <<>> /\ job[Control].plan = <<>>
      BY <1>0, <1>2 DEF Busy
    <3> QED BY <3>2, <3>3 DEF Ahead, InPlan, Current, Working
  <2> QED BY <1>0, <1>3, <2>1, <2>2 DEF StopInv, NothingLeft
<1> QED BY <1>1, <1>2

LEMMA StopNext ==
    ASSUME LoaderInv, LoaderInv', StopInv, [LoaderNext]_loaderVars
    PROVE  StopInv'
<1>1. CASE \E t \in Threads : Step(t)
  BY <1>1, StopCallStep, StopTasks DEF Step
<1>2. CASE \E t \in Servants, action \in {"start", "stop", "restart"}, b \in Bundles : TaskBegins(t, action, b)
  <2>1. PICK t \in Servants : \E x : /\ job' = [job EXCEPT ![t] = x]
                                    /\ UNCHANGED <<stage, known, late, raced, up, needs, stack>>
    BY <1>2 DEF TaskBegins, marks
  <2>2. job'[Control] = job[Control]
    BY <2>1, JobFacts, LoaderThreads
  <2>3. LateTold => LateTold'
    BY <2>1 DEF LateTold, None, Servants
  <2> QED BY <2>1, <2>2, <2>3, StopSame
<1>3. CASE \E t \in Web, op \in {"resolve", "start", "stop", "uninstall"}, b \in Bundles : performAction(t, op, b)
  <2>1. PICK t \in Web, op \in {"resolve", "start", "stop", "uninstall"}, b \in Bundles : performAction(t, op, b)
    BY <1>3
  <2> DEFINE stale == FALSE
  <2>2. /\ t \in Threads /\ t # Control /\ op \in Ops /\ stale \in BOOLEAN /\ ~Busy(t) /\ Call(t, op, b, stale)
        /\ UNCHANGED <<stage, known, late, raced, up, needs, job>>
    BY <2>1, LoaderThreads DEF performAction, AtRest, marks, Ops
  <2> HIDE DEF stale
  <2> QED BY <2>2, StopBegins
<1>4. CASE (\E b \in Bundles : loadBundle(b)) \/ Loaded \/ resolveAllBundles \/ startAllBundles
           \/ RequestReload \/ RequestShutdown
  <2>1. stage' \in {"load", "resolve", "startAll", "run", "sort", "sortReload", "aborted"} /\ ~Stopping
    BY <1>4 DEF loadBundle, Loaded, resolveAllBundles, startAllBundles, RequestReload, RequestShutdown, Stopping
  <2>2. job[Control].b = None
    BY <2>1 DEF StopInv
  <2>3. /\ Control \in Threads /\ job \in [Threads -> JobSet] /\ job[Control] \in JobSet
    BY LoaderThreads, JobFacts
  <2>4. job'[Control].b = None
    <3>1. CASE \E b \in Bundles : loadBundle(b)
      <4>1. PICK b \in Bundles : job' = [t \in Threads |-> [job[t] EXCEPT !.stale = @ \/ job[t].b = b]]
        BY <3>1 DEF loadBundle
      <4> QED BY <2>2, <2>3, <4>1 DEF JobSet
    <3>2. CASE resolveAllBundles
      <4>1. PICK plan : job' = [job EXCEPT ![Control].plan = plan]
        BY <3>2 DEF resolveAllBundles
      <4> QED BY <2>2, <2>3, <4>1 DEF JobSet
    <3>3. CASE startAllBundles
      <4>1. \/ job' = [job EXCEPT ![Control] = IdleJob]
            \/ job' = [job EXCEPT ![Control] = [@ EXCEPT !.threw = FALSE, !.plan = Tail(job[Control].plan)]]
        BY <3>3 DEF startAllBundles
      <4>2. CASE job' = [job EXCEPT ![Control] = IdleJob]
        BY <2>3, <4>2, IdleTyped
      <4>3. CASE job' = [job EXCEPT ![Control] = [@ EXCEPT !.threw = FALSE, !.plan = Tail(job[Control].plan)]]
        BY <2>2, <2>3, <4>3 DEF JobSet
      <4> QED BY <4>1, <4>2, <4>3
    <3>4. CASE Loaded \/ RequestReload \/ RequestShutdown
      BY <2>2, <3>4 DEF Loaded, RequestReload, RequestShutdown
    <3> QED BY <1>4, <3>1, <3>2, <3>3, <3>4
  <2> QED BY <2>1, <2>4, StopVacuous DEF Stopping
<1>5. CASE SortBundles \/ stopAllBundles \/ unloadBundle \/ StoppingEnds
  BY <1>5, StopSort, StopStopAll, StopUnload, StopStoppingEnds
<1>6. CASE Over \/ UNCHANGED loaderVars
  <2>1. UNCHANGED <<stage, known, late, raced, up, needs, stack, job>>
    BY <1>6 DEF Over, loaderVars, marks
  <2>2. LateTold => LateTold'
    BY <2>1 DEF LateTold, None, Servants
  <2> QED BY <2>1, <2>2, StopSame
<1> QED BY <1>1, <1>2, <1>3, <1>4, <1>5, <1>6 DEF LoaderNext, ControlStep

\* The activator that the control thread stops is needed by none that is up.
LEMMA NobodyNeeds ==
    ASSUME LoaderInv, StopInv, NEW c \in known, Stopping, Busy(Control), up[c],
           TopCall(Control).b \in needs[c], up[TopCall(Control).b], c \notin late \cup raced
    PROVE  FALSE
<1> DEFINE n == Len(stack[Control])
           b == TopCall(Control).b
<1>1. TopCall(Control) = stack[Control][n] /\ n \in DOMAIN stack[Control] /\ b \in Bundles
  BY LoaderThreads, TopFrame, TopFacts DEF LoaderInv
<1>2. n = 1 /\ job[Control].threw = FALSE
  BY <1>1 DEF LoaderInv, Callers, Stopping
<1>3. Working(b) /\ up[c] = TRUE
  BY <1>1, <1>2 DEF Working, LoaderInv, LoaderTypes
<1> HIDE DEF n, b
<1>4. Ahead(c) /\ Once
  BY <1>2, <1>3 DEF StopInv
<1>5. ~InPlan(b) /\ b \in needs[c]
  BY <1>1, <1>3, <1>4 DEF Once, b
<1>6. CASE Current(c)
  BY <1>4, <1>5, <1>6 DEF Ahead
<1>7. CASE InPlan(c)
  <2>1. PICK i \in DOMAIN job[Control].plan : job[Control].plan[i] = c
    BY <1>7 DEF InPlan
  <2> QED BY <1>4, <1>5, <2>1 DEF Ahead, InPlan
<1> QED BY <1>4, <1>6, <1>7 DEF Ahead

\* The inductive invariant of the loader's stop.
LoaderStopInv == LoaderInv /\ StopInv

LEMMA LoaderStops ==
    LoaderSpec => []LoaderStopInv
<1>1. LoaderInit => LoaderStopInv
  BY LoaderInitial, IdleTyped, LoaderThreads DEF LoaderInit, LoaderStopInv, StopInv, Stopping, NothingLeft
<1>2. LoaderStopInv /\ [LoaderNext]_loaderVars => LoaderStopInv'
  BY LoaderKept, StopNext DEF LoaderStopInv
<1> QED BY <1>1, <1>2, PTL DEF LoaderSpec

(* A shutdown or reload stops an activator only when those that need it are  *)
(* down: the order that sortBundles finds and stopAllBundles runs through    *)
(* backwards, for all Bundles but those that a task or a request worked on   *)
(* since, or that calls raced for (late and raced, as DependentsFirst says). *)
THEOREM DependentsFirstHolds == LoaderSpec => DependentsFirst
<1> DEFINE Ordered ==
      \A b, c \in known :
         Stopping /\ Busy(Control) /\ TopCall(Control).b = b /\ up[b] /\ ~up'[b]
           /\ b \in needs[c] /\ up[c] => c \in late \cup raced
<1>1. ASSUME LoaderStopInv PROVE Ordered
  BY <1>1, NobodyNeeds DEF LoaderStopInv
<1>2. [][Ordered]_loaderVars => DependentsFirst
  BY DEF DependentsFirst
<1>3. LoaderSpec => []LoaderStopInv
  BY LoaderStops
<1> HIDE DEF Ordered
<1> QED BY <1>1, <1>2, <1>3, PTL

(* After a shutdown no activator runs but those that a task or a request     *)
(* worked on since the order was chosen, or that calls raced for:            *)
(* stopAllBundles leaves none out.                                           *)
THEOREM NothingLeftHolds == LoaderSpec => []NothingLeft
<1>1. LoaderStopInv => NothingLeft
  BY DEF LoaderStopInv, StopInv
<1>2. LoaderSpec => []LoaderStopInv
  BY LoaderStops
<1> QED BY <1>1, <1>2, PTL

=============================================================================
