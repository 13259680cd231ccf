----------------------- MODULE SubprocessManagerProofs -----------------------
(***************************************************************************)
(* SubprocessManager implements Supervisor, restarts with a fresh child    *)
(* and shuts down the youngest child first, for any configuration with     *)
(* distinct names of local entries, any number of worker threads, of       *)
(* operations, of processes and of failed launches.                        *)
(***************************************************************************)
EXTENDS SubprocessManager, FiniteSetTheorems, TLAPS

\* What the results need of the configuration file; startFromConfiguration
\* does not check it.
DistinctNames ==
    \A i, j \in DOMAIN Slots :
        Slots[i].local /\ Slots[j].local /\ Slots[i].name = Slots[j].name => i = j

Entry == [name : Names, pid : Pids]
MainOps == {"none", "boot", "rollback", "stopAll", "destroy"}
WorkerOps == {"none", "start", "stop", "restart"}
InStop == {"next", "wait", "kill"}
Task == [op : MainOps \cup WorkerOps, at : {"idle", "lock", "loop", "start", "stop"} \cup InStop,
         name : Names \cup {NoName}, todo : Seq(Entry), mark : Nat]
States == {"unborn", "alive", "asked", "killed", "gone"}
Unkilled == {"alive", "asked"}

Types ==
    /\ configured \in Seq([name : Names, local : BOOLEAN])
    /\ running \in Seq(Entry)
    /\ child \in [Pids -> States]
    /\ childName \in [Pids -> Names \cup {NoName}]
    /\ th \in [Threads -> Task]

\* Who may be where; a task under way knows its name.
Roles ==
    /\ th[Main].op \in MainOps
    /\ \A t \in Workers : th[t].op \in WorkerOps
    /\ \A t \in Threads :
          /\ th[t].op = "none" <=> th[t].at = "idle"
          /\ th[t].op = "boot" <=> th[t].at \in {"lock", "loop"}
          /\ th[t].op \in {"rollback", "stopAll", "destroy"} => th[t].at \in InStop
          /\ th[t].op = "start" => th[t].at = "start"
          /\ th[t].op \in {"stop", "restart"} => th[t].at \in {"stop", "start"} \cup InStop
          /\ th[t].op \in {"start", "stop", "restart"} => th[t].name \in Names

\* How far main() is, and when the workers are at rest.
Server ==
    /\ server = "booting" <=> th[Main].op \in {"boot", "rollback"}
    /\ server = "stopping" <=> th[Main].op = "stopAll"
    /\ server = "destroying" <=> th[Main].op = "destroy"
    /\ server \in {"joined", "destroying", "destroyed", "aborted"}
          => \A t \in Workers : th[t].at = "idle"

Mutex == \A t \in Threads : th[t].at \in InStop \cup {"loop"} => mutex = t

\* While the configuration is read nobody else starts anything.
Boot ==
    /\ th[Main].at = "lock" => configured = <<>> /\ running = <<>>
    /\ th[Main].at = "loop" =>
          /\ Len(configured) <= Len(Slots)
          /\ \A j \in DOMAIN running : \E i \in 1..Len(configured) :
                Slots[i].local /\ Slots[i].name = running[j].name

\* Process ids are given out in order.
Launched == Cardinality(Born)
Numbered == Launched \in 0..MaxPids /\ Born = 1..Launched

\* The entries: one for a name, the younger the later, and every child that
\* was not killed has one.
Entries ==
    /\ \A i \in DOMAIN running : running[i].pid \in Born
    /\ \A i, j \in DOMAIN running : running[i].name = running[j].name => i = j
    /\ \A i, j \in DOMAIN running : i < j => running[i].pid < running[j].pid
    /\ \A p \in Pids : child[p] \in Unkilled =>
          \E i \in DOMAIN running : running[i].name = childName[p] /\ running[i].pid = p

\* A stop under way: what it is about is dealt with or still to do, and a
\* child that is waited for was asked.
Concerns(t, e) == th[t].op \in {"stop", "restart"} => e.name = th[t].name
Covered(t) ==
    \A j \in DOMAIN running : Concerns(t, running[j]) =>
        \/ child[running[j].pid] \in Dealt
        \/ \E k \in DOMAIN th[t].todo : th[t].todo[k] = running[j]
StopOK(t) ==
    /\ Covered(t)
    /\ th[t].op \in {"stop", "restart"} => findRunning(th[t].name) # {}
    /\ th[t].at \in {"wait", "kill"} => /\ th[t].todo # <<>>
                                        /\ child[Pid(t)] \notin {"alive", "unborn"}
    /\ t = Main => \A i, j \in DOMAIN th[t].todo : i < j => th[t].todo[j].pid < th[t].todo[i].pid
Stops == \A t \in Threads : th[t].at \in InStop => StopOK(t)

\* A restart that goes on to its start finds no older child under its name.
Fresh ==
    \A t \in Workers :
        /\ th[t].mark <= Launched
        /\ th[t].op = "restart" /\ th[t].at = "start" =>
              \A i \in DOMAIN running : running[i].name = th[t].name => running[i].pid > th[t].mark

IInv ==
    /\ DistinctNames
    /\ Types /\ Roles /\ Server /\ Mutex /\ Boot /\ Numbered /\ Entries /\ Stops /\ Fresh
-----------------------------------------------------------------------------
(* What is left of a list of entries without the i-th one.                   *)
LEMMA RemoveFacts ==
    ASSUME NEW s \in Seq(Entry), NEW i \in DOMAIN s
    PROVE  /\ RemoveAt(s, i) \in Seq(Entry) /\ Len(RemoveAt(s, i)) = Len(s) - 1
           /\ \A j \in DOMAIN RemoveAt(s, i) :
                 RemoveAt(s, i)[j] = IF j < i THEN s[j] ELSE s[j + 1]
           /\ \A j \in DOMAIN RemoveAt(s, i) : j \in DOMAIN s /\ j + 1 \in DOMAIN s
           /\ \A k \in DOMAIN s : k # i => \E j \in DOMAIN RemoveAt(s, i) : RemoveAt(s, i)[j] = s[k]
<1> DEFINE a == SubSeq(s, 1, i - 1)
           b == SubSeq(s, i + 1, Len(s))
           r == a \o b
<1>0. Len(s) \in Nat /\ i \in 1..Len(s) /\ RemoveAt(s, i) = r
  BY DEF RemoveAt
<1>1. a \in Seq(Entry) /\ Len(a) = i - 1 /\ \A j \in 1..(i - 1) : a[j] = s[j]
  BY <1>0
<1>2. b \in Seq(Entry) /\ Len(b) = Len(s) - i /\ \A j \in 1..(Len(s) - i) : b[j] = s[j + i]
  BY <1>0, SMTT(20)
<1> HIDE DEF a, b
<1>3. r \in Seq(Entry) /\ Len(r) = Len(s) - 1 /\ DOMAIN r = 1..(Len(s) - 1)
  BY <1>0, <1>1, <1>2, SMTT(20)
<1>4. \A j \in 1..(Len(s) - 1) : r[j] = IF j < i THEN s[j] ELSE s[j + 1]
  <2> SUFFICES ASSUME NEW j \in 1..(Len(s) - 1) PROVE r[j] = IF j < i THEN s[j] ELSE s[j + 1]
    OBVIOUS
  <2>1. CASE j < i
    BY <1>0, <1>1, <1>2, <2>1
  <2>2. CASE ~(j < i)
    <3>1. r[j] = b[j - (i - 1)] /\ j - (i - 1) \in 1..(Len(s) - i)
      BY <1>0, <1>1, <1>2, <2>2, SMTT(20)
    <3>2. j - (i - 1) + i = j + 1
      BY <1>0
    <3> QED BY <1>2, <2>2, <3>1, <3>2
  <2> QED BY <2>1, <2>2
<1> HIDE DEF r
<1>5. \A k \in DOMAIN s : k # i => \E j \in 1..(Len(s) - 1) : r[j] = s[k]
  <2> SUFFICES ASSUME NEW k \in 1..Len(s), k # i PROVE \E j \in 1..(Len(s) - 1) : r[j] = s[k]
    BY <1>0
  <2>1. CASE k < i
    <3>1. k \in 1..(Len(s) - 1) /\ r[k] = s[k]
      BY <1>0, <1>4, <2>1
    <3> QED BY <3>1
  <2>2. CASE k > i
    <3>1. k - 1 \in 1..(Len(s) - 1) /\ ~(k - 1 < i) /\ (k - 1) + 1 = k
      BY <1>0, <2>2
    <3>2. r[k - 1] = s[k]
      BY <1>4, <3>1
    <3> QED BY <3>1, <3>2
  <2> QED BY <1>0, <2>1, <2>2
<1>6. \A j \in 1..(Len(s) - 1) : j \in DOMAIN s /\ j + 1 \in DOMAIN s
  BY <1>0
<1> QED BY <1>0, <1>3, <1>4, <1>5, <1>6

(* rbegin() to rend(): the same entries, the last one first.                 *)
LEMMA ReverseFacts ==
    ASSUME NEW s \in Seq(Entry)
    PROVE  /\ StopOrder(s) \in Seq(Entry) /\ DOMAIN StopOrder(s) = DOMAIN s
           /\ \A i \in DOMAIN s : (Len(s) - i) + 1 \in DOMAIN s
                                  /\ StopOrder(s)[i] = s[(Len(s) - i) + 1]
           /\ \A i \in DOMAIN s : \E j \in DOMAIN s : StopOrder(s)[j] = s[i]
<1>1. Len(s) \in Nat /\ DOMAIN s = 1..Len(s)
      /\ StopOrder(s) = [i \in 1..Len(s) |-> s[(Len(s) - i) + 1]]
  BY DEF StopOrder, Reverse
<1>2. \A i \in 1..Len(s) : (Len(s) - i) + 1 \in 1..Len(s)
                           /\ (Len(s) - ((Len(s) - i) + 1)) + 1 = i
  BY <1>1
<1>3. StopOrder(s) \in [1..Len(s) -> Entry]
  BY <1>1, <1>2
<1>4. StopOrder(s) \in Seq(Entry)
  BY <1>1, <1>3
<1>5. \A i \in 1..Len(s) : StopOrder(s)[i] = s[(Len(s) - i) + 1]
  BY <1>1
<1>6. \A i \in 1..Len(s) : \E j \in 1..Len(s) : StopOrder(s)[j] = s[i]
  BY <1>2, <1>5
<1> QED BY <1>1, <1>2, <1>3, <1>4, <1>5, <1>6

(* With one entry for a name the first one found is the only one.            *)
LEMMA FirstIsOnly ==
    ASSUME Types, Entries, NEW n, findRunning(n) # {}
    PROVE  /\ FirstRunning(n) \in DOMAIN running /\ running[FirstRunning(n)].name = n
           /\ \A j \in DOMAIN running : running[j].name = n => j = FirstRunning(n)
<1>1. PICK i \in DOMAIN running : running[i].name = n
  BY DEF findRunning
<1>2. findRunning(n) = {i} /\ i \in Nat
  BY <1>1 DEF findRunning, Entries, Types
<1>3. \E k \in findRunning(n) : \A j \in findRunning(n) : k <= j
  BY <1>2
<1>4. FirstRunning(n) \in findRunning(n)
  BY <1>3 DEF FirstRunning
<1> QED BY <1>2, <1>4 DEF findRunning

(* The entries without that of a name: one for a name, in order.             *)
LEMMA WithoutFacts ==
    ASSUME Types, Entries, NEW n, findRunning(n) # {}
    PROVE  LET r == RemoveAt(running, FirstRunning(n))
           IN  /\ r \in Seq(Entry)
               /\ \A i \in DOMAIN r : r[i].pid \in Born /\ r[i].name # n
                                      /\ \E k \in DOMAIN running : running[k] = r[i]
               /\ \A i, j \in DOMAIN r : r[i].name = r[j].name => i = j
               /\ \A i, j \in DOMAIN r : i < j => r[i].pid < r[j].pid
               /\ \A k \in DOMAIN running : running[k].name # n => \E i \in DOMAIN r : r[i] = running[k]
<1> DEFINE f == FirstRunning(n)
           r == RemoveAt(running, f)
           At(i) == IF i < f THEN i ELSE i + 1
<1>1. f \in DOMAIN running /\ running[f].name = n
      /\ \A j \in DOMAIN running : running[j].name = n => j = f
  BY FirstIsOnly
<1>2. running \in Seq(Entry) /\ DOMAIN running \subseteq Nat /\ f \in Nat
  BY <1>1 DEF Types
<1> HIDE DEF f
<1>3. r \in Seq(Entry) /\ DOMAIN r \subseteq Nat
      /\ \A j \in DOMAIN r : r[j] = (IF j < f THEN running[j] ELSE running[j + 1])
                             /\ j \in DOMAIN running /\ j + 1 \in DOMAIN running
  BY <1>1, <1>2, RemoveFacts
<1>4. \A k \in DOMAIN running : k # f => \E j \in DOMAIN r : r[j] = running[k]
  BY <1>1, <1>2, RemoveFacts
<1> HIDE DEF r
<1>5. \A i \in DOMAIN r : r[i] = running[At(i)] /\ At(i) \in DOMAIN running /\ At(i) # f
  BY <1>2, <1>3
<1>6. \A i, j \in DOMAIN r : (At(i) = At(j) => i = j) /\ (i < j => At(i) < At(j))
  BY <1>2, <1>3
<1> HIDE DEF At
<1>7. \A i \in DOMAIN r : r[i].pid \in Born /\ r[i].name # n
                          /\ \E k \in DOMAIN running : running[k] = r[i]
  BY <1>1, <1>5 DEF Entries
<1>8. \A i, j \in DOMAIN r : r[i].name = r[j].name => i = j
  BY <1>5, <1>6 DEF Entries
<1>9. \A i, j \in DOMAIN r : i < j => r[i].pid < r[j].pid
  BY <1>5, <1>6 DEF Entries
<1>10. \A k \in DOMAIN running : running[k].name # n => \E i \in DOMAIN r : r[i] = running[k]
  BY <1>1, <1>4
<1> QED BY <1>3, <1>7, <1>8, <1>9, <1>10 DEF r, f

(* The mutex is held by one thread.                                          *)
LEMMA Alone ==
    ASSUME IInv
    PROVE  /\ \A t, u \in Threads : mutex = t /\ u # t => th[u].at \notin InStop \cup {"loop"}
           /\ mutex = Nobody => \A u \in Threads : th[u].at \notin InStop \cup {"loop"}
           /\ Main \in Threads /\ Main \notin Workers /\ Workers \subseteq Threads
           /\ Nobody \notin Threads
  BY ThreadsAssumption DEF IInv, Mutex, Threads

\* A list of entries to which an entry under the name n may be added.
Ready(n, list) ==
    /\ list \in Seq(Entry)
    /\ \A i \in DOMAIN list : list[i].pid \in Born /\ list[i].name # n
    /\ \A i, j \in DOMAIN list : list[i].name = list[j].name => i = j
    /\ \A i, j \in DOMAIN list : i < j => list[i].pid < list[j].pid
    /\ \A p \in Pids : child[p] \in Unkilled =>
          \E i \in DOMAIN list : list[i].name = childName[p] /\ list[i].pid = p

(* launch() uses a new process id, and keeps the entries in order.           *)
LEMMA LaunchFacts ==
    ASSUME IInv, NEW n \in Names, NEW list, Ready(n, list), launch(n, list)
    PROVE  /\ Launched + 1 \in Pids /\ Launched \in Nat
           /\ child[Launched + 1] = "unborn"
           /\ child' = [child EXCEPT ![Launched + 1] = "alive"]
           /\ childName' = [childName EXCEPT ![Launched + 1] = n]
           /\ child' \in [Pids -> States] /\ childName' \in [Pids -> Names \cup {NoName}]
           /\ running' \in Seq(Entry) /\ Launched' = Launched + 1
           /\ \A q \in Pids : childName[q] = n => child[q] \notin Unkilled
           /\ \A i \in DOMAIN running' : \/ i \in DOMAIN list /\ running'[i] = list[i]
                                         \/ running'[i] = [name |-> n, pid |-> Launched + 1]
           /\ Numbered' /\ Entries'
<1> DEFINE p == Launched + 1
           e == [name |-> n, pid |-> p]
<1>1. Launched \in Nat /\ Born = 1..Launched /\ p \in Nat /\ p \in Pids /\ MaxPids \in Nat
      /\ Launched < MaxPids
  BY BoundsAssumption DEF IInv, Numbered, launch, CanLaunch, Launched, Pids
<1>2. child' = [child EXCEPT ![p] = "alive"] /\ childName' = [childName EXCEPT ![p] = n]
      /\ running' = Append(list, e)
  BY DEF launch, Launched
<1>3. p \notin Born /\ child[p] = "unborn"
  BY <1>1 DEF Born
<1> HIDE DEF p
<1>4. e \in Entry
  BY <1>1 DEF Entry
<1>5. child' \in [Pids -> States] /\ childName' \in [Pids -> Names \cup {NoName}]
  BY <1>1, <1>2 DEF IInv, Types, States
<1>6. list \in Seq(Entry) /\ Len(list) \in Nat /\ DOMAIN list = 1..Len(list)
  BY DEF Ready
<1> HIDE DEF e
<1>7. running' \in Seq(Entry) /\ DOMAIN running' = 1..(Len(list) + 1)
      /\ running'[Len(list) + 1] = e /\ \A i \in DOMAIN list : running'[i] = list[i]
  BY <1>2, <1>4, <1>6
<1>8. \A i \in DOMAIN running' : \/ i \in DOMAIN list /\ running'[i] = list[i]
                                 \/ i = Len(list) + 1 /\ running'[i] = e
  BY <1>6, <1>7
<1>9. Born' = Born \cup {p}
  BY <1>1, <1>2, <1>3 DEF Born, IInv, Types
<1>10. Born' = 1..p
  BY <1>1, <1>9 DEF p
<1>11. Launched' = p
  <2>1. p \in Int /\ 1 \in Int /\ ~(1 > p) /\ p - 1 + 1 = p
    BY <1>1 DEF p
  <2>2. Cardinality(1..p) = p
    BY <2>1, FS_Interval
  <2> QED BY <1>10, <2>2 DEF Launched
<1>12. Numbered'
  BY <1>1, <1>10, <1>11 DEF Numbered, Pids
<1>13. \A q \in Pids : childName[q] = n => child[q] \notin Unkilled
  BY DEF Ready
<1>14. Entries'
  <2>1. e.name = n /\ e.pid = p
    BY DEF e
  <2>2. \A i \in DOMAIN running' : running'[i].pid \in Born'
    BY <1>8, <1>9, <2>1 DEF Ready
  <2>3. \A i, j \in DOMAIN running' : running'[i].name = running'[j].name => i = j
    BY <1>8, <2>1 DEF Ready
  <2>4. ASSUME NEW i \in DOMAIN running', NEW j \in DOMAIN running', i < j
        PROVE  running'[i].pid < running'[j].pid
    <3>1. i \in DOMAIN list /\ running'[i] = list[i]
      BY <1>6, <1>7, <2>4
    <3>2. list[i].pid < p
      BY <1>1, <3>1 DEF Ready, p
    <3>3. CASE j \in DOMAIN list
      BY <1>7, <2>4, <3>1, <3>3 DEF Ready
    <3>4. CASE j = Len(list) + 1
      BY <1>7, <2>1, <3>1, <3>2, <3>4
    <3> QED BY <1>8, <3>3, <3>4
  <2>5. ASSUME NEW q \in Pids, child'[q] \in Unkilled
        PROVE  \E i \in DOMAIN running' : running'[i].name = childName'[q] /\ running'[i].pid = q
    <3>1. CASE q = p
      <4>1. childName'[q] = n
        BY <1>2, <3>1 DEF IInv, Types
      <4>2. Len(list) + 1 \in DOMAIN running'
        BY <1>6, <1>7
      <4> QED BY <1>7, <2>1, <3>1, <4>1, <4>2
    <3>2. CASE q # p
      <4>1. child[q] \in Unkilled /\ childName'[q] = childName[q]
        BY <1>2, <2>5, <3>2 DEF IInv, Types
      <4>2. PICK i \in DOMAIN list : list[i].name = childName[q] /\ list[i].pid = q
        BY <4>1 DEF Ready
      <4>3. i \in DOMAIN running' /\ running'[i] = list[i]
        BY <1>6, <1>7
      <4> QED BY <4>1, <4>2, <4>3
    <3> QED BY <3>1, <3>2
  <2> QED BY <2>2, <2>3, <2>4, <2>5 DEF Entries
<1> QED BY <1>1, <1>2, <1>3, <1>5, <1>7, <1>8, <1>11, <1>12, <1>13, <1>14 DEF p, e

LEMMA TaskFacts ==
    /\ NoTask \in Task /\ NoTask.at = "idle" /\ NoTask.op = "none" /\ NoTask.mark = 0
    /\ [NoTask EXCEPT !.op = "boot", !.at = "lock"] \in Task
<1>1. <<>> \in Seq(Entry)
  OBVIOUS
<1>2. NoTask \in Task
  BY <1>1 DEF NoTask, Task, MainOps, WorkerOps, InStop
<1>3. [NoTask EXCEPT !.op = "boot", !.at = "lock"] \in Task
  BY <1>2 DEF Task, MainOps, WorkerOps, InStop
<1> QED BY <1>2, <1>3 DEF NoTask

LEMMA InitIInv == Init /\ DistinctNames => IInv
<1> SUFFICES ASSUME Init, DistinctNames PROVE IInv
  OBVIOUS
<1>0. Main \in Threads /\ Main \notin Workers /\ Workers \subseteq Threads
  BY ThreadsAssumption DEF Threads
<1>1. th[Main] = [op |-> "boot", at |-> "lock", name |-> NoName, todo |-> <<>>, mark |-> 0]
      /\ \A t \in Workers : th[t] = NoTask
  BY <1>0 DEF Init, NoTask
<1>2. Types
  <2>1. <<>> \in Seq(Entry) /\ <<>> \in Seq([name : Names, local : BOOLEAN])
    OBVIOUS
  <2>2. \A t \in Threads : th[t] \in Task
    BY <1>0, TaskFacts DEF Init
  <2>3. th \in [Threads -> Task]
    BY <2>2 DEF Init
  <2> QED BY <2>1, <2>3 DEF Init, Types, States
<1>3. Roles
  BY <1>0, <1>1 DEF Roles, NoTask, MainOps, WorkerOps, InStop, Threads
<1>4. Server /\ Mutex
  BY <1>0, <1>1 DEF Server, Mutex, NoTask, InStop, Init, Threads
<1>5. Boot
  BY <1>0, <1>1 DEF Boot, Init
<1>6. Numbered
  <2>1. Born = {} /\ 1..0 = {}
    BY DEF Born, Init
  <2>2. Launched = 0
    BY <2>1, FS_EmptySet DEF Launched
  <2> QED BY <2>1, <2>2, BoundsAssumption DEF Numbered
<1>7. Entries
  BY DEF Entries, Init, Unkilled
<1>8. Stops
  BY <1>0, <1>1 DEF Stops, StopOK, NoTask, InStop, Threads
<1>9. Fresh
  <2>1. \A t \in Workers : th[t].mark = 0 /\ th[t].op = "none"
    BY <1>1 DEF NoTask
  <2>2. 0 <= Launched
    BY <1>6, BoundsAssumption DEF Numbered
  <2> QED BY <2>1, <2>2 DEF Fresh
<1> QED BY <1>2, <1>3, <1>4, <1>5, <1>6, <1>7, <1>8, <1>9 DEF IInv

LEMMA ElementOfSeq ==
    ASSUME NEW E, NEW q \in Seq(E), NEW i \in 1..Len(q)
    PROVE  q[i] \in E
  OBVIOUS

LEMMA EntryPids ==
    ASSUME NEW q \in Seq(Entry)
    PROVE  \A i \in DOMAIN q : q[i] \in Entry /\ q[i].pid \in Pids /\ q[i].pid \in Nat
                              /\ q[i].name \in Names
<1>1. \A i \in DOMAIN q : q[i] \in Entry
  OBVIOUS
<1>2. \A e \in Entry : e.pid \in Pids /\ e.name \in Names
  BY DEF Entry
<1>3. Pids \subseteq Nat
  BY BoundsAssumption DEF Pids
<1> QED BY <1>1, <1>2, <1>3

(* The configuration is read from an empty list.                             *)
LEMMA BootBeginsStep == ASSUME IInv, BootBegins PROVE IInv'
<1>1. UNCHANGED <<running, child, childName, server>> /\ mutex = Nobody /\ mutex' = Main
      /\ configured' = <<>> /\ th[Main].op = "boot" /\ th[Main].at = "lock" /\ running = <<>>
  BY DEF BootBegins, IInv, Boot
<1>2. th[Main] \in Task /\ Main \in Threads
  BY Alone DEF IInv, Types
<1>3. [th[Main] EXCEPT !.at = "loop"] \in Task
  BY <1>2 DEF Task
<1>4. th' = [th EXCEPT ![Main] = [th[Main] EXCEPT !.at = "loop"]]
  BY DEF BootBegins, IInv, Types
<1>5. th'[Main].op = "boot" /\ th'[Main].at = "loop" /\ (\A u \in Threads \ {Main} : th'[u] = th[u])
      /\ \A u \in Workers : th'[u] = th[u]
  BY <1>1, <1>2, <1>4, Alone DEF IInv, Types, Task
<1>6. Types'
  <2>1. <<>> \in Seq([name : Names, local : BOOLEAN])
    OBVIOUS
  <2> QED BY <1>1, <1>3, <1>4, <2>1 DEF IInv, Types
<1>7. Roles'
  BY <1>1, <1>2, <1>5, Alone DEF IInv, Roles, InStop, MainOps
<1>8. Server' /\ Mutex'
  BY <1>1, <1>5, Alone DEF IInv, Server, Mutex
<1>9. Boot'
  <2>1. Slots \in Seq([name : Names, local : BOOLEAN])
    BY SlotsAssumption
  <2>2. Len(<<>>) = 0 /\ 0 <= Len(Slots) /\ DOMAIN <<>> = {}
    BY <2>1
  <2> QED BY <1>1, <1>5, <2>2 DEF Boot
<1>10. Numbered' /\ Launched' = Launched
  BY <1>1 DEF IInv, Numbered, Launched, Born
<1>11. Entries'
  BY <1>1 DEF IInv, Entries, Born
<1>12. Stops'
  BY <1>1, <1>5, Alone DEF IInv, Stops, StopOK, InStop
<1>13. Fresh'
  BY <1>1, <1>5, <1>10 DEF IInv, Fresh
<1> QED BY <1>6, <1>7, <1>8, <1>9, <1>10, <1>11, <1>12, <1>13 DEF IInv

LEMMA BootSlotStep == ASSUME IInv, BootSlot PROVE IInv'
<1> DEFINE L == Len(configured)
           s == Slots[L + 1]
<1>1. UNCHANGED <<mutex, server, th>> /\ configured' = Append(configured, s) /\ L < Len(Slots)
      /\ th[Main].op = "boot" /\ th[Main].at = "loop" /\ mutex = Main
  BY Alone DEF BootSlot, Booting, NextSlot, IInv, Mutex, InStop
<1>2. Slots \in Seq([name : Names, local : BOOLEAN]) /\ Len(Slots) \in Nat /\ L \in Nat
      /\ L + 1 \in 1..Len(Slots) /\ DOMAIN Slots = 1..Len(Slots)
  BY <1>1, SlotsAssumption DEF IInv, Types
<1>3. s \in [name : Names, local : BOOLEAN]
  BY <1>2, ElementOfSeq
<1> HIDE DEF s
<1>4. configured' \in Seq([name : Names, local : BOOLEAN]) /\ Len(configured') = L + 1
  BY <1>1, <1>3 DEF IInv, Types
<1>5. \A j \in DOMAIN running : \E i \in 1..L : Slots[i].local /\ Slots[i].name = running[j].name
  BY <1>1 DEF IInv, Boot
<1>6. \A u \in Threads : th[u].at \in InStop => FALSE
  BY <1>1, Alone DEF InStop
<1>7. Roles' /\ Server' /\ Mutex' /\ Stops'
  BY <1>1, <1>6 DEF IInv, Roles, Server, Mutex, Stops, StopOK
<1>8. CASE s.local /\ launch(s.name, running)
  <2>1. Ready(s.name, running)
    <3>1. \A i \in DOMAIN running : running[i].name # s.name
      BY <1>2, <1>5, <1>8 DEF IInv, DistinctNames, s
    <3> QED BY <3>1 DEF IInv, Types, Entries, Ready
  <2>2. s.name \in Names
    BY <1>3
  <2>3. child' \in [Pids -> States] /\ childName' \in [Pids -> Names \cup {NoName}]
        /\ running' \in Seq(Entry) /\ Launched' = Launched + 1 /\ Launched \in Nat
        /\ Numbered' /\ Entries'
        /\ \A i \in DOMAIN running' : \/ i \in DOMAIN running /\ running'[i] = running[i]
                                      \/ running'[i] = [name |-> s.name, pid |-> Launched + 1]
    BY <1>8, <2>1, <2>2, LaunchFacts
  <2>4. Types'
    BY <1>1, <1>4, <2>3 DEF IInv, Types
  <2>5. Boot'
    <3>1. L + 1 <= Len(Slots)
      BY <1>2
    <3>2. \A i \in 1..L : i \in 1..(L + 1)
      BY <1>2
    <3>3. L + 1 \in 1..(L + 1) /\ Slots[L + 1].local
      BY <1>2, <1>8 DEF s
    <3>4. \A j \in DOMAIN running' : \E i \in 1..(L + 1) :
             Slots[i].local /\ Slots[i].name = running'[j].name
      BY <1>5, <2>3, <3>2, <3>3 DEF s
    <3> QED BY <1>1, <1>4, <3>1, <3>4 DEF Boot
  <2>6. Fresh'
    <3> SUFFICES ASSUME NEW t \in Workers
                 PROVE  /\ th'[t].mark <= Launched'
                        /\ th'[t].op = "restart" /\ th'[t].at = "start" =>
                             \A i \in DOMAIN running' :
                                running'[i].name = th'[t].name => running'[i].pid > th'[t].mark
      BY DEF Fresh
    <3>1. th'[t] = th[t] /\ th[t].mark \in Nat /\ th[t].mark <= Launched
      BY <1>1, Alone DEF IInv, Fresh, Types, Task
    <3>2. th[t].mark <= Launched + 1 /\ Launched + 1 > th[t].mark
      BY <2>3, <3>1
    <3> QED BY <2>3, <3>1, <3>2 DEF IInv, Fresh
  <2> QED BY <1>7, <2>3, <2>4, <2>5, <2>6 DEF IInv
<1>9. CASE ~s.local /\ UNCHANGED <<running, child, childName>>
  <2>1. Types'
    BY <1>1, <1>4, <1>9 DEF IInv, Types
  <2>2. Boot'
    <3>1. L + 1 <= Len(Slots)
      BY <1>2
    <3>2. \A i \in 1..L : i \in 1..(L + 1)
      BY <1>2
    <3>3. \A j \in DOMAIN running : \E i \in 1..(L + 1) :
             Slots[i].local /\ Slots[i].name = running[j].name
      BY <1>5, <3>2
    <3> QED BY <1>1, <1>4, <1>9, <3>1, <3>3 DEF Boot
  <2>3. Numbered' /\ Launched' = Launched /\ Entries'
    BY <1>9 DEF IInv, Numbered, Launched, Born, Entries
  <2>4. Fresh'
    BY <1>1, <1>9, <2>3 DEF IInv, Fresh
  <2> QED BY <1>7, <2>1, <2>2, <2>3, <2>4 DEF IInv
<1> QED BY <1>8, <1>9 DEF BootSlot, NextSlot, s

(* The entries, last one first, are a complete plan for a stop of all.       *)
LEMMA StopAllPlan ==
    ASSUME IInv, running' = running, th'[Main].todo = StopOrder(running),
           th'[Main].op \in {"rollback", "stopAll", "destroy"}, th'[Main].at = "next"
    PROVE  /\ Covered(Main)' /\ th'[Main].todo \in Seq(Entry)
           /\ \A i, j \in DOMAIN th'[Main].todo : i < j => th'[Main].todo[j].pid < th'[Main].todo[i].pid
<1>1. running \in Seq(Entry) /\ DOMAIN running = 1..Len(running) /\ Len(running) \in Nat
  BY DEF IInv, Types
<1>2. Covered(Main)'
  <2>1. \A j \in DOMAIN running : \E k \in DOMAIN StopOrder(running) : StopOrder(running)[k] = running[j]
    BY <1>1, ReverseFacts
  <2>2. \A j \in DOMAIN running' : \E k \in DOMAIN th'[Main].todo : th'[Main].todo[k] = running'[j]
    BY <2>1
  <2> QED BY <2>2 DEF Covered
<1>3. ASSUME NEW i \in DOMAIN StopOrder(running), NEW j \in DOMAIN StopOrder(running), i < j
      PROVE  StopOrder(running)[j].pid < StopOrder(running)[i].pid
  <2> DEFINE a == (Len(running) - i) + 1
             b == (Len(running) - j) + 1
  <2>1. i \in 1..Len(running) /\ j \in 1..Len(running)
        /\ a \in DOMAIN running /\ b \in DOMAIN running
        /\ StopOrder(running)[i] = running[a] /\ StopOrder(running)[j] = running[b]
    BY <1>1, ReverseFacts
  <2>2. b < a
    BY <1>1, <1>3, <2>1
  <2> QED BY <2>1, <2>2 DEF IInv, Entries
<1> QED BY <1>1, <1>2, <1>3, ReverseFacts

LEMMA BootFailsStep == ASSUME IInv, BootFails PROVE IInv'
<1>1. UNCHANGED <<running, mutex, child, childName, server>> /\ mutex = Main /\ Main \in Threads
      /\ th[Main].op = "boot" /\ th[Main].at = "loop" /\ Len(configured) < Len(Slots)
      /\ running \in Seq(Entry)
  BY Alone DEF BootFails, Booting, IInv, Mutex, InStop, Types
<1>2. configured' = configured \/ configured' = Append(configured, NextSlot)
  BY DEF BootFails
<1>3. configured' \in Seq([name : Names, local : BOOLEAN])
  <2>1. Len(configured) + 1 \in 1..Len(Slots)
    BY <1>1, SlotsAssumption DEF IInv, Types
  <2>2. NextSlot \in [name : Names, local : BOOLEAN]
    BY <2>1, SlotsAssumption, ElementOfSeq DEF NextSlot
  <2> DEFINE R == [name : Names, local : BOOLEAN]
  <2> HIDE DEF R
  <2>3. configured \in Seq(R) /\ NextSlot \in R
    BY <2>2 DEF IInv, Types, R
  <2>4. Append(configured, NextSlot) \in Seq(R)
    BY <2>3
  <2> QED BY <1>2, <2>3, <2>4 DEF R
<1>4. th[Main] \in Task /\ StopOrder(running) \in Seq(Entry)
  BY <1>1, ReverseFacts DEF IInv, Types
<1>5. th' = [th EXCEPT ![Main] = [th[Main] EXCEPT !.op = "rollback", !.at = "next",
                                                  !.todo = StopOrder(running)]]
  BY DEF BootFails, IInv, Types
<1>6. [th[Main] EXCEPT !.op = "rollback", !.at = "next", !.todo = StopOrder(running)] \in Task
  BY <1>4 DEF Task, InStop, MainOps
<1>7. th'[Main].op = "rollback" /\ th'[Main].at = "next" /\ th'[Main].todo = StopOrder(running)
      /\ (\A u \in Threads \ {Main} : th'[u] = th[u]) /\ \A u \in Workers : th'[u] = th[u]
  BY <1>1, <1>4, <1>5, Alone DEF IInv, Types, Task
<1>8. Types'
  BY <1>1, <1>3, <1>5, <1>6 DEF IInv, Types
<1>9. Roles'
  BY <1>1, <1>7, Alone DEF IInv, Roles, InStop, MainOps
<1>10. Server' /\ Mutex'
  BY <1>1, <1>7, Alone DEF IInv, Server, Mutex
<1>11. Boot'
  BY <1>7 DEF Boot
<1>12. Numbered' /\ Launched' = Launched /\ Entries'
  BY <1>1 DEF IInv, Numbered, Launched, Born, Entries
<1>13. Stops'
  <2>1. Covered(Main)' /\ \A i, j \in DOMAIN th'[Main].todo :
                             i < j => th'[Main].todo[j].pid < th'[Main].todo[i].pid
    BY <1>1, <1>7, StopAllPlan
  <2>2. \A u \in Threads \ {Main} : th'[u].at \notin InStop
    BY <1>1, <1>7, Alone
  <2> QED BY <1>7, <2>1, <2>2 DEF Stops, StopOK
<1>14. Fresh'
  BY <1>1, <1>7, <1>12 DEF IInv, Fresh
<1> QED BY <1>8, <1>9, <1>10, <1>11, <1>12, <1>13, <1>14 DEF IInv

LEMMA BootEndsStep == ASSUME IInv, BootEnds PROVE IInv'
<1>1. UNCHANGED <<configured, running, child, childName>> /\ mutex = Main /\ Main \in Threads
      /\ mutex' = Nobody /\ server' = "up" /\ th[Main].op = "boot" /\ th[Main].at = "loop"
  BY Alone DEF BootEnds, Booting, IInv, Mutex, InStop
<1>2. th'[Main] = NoTask /\ (\A u \in Threads \ {Main} : th'[u] = th[u])
      /\ \A u \in Workers : th'[u] = th[u]
  BY <1>1, Alone DEF BootEnds, IInv, Types
<1>3. Types'
  BY <1>1, TaskFacts DEF BootEnds, IInv, Types
<1>4. Roles'
  BY <1>1, <1>2, TaskFacts DEF IInv, Roles, InStop, MainOps
<1>5. Server'
  BY <1>1, <1>2, TaskFacts DEF IInv, Server
<1>6. \A u \in Threads : th'[u].at \notin InStop \cup {"loop"}
  BY <1>1, <1>2, TaskFacts, Alone DEF InStop
<1>7. Mutex' /\ Stops'
  BY <1>6 DEF Mutex, Stops, StopOK
<1>8. Boot'
  BY <1>2, TaskFacts DEF Boot
<1>9. Numbered' /\ Launched' = Launched /\ Entries'
  BY <1>1 DEF IInv, Numbered, Launched, Born, Entries
<1>10. Fresh'
  BY <1>1, <1>2, <1>9 DEF IInv, Fresh
<1> QED BY <1>3, <1>4, <1>5, <1>7, <1>8, <1>9, <1>10 DEF IInv

LEMMA StopAllBeginsStep == ASSUME IInv, mainStops \/ destructorStops PROVE IInv'
<1>1. PICK op \in {"stopAll", "destroy"} :
         /\ UNCHANGED <<configured, running, child, childName>> /\ mutex = Nobody /\ mutex' = Main
         /\ server = (IF op = "stopAll" THEN "up" ELSE "joined")
         /\ server' = (IF op = "stopAll" THEN "stopping" ELSE "destroying")
         /\ th' = [th EXCEPT ![Main] = [NoTask EXCEPT !.op = op, !.at = "next",
                                                      !.todo = StopOrder(running)]]
  BY DEF mainStops, destructorStops, StopAllBegins
<1>2. Main \in Threads /\ running \in Seq(Entry) /\ StopOrder(running) \in Seq(Entry)
  BY Alone, ReverseFacts DEF IInv, Types
<1>3. [NoTask EXCEPT !.op = op, !.at = "next", !.todo = StopOrder(running)] \in Task
  BY <1>2, TaskFacts DEF Task, InStop, MainOps
<1>4. th'[Main].op = op /\ th'[Main].at = "next" /\ th'[Main].todo = StopOrder(running)
      /\ (\A u \in Threads \ {Main} : th'[u] = th[u]) /\ \A u \in Workers : th'[u] = th[u]
  BY <1>1, <1>2, TaskFacts, Alone DEF IInv, Types, Task
<1>5. Types'
  BY <1>1, <1>3 DEF IInv, Types
<1>6. Roles'
  BY <1>1, <1>4, Alone DEF IInv, Roles, InStop, MainOps
<1>7. Server' /\ Mutex'
  BY <1>1, <1>4, Alone DEF IInv, Server, Mutex
<1>8. Boot'
  BY <1>4 DEF Boot
<1>9. Numbered' /\ Launched' = Launched /\ Entries'
  BY <1>1 DEF IInv, Numbered, Launched, Born, Entries
<1>10. Stops'
  <2>1. Covered(Main)' /\ \A i, j \in DOMAIN th'[Main].todo :
                             i < j => th'[Main].todo[j].pid < th'[Main].todo[i].pid
    BY <1>1, <1>4, StopAllPlan
  <2>2. \A u \in Threads \ {Main} : th'[u].at \notin InStop
    BY <1>1, <1>4, Alone
  <2> QED BY <1>4, <2>1, <2>2 DEF Stops, StopOK
<1>11. Fresh'
  BY <1>1, <1>4, <1>9 DEF IInv, Fresh
<1> QED BY <1>5, <1>6, <1>7, <1>8, <1>9, <1>10, <1>11 DEF IInv

(* When a stop of all has worked through its list, no child is left that was *)
(* not killed.                                                               *)
LEMMA AllDealt ==
    ASSUME IInv, th[Main].op \in {"stopAll", "rollback", "destroy"}, th[Main].todo = <<>>
    PROVE  \A p \in Pids : child[p] \notin Unkilled
<1>1. Covered(Main) /\ \A j \in DOMAIN running : Concerns(Main, running[j])
  BY Alone DEF IInv, Stops, StopOK, Roles, Concerns
<1>2. \A j \in DOMAIN running : child[running[j].pid] \in Dealt
  BY <1>1 DEF Covered
<1> QED BY <1>2 DEF IInv, Entries, Dealt, Unkilled

LEMMA StopAllEndsStep == ASSUME IInv, StopAllEnds PROVE IInv'
<1>1. UNCHANGED <<configured, child, childName>> /\ mutex = Main /\ Main \in Threads
      /\ mutex' = Nobody /\ running' = <<>> /\ th[Main].todo = <<>>
      /\ th[Main].op \in {"stopAll", "rollback", "destroy"}
      /\ server' = (IF th[Main].op = "destroy" THEN "destroyed" ELSE "ending")
  BY Alone DEF StopAllEnds, Leaves, IInv, Mutex, InStop
<1>2. th'[Main] = NoTask /\ (\A u \in Threads \ {Main} : th'[u] = th[u])
      /\ \A u \in Workers : th'[u] = th[u]
  BY <1>1, Alone DEF StopAllEnds, IInv, Types
<1>3. Types'
  <2>1. <<>> \in Seq(Entry)
    OBVIOUS
  <2> QED BY <1>1, <2>1, TaskFacts DEF StopAllEnds, IInv, Types
<1>4. Roles'
  BY <1>1, <1>2, TaskFacts DEF IInv, Roles, InStop, MainOps
<1>5. Server'
  BY <1>1, <1>2, TaskFacts DEF IInv, Server
<1>6. \A u \in Threads : th'[u].at \notin InStop \cup {"loop"}
  BY <1>1, <1>2, TaskFacts, Alone DEF InStop
<1>7. Mutex' /\ Stops'
  BY <1>6 DEF Mutex, Stops, StopOK
<1>8. Boot'
  BY <1>2, TaskFacts DEF Boot
<1>9. Numbered' /\ Launched' = Launched
  BY <1>1 DEF IInv, Numbered, Launched, Born
<1>10. Entries'
  BY <1>1, AllDealt DEF Entries
<1>11. Fresh'
  BY <1>1, <1>2, <1>9 DEF IInv, Fresh
<1> QED BY <1>3, <1>4, <1>5, <1>7, <1>8, <1>9, <1>10, <1>11 DEF IInv

(* A step within a stop: the thread stays in it, children only get closer to *)
(* their end.                                                                *)
LEMMA WithinStop ==
    ASSUME IInv, NEW t \in Threads, th[t].at \in InStop, NEW x \in Task,
           th' = [th EXCEPT ![t] = x], x.at \in InStop,
           x.op = th[t].op, x.name = th[t].name, x.mark = th[t].mark,
           UNCHANGED <<configured, running, mutex, childName, server>>,
           child' \in [Pids -> States], Born' = Born,
           \A p \in Pids : child'[p] \in Unkilled => child[p] \in Unkilled,
           Covered(t)',
           x.at \in {"wait", "kill"} => x.todo # <<>> /\ child'[Head(x.todo).pid] \notin {"alive", "unborn"},
           t = Main => \A i, j \in DOMAIN x.todo : i < j => x.todo[j].pid < x.todo[i].pid
    PROVE  IInv'
<1>1. th'[t] = x /\ \A u \in Threads \ {t} : th'[u] = th[u]
  BY DEF IInv, Types
<1>2. mutex = t
  BY DEF IInv, Mutex
<1>3. Types'
  BY DEF IInv, Types
<1>4. Roles'
  <2>1. th[t].op \notin {"none", "boot", "start"}
    BY DEF IInv, Roles, InStop
  <2> QED BY <1>1, <2>1, Alone DEF IInv, Roles, InStop
<1>5. Server'
  BY <1>1, Alone DEF IInv, Server, InStop
<1>6. Mutex'
  BY <1>1, <1>2, Alone DEF IInv, Mutex
<1>7. Boot'
  BY <1>1, <1>2, Alone DEF IInv, Boot, InStop
<1>8. Numbered' /\ Launched' = Launched
  BY DEF IInv, Numbered, Launched
<1>9. Entries'
  BY DEF IInv, Entries
<1>10. Stops'
  <2>1. \A u \in Threads \ {t} : th'[u].at \notin InStop
    BY <1>1, <1>2, Alone
  <2>2. Pid(t)' = Head(x.todo).pid
    BY <1>1 DEF Pid
  <2>3. th[t].op \in {"stop", "restart"} => findRunning(x.name)' # {}
    BY DEF IInv, Stops, StopOK, findRunning
  <2> QED BY <1>1, <2>1, <2>2, <2>3 DEF Stops, StopOK, findRunning
<1>11. Fresh'
  <2> SUFFICES ASSUME NEW u \in Workers
               PROVE  /\ th'[u].mark <= Launched'
                      /\ th'[u].op = "restart" /\ th'[u].at = "start" =>
                             \A i \in DOMAIN running' :
                                running'[i].name = th'[u].name => running'[i].pid > th'[u].mark
    BY DEF Fresh
  <2>0. u \in Threads
    BY Alone
  <2>1. CASE u = t
    BY <1>1, <1>8, <2>1 DEF IInv, Fresh, InStop
  <2>2. CASE u # t
    BY <1>1, <1>8, <2>0, <2>2 DEF IInv, Fresh
  <2> QED BY <2>1, <2>2
<1> QED BY <1>3, <1>4, <1>5, <1>6, <1>7, <1>8, <1>9, <1>10, <1>11 DEF IInv

LEMMA HeadFacts ==
    ASSUME NEW q \in Seq(Entry), q # <<>>
    PROVE  /\ Head(q) \in Entry /\ Head(q).pid \in Pids /\ Tail(q) \in Seq(Entry)
           /\ \A k \in DOMAIN q : q[k] = Head(q) \/ \E l \in DOMAIN Tail(q) : Tail(q)[l] = q[k]
           /\ (\A i, j \in DOMAIN q : i < j => q[j].pid < q[i].pid)
                 => \A i, j \in DOMAIN Tail(q) : i < j => Tail(q)[j].pid < Tail(q)[i].pid
           /\ (\A i, j \in DOMAIN q : i < j => q[j].pid < q[i].pid)
                 => \A k \in DOMAIN q : q[k].pid <= Head(q).pid
<1>1. Head(q) = q[1] /\ Head(q) \in Entry /\ Tail(q) \in Seq(Entry) /\ Len(q) \in Nat
      /\ 1 \in 1..Len(q) /\ DOMAIN q = 1..Len(q) /\ DOMAIN Tail(q) = 1..(Len(q) - 1)
  OBVIOUS
<1>2. \A i \in 1..(Len(q) - 1) : Tail(q)[i] = q[i + 1] /\ i + 1 \in 1..Len(q)
  BY <1>1
<1>3. Head(q).pid \in Pids
  BY <1>1 DEF Entry
<1>4. \A k \in DOMAIN q : q[k] = Head(q) \/ \E l \in DOMAIN Tail(q) : Tail(q)[l] = q[k]
  <2> SUFFICES ASSUME NEW k \in 1..Len(q), k # 1 PROVE \E l \in 1..(Len(q) - 1) : Tail(q)[l] = q[k]
    BY <1>1
  <2>1. k - 1 \in 1..(Len(q) - 1) /\ (k - 1) + 1 = k
    BY <1>1
  <2> QED BY <1>2, <2>1
<1>5. ASSUME \A i, j \in DOMAIN q : i < j => q[j].pid < q[i].pid
      PROVE  \A i, j \in DOMAIN Tail(q) : i < j => Tail(q)[j].pid < Tail(q)[i].pid
  <2> SUFFICES ASSUME NEW i \in 1..(Len(q) - 1), NEW j \in 1..(Len(q) - 1), i < j
               PROVE  Tail(q)[j].pid < Tail(q)[i].pid
    BY <1>1
  <2>1. i + 1 < j + 1
    BY <1>1
  <2> QED BY <1>1, <1>2, <1>5, <2>1
<1>6. ASSUME \A i, j \in DOMAIN q : i < j => q[j].pid < q[i].pid
      PROVE  \A k \in DOMAIN q : q[k].pid <= Head(q).pid
  <2> SUFFICES ASSUME NEW k \in 1..Len(q) PROVE q[k].pid <= q[1].pid
    BY <1>1
  <2>1. q[1].pid \in Nat /\ q[k].pid \in Nat
    BY <1>1, EntryPids
  <2>2. CASE k = 1
    BY <2>1, <2>2
  <2>3. CASE k # 1
    BY <1>1, <1>6, <2>1, <2>3
  <2> QED BY <2>2, <2>3
<1> QED BY <1>1, <1>3, <1>4, <1>5, <1>6

(* The head of the list is dealt with.                                       *)
LEMMA Advance ==
    ASSUME IInv, NEW t \in Threads, th[t].at \in InStop, th[t].todo # <<>>, StopNext(t),
           UNCHANGED <<configured, running, mutex, childName, server>>,
           child' \in [Pids -> States], Born' = Born,
           \A p \in Pids : child'[p] \in Unkilled => child[p] \in Unkilled,
           \A p \in Pids : child[p] \in Dealt => child'[p] \in Dealt,
           child'[Pid(t)] \in Dealt
    PROVE  IInv'
<1> DEFINE x == [th[t] EXCEPT !.at = "next", !.todo = Tail(th[t].todo)]
<1>1. th[t] \in Task /\ th[t].todo \in Seq(Entry)
  BY DEF IInv, Types, Task
<1>2. Tail(th[t].todo) \in Seq(Entry)
  BY <1>1, HeadFacts
<1>3. x \in Task /\ x.at = "next" /\ x.op = th[t].op /\ x.name = th[t].name /\ x.mark = th[t].mark
      /\ x.todo = Tail(th[t].todo)
  BY <1>1, <1>2 DEF Task, InStop
<1>4. th' = [th EXCEPT ![t] = x]
  BY DEF StopNext, IInv, Types
<1> HIDE DEF x
<1>5. th'[t] = x
  BY <1>4 DEF IInv, Types
<1>6. Covered(t)'
  <2> SUFFICES ASSUME NEW j \in DOMAIN running, Concerns(t, running[j]), child'[running[j].pid] \notin Dealt
               PROVE  \E k \in DOMAIN x.todo : x.todo[k] = running[j]
    BY <1>3, <1>5 DEF Covered, Concerns
  <2>0. running[j].pid \in Pids
    BY EntryPids DEF IInv, Types
  <2>1. child[running[j].pid] \notin Dealt
    BY <2>0
  <2>2. PICK k \in DOMAIN th[t].todo : th[t].todo[k] = running[j]
    BY <2>1 DEF IInv, Stops, StopOK, Covered
  <2>3. th[t].todo[k] # Head(th[t].todo)
    BY <2>2 DEF Pid
  <2> QED BY <1>1, <1>3, <2>2, <2>3, HeadFacts
<1>7. t = Main => \A i, j \in DOMAIN x.todo : i < j => x.todo[j].pid < x.todo[i].pid
  BY <1>1, <1>3, HeadFacts DEF IInv, Stops, StopOK
<1> QED BY <1>3, <1>4, <1>6, <1>7, WithinStop DEF InStop

(* The thread looks on at the head of its list.                              *)
LEMMA Linger ==
    ASSUME IInv, NEW t \in Threads, th[t].at \in InStop, th[t].todo # <<>>,
           NEW a \in {"wait", "kill"}, th' = [th EXCEPT ![t].at = a],
           UNCHANGED <<configured, running, mutex, childName, server>>,
           child' \in [Pids -> States], Born' = Born,
           \A p \in Pids : child'[p] \in Unkilled => child[p] \in Unkilled,
           \A p \in Pids : child[p] \in Dealt => child'[p] \in Dealt,
           child'[Pid(t)] \notin {"alive", "unborn"}
    PROVE  IInv'
<1> DEFINE x == [th[t] EXCEPT !.at = a]
<1>1. th[t] \in Task
  BY DEF IInv, Types
<1>2. x \in Task /\ x.at = a /\ x.op = th[t].op /\ x.name = th[t].name /\ x.mark = th[t].mark
      /\ x.todo = th[t].todo
  BY <1>1 DEF Task, InStop
<1>3. th' = [th EXCEPT ![t] = x]
  BY DEF IInv, Types
<1> HIDE DEF x
<1>4. th'[t] = x
  BY <1>3 DEF IInv, Types
<1>5. Covered(t)'
  <2> SUFFICES ASSUME NEW j \in DOMAIN running, Concerns(t, running[j]), child'[running[j].pid] \notin Dealt
               PROVE  \E k \in DOMAIN x.todo : x.todo[k] = running[j]
    BY <1>2, <1>4 DEF Covered, Concerns
  <2>0. running[j].pid \in Pids
    BY EntryPids DEF IInv, Types
  <2> QED BY <1>2, <2>0 DEF IInv, Stops, StopOK, Covered
<1>6. t = Main => \A i, j \in DOMAIN x.todo : i < j => x.todo[j].pid < x.todo[i].pid
  BY <1>2 DEF IInv, Stops, StopOK
<1>7. child'[Head(x.todo).pid] \notin {"alive", "unborn"}
  BY <1>2 DEF Pid
<1> QED BY <1>2, <1>3, <1>5, <1>6, <1>7, WithinStop DEF InStop

LEMMA StopAskStep == ASSUME IInv, NEW t \in Threads, StopAsk(t) PROVE IInv'
<1>1. UNCHANGED <<configured, running, mutex, childName, server>> /\ th[t].at = "next"
      /\ th[t].at \in InStop /\ th[t].todo # <<>>
  BY DEF StopAsk, Stopping, InStop
<1>2. child \in [Pids -> States] /\ Pid(t) \in Pids
  <2>1. th[t].todo \in Seq(Entry)
    BY DEF IInv, Types, Task
  <2> QED BY <1>1, <2>1, HeadFacts DEF Pid, IInv, Types
<1>3. CASE ~isRunning(Pid(t)) /\ StopNext(t) /\ UNCHANGED child
  <2>1. Born' = Born
    BY <1>3 DEF Born
  <2>2. child'[Pid(t)] \in Dealt
    BY <1>2, <1>3 DEF isRunning, Dealt, States
  <2> QED BY <1>1, <1>2, <1>3, <2>1, <2>2, Advance
<1>4. CASE /\ isRunning(Pid(t))
           /\ child' = [child EXCEPT ![Pid(t)] = IF @ = "alive" THEN "asked" ELSE @]
           /\ th' = [th EXCEPT ![t].at = "wait"]
  <2>1. child' \in [Pids -> States] /\ Born' = Born /\ child'[Pid(t)] \notin {"alive", "unborn"}
    BY <1>2, <1>4 DEF isRunning, States, Born
  <2>2. \A p \in Pids : /\ child'[p] \in Unkilled => child[p] \in Unkilled
                        /\ child[p] \in Dealt => child'[p] \in Dealt
    BY <1>2, <1>4 DEF Unkilled, Dealt
  <2> QED BY <1>1, <1>4, <2>1, <2>2, Linger
<1> QED BY <1>3, <1>4 DEF StopAsk

LEMMA StopWaitedStep == ASSUME IInv, NEW t \in Threads, StopWaited(t) PROVE IInv'
<1>1. UNCHANGED <<configured, running, mutex, child, childName, server>> /\ th[t].at = "wait"
      /\ th[t].at \in InStop /\ th[t].todo # <<>>
  BY DEF StopWaited, Stopping, InStop
<1>2. child \in [Pids -> States] /\ Pid(t) \in Pids /\ Born' = Born
  <2>1. th[t].todo \in Seq(Entry)
    BY DEF IInv, Types, Task
  <2> QED BY <1>1, <2>1, HeadFacts DEF Pid, IInv, Types, Born
<1>3. child[Pid(t)] \notin {"alive", "unborn"}
  BY <1>1 DEF IInv, Stops, StopOK
<1>4. CASE ~isRunning(Pid(t)) /\ StopNext(t)
  <2>1. child'[Pid(t)] \in Dealt
    BY <1>1, <1>2, <1>4 DEF isRunning, Dealt, States
  <2> QED BY <1>1, <1>2, <1>4, <2>1, Advance
<1>5. CASE th' = [th EXCEPT ![t].at = "kill"]
  BY <1>1, <1>2, <1>3, <1>5, Linger
<1> QED BY <1>4, <1>5 DEF StopWaited

LEMMA StopKillStep == ASSUME IInv, NEW t \in Threads, StopKill(t) PROVE IInv'
<1>1. UNCHANGED <<configured, running, mutex, childName, server>> /\ th[t].at = "kill"
      /\ th[t].at \in InStop /\ th[t].todo # <<>> /\ StopNext(t)
      /\ child' = [child EXCEPT ![Pid(t)] = IF @ = "gone" THEN @ ELSE "killed"]
  BY DEF StopKill, Stopping, InStop
<1>2. child \in [Pids -> States] /\ Pid(t) \in Pids
  <2>1. th[t].todo \in Seq(Entry)
    BY DEF IInv, Types, Task
  <2> QED BY <1>1, <2>1, HeadFacts DEF Pid, IInv, Types
<1>3. child[Pid(t)] \notin {"alive", "unborn"}
  BY <1>1 DEF IInv, Stops, StopOK
<1>4. child' \in [Pids -> States] /\ Born' = Born /\ child'[Pid(t)] \in Dealt
  BY <1>1, <1>2, <1>3 DEF States, Born, Dealt
<1>5. \A p \in Pids : /\ child'[p] \in Unkilled => child[p] \in Unkilled
                      /\ child[p] \in Dealt => child'[p] \in Dealt
  BY <1>1, <1>2, <1>3 DEF Unkilled, Dealt
<1> QED BY <1>1, <1>4, <1>5, Advance

LEMMA ChildEndsStep == ASSUME IInv, NEW p \in Pids, ChildEnds(p) PROVE IInv'
<1>1. UNCHANGED <<configured, running, mutex, childName, server, th>> /\ isRunning(p)
      /\ child' = [child EXCEPT ![p] = "gone"] /\ child \in [Pids -> States]
  BY DEF ChildEnds, IInv, Types
<1>2. child' \in [Pids -> States] /\ Born' = Born
  BY <1>1 DEF States, Born, isRunning
<1>3. \A q \in Pids : /\ child'[q] \in Unkilled => child[q] \in Unkilled
                      /\ child[q] \in Dealt => child'[q] \in Dealt
                      /\ child[q] \notin {"alive", "unborn"} => child'[q] \notin {"alive", "unborn"}
  BY <1>1 DEF Unkilled, Dealt
<1>4. Types' /\ Roles' /\ Server' /\ Mutex' /\ Boot'
  BY <1>1, <1>2 DEF IInv, Types, Roles, Server, Mutex, Boot
<1>5. Numbered' /\ Launched' = Launched
  BY <1>2 DEF IInv, Numbered, Launched
<1>6. Entries'
  BY <1>1, <1>2, <1>3 DEF IInv, Entries
<1>7. Stops'
  <2> SUFFICES ASSUME NEW t \in Threads, th[t].at \in InStop PROVE StopOK(t)'
    BY <1>1 DEF Stops
  <2>1. Covered(t)'
    <3>1. \A j \in DOMAIN running : running[j].pid \in Pids
      BY EntryPids DEF IInv, Types
    <3> QED BY <1>1, <1>3, <3>1 DEF IInv, Stops, StopOK, Covered, Concerns
  <2>2. ASSUME th[t].at \in {"wait", "kill"}
        PROVE  th[t].todo # <<>> /\ child'[Pid(t)] \notin {"alive", "unborn"}
    <3>1. th[t].todo # <<>> /\ child[Pid(t)] \notin {"alive", "unborn"}
      BY <2>2 DEF IInv, Stops, StopOK
    <3>2. th[t].todo \in Seq(Entry)
      BY DEF IInv, Types, Task
    <3>3. Pid(t) \in Pids
      BY <3>1, <3>2, HeadFacts DEF Pid
    <3> QED BY <1>3, <3>1, <3>3
  <2>3. StopOK(t)
    BY DEF IInv, Stops
  <2> QED BY <1>1, <2>1, <2>2, <2>3 DEF StopOK, Pid, findRunning
<1>8. Fresh'
  BY <1>1, <1>5 DEF IInv, Fresh
<1> QED BY <1>4, <1>5, <1>6, <1>7, <1>8 DEF IInv

LEMMA OspStopsStep == ASSUME IInv, OspStops PROVE IInv'
<1>1. UNCHANGED <<configured, running, mutex, child, childName, th>> /\ server = "ending"
      /\ server' = "joined" /\ \A t \in Workers : th[t].at = "idle"
  BY DEF OspStops
<1>2. Types' /\ Roles' /\ Mutex' /\ Boot'
  BY <1>1 DEF IInv, Types, Roles, Mutex, Boot
<1>3. Server'
  BY <1>1 DEF IInv, Server
<1>4. Stops'
  BY <1>1 DEF IInv, Stops, StopOK, Covered, Concerns, Pid, findRunning
<1>5. Numbered' /\ Launched' = Launched /\ Entries'
  BY <1>1 DEF IInv, Numbered, Launched, Born, Entries
<1>6. Fresh'
  BY <1>1, <1>5 DEF IInv, Fresh
<1> QED BY <1>2, <1>3, <1>4, <1>5, <1>6 DEF IInv

(* start(), stop() and restart() are called by workers.                      *)
LEMMA WorkerFacts ==
    ASSUME IInv, NEW t \in Threads, th[t].at \in {"start", "stop"}
    PROVE  t \in Workers /\ th[t].name \in Names /\ th[t].op \in {"start", "stop", "restart"}
           /\ server \notin {"joined", "destroying", "destroyed", "aborted"}
  BY Alone DEF IInv, Roles, MainOps, WorkerOps, InStop, Server, Threads

(* A thread that is done with its task, whose entries are unchanged.         *)
LEMMA Retires ==
    ASSUME IInv, NEW t \in Threads, th' = [th EXCEPT ![t] = NoTask],
           UNCHANGED <<configured, running, child, childName>>,
           mutex \in {t, Nobody}, mutex' = Nobody,
           Server'
    PROVE  IInv'
<1>1. th'[t] = NoTask /\ \A u \in Threads \ {t} : th'[u] = th[u]
  BY DEF IInv, Types
<1>2. Types'
  BY TaskFacts DEF IInv, Types
<1>3. Roles'
  BY <1>1, TaskFacts, Alone DEF IInv, Roles, InStop, MainOps, WorkerOps
<1>4. \A u \in Threads : th'[u].at \notin InStop \cup {"loop"}
  BY <1>1, TaskFacts, Alone DEF InStop
<1>5. Mutex' /\ Stops'
  BY <1>4 DEF Mutex, Stops, StopOK
<1>6. Boot'
  BY <1>1, <1>4, Alone, TaskFacts DEF IInv, Boot
<1>7. Numbered' /\ Launched' = Launched /\ Entries'
  BY DEF IInv, Numbered, Launched, Born, Entries
<1>8. Fresh'
  <2>1. 0 <= Launched
    BY BoundsAssumption DEF IInv, Numbered
  <2> QED BY <1>1, <1>7, <2>1, Alone, TaskFacts DEF IInv, Fresh
<1> QED BY <1>2, <1>3, <1>5, <1>6, <1>7, <1>8 DEF IInv

LEMMA StopThrowsStep == ASSUME IInv, NEW t \in Threads, StopThrows(t) PROVE IInv'
<1>1. UNCHANGED <<configured, running, child, childName>> /\ th[t].at = "kill" /\ mutex = t
      /\ mutex' = Nobody /\ th' = [th EXCEPT ![t] = NoTask]
      /\ server' = IF t = Main THEN Leaves(th[t].op, TRUE) ELSE server
  BY DEF StopThrows, Stopping, IInv, Mutex, InStop
<1>2. th'[t] = NoTask /\ \A u \in Threads \ {t} : th'[u] = th[u]
  BY <1>1 DEF IInv, Types
<1>3. Server'
  <2>1. CASE t = Main
    <3>1. th[Main].op \in {"rollback", "stopAll", "destroy"}
      BY <1>1, <2>1 DEF IInv, Roles, MainOps, InStop
    <3>2. server' = IF th[Main].op = "destroy" THEN "aborted" ELSE "ending"
      BY <1>1, <2>1 DEF Leaves
    <3> QED BY <1>2, <2>1, <3>1, <3>2, TaskFacts, Alone DEF IInv, Server
  <2>2. CASE t # Main
    BY <1>1, <1>2, <2>2, TaskFacts, Alone DEF IInv, Server
  <2> QED BY <2>1, <2>2
<1> QED BY <1>1, <1>3, Retires

LEMMA BeginStep ==
    ASSUME IInv, NEW t \in Workers, NEW op \in {"start", "stop", "restart"}, NEW n \in Names,
           Begin(t, op, n)
    PROVE  IInv'
<1> DEFINE x == [op |-> op, at |-> IF op = "start" THEN "start" ELSE "stop",
                 name |-> n, todo |-> <<>>, mark |-> Launched]
<1>1. UNCHANGED <<configured, running, mutex, child, childName, server>>
      /\ server \in {"booting", "up", "stopping", "ending"}
      /\ th' = [th EXCEPT ![t] = x] /\ th[t].at = "idle" /\ t \in Threads
  BY Alone DEF Begin, Launched
<1>2. Launched \in Nat /\ <<>> \in Seq(Entry)
  BY BoundsAssumption DEF IInv, Numbered
<1>3. x \in Task /\ x.op = op /\ x.at \in {"start", "stop"} /\ x.name = n /\ x.mark = Launched
      /\ (op = "start" <=> x.at = "start")
  BY <1>2 DEF Task, WorkerOps
<1> HIDE DEF x
<1>4. th'[t] = x /\ \A u \in Threads \ {t} : th'[u] = th[u]
  BY <1>1 DEF IInv, Types
<1>5. Types'
  BY <1>1, <1>3 DEF IInv, Types
<1>6. Roles'
  BY <1>1, <1>3, <1>4, Alone DEF IInv, Roles, WorkerOps, InStop
<1>7. Server' /\ Mutex'
  BY <1>1, <1>3, <1>4, Alone DEF IInv, Server, Mutex, InStop
<1>8. Boot'
  BY <1>1, <1>4, Alone DEF IInv, Boot
<1>9. Numbered' /\ Launched' = Launched /\ Entries'
  BY <1>1 DEF IInv, Numbered, Launched, Born, Entries
<1>10. Stops'
  <2> SUFFICES ASSUME NEW u \in Threads, th'[u].at \in InStop PROVE StopOK(u)'
    BY DEF Stops
  <2>1. u # t /\ th'[u] = th[u]
    BY <1>3, <1>4 DEF InStop
  <2>2. StopOK(u)
    BY <2>1 DEF IInv, Stops
  <2> QED BY <1>1, <2>1, <2>2 DEF StopOK, Covered, Concerns, Pid, findRunning
<1>11. Fresh'
  <2>1. Launched <= Launched
    BY <1>2
  <2>2. \A u \in Workers : u # t => th'[u] = th[u]
    BY <1>4, Alone
  <2> QED BY <1>1, <1>3, <1>4, <1>9, <2>1, <2>2 DEF IInv, Fresh
<1> QED BY <1>5, <1>6, <1>7, <1>8, <1>9, <1>10, <1>11 DEF IInv

LEMMA StopBeginsStep == ASSUME IInv, NEW t \in Threads, StopBegins(t) PROVE IInv'
<1>1. UNCHANGED <<configured, running, child, childName, server>> /\ th[t].at = "stop"
      /\ mutex = Nobody
  BY DEF StopBegins
<1>2. t \in Workers /\ t # Main /\ th[t].name \in Names /\ th[t].op \in {"stop", "restart"}
      /\ server \notin {"joined", "destroying", "destroyed", "aborted"}
  BY <1>1, WorkerFacts, Alone DEF IInv, Roles
<1>3. th[t] \in Task /\ running \in Seq(Entry)
  BY DEF IInv, Types
<1>4. Numbered' /\ Launched' = Launched /\ Entries'
  BY <1>1 DEF IInv, Numbered, Launched, Born, Entries
<1> DEFINE n == th[t].name
<1>5. ASSUME NEW x \in Task, th' = [th EXCEPT ![t] = x], x.op = th[t].op, x.name = n,
             x.mark = th[t].mark, x.at \in {"next", "start"}, x.at = "next" => mutex' = t,
             x.at = "start" => x.op = "restart" /\ findRunning(n) = {} /\ mutex' = Nobody,
             x.at = "next" => findRunning(n) # {} /\ Covered(t)'
      PROVE  IInv'
  <2>1. th'[t] = x /\ \A u \in Threads \ {t} : th'[u] = th[u]
    BY <1>5 DEF IInv, Types
  <2>2. Types'
    BY <1>1, <1>5 DEF IInv, Types
  <2>3. Roles'
    BY <1>1, <1>2, <1>5, <2>1, Alone DEF IInv, Roles, InStop
  <2>4. Server'
    BY <1>1, <1>2, <1>5, <2>1, Alone DEF IInv, Server
  <2>5. Mutex'
    BY <1>1, <1>5, <2>1, Alone DEF Mutex, InStop
  <2>6. Boot'
    BY <1>1, <1>2, <2>1, Alone DEF IInv, Boot
  <2>7. Stops'
    <3>1. \A u \in Threads \ {t} : th'[u].at \notin InStop
      BY <1>1, <2>1, Alone
    <3>2. findRunning(th[t].name)' = findRunning(th[t].name) /\ th'[t].name = th[t].name
      BY <1>1, <1>5, <2>1 DEF findRunning
    <3>3. th'[t].at \in InStop => StopOK(t)'
      BY <1>1, <1>2, <1>5, <2>1, <3>2 DEF StopOK, InStop, findRunning
    <3> QED BY <3>1, <3>3 DEF Stops
  <2>8. Fresh'
    <3>1. \A u \in Workers : u # t => th'[u] = th[u]
      BY <2>1, Alone
    <3>2. x.at = "start" => \A i \in DOMAIN running : running[i].name # n
      BY <1>5 DEF findRunning
    <3> QED BY <1>1, <1>4, <1>5, <2>1, <3>1, <3>2 DEF IInv, Fresh
  <2> QED BY <1>4, <2>2, <2>3, <2>4, <2>5, <2>6, <2>7, <2>8 DEF IInv
<1>6. CASE /\ findRunning(n) # {} /\ mutex' = t
           /\ th' = [th EXCEPT ![t].at = "next", ![t].todo = <<running[FirstRunning(n)]>>]
  <2> DEFINE q == <<running[FirstRunning(n)]>>
             x == [th[t] EXCEPT !.at = "next", !.todo = q]
  <2>1. FirstRunning(n) \in DOMAIN running
        /\ \A j \in DOMAIN running : running[j].name = n => j = FirstRunning(n)
    BY <1>6, FirstIsOnly DEF IInv
  <2>2. running[FirstRunning(n)] \in Entry
    BY <1>3, <2>1
  <2>3. q \in Seq(Entry) /\ DOMAIN q = {1} /\ q[1] = running[FirstRunning(n)]
    BY <2>2
  <2>4. th' = [th EXCEPT ![t] = x]
    BY <1>6 DEF IInv, Types
  <2> HIDE DEF q
  <2>5. x \in Task /\ x.at = "next" /\ x.op = th[t].op /\ x.name = n /\ x.mark = th[t].mark
        /\ x.todo = q
    BY <1>3, <2>3 DEF Task, InStop
  <2> HIDE DEF x
  <2>6. Covered(t)'
    <3>1. th'[t] = x
      BY <2>4 DEF IInv, Types
    <3>2. \A j \in DOMAIN running : running[j].name = n => q[1] = running[j]
      BY <2>1, <2>3
    <3> QED BY <1>1, <1>2, <2>3, <2>5, <3>1, <3>2 DEF Covered, Concerns
  <2> QED BY <1>5, <1>6, <2>4, <2>5, <2>6
<1>7. CASE /\ findRunning(n) = {} /\ UNCHANGED mutex
           /\ th[t].op = "restart" /\ th' = [th EXCEPT ![t] = [th[t] EXCEPT !.at = "start"]]
  <2> DEFINE x == [th[t] EXCEPT !.at = "start"]
  <2>1. x \in Task /\ x.at = "start" /\ x.op = th[t].op /\ x.name = n /\ x.mark = th[t].mark
    BY <1>3 DEF Task
  <2> HIDE DEF x
  <2>2. th' = [th EXCEPT ![t] = x]
    BY <1>7 DEF x
  <2> QED BY <1>1, <1>5, <1>7, <2>1, <2>2
<1>8. CASE th' = [th EXCEPT ![t] = NoTask] /\ UNCHANGED mutex
  <2>1. Server'
    BY <1>1, <1>2, <1>8, TaskFacts, Alone DEF IInv, Server, Types
  <2> QED BY <1>1, <1>8, <2>1, Retires
<1> QED
  <2>1. \/ /\ findRunning(n) # {} /\ mutex' = t
           /\ th' = [th EXCEPT ![t].at = "next", ![t].todo = <<running[FirstRunning(n)]>>]
        \/ /\ findRunning(n) = {} /\ UNCHANGED mutex
           /\ th' = [th EXCEPT ![t] = IF th[t].op = "restart" /\ isConfigured(n)
                                         THEN [th[t] EXCEPT !.at = "start"] ELSE NoTask]
    BY DEF StopBegins, IInv, Types
  <2> QED BY <1>6, <1>7, <1>8, <2>1

LEMMA StopEndsStep == ASSUME IInv, NEW t \in Threads, StopEnds(t) PROVE IInv'
<1> DEFINE n == th[t].name
           x == IF th[t].op = "restart" THEN [th[t] EXCEPT !.at = "start"] ELSE NoTask
<1>1. UNCHANGED <<configured, child, childName, server>> /\ th[t].at = "next" /\ mutex = t
      /\ mutex' = Nobody /\ th[t].op \in {"stop", "restart"} /\ th[t].todo = <<>>
      /\ running' = RemoveAt(running, FirstRunning(n))
  BY DEF StopEnds, Without, IInv, Mutex, InStop
<1>2. th' = [th EXCEPT ![t] = x]
  BY DEF StopEnds, IInv, Types
<1>3. t \in Workers /\ t # Main /\ n \in Names
      /\ server \notin {"joined", "destroying", "destroyed", "aborted"}
  BY <1>1, Alone DEF IInv, Roles, Server, MainOps, Threads
<1>4. th[t] \in Task
  BY DEF IInv, Types
<1>5. x \in Task /\ x.at \in {"idle", "start"} /\ x.op \in {"none", "restart"}
      /\ (x.op = "none" <=> x.at = "idle") /\ (x.op = "restart" => x.name = n /\ x.mark = th[t].mark)
      /\ (x.mark = th[t].mark \/ x.mark = 0)
  BY <1>4, TaskFacts DEF Task
<1> HIDE DEF x
<1>6. th'[t] = x /\ (\A u \in Threads \ {t} : th'[u] = th[u]) /\ \A u \in Workers : u # t => th'[u] = th[u]
  BY <1>2, Alone DEF IInv, Types
<1>7. findRunning(n) # {} /\ Covered(t)
  BY <1>1 DEF IInv, Stops, StopOK, InStop
<1>8. /\ running' \in Seq(Entry)
      /\ \A i \in DOMAIN running' : running'[i].pid \in Born /\ running'[i].name # n
                                    /\ \E k \in DOMAIN running : running[k] = running'[i]
      /\ \A i, j \in DOMAIN running' : running'[i].name = running'[j].name => i = j
      /\ \A i, j \in DOMAIN running' : i < j => running'[i].pid < running'[j].pid
      /\ \A k \in DOMAIN running : running[k].name # n => \E i \in DOMAIN running' : running'[i] = running[k]
  BY <1>1, <1>7, WithoutFacts DEF IInv
<1>9. Types'
  BY <1>1, <1>2, <1>5, <1>8 DEF IInv, Types
<1>10. Roles'
  BY <1>3, <1>5, <1>6, Alone DEF IInv, Roles, WorkerOps, InStop
<1>11. Server'
  BY <1>1, <1>3, <1>5, <1>6, Alone DEF IInv, Server
<1>12. \A u \in Threads : th'[u].at \notin InStop \cup {"loop"}
  BY <1>1, <1>5, <1>6, Alone DEF InStop
<1>13. Mutex' /\ Stops'
  BY <1>12 DEF Mutex, Stops
<1>14. Boot'
  <2>1. th'[Main] = th[Main]
    BY <1>3, <1>6, Alone
  <2>2. th[Main].at # "lock"
    BY <1>7 DEF IInv, Boot, findRunning
  <2> QED BY <1>12, <2>1, <2>2, Alone DEF Boot
<1>15. Numbered' /\ Launched' = Launched /\ Born' = Born
  BY <1>1 DEF IInv, Numbered, Launched, Born
<1>16. Entries'
  <2>1. ASSUME NEW p \in Pids, child[p] \in Unkilled
        PROVE  \E i \in DOMAIN running' : running'[i].name = childName[p] /\ running'[i].pid = p
    <3>1. PICK k \in DOMAIN running : running[k].name = childName[p] /\ running[k].pid = p
      BY <2>1 DEF IInv, Entries
    <3>2. running[k].name # n
      <4>1. child[running[k].pid] \notin Dealt
        BY <2>1, <3>1 DEF Unkilled, Dealt
      <4> QED BY <1>1, <1>7, <4>1 DEF Covered, Concerns
    <3> QED BY <1>8, <3>1, <3>2
  <2> QED BY <1>1, <1>8, <1>15, <2>1 DEF Entries
<1>17. Fresh'
  <2>1. th[t].mark <= Launched /\ 0 <= Launched
    BY <1>3, BoundsAssumption DEF IInv, Fresh, Numbered
  <2> QED BY <1>5, <1>6, <1>8, <1>15, <2>1 DEF IInv, Fresh
<1> QED BY <1>9, <1>10, <1>11, <1>13, <1>14, <1>15, <1>16, <1>17 DEF IInv

(* The list startOne keeps has room for an entry under the name.             *)
LEMMA KeptReady ==
    ASSUME IInv, NEW n, ~Present(n)
    PROVE  LET kept == IF findRunning(n) = {} THEN running ELSE RemoveAt(running, FirstRunning(n))
           IN  /\ Ready(n, kept)
               /\ \A i \in DOMAIN kept : \E k \in DOMAIN running : running[k] = kept[i]
<1>1. CASE findRunning(n) = {}
  BY <1>1 DEF IInv, Types, Entries, Ready, findRunning
<1>2. CASE findRunning(n) # {}
  <2> DEFINE r == RemoveAt(running, FirstRunning(n))
  <2>1. /\ r \in Seq(Entry)
        /\ \A i \in DOMAIN r : r[i].pid \in Born /\ r[i].name # n
                               /\ \E k \in DOMAIN running : running[k] = r[i]
        /\ \A i, j \in DOMAIN r : r[i].name = r[j].name => i = j
        /\ \A i, j \in DOMAIN r : i < j => r[i].pid < r[j].pid
        /\ \A k \in DOMAIN running : running[k].name # n => \E i \in DOMAIN r : r[i] = running[k]
    BY <1>2, WithoutFacts DEF IInv
  <2> HIDE DEF r
  <2>2. \A j \in DOMAIN running : running[j].name = n => ~isRunning(running[j].pid)
    BY <1>2, FirstIsOnly DEF IInv, Present
  <2>3. ASSUME NEW p \in Pids, child[p] \in Unkilled
        PROVE  \E i \in DOMAIN r : r[i].name = childName[p] /\ r[i].pid = p
    <3>1. PICK k \in DOMAIN running : running[k].name = childName[p] /\ running[k].pid = p
      BY <2>3 DEF IInv, Entries
    <3>2. running[k].name # n
      BY <2>2, <2>3, <3>1 DEF isRunning, Unkilled
    <3> QED BY <2>1, <3>1, <3>2
  <2>4. Ready(n, r)
    BY <2>1, <2>3 DEF Ready
  <2> QED BY <1>2, <2>1, <2>4 DEF r
<1> QED BY <1>1, <1>2

LEMMA StartOneStep == ASSUME IInv, NEW t \in Threads, StartOne(t) PROVE IInv'
<1> DEFINE n == th[t].name
           kept == IF findRunning(n) = {} THEN running ELSE RemoveAt(running, FirstRunning(n))
<1>1. UNCHANGED <<configured, mutex, server>> /\ mutex = Nobody /\ th[t].at = "start"
      /\ th' = [th EXCEPT ![t] = NoTask]
  BY DEF StartOne
<1>2. t \in Workers /\ t # Main /\ n \in Names
      /\ server \notin {"joined", "destroying", "destroyed", "aborted"}
  BY <1>1, WorkerFacts, Alone
<1>3. th'[t] = NoTask /\ (\A u \in Threads \ {t} : th'[u] = th[u])
      /\ \A u \in Workers : u # t => th'[u] = th[u]
  BY <1>1, Alone DEF IInv, Types
<1>4. Server'
  BY <1>1, <1>2, <1>3, TaskFacts, Alone DEF IInv, Server
<1>5. CASE UNCHANGED <<running, child, childName>>
  BY <1>1, <1>4, <1>5, Retires
<1>6. CASE /\ isLocal(n) /\ ~Present(n)
           /\ \/ launch(n, kept)
              \/ running' = kept /\ UNCHANGED <<child, childName>>
  <2>1. Ready(n, kept) /\ \A i \in DOMAIN kept : \E k \in DOMAIN running : running[k] = kept[i]
    BY <1>6, KeptReady
  <2> HIDE DEF kept
  <2>2. /\ child' \in [Pids -> States] /\ childName' \in [Pids -> Names \cup {NoName}]
        /\ running' \in Seq(Entry) /\ Launched \in Nat
        /\ (Launched' = Launched \/ Launched' = Launched + 1)
        /\ \A i \in DOMAIN running' : \/ i \in DOMAIN kept /\ running'[i] = kept[i]
                                      \/ running'[i] = [name |-> n, pid |-> Launched + 1]
        /\ Numbered' /\ Entries'
    <3>1. CASE launch(n, kept)
      BY <1>2, <2>1, <3>1, LaunchFacts
    <3>2. CASE running' = kept /\ UNCHANGED <<child, childName>>
      <4>1. Launched' = Launched /\ Numbered' /\ Launched \in Nat /\ Born' = Born
        BY <3>2, BoundsAssumption DEF IInv, Numbered, Launched, Born
      <4>2. Entries'
        BY <2>1, <3>2, <4>1 DEF Ready, Entries
      <4> QED BY <2>1, <3>2, <4>1, <4>2 DEF Ready, IInv, Types
    <3> QED BY <1>6, <3>1, <3>2
  <2>3. Types'
    BY <1>1, <2>2, TaskFacts DEF IInv, Types
  <2>4. Roles'
    BY <1>2, <1>3, TaskFacts, Alone DEF IInv, Roles, WorkerOps, InStop
  <2>5. \A u \in Threads : th'[u].at \notin InStop \cup {"loop"}
    BY <1>1, <1>3, TaskFacts, Alone DEF InStop
  <2>6. Mutex' /\ Stops'
    BY <2>5 DEF Mutex, Stops
  <2>7. Boot'
    <3>1. th'[Main] = th[Main]
      BY <1>2, <1>3, Alone
    <3>2. th[Main].at # "lock"
      BY <1>6 DEF IInv, Boot, isLocal
    <3> QED BY <2>5, <3>1, <3>2, Alone DEF Boot
  <2>8. Fresh'
    <3> SUFFICES ASSUME NEW u \in Workers
                 PROVE  /\ th'[u].mark <= Launched'
                        /\ th'[u].op = "restart" /\ th'[u].at = "start" =>
                             \A i \in DOMAIN running' :
                                running'[i].name = th'[u].name => running'[i].pid > th'[u].mark
      BY DEF Fresh
    <3>1. CASE u = t
      BY <1>3, <2>2, <3>1, TaskFacts
    <3>2. CASE u # t
      <4>1. th'[u] = th[u] /\ th[u].mark \in Nat /\ th[u].mark <= Launched
        BY <1>3, <3>2, Alone DEF IInv, Fresh, Types, Task
      <4>2. th[u].mark <= Launched' /\ Launched + 1 > th[u].mark
        BY <2>2, <4>1
      <4>3. ASSUME th[u].op = "restart", th[u].at = "start", NEW i \in DOMAIN running',
                   running'[i].name = th[u].name
            PROVE  running'[i].pid > th[u].mark
        <5>1. CASE i \in DOMAIN kept /\ running'[i] = kept[i]
          BY <2>1, <4>3, <5>1 DEF IInv, Fresh
        <5>2. CASE running'[i] = [name |-> n, pid |-> Launched + 1]
          BY <4>2, <5>2
        <5> QED BY <2>2, <5>1, <5>2
      <4> QED BY <4>1, <4>2, <4>3
    <3> QED BY <3>1, <3>2
  <2> QED BY <1>4, <2>2, <2>3, <2>4, <2>6, <2>7, <2>8 DEF IInv
<1>7. \/ UNCHANGED <<running, child, childName>>
      \/ isLocal(n) /\ ~Present(n) /\ launch(n, kept)
      \/ isLocal(n) /\ ~Present(n) /\ running' = kept /\ UNCHANGED <<child, childName>>
  BY DEF StartOne
<1> QED BY <1>5, <1>6, <1>7
-----------------------------------------------------------------------------
LEMMA Stutter == ASSUME IInv, UNCHANGED vars PROVE IInv'
<1>1. UNCHANGED <<configured, running, mutex, child, childName, server, th>>
  BY DEF vars
<1>2. Types' /\ Roles' /\ Server' /\ Mutex' /\ Boot'
  BY <1>1 DEF IInv, Types, Roles, Server, Mutex, Boot
<1>3. Stops'
  BY <1>1 DEF IInv, Stops, StopOK, Covered, Concerns, Pid, findRunning
<1>4. Numbered' /\ Launched' = Launched /\ Entries'
  BY <1>1 DEF IInv, Numbered, Launched, Born, Entries
<1>5. Fresh'
  BY <1>1, <1>4 DEF IInv, Fresh
<1> QED BY <1>2, <1>3, <1>4, <1>5 DEF IInv

LEMMA NextStep == IInv /\ [Next]_vars => IInv'
<1> SUFFICES ASSUME IInv, [Next]_vars PROVE IInv'
  OBVIOUS
<1>1. CASE MainStep
  BY <1>1, BootBeginsStep, BootSlotStep, BootFailsStep, BootEndsStep, StopAllBeginsStep,
     StopAllEndsStep, OspStopsStep DEF MainStep
<1>2. CASE mainStops
  BY <1>2, StopAllBeginsStep
<1>3. CASE \E t \in Threads : Step(t)
  BY <1>3, StopAskStep, StopWaitedStep, StopKillStep, StopThrowsStep, StopBeginsStep,
     StopEndsStep, StartOneStep DEF Step
<1>4. CASE \E t \in Workers, op \in {"start", "stop", "restart"}, n \in Names : Begin(t, op, n)
  BY <1>4, BeginStep
<1>5. CASE \E p \in Pids : ChildEnds(p)
  BY <1>5, ChildEndsStep
<1>6. CASE Over \/ UNCHANGED vars
  BY <1>6, Stutter DEF Over
<1> QED BY <1>1, <1>2, <1>3, <1>4, <1>5, <1>6 DEF Next

\* With distinct names in the configuration, the invariant holds in every
\* reachable state of the manager.
THEOREM ManagerInvariance == DistinctNames /\ Spec => []IInv
  BY InitIInv, NextStep, PTL DEF Spec
-----------------------------------------------------------------------------
(* Every step of the manager is one of the supervisor or leaves it alone.    *)
LEMMA LaunchRefines ==
    ASSUME IInv, NEW n \in Names, NEW list, Ready(n, list), launch(n, list),
           server' = server, server # "destroyed"
    PROVE  S!Next
<1>1. Launched + 1 \in Pids /\ child[Launched + 1] = "unborn"
      /\ child' = [child EXCEPT ![Launched + 1] = "alive"]
      /\ childName' = [childName EXCEPT ![Launched + 1] = n]
      /\ \A q \in Pids : childName[q] = n => child[q] \notin Unkilled
  BY LaunchFacts
<1>2. S!Launch(n, Launched + 1)
  BY <1>1 DEF S!Launch, S!Unkilled, Unkilled
<1> QED BY <1>1, <1>2 DEF S!Next

\* The manager that has gone has no thread under way.
LEMMA ClosedIsIdle ==
    ASSUME IInv, NEW t \in Threads, th[t].at # "idle"
    PROVE  server # "destroyed"
<1>1. th[Main].op # "none" => server # "destroyed"
  BY DEF IInv, Roles, Server, MainOps
<1>2. CASE t = Main
  BY <1>1, <1>2 DEF IInv, Roles
<1>3. CASE t # Main
  BY <1>3 DEF IInv, Server, Threads
<1> QED BY <1>2, <1>3

LEMMA StepRefines == IInv /\ [Next]_vars => [S!Next]_(S!vars)
<1> SUFFICES ASSUME IInv, [Next]_vars PROVE S!Next \/ UNCHANGED <<childName, child, server>>
                                            \/ /\ UNCHANGED <<childName, child>>
                                               /\ server # "destroyed" /\ server' # "destroyed"
  BY DEF S!vars
<1>c. child \in [Pids -> States]
  BY DEF IInv, Types
<1>p. \A t \in Threads : th[t].todo # <<>> => Pid(t) \in Pids
  <2> SUFFICES ASSUME NEW t \in Threads, th[t].todo # <<>> PROVE Pid(t) \in Pids
    OBVIOUS
  <2>1. th[t].todo \in Seq(Entry)
    BY DEF IInv, Types, Task
  <2> QED BY <2>1, HeadFacts DEF Pid
<1>1. CASE BootSlot
  <2>1. th[Main].at = "loop" /\ UNCHANGED server /\ server # "destroyed" /\ Main \in Threads
    BY <1>1, ClosedIsIdle, Alone DEF BootSlot, Booting
  <2>2. CASE NextSlot.local /\ launch(NextSlot.name, running)
    <3>1. Slots \in Seq([name : Names, local : BOOLEAN]) /\ Len(Slots) \in Nat
          /\ Len(configured) \in Nat /\ Len(configured) + 1 \in 1..Len(Slots)
          /\ DOMAIN Slots = 1..Len(Slots)
      BY <1>1, SlotsAssumption DEF IInv, Types, BootSlot
    <3>2. NextSlot \in [name : Names, local : BOOLEAN]
      BY <3>1, ElementOfSeq DEF NextSlot
    <3>3. \A i \in DOMAIN running : running[i].name # NextSlot.name
      BY <2>1, <2>2, <3>1 DEF IInv, Boot, DistinctNames, NextSlot
    <3>4. Ready(NextSlot.name, running)
      BY <3>3 DEF IInv, Types, Entries, Ready
    <3>5. NextSlot.name \in Names
      BY <3>2
    <3> QED BY <2>1, <2>2, <3>4, <3>5, LaunchRefines
  <2>3. CASE UNCHANGED <<running, child, childName>>
    BY <2>1, <2>3
  <2> QED BY <1>1, <2>2, <2>3 DEF BootSlot
<1>2. CASE BootBegins \/ BootFails \/ OspStops \/ mainStops \/ destructorStops \/ BootEnds
  <2>1. UNCHANGED <<child, childName>>
    BY <1>2 DEF BootBegins, BootFails, OspStops, mainStops, destructorStops, BootEnds, StopAllBegins
  <2>2. server' = server \/ (server # "destroyed" /\ server' # "destroyed")
    <3>1. CASE BootEnds
      <4>1. server # "destroyed"
        BY <3>1, ClosedIsIdle, Alone DEF BootEnds, Booting
      <4> QED BY <3>1, <4>1 DEF BootEnds
    <3> QED BY <1>2, <3>1 DEF BootBegins, BootFails, OspStops, mainStops, destructorStops, StopAllBegins
  <2> QED BY <2>1, <2>2
<1>3. CASE StopAllEnds
  <2>1. UNCHANGED <<child, childName>> /\ \A p \in Pids : child[p] \notin Unkilled
    BY <1>3, AllDealt DEF StopAllEnds
  <2>2. server # "destroyed"
    BY <1>3, ClosedIsIdle, Alone DEF StopAllEnds
  <2>3. CASE server' = "destroyed"
    <3>1. S!Close
      BY <2>1, <2>2, <2>3 DEF S!Close, S!Unkilled, Unkilled
    <3> QED BY <3>1 DEF S!Next
  <2> QED BY <2>1, <2>2, <2>3
<1>4. ASSUME NEW t \in Threads, StopAsk(t)
      PROVE  S!Next \/ UNCHANGED <<childName, child, server>>
  <2>1. UNCHANGED <<childName, server>> /\ server # "destroyed" /\ Pid(t) \in Pids
    BY <1>4, <1>p, ClosedIsIdle DEF StopAsk, Stopping
  <2>2. CASE child[Pid(t)] = "alive" /\ child' = [child EXCEPT ![Pid(t)] = "asked"]
    <3>1. S!Ask(Pid(t))
      BY <2>1, <2>2 DEF S!Ask
    <3> QED BY <2>1, <3>1 DEF S!Next
  <2>3. CASE UNCHANGED child
    BY <2>1, <2>3
  <2> QED BY <1>4, <1>c, <2>1, <2>2, <2>3 DEF StopAsk, States
<1>5. ASSUME NEW t \in Threads, StopKill(t)
      PROVE  S!Next \/ UNCHANGED <<childName, child, server>>
  <2>1. UNCHANGED <<childName, server>> /\ server # "destroyed" /\ Pid(t) \in Pids
    BY <1>5, <1>p, ClosedIsIdle DEF StopKill, Stopping
  <2>2. child[Pid(t)] \notin {"alive", "unborn"}
    BY <1>5 DEF StopKill, Stopping, IInv, Stops, StopOK, InStop
  <2>3. CASE child[Pid(t)] = "asked"
    <3>1. S!Kill(Pid(t))
      BY <1>5, <2>1, <2>3 DEF S!Kill, StopKill
    <3> QED BY <2>1, <3>1 DEF S!Next
  <2>4. CASE child[Pid(t)] \in {"killed", "gone"}
    BY <1>5, <1>c, <2>1, <2>4 DEF StopKill
  <2> QED BY <1>c, <2>1, <2>2, <2>3, <2>4 DEF States
<1>6. ASSUME NEW t \in Threads, StopWaited(t) \/ StopBegins(t) \/ StopEnds(t)
      PROVE  UNCHANGED <<childName, child, server>>
  BY <1>6 DEF StopWaited, StopBegins, StopEnds
<1>7. ASSUME NEW t \in Threads, StopThrows(t)
      PROVE  /\ UNCHANGED <<childName, child>>
             /\ server # "destroyed" /\ server' # "destroyed"
  <2>1. server # "destroyed"
    BY <1>7, ClosedIsIdle DEF StopThrows, Stopping
  <2> QED BY <1>7, <2>1 DEF StopThrows, Leaves
<1>8. ASSUME NEW t \in Threads, StartOne(t)
      PROVE  S!Next \/ UNCHANGED <<childName, child, server>>
  <2> DEFINE n == th[t].name
             kept == IF findRunning(n) = {} THEN running ELSE RemoveAt(running, FirstRunning(n))
  <2>1. server' = server /\ server # "destroyed" /\ n \in Names
    BY <1>8, WorkerFacts DEF StartOne
  <2>2. \/ UNCHANGED <<child, childName>>
        \/ ~Present(n) /\ launch(n, kept)
    BY <1>8 DEF StartOne
  <2>3. CASE ~Present(n) /\ launch(n, kept)
    <3>1. Ready(n, kept)
      BY <2>3, KeptReady
    <3> HIDE DEF kept
    <3> QED BY <2>1, <2>3, <3>1, LaunchRefines
  <2> QED BY <2>1, <2>2, <2>3
<1>9. ASSUME NEW p \in Pids, ChildEnds(p) PROVE S!Next
  <2>1. S!Die(p)
    BY <1>9 DEF ChildEnds, isRunning, S!Die, S!Unkilled
  <2> QED BY <2>1 DEF S!Next
<1>10. CASE Over \/ UNCHANGED vars
  BY <1>10 DEF Over, vars
<1>11. CASE \E t \in Workers, op \in {"start", "stop", "restart"}, n \in Names : Begin(t, op, n)
  BY <1>11 DEF Begin
<1> QED BY <1>1, <1>2, <1>3, <1>4, <1>5, <1>6, <1>7, <1>8, <1>9, <1>10, <1>11 DEF Next, MainStep, Step

\* With distinct names in the configuration SubprocessManager implements
\* Supervisor, whatever the interleaving of boot, workers, shutdown, children.
THEOREM SupervisesHolds == DistinctNames /\ Spec => Supervises
<1>1. Init => S!Init
  BY DEF Init, S!Init
<1> QED BY <1>1, ManagerInvariance, StepRefines, PTL DEF Spec, Supervises, S!Spec

(* Only a stop asks a child to end.                                          *)
LEMMA OnlyStopAsks ==
    ASSUME IInv, Next, NEW p \in Pids, Asked(p)
    PROVE  \E t \in Threads : StopAsk(t) /\ Pid(t) = p
<1>c. child \in [Pids -> States] /\ child[p] = "alive" /\ child'[p] = "asked"
  BY DEF IInv, Types, Asked
<1>1. \A t \in Threads : ~StopKill(t) /\ ~StopWaited(t) /\ ~StopThrows(t) /\ ~StopBegins(t)
                         /\ ~StopEnds(t)
  <2>1. \A t \in Threads : ~StopKill(t)
    BY <1>c DEF StopKill
  <2> QED BY <1>c, <2>1 DEF StopWaited, StopThrows, StopBegins, StopEnds
<1>2. \A n, list : ~launch(n, list)
  BY <1>c DEF launch
<1>3. \A t \in Threads : ~StartOne(t)
  BY <1>c, <1>2 DEF StartOne
<1>4. ~BootSlot
  BY <1>c, <1>2 DEF BootSlot
<1>5. \A q \in Pids : ~ChildEnds(q)
  BY <1>c DEF ChildEnds
<1>6. ~MainStep /\ ~mainStops /\ ~Over
  BY <1>c, <1>4 DEF MainStep, BootBegins, BootFails, BootEnds, destructorStops, mainStops,
     StopAllBegins, StopAllEnds, OspStops, Over, vars
<1>7. \A t \in Workers, op \in {"start", "stop", "restart"}, n \in Names : ~Begin(t, op, n)
  BY <1>c DEF Begin
<1>8. PICK t \in Threads : StopAsk(t)
  BY <1>1, <1>3, <1>5, <1>6, <1>7 DEF Next, Step
<1>9. Pid(t) = p
  BY <1>8, <1>c DEF StopAsk
<1> QED BY <1>8, <1>9

\* The shutdown asks a child only when every younger one is dead or killed.
THEOREM YoungestFirstHolds == DistinctNames /\ Spec => YoungestFirst
<1>1. ASSUME IInv, [Next]_vars
      PROVE  [\A p, q \in Pids :
                server \in {"stopping", "destroying"} /\ Asked(p) /\ q > p => child[q] \in Dealt]_vars
  <2> SUFFICES ASSUME Next, NEW p \in Pids, NEW q \in Pids,
                      server \in {"stopping", "destroying"}, Asked(p), q > p,
                      child[q] \notin Dealt
               PROVE  FALSE
    BY <1>1
  <2>1. PICK t \in Threads : StopAsk(t) /\ Pid(t) = p
    BY <1>1, OnlyStopAsks
  <2>2. th[Main].op \in {"stopAll", "destroy"} /\ th[Main].at \in InStop /\ Main \in Threads
    BY <1>1, Alone DEF IInv, Server, Roles
  <2>3. t = Main
    BY <1>1, <2>1, <2>2 DEF IInv, Mutex, StopAsk, Stopping, InStop
  <2>4. StopOK(Main) /\ th[Main].todo \in Seq(Entry) /\ th[Main].todo # <<>>
    BY <1>1, <2>1, <2>2, <2>3 DEF IInv, Stops, Types, Task, StopAsk, Stopping
  <2>5. child[q] \in Unkilled
    BY <1>1 DEF IInv, Types, States, Dealt, Unkilled
  <2>6. PICK j \in DOMAIN running : running[j].pid = q
    BY <1>1, <2>5 DEF IInv, Entries
  <2>7. PICK k \in DOMAIN th[Main].todo : th[Main].todo[k] = running[j]
    BY <2>2, <2>4, <2>6 DEF StopOK, Covered, Concerns
  <2>8. th[Main].todo[k].pid <= Head(th[Main].todo).pid
    BY <2>4, HeadFacts DEF StopOK
  <2>9. q <= p
    BY <2>1, <2>3, <2>6, <2>7, <2>8 DEF Pid
  <2>10. p \in Nat /\ q \in Nat
    BY BoundsAssumption DEF Pids
  <2> QED BY <2>9, <2>10
<1> QED BY <1>1, ManagerInvariance, PTL DEF Spec, YoungestFirst

\* The child a successful restart leaves under its name was launched after the
\* restart began.
THEOREM RestartIsFreshHolds == DistinctNames /\ Spec => RestartIsFresh
<1>1. ASSUME IInv, [Next]_vars
      PROVE  [\A t \in Workers : th[t].op = "restart" /\ StartOne(t) =>
                \A i \in DOMAIN running' :
                   running'[i].name = th[t].name => running'[i].pid > th[t].mark]_vars
  <2> SUFFICES ASSUME NEW t \in Workers, th[t].op = "restart", StartOne(t),
                      NEW i \in DOMAIN running', running'[i].name = th[t].name
               PROVE  running'[i].pid > th[t].mark
    BY <1>1
  <2> DEFINE n == th[t].name
             kept == IF findRunning(n) = {} THEN running ELSE RemoveAt(running, FirstRunning(n))
  <2>0. t \in Threads /\ th[t].at = "start" /\ n \in Names
    BY <1>1, WorkerFacts, Alone DEF StartOne
  <2>1. \A j \in DOMAIN running : running[j].name = n => running[j].pid > th[t].mark
    BY <1>1, <2>0 DEF IInv, Fresh
  <2>2. \/ UNCHANGED <<running, child, childName>>
        \/ ~Present(n) /\ launch(n, kept)
        \/ ~Present(n) /\ running' = kept
    BY DEF StartOne
  <2>3. CASE UNCHANGED running
    BY <2>1, <2>3
  <2>4. ~Present(n) => Ready(n, kept)
    BY <1>1, KeptReady
  <2> HIDE DEF kept
  <2>5. CASE ~Present(n) /\ running' = kept
    BY <2>4, <2>5 DEF Ready
  <2>6. CASE ~Present(n) /\ launch(n, kept)
    <3>1. \/ i \in DOMAIN kept /\ running'[i] = kept[i]
          \/ running'[i] = [name |-> n, pid |-> Launched + 1]
      BY <1>1, <2>0, <2>4, <2>6, LaunchFacts
    <3>2. running'[i].pid = Launched + 1
      BY <2>4, <2>6, <3>1 DEF Ready
    <3>3. th[t].mark \in Nat /\ th[t].mark <= Launched /\ Launched \in Nat
      BY <1>1, <2>0, BoundsAssumption DEF IInv, Fresh, Types, Task, Numbered
    <3>4. Launched + 1 > th[t].mark
      BY <3>3
    <3> QED BY <3>2, <3>4
  <2> QED BY <2>2, <2>3, <2>5, <2>6
<1> QED BY <1>1, ManagerInvariance, PTL DEF Spec, RestartIsFresh
=============================================================================
