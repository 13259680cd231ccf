----------------------- MODULE ManagementTasksProofs ------------------------
(***************************************************************************)
(* The management tasks proved for every number of workers, resources,     *)
(* tasks and faults: operations on a resource are serial, no task is       *)
(* executed twice across restarts, and no accepted task is lost.           *)
(***************************************************************************)
EXTENDS ManagementTasks, FiniteSetTheorems, SequenceTheorems, WellFoundedInduction, TLAPS

-----------------------------------------------------------------------------
(* Lists. *)

\* Every nonempty set of natural numbers has a least element.
LEMMA LeastNatural ==
    ASSUME NEW T \in SUBSET Nat, T # {}
    PROVE  \E m \in T : \A n \in T : m <= n
<1> DEFINE R == OpToRel(<, Nat)
<1>1. IsWellFoundedOn(R, Nat)
  BY NatLessThanWellFounded, Zenon
<1>2. \A y, x \in Nat : y < x => <<y, x>> \in R
  BY DEF OpToRel
<1> HIDE DEF R
<1>3. \E x \in T : \A y \in T : ~(<<y, x>> \in R)
  BY <1>1, WFMin
<1>4. \A x, y \in T : ~(y < x) => x <= y
  OBVIOUS
<1> QED  BY <1>2, <1>3, <1>4

\* A function on 1..n is a list of length n.
LEMMA ListOf ==
    ASSUME NEW n \in Nat, NEW S, NEW f \in [1..n -> S]
    PROVE  f \in Seq(S) /\ Len(f) = n
<1>1. f \in Seq(S)
  BY SeqDef, Zenon
<1>2. DOMAIN f = 1..n /\ DOMAIN f = 1..Len(f) /\ Len(f) \in Nat
  BY <1>1, LenProperties
<1> QED  BY <1>1, <1>2

Distinct(s) == \A i, j \in 1..Len(s) : s[i] = s[j] => i = j
In(t, s) == \E i \in 1..Len(s) : s[i] = t

\* r is what is left of the first n elements of s.
Leaves(r, s, gone, n) ==
    /\ r \in Seq(Tasks) /\ Len(r) <= n
    /\ \A i \in 1..Len(r) : r[i] \notin gone /\ \E j \in 1..n : r[i] = s[j]
    /\ \A j \in 1..n : s[j] \notin gone => In(s[j], r)
    /\ \A j \in 1..n : s[j] \in gone => Len(r) < n
    /\ Distinct(s) => Distinct(r)
    /\ n > 0 /\ s[n] \notin gone => Len(r) > 0 /\ r[Len(r)] = s[n]

\* Something left out makes the rest shorter.
LEMMA LeavesShorter ==
    ASSUME NEW r, NEW s, NEW gone, NEW n, Leaves(r, s, gone, n), NEW j \in 1..n, s[j] \in gone
    PROVE  Len(r) < n
BY DEF Leaves

\* One more element of s.
LEMMA LeavesNext ==
    ASSUME NEW s \in Seq(Tasks), NEW gone, NEW n \in 1..Len(s), NEW r, Leaves(r, s, gone, n - 1)
    PROVE  Leaves(IF s[n] \in gone THEN r ELSE Append(r, s[n]), s, gone, n)
<1>0. /\ Len(s) \in Nat /\ r \in Seq(Tasks) /\ Len(r) \in Nat /\ Len(r) <= n - 1 /\ n \in Nat
      /\ n # 0 /\ \A j \in 1..n : j \in 1..(n - 1) \/ j = n
  BY DEF Leaves
<1>1. CASE s[n] \in gone
  <2>1. Leaves(r, s, gone, n)
    <3>1. \A i \in 1..Len(r) : r[i] \notin gone /\ \E j \in 1..n : r[i] = s[j]
      <4>1. \A j \in 1..(n - 1) : j \in 1..n
        BY <1>0
      <4> QED  BY <4>1 DEF Leaves
    <3>2. \A j \in 1..n : s[j] \notin gone => In(s[j], r)
      BY <1>0, <1>1 DEF Leaves
    <3>3. Len(r) < n /\ Len(r) <= n
      BY <1>0
    <3> QED  BY <1>0, <1>1, <3>1, <3>2, <3>3 DEF Leaves
  <2> QED  BY <1>1, <2>1
<1>2. CASE s[n] \notin gone
  <2> DEFINE x == Append(r, s[n])
  <2>1. s[n] \in Tasks
    OBVIOUS
  <2>2. x \in Seq(Tasks) /\ Len(x) = Len(r) + 1
    BY <1>0, <2>1
  <2>3. x[Len(r) + 1] = s[n] /\ \A i \in 1..Len(r) : x[i] = r[i]
    BY <1>0, <2>1
  <2>4. \A i \in 1..Len(x) : i \in 1..Len(r) \/ i = Len(r) + 1
    BY <1>0, <2>2
  <2>5. \A i \in 1..Len(r) : i \in 1..Len(x)
    BY <1>0, <2>2
  <2> HIDE DEF x
  <2>6. \A i \in 1..Len(x) : x[i] \notin gone /\ \E j \in 1..n : x[i] = s[j]
    <3>1. \A j \in 1..(n - 1) : j \in 1..n
      BY <1>0
    <3>2. \A i \in 1..Len(r) : r[i] \notin gone /\ \E j \in 1..n : r[i] = s[j]
      BY <3>1 DEF Leaves
    <3>3. n \in 1..n
      BY <1>0
    <3> QED  BY <3>2, <3>3, <2>3, <2>4, <1>2
  <2>7. \A j \in 1..n : s[j] \notin gone => In(s[j], x)
    <3>1. In(s[n], x)
      <4>1. Len(r) + 1 \in 1..Len(x)
        BY <1>0, <2>2
      <4> QED  BY <4>1, <2>3 DEF In
    <3>2. \A j \in 1..(n - 1) : s[j] \notin gone => In(s[j], x)
      BY <2>3, <2>5 DEF Leaves, In
    <3> QED  BY <1>0, <3>1, <3>2
  <2>8. \A j \in 1..n : s[j] \in gone => Len(x) < n
    <3>1. \A j \in 1..n : s[j] \in gone => Len(r) < n - 1
      BY <1>0, <1>2 DEF Leaves
    <3> QED  BY <3>1, <1>0, <2>2
  <2>9. Distinct(s) => Distinct(x)
    <3> SUFFICES ASSUME Distinct(s), NEW i \in 1..Len(x), NEW j \in 1..Len(x), x[i] = x[j]
                 PROVE  i = j
      BY DEF Distinct
    <3>1. \A k \in 1..Len(r) : r[k] # s[n]
      <4> SUFFICES ASSUME NEW k \in 1..Len(r), r[k] = s[n] PROVE FALSE
        OBVIOUS
      <4>1. PICK h \in 1..(n - 1) : r[k] = s[h]
        BY DEF Leaves
      <4>2. h \in 1..Len(s) /\ n \in 1..Len(s) /\ h # n
        BY <1>0
      <4> QED  BY <4>1, <4>2 DEF Distinct
    <3>2. Distinct(r)
      BY DEF Leaves
    <3> QED  BY <3>1, <3>2, <2>3, <2>4 DEF Distinct
  <2>10. Len(x) <= n /\ Len(x) > 0 /\ x[Len(x)] = s[n]
    BY <1>0, <2>2, <2>3
  <2>11. Leaves(x, s, gone, n)
    BY <2>2, <2>6, <2>7, <2>8, <2>9, <2>10 DEF Leaves
  <2> QED  BY <1>2, <2>11 DEF x
<1> QED  BY <1>1, <1>2

\* Remaining is the filter it is meant to be.
LEMMA RemainingFacts ==
    ASSUME NEW s \in Seq(Tasks), NEW gone
    PROVE  Leaves(Remaining(s, gone), s, gone, Len(s))
<1> DEFINE L == Len(s)
           Step(acc, n) == IF s[n] \in gone THEN acc ELSE Append(acc, s[n])
           Sat(g, n) == /\ g = [i \in 0..n |-> g[i]] /\ g[0] = <<>>
                        /\ \A i \in 1..n : g[i] = Step(g[i - 1], i)
           Body(g) == [n \in 0..L |-> IF n = 0 THEN <<>> ELSE Step(g[n - 1], n)]
           bad == {n \in 0..L : ~\E g : Sat(g, n)}
<1>0. L \in Nat
  OBVIOUS
\* The recursion has a solution on every prefix ...
<1>1. bad = {}
  <2> SUFFICES ASSUME bad # {} PROVE FALSE
    OBVIOUS
  <2>1. bad \in SUBSET Nat
    BY <1>0
  <2>2. PICK m \in bad : \A n \in bad : m <= n
    BY <2>1, LeastNatural
  <2>3. m \in 0..L /\ ~\E g : Sat(g, m)
    BY <2>2
  <2>4. CASE m = 0
    <3> DEFINE g == [i \in 0..0 |-> <<>>]
    <3>1. g = [i \in 0..0 |-> g[i]] /\ g[0] = <<>> /\ \A i \in 1..0 : FALSE
      OBVIOUS
    <3>2. Sat(g, 0)
      BY <3>1
    <3> QED  BY <3>2, <2>3, <2>4
  <2>5. CASE m # 0
    <3>1. m - 1 \in 0..L /\ m - 1 \notin bad /\ m \in Nat
      BY <2>2, <2>3, <2>5, <1>0
    <3>2. PICK g : Sat(g, m - 1)
      BY <3>1
    <3> DEFINE h == [i \in 0..m |-> IF i = m THEN Step(g[m - 1], m) ELSE g[i]]
    <3>3. h = [i \in 0..m |-> h[i]] /\ h[0] = <<>>
      BY <3>1, <3>2, <2>5
    <3>4. \A i \in 1..m : h[i] = Step(h[i - 1], i)
      <4> SUFFICES ASSUME NEW i \in 1..m PROVE h[i] = Step(h[i - 1], i)
        OBVIOUS
      <4>1. i - 1 \in 0..m /\ i - 1 # m /\ i \in 0..m
        BY <3>1
      <4>2. h[i - 1] = g[i - 1]
        BY <4>1
      <4>3. CASE i = m
        <5>1. h[i] = Step(g[m - 1], m)
          BY <4>1, <4>3
        <5> QED  BY <5>1, <4>2, <4>3
      <4>4. CASE i # m
        <5>1. h[i] = g[i] /\ i \in 1..(m - 1)
          BY <4>1, <4>4, <3>1
        <5> QED  BY <5>1, <4>2, <3>2
      <4> QED  BY <4>3, <4>4
    <3>5. Sat(h, m)
      BY <3>3, <3>4
    <3> QED  BY <3>5, <2>3
  <2> QED  BY <2>4, <2>5
\* ... so the function that Remaining defines is one.
<1>2. \E g : g = Body(g)
  <2>1. PICK g : Sat(g, L)
    <3>1. L \in 0..L
      BY <1>0
    <3> QED  BY <3>1, <1>1
  <2>2. \A n \in 0..L : Body(g)[n] = IF n = 0 THEN <<>> ELSE Step(g[n - 1], n)
    OBVIOUS
  <2>3. \A n \in 0..L : n # 0 => n \in 1..L
    BY <1>0
  <2>4. \A n \in 0..L : g[n] = IF n = 0 THEN <<>> ELSE Step(g[n - 1], n)
    BY <2>1, <2>3
  <2>5. g = [n \in 0..L |-> g[n]]
    BY <2>1
  <2>6. g = Body(g)
    BY <2>4, <2>5
  <2> QED  BY <2>6
<1> DEFINE upTo == CHOOSE g : g = Body(g)
<1>3. upTo = Body(upTo)
  BY <1>2
<1>4. Remaining(s, gone) = upTo[L]
  BY DEF Remaining
<1> HIDE DEF upTo
<1>5. /\ upTo[0] = <<>>
      /\ \A n \in 1..L : upTo[n] = Step(upTo[n - 1], n)
  <2>1. \A n \in 1..L : n \in 0..L /\ n # 0
    BY <1>0
  <2>2. 0 \in 0..L
    BY <1>0
  <2>3. \A n \in 0..L : Body(upTo)[n] = IF n = 0 THEN <<>> ELSE Step(upTo[n - 1], n)
    OBVIOUS
  <2> QED  BY <1>3, <2>1, <2>2, <2>3
<1> DEFINE lost == {n \in 0..L : ~Leaves(upTo[n], s, gone, n)}
\* Every prefix is filtered as it should be.
<1>6. lost = {}
  <2> SUFFICES ASSUME lost # {} PROVE FALSE
    OBVIOUS
  <2>1. lost \in SUBSET Nat
    BY <1>0
  <2>2. PICK m \in lost : \A n \in lost : m <= n
    BY <2>1, LeastNatural
  <2>3. m \in 0..L /\ ~Leaves(upTo[m], s, gone, m)
    BY <2>2
  <2>4. Leaves(<<>>, s, gone, 0)
    <3>1. <<>> \in Seq(Tasks) /\ Len(<<>>) = 0
      OBVIOUS
    <3> QED  BY <3>1 DEF Leaves, Distinct
  <2>5. CASE m # 0
    <3>1. m - 1 \in 0..L /\ m - 1 \notin lost /\ m \in 1..L
      BY <2>2, <2>3, <2>5, <1>0
    <3>2. Leaves(upTo[m - 1], s, gone, m - 1)
      BY <3>1
    <3>3. Leaves(Step(upTo[m - 1], m), s, gone, m)
      BY <3>1, <3>2, LeavesNext
    <3>4. upTo[m] = Step(upTo[m - 1], m)
      BY <3>1, <1>5
    <3> HIDE DEF Step
    <3> QED  BY <3>3, <3>4, <2>3
  <2> QED  BY <2>3, <2>4, <2>5, <1>5
<1>7. Leaves(upTo[L], s, gone, L)
  <2>1. L \in 0..L
    BY <1>0
  <2> QED  BY <2>1, <1>6
<1> QED  BY <1>4, <1>7

-----------------------------------------------------------------------------
(* The invariant. *)

Idle == {"none", "scan", "idle", "timer", "exit"}
Early == {"check", "enter", "resWait", "retry", "owned"}
Busy == Early \cup {"call", "final", "finish", "release", "cleanup"}
States == Active \cup Terminal

Types ==
    /\ mgr \in {"down", "up", "stopping"}
    /\ st \in [Tasks -> States \cup {"none"}] /\ key \in [Tasks -> Keys]
    /\ queue \in Seq(Tasks) /\ order \in Seq(Tasks)
    /\ owner \in [Keys -> Tasks \cup {NoTask}]
    /\ pc \in [Workers -> Idle \cup Busy] /\ cur \in [Workers -> Tasks \cup {NoTask}]
    /\ outcome \in [Workers -> Terminal \cup {"none"}]
    /\ submitted \in 0..MaxTasks /\ acked \subseteq Tasks
    /\ calls \in [Tasks -> Nat] /\ final \in [Tasks -> Terminal \cup {"none"}]
    /\ disk = Corrupt \/ disk \in Seq(TaskRecord)

\* Nobody works while the Runtime is down.
Rest == mgr = "down" => \A w \in Workers : pc[w] = "none"

\* A queued task was submitted, and nobody has called it.
Waiting(t) == t <= submitted /\ calls[t] = 0
Lined ==
    /\ \A t \in Tasks : In(t, queue) => Waiting(t)
    /\ \A t \in Tasks : t > submitted => calls[t] = 0

\* A worker holds a task of its own, which is not in the queue any more; until
\* its call nobody has called the task, and from acquireResource to the end
\* of the call the resource is the task's.
WorkerOK(w) ==
    pc[w] \in Busy =>
        /\ cur[w] \in Tasks /\ cur[w] <= submitted /\ ~In(cur[w], queue)
        /\ pc[w] \in Early => calls[cur[w]] = 0
        /\ pc[w] \in {"owned", "call", "final"} => owner[key[cur[w]]] = cur[w]
        /\ pc[w] = "finish" => outcome[w] \in Terminal
Apart == \A v, w \in Workers : v # w /\ pc[v] \in Busy /\ pc[w] \in Busy => cur[v] # cur[w]

\* The list: tasks that were submitted, each once and in some state.
ListOK ==
    /\ Distinct(order)
    /\ \A i \in 1..Len(order) : order[i] <= submitted /\ st[order[i]] \in States

\* A terminal state was shown.
Shown == \A t \in Tasks : st[t] \in Terminal => final[t] # "none"

\* The snapshot: distinct tasks that were submitted; a damaged one promises nothing.
DiskOK ==
    /\ disk # Corrupt =>
          /\ \A i, j \in 1..Len(disk) : disk[i].id = disk[j].id => i = j
          /\ \A i \in 1..Len(disk) : disk[i].id <= submitted
    /\ disk = Corrupt => acked = {}

\* No list outgrows the retention, and what is not over is listed and saved;
\* an empty list while the Runtime is down is that of a crash.
Kept ==
    /\ Len(order) <= Retention /\ (disk # Corrupt => Len(disk) <= Retention)
    /\ \A t \in acked : final[t] = "none" => /\ mgr # "down" \/ order # <<>> => Listed(t)
                                             /\ InDisk(t)

IInv ==
    /\ Types /\ Rest /\ Lined /\ Apart /\ ListOK /\ Shown /\ DiskOK
    /\ \A w \in Workers : WorkerOK(w)
    /\ NeverReplayed
    /\ Capacity <= Retention => Kept

-----------------------------------------------------------------------------
(* What the operators of the model do. *)

LEMMA Facts ==
    /\ NoTask \notin Tasks /\ MaxTasks \in Nat
    /\ Capacity \in Nat \ {0} /\ Retention \in Nat \ {0} /\ Tasks \subseteq Nat
    /\ Active \cap Terminal = {} /\ "none" \notin States
BY TasksAssumption DEF Tasks, Active, Terminal, States

\* pruneLocked drops only tasks that are over, and at least one of them when
\* there is one task too many.
LEMMA PrunedFacts ==
    ASSUME NEW o \in Seq(Tasks), NEW s, NEW p, p = Pruned(o, s)
    PROVE  /\ p \in Seq(Tasks) /\ Len(p) <= Len(o) /\ (Distinct(o) => Distinct(p))
           /\ \A t : In(t, p) => In(t, o)
           /\ \A t : In(t, o) /\ s[t] \in Active => In(t, p)
           /\ Len(o) > 0 /\ s[o[Len(o)]] \in Active => Len(p) > 0 /\ p[Len(p)] = o[Len(o)]
           /\ Len(o) = Retention + 1 /\ (\E i \in 1..Len(o) : s[o[i]] \notin Active) => Len(p) <= Retention
<1> DEFINE done == {i \in 1..Len(o) : s[o[i]] \notin Active}
           gone == {o[i] : i \in {j \in done : Cardinality({h \in done : h <= j}) + Retention <= Len(o)}}
<1>0. Len(o) \in Nat /\ Retention \in Nat
  BY Facts
<1>1. p = Remaining(o, gone)
  BY DEF Pruned
<1>2. \A t : t \in gone => s[t] \notin Active
  OBVIOUS
<1>3. ASSUME Len(o) = Retention + 1, done # {} PROVE \E j \in 1..Len(o) : o[j] \in gone
  <2>1. done \in SUBSET Nat
    OBVIOUS
  <2>2. PICK m \in done : \A n \in done : m <= n
    BY <2>1, <1>3, LeastNatural
  <2>3. {h \in done : h <= m} = {m}
    BY <2>1, <2>2
  <2>4. Cardinality({m}) = 1
    BY FS_Singleton
  <2>5. o[m] \in gone /\ m \in 1..Len(o)
    <3>1. 1 + Retention <= Len(o)
      BY <1>0, <1>3
    <3>2. Cardinality({h \in done : h <= m}) + Retention <= Len(o)
      BY <3>1, <2>3, <2>4, Zenon
    <3>3. m \in {j \in done : Cardinality({h \in done : h <= j}) + Retention <= Len(o)}
      BY <3>2, <2>2, Zenon
    <3> QED  BY <3>3, <2>2, Zenon
  <2> QED  BY <2>5
<1> HIDE DEF gone
<1>4. Leaves(p, o, gone, Len(o))
  BY <1>1, RemainingFacts
<1>5. /\ p \in Seq(Tasks) /\ Len(p) <= Len(o) /\ (Distinct(o) => Distinct(p))
      /\ \A t : In(t, p) => In(t, o)
  BY <1>4 DEF Leaves, In
<1>6. \A t : In(t, o) /\ s[t] \in Active => In(t, p)
  BY <1>2, <1>4 DEF Leaves, In
<1>7. Len(o) > 0 /\ s[o[Len(o)]] \in Active => Len(p) > 0 /\ p[Len(p)] = o[Len(o)]
  BY <1>2, <1>4 DEF Leaves
<1>8. ASSUME Len(o) = Retention + 1, \E i \in 1..Len(o) : s[o[i]] \notin Active PROVE Len(p) <= Retention
  <2>1. \E j \in 1..Len(o) : o[j] \in gone
    BY <1>3, <1>8
  <2>2. Len(p) < Len(o)
    BY <2>1, <1>4, LeavesShorter
  <2>3. Len(p) \in Nat
    BY <1>5
  <2> QED  BY <2>2, <2>3, <1>0, <1>8
<1> QED  BY <1>5, <1>6, <1>7, <1>8

\* A full list of distinct tasks that has room for one more holds one that is over.
LEMMA RoomFacts ==
    ASSUME order \in Seq(Tasks), Distinct(order), Len(order) = Retention, Capacity <= Retention, HasRoom
    PROVE  \E i \in 1..Len(order) : st[order[i]] \notin Active
<1> SUFFICES ASSUME \A i \in 1..Len(order) : st[order[i]] \in Active PROVE FALSE
  OBVIOUS
<1> DEFINE n == Len(order)
<1>0. n \in Nat /\ n = Retention /\ Retention \in Nat /\ Capacity \in Nat /\ MaxTasks \in Nat
  BY Facts
<1>1. \A i \in 1..n : order[i] \in ActiveTasks
  BY DEF ActiveTasks
<1>2. ActiveTasks \subseteq Tasks
  BY DEF ActiveTasks
<1>3. IsFiniteSet(ActiveTasks) /\ Cardinality(ActiveTasks) \in Nat
  <2>1. IsFiniteSet(1..MaxTasks)
    BY <1>0, FS_Interval
  <2> QED  BY <2>1, <1>2, FS_Subset, FS_CardinalityType DEF Tasks
<1>4. order \in Injection(1..n, ActiveTasks)
  <2>1. order \in [1..n -> ActiveTasks]
    <3>1. order \in [1..n -> Tasks]
      OBVIOUS
    <3> QED  BY <3>1, <1>1
  <2>2. IsInjective(order)
    BY <2>1 DEF IsInjective, Distinct
  <2> QED  BY <2>1, <2>2 DEF Injection
<1>5. Cardinality(1..n) = n
  BY <1>0, FS_Interval
<1>6. n <= Cardinality(ActiveTasks)
  <2> HIDE DEF n
  <2> QED  BY <1>3, <1>4, <1>5, FS_Injection
<1> QED  BY <1>0, <1>3, <1>6 DEF HasRoom

\* The snapshot of a list.
LEMMA SnapshotFacts ==
    ASSUME NEW o \in Seq(Tasks), NEW s, \A i \in 1..Len(o) : s[o[i]] \in States
    PROVE  /\ Snapshot(o, s) \in Seq(TaskRecord) /\ Len(Snapshot(o, s)) = Len(o)
           /\ \A i \in 1..Len(o) : Snapshot(o, s)[i].id = o[i]
           /\ Snapshot(o, s) # Corrupt
<1>0. Len(o) \in Nat /\ \A i \in 1..Len(o) : o[i] \in Tasks
  OBVIOUS
<1>1. Snapshot(o, s) \in [1..Len(o) -> TaskRecord]
  BY <1>0 DEF Snapshot, TaskRecord, States
<1>2. Snapshot(o, s) \in Seq(TaskRecord) /\ Len(Snapshot(o, s)) = Len(o)
  BY <1>0, <1>1, ListOf
<1>3. \A i \in 1..Len(o) : Snapshot(o, s)[i].id = o[i]
  BY DEF Snapshot
<1> QED  BY <1>2, <1>3, CorruptAssumption

LEMMA ShowFacts ==
    ASSUME Types, st' \in [Tasks -> States \cup {"none"}], Show(st')
    PROVE  /\ final' \in [Tasks -> Terminal \cup {"none"}] /\ Shown'
           /\ \A t \in Tasks : final'[t] = "none" => final[t] = "none"
<1>1. \A t \in Tasks : final'[t] = IF final[t] = "none" /\ st'[t] \in Terminal THEN st'[t] ELSE final[t]
  BY DEF Show
<1>2. "none" \notin Terminal
  BY DEF Terminal
<1>3. final' \in [Tasks -> Terminal \cup {"none"}]
  BY DEF Types, Show
<1> QED  BY <1>1, <1>2, <1>3 DEF Shown

\* Steps of the manager at work that change states, take over tasks from the
\* list and save it.
LEMMA DataStep ==
    ASSUME IInv, Types', acked' = acked, submitted' \in {submitted, submitted + 1},
           mgr # "down" \/ order # <<>>,
           Distinct(order'), Len(order') <= Len(order),
           \A t \in Tasks : In(t, order') => In(t, order),
           \A t \in Tasks : In(t, order) /\ st[t] \in Active => In(t, order'),
           \A t \in Tasks : st[t] \in States => st'[t] \in States,
           \A t \in Tasks : final'[t] = "none" => final[t] = "none",
           disk' = disk \/ (disk # Corrupt /\ disk' = Snapshot(order', st'))
    PROVE  ListOK' /\ DiskOK' /\ (Capacity <= Retention => Kept')
<1>0. /\ Types /\ ListOK /\ DiskOK /\ Shown /\ (Capacity <= Retention => Kept)
      /\ order \in Seq(Tasks) /\ order' \in Seq(Tasks) /\ Len(order) \in Nat /\ Len(order') \in Nat
      /\ \A i \in 1..Len(order') : order'[i] \in Tasks
      /\ Retention \in Nat
  BY Facts DEF IInv, Types
<1>a. \A n \in Nat : n <= submitted => n <= submitted'
  BY <1>0, Facts DEF Types
<1>1. \A i \in 1..Len(order') : order'[i] <= submitted' /\ st'[order'[i]] \in States
  <2> SUFFICES ASSUME NEW i \in 1..Len(order')
               PROVE  order'[i] <= submitted' /\ st'[order'[i]] \in States
    OBVIOUS
  <2>1. order'[i] \in Tasks /\ In(order'[i], order')
    BY <1>0 DEF In
  <2>2. PICK j \in 1..Len(order) : order[j] = order'[i]
    BY <2>1 DEF In
  <2> QED  BY <2>1, <2>2, <1>0, <1>a, Facts DEF ListOK
<1>2. ListOK'
  BY <1>1 DEF ListOK
<1>3. disk' # disk => /\ disk # Corrupt /\ disk' # Corrupt /\ Len(disk') = Len(order')
                      /\ \A i \in 1..Len(order') : disk'[i].id = order'[i]
  BY <1>0, <1>1, SnapshotFacts
<1>4. DiskOK'
  <2>1. CASE disk' = disk
    <3>1. disk # Corrupt => \A i \in 1..Len(disk) : disk[i].id \in Nat /\ disk[i].id <= submitted'
      <4>1. disk # Corrupt => \A i \in 1..Len(disk) : disk[i] \in TaskRecord
        BY <1>0 DEF Types
      <4>2. \A r \in TaskRecord : r.id \in Nat
        BY Facts DEF TaskRecord
      <4> QED  BY <4>1, <4>2, <1>0, <1>a DEF DiskOK
    <3> QED  BY <2>1, <3>1, <1>0 DEF DiskOK
  <2>2. CASE disk' # disk
    BY <2>2, <1>1, <1>3 DEF DiskOK, Distinct
  <2> QED  BY <2>1, <2>2
<1>5. ASSUME Capacity <= Retention PROVE Kept'
  <2>0. Kept
    BY <1>0, <1>5
  <2>1. Len(order') <= Retention
    BY <2>0, <1>0 DEF Kept
  <2>2. disk' # Corrupt => Len(disk') <= Retention
    BY <2>0, <2>1, <1>3 DEF Kept
  <2>3. ASSUME NEW t \in acked, final'[t] = "none" PROVE In(t, order') /\ InDisk(t)'
    <3>1. t \in Tasks /\ final[t] = "none"
      BY <2>3, <1>0 DEF Types
    <3>2. In(t, order) /\ InDisk(t)
      BY <3>1, <2>0 DEF Kept, Listed, In
    <3>3. st[t] \in Active
      BY <3>1, <3>2, <1>0 DEF ListOK, Shown, In, States
    <3>4. In(t, order')
      BY <3>1, <3>2, <3>3
    <3>5. InDisk(t)'
      BY <3>2, <3>4, <1>3 DEF InDisk, In
    <3> QED  BY <3>4, <3>5
  <2> QED  BY <2>1, <2>2, <2>3 DEF Kept, Listed, In
<1> QED  BY <1>2, <1>4, <1>5

\* Steps that leave the tasks, the list and the snapshot alone.
LEMMA DataSame ==
    ASSUME IInv, UNCHANGED <<st, order, final, disk, acked, submitted>>, mgr' # "down" => mgr # "down"
    PROVE  ListOK' /\ DiskOK' /\ Shown' /\ (Capacity <= Retention => Kept')
<1>1. ListOK' /\ DiskOK' /\ Shown'
  BY DEF IInv, ListOK, DiskOK, Shown, Distinct
<1>2. Capacity <= Retention => Kept'
  BY DEF IInv, Kept, Listed, InDisk
<1> QED  BY <1>1, <1>2

\* Waking a worker moves it within its kind of place.
LEMMA WokenFacts ==
    ASSUME NEW p \in Idle \cup Busy
    PROVE  /\ Woken(p) \in Idle \cup Busy
           /\ (Woken(p) \in Busy <=> p \in Busy) /\ (Woken(p) \in Early <=> p \in Early)
           /\ \A q \in {"owned", "call", "final", "finish", "none"} : (Woken(p) = q <=> p = q)
BY DEF Woken, Idle, Busy, Early

LEMMA PlaceFacts ==
    /\ Early \subseteq Busy /\ Idle \cap Busy = {} /\ "none" \notin Busy
    /\ {"owned", "call", "final", "finish", "release", "cleanup"} \subseteq Busy
BY DEF Idle, Busy, Early

\* A worker that the step of somebody else leaves where it is, or wakes.
LEMMA WorkerStays ==
    ASSUME Types, Types', NEW v \in Workers, WorkerOK(v),
           pc'[v] \in {pc[v], Woken(pc[v])}, cur'[v] = cur[v], outcome'[v] = outcome[v],
           key' = key, submitted <= submitted',
           pc[v] \in Busy => ~In(cur[v], queue'),
           pc[v] \in Early => calls'[cur[v]] = calls[cur[v]],
           pc[v] \in {"owned", "call", "final"} => owner'[key[cur[v]]] = owner[key[cur[v]]]
    PROVE  WorkerOK(v)' /\ (pc'[v] \in Busy <=> pc[v] \in Busy)
<1>1. pc[v] \in Idle \cup Busy
  BY DEF Types
<1>2. /\ (pc'[v] \in Busy <=> pc[v] \in Busy) /\ (pc'[v] \in Early <=> pc[v] \in Early)
      /\ \A q \in {"owned", "call", "final", "finish", "none"} : (pc'[v] = q <=> pc[v] = q)
  BY <1>1, WokenFacts
<1>3. pc[v] \in Busy => cur[v] \in Nat /\ cur[v] <= submitted'
  <2>1. submitted \in Nat /\ submitted' \in Nat
    BY Facts DEF Types
  <2>2. pc[v] \in Busy => cur[v] \in Nat /\ cur[v] <= submitted
    BY Facts DEF WorkerOK
  <2> QED  BY <2>1, <2>2
<1> QED  BY <1>2, <1>3, PlaceFacts DEF WorkerOK

\* What one worker may do without getting into the way of the others.
LEMMA WorkerMoves ==
    ASSUME IInv, Types', NEW w \in Workers, pc[w] # "none",
           key' = key, mgr' = mgr, submitted' = submitted,
           \A v \in Workers \ {w} : /\ pc'[v] \in {pc[v], Woken(pc[v])}
                                    /\ cur'[v] = cur[v] /\ outcome'[v] = outcome[v],
           pc'[w] \in Busy => pc[w] \in Busy /\ cur'[w] = cur[w],
           \A t \in Tasks : In(t, queue') => In(t, queue),
           \A t \in Tasks : calls'[t] # calls[t] => pc[w] \in Early /\ t = cur[w] /\ calls'[t] = 1,
           \A v \in Workers \ {w} : pc[v] \in {"owned", "call", "final"} =>
                                        owner'[key[cur[v]]] = owner[key[cur[v]]],
           WorkerOK(w)'
    PROVE  Rest' /\ Lined' /\ Apart' /\ NeverReplayed' /\ \A v \in Workers : WorkerOK(v)'
<1>0. /\ Types /\ Rest /\ Lined /\ Apart /\ NeverReplayed /\ \A v \in Workers : WorkerOK(v)
      /\ submitted \in Nat
  BY Facts DEF IInv, Types
<1>1. ASSUME NEW v \in Workers \ {w} PROVE WorkerOK(v)' /\ (pc'[v] \in Busy <=> pc[v] \in Busy)
  <2>1. pc[v] \in Busy => cur[v] \in Tasks /\ ~In(cur[v], queue')
    BY <1>0 DEF WorkerOK
  <2>2. pc[v] \in Early => calls'[cur[v]] = calls[cur[v]]
    BY <2>1, <1>0, PlaceFacts DEF Apart
  <2> QED  BY <2>1, <2>2, <1>0, WorkerStays
<1>2. Apart'
  <2>1. \A v \in Workers : pc'[v] \in Busy => pc[v] \in Busy /\ cur'[v] = cur[v]
    BY <1>1
  <2> QED  BY <2>1, <1>0 DEF Apart
<1>3. Rest'
  BY <1>0 DEF Rest
<1>4. Lined'
  <2>1. ASSUME NEW t \in Tasks, In(t, queue') PROVE Waiting(t)'
    <3>1. In(t, queue) /\ t <= submitted /\ calls[t] = 0
      BY <2>1, <1>0 DEF Lined, Waiting
    <3>2. calls'[t] = calls[t]
      BY <3>1, <1>0, PlaceFacts DEF WorkerOK
    <3> QED  BY <3>1, <3>2 DEF Waiting
  <2>2. ASSUME NEW t \in Tasks, t > submitted PROVE calls'[t] = 0
    <3>1. calls[t] = 0 /\ ~(t <= submitted)
      BY <2>2, <1>0, Facts DEF Lined
    <3>2. calls'[t] = calls[t]
      BY <3>1, <1>0, PlaceFacts DEF WorkerOK
    <3> QED  BY <3>1, <3>2
  <2> QED  BY <2>1, <2>2 DEF Lined
<1>5. NeverReplayed'
  BY <1>0 DEF NeverReplayed
<1> QED  BY <1>1, <1>2, <1>3, <1>4, <1>5

\* Steps of the HTTP threads and of the clock: workers are at most woken, and
\* what is new in the queue was never seen before.
LEMMA WorkersWait ==
    ASSUME IInv, Types', mgr # "down" \/ mgr' = mgr, mgr' # "down" \/ mgr' = mgr,
           UNCHANGED <<key, owner, calls, cur, outcome>>, submitted <= submitted',
           \A v \in Workers : pc'[v] \in {pc[v], Woken(pc[v])},
           \A t \in Tasks : In(t, queue') => In(t, queue) \/ (t > submitted /\ t <= submitted')
    PROVE  Rest' /\ Lined' /\ Apart' /\ NeverReplayed' /\ \A v \in Workers : WorkerOK(v)'
<1>0. /\ Types /\ Rest /\ Lined /\ Apart /\ NeverReplayed /\ \A v \in Workers : WorkerOK(v)
      /\ submitted \in Nat /\ submitted' \in Nat
  BY Facts DEF IInv, Types
<1>1. ASSUME NEW v \in Workers PROVE WorkerOK(v)' /\ (pc'[v] \in Busy <=> pc[v] \in Busy)
  <2>1. pc[v] \in Busy => cur[v] \in Tasks /\ cur[v] <= submitted /\ ~In(cur[v], queue)
    BY <1>0 DEF WorkerOK
  <2>2. \A t \in Tasks : t <= submitted => ~(t > submitted)
    BY <1>0, Facts
  <2>3. pc[v] \in Busy => ~In(cur[v], queue')
    BY <2>1, <2>2
  <2> QED  BY <2>3, <1>0, WorkerStays
<1>2. Apart'
  BY <1>0, <1>1 DEF Apart
<1>3. Rest'
  <2>1. \A v \in Workers : pc[v] = "none" => pc'[v] = "none"
    BY <1>0, WokenFacts DEF Types
  <2> QED  BY <2>1, <1>0 DEF Rest
<1>4. Lined'
  <2>1. ASSUME NEW t \in Tasks, In(t, queue') PROVE Waiting(t)'
    <3>1. CASE In(t, queue)
      <4>1. t <= submitted /\ calls[t] = 0 /\ t \in Nat
        BY <3>1, <1>0, Facts DEF Lined, Waiting
      <4>2. t <= submitted' /\ calls'[t] = 0
        BY <4>1, <1>0
      <4> QED  BY <4>2 DEF Waiting
    <3>2. CASE t > submitted /\ t <= submitted'
      BY <3>2, <1>0 DEF Waiting, Lined
    <3> QED  BY <2>1, <3>1, <3>2
  <2>2. \A t \in Tasks : t > submitted' => t > submitted
    BY <1>0, Facts
  <2> QED  BY <2>1, <2>2, <1>0 DEF Lined
<1>5. NeverReplayed'
  BY <1>0 DEF NeverReplayed
<1> QED  BY <1>1, <1>2, <1>3, <1>4, <1>5

-----------------------------------------------------------------------------
(* Init, and the steps of the manager as a whole. *)

LEMMA InitEstablishes == Init => IInv
<1> SUFFICES ASSUME Init PROVE IInv  OBVIOUS
<1>1. <<>> \in Seq(Tasks) /\ <<>> \in Seq(TaskRecord) /\ Len(<<>>) = 0
  OBVIOUS
<1>2. Types
  <2>1. queue \in Seq(Tasks) /\ order \in Seq(Tasks) /\ disk \in Seq(TaskRecord) /\ submitted \in 0..MaxTasks
    BY <1>1, Facts DEF Init
  <2> QED  BY <2>1 DEF Init, Types, Idle, Busy
<1>3. Rest /\ Apart /\ \A w \in Workers : WorkerOK(w)
  BY PlaceFacts DEF Init, Rest, Apart, WorkerOK
<1>4. Lined /\ ListOK /\ NeverReplayed
  BY <1>1 DEF Init, Lined, In, ListOK, Distinct, NeverReplayed
<1>5. Shown
  BY DEF Init, Shown, Terminal
<1>6. DiskOK
  BY <1>1, CorruptAssumption DEF Init, DiskOK
<1>7. Kept
  BY <1>1, Facts DEF Init, Kept
<1> QED  BY <1>2, <1>3, <1>4, <1>5, <1>6, <1>7 DEF IInv

\* With no worker at a task there is nothing to keep apart.
LEMMA NobodyWorks ==
    ASSUME IInv, \A w \in Workers : pc'[w] \in Idle, mgr' = "down" => \A w \in Workers : pc'[w] = "none",
           UNCHANGED <<calls, submitted>>, \A t \in Tasks : In(t, queue') => In(t, queue)
    PROVE  Rest' /\ Lined' /\ Apart' /\ NeverReplayed' /\ \A v \in Workers : WorkerOK(v)'
<1>1. \A w \in Workers : pc'[w] \notin Busy
  BY PlaceFacts
<1>2. Lined' /\ NeverReplayed'
  BY DEF IInv, Lined, Waiting, NeverReplayed
<1> QED  BY <1>1, <1>2 DEF Rest, Apart, WorkerOK

LEMMA JoinedKeeps == ASSUME IInv, joined PROVE IInv'
<1>1. /\ mgr = "stopping" /\ mgr' = "down" /\ pc' = [w \in Workers |-> "none"]
      /\ UNCHANGED <<st, key, queue, order, owner, cur, outcome, disk, submitted, acked, calls, final>>
  BY DEF joined, resources, store, hist
<1>2. Types'
  BY <1>1 DEF IInv, Types, Idle
<1>3. ListOK' /\ DiskOK' /\ Shown' /\ (Capacity <= Retention => Kept')
  BY <1>1, DataSame
<1>4. Rest' /\ Lined' /\ Apart' /\ NeverReplayed' /\ \A v \in Workers : WorkerOK(v)'
  BY <1>1, NobodyWorks DEF Idle
<1> QED  BY <1>2, <1>3, <1>4 DEF IInv

LEMMA CrashKeeps == ASSUME IInv, Crash PROVE IInv'
<1>0. <<>> \in Seq(Tasks) /\ Len(<<>>) = 0
  OBVIOUS
<1>1. /\ mgr' = "down" /\ pc' = [w \in Workers |-> "none"] /\ queue' = <<>> /\ order' = <<>>
      /\ owner' = [k \in Keys |-> NoTask] /\ cur' = [w \in Workers |-> NoTask]
      /\ outcome' = [w \in Workers |-> "none"]
      /\ UNCHANGED <<st, key, disk, submitted, acked, calls, final>>
  BY DEF Crash, hist
<1>2. Types'
  BY <1>0, <1>1 DEF IInv, Types, Idle
<1>3. Rest' /\ Lined' /\ Apart' /\ NeverReplayed' /\ \A v \in Workers : WorkerOK(v)'
  <2>1. \A t \in Tasks : In(t, queue') => In(t, queue)
    BY <1>0, <1>1 DEF In
  <2> QED  BY <1>1, <2>1, NobodyWorks DEF Idle
<1>4. ListOK' /\ DiskOK' /\ Shown'
  BY <1>0, <1>1 DEF IInv, ListOK, Distinct, DiskOK, Shown
<1>5. Capacity <= Retention => Kept'
  BY <1>0, <1>1, Facts DEF IInv, Kept, InDisk
<1> QED  BY <1>2, <1>3, <1>4, <1>5 DEF IInv

LEMMA DiskCorruptsKeeps == ASSUME IInv, DiskCorrupts PROVE IInv'
<1>1. /\ disk' = Corrupt /\ acked' = {}
      /\ UNCHANGED <<mgr, st, key, queue, order, owner, pc, cur, outcome, submitted, calls, final>>
  BY DEF DiskCorrupts, resources, threads
<1>2. Types'
  BY <1>1 DEF IInv, Types
<1>3. Rest' /\ Lined' /\ Apart' /\ NeverReplayed' /\ \A v \in Workers : WorkerOK(v)'
  BY <1>1 DEF IInv, Rest, Lined, Waiting, In, Apart, NeverReplayed, WorkerOK
<1>4. ListOK' /\ DiskOK' /\ Shown' /\ (Capacity <= Retention => Kept')
  BY <1>1 DEF IInv, ListOK, Distinct, DiskOK, Shown, Kept
<1> QED  BY <1>2, <1>3, <1>4 DEF IInv

LEMMA ClockKeeps ==
    ASSUME IInv, NEW t \in Tasks, ClockDue(t) \/ ClockLate(t) \/ ClockOverrun(t)
    PROVE  IInv'
<1>1. UNCHANGED <<mgr, disk, acked, st, key, queue, order, owner, pc, cur, outcome, submitted, calls, final>>
  BY DEF ClockDue, ClockLate, ClockOverrun, resources, threads, store, hist
<1>2. Types'
  BY <1>1 DEF IInv, Types
<1>3. Rest' /\ Lined' /\ Apart' /\ NeverReplayed' /\ \A v \in Workers : WorkerOK(v)'
  BY <1>1 DEF IInv, Rest, Lined, Waiting, In, Apart, NeverReplayed, WorkerOK
<1>4. ListOK' /\ DiskOK' /\ Shown' /\ (Capacity <= Retention => Kept')
  BY <1>1, DataSame
<1> QED  BY <1>2, <1>3, <1>4 DEF IInv

-----------------------------------------------------------------------------
(* The steps of the workers. *)

\* persistLockedNoThrow leaves the file alone or replaces a valid one.
LEMMA SaveFacts ==
    ASSUME NEW o, NEW s, Save(o, s)
    PROVE  disk' = disk \/ (disk # Corrupt /\ disk' = Snapshot(o, s))
BY DEF Save, MaySave

LEMMA SavedType ==
    ASSUME Types, order' \in Seq(Tasks), \A i \in 1..Len(order') : st'[order'[i]] \in States,
           disk' = disk \/ (disk # Corrupt /\ disk' = Snapshot(order', st'))
    PROVE  disk' = Corrupt \/ disk' \in Seq(TaskRecord)
<1>1. Snapshot(order', st') \in Seq(TaskRecord)
  BY SnapshotFacts
<1> QED  BY <1>1 DEF Types

\* A worker only works while the manager is up or stopping.
LEMMA AtWork == ASSUME IInv, NEW w \in Workers, pc[w] # "none" PROVE mgr # "down"
BY DEF IInv, Rest

\* Steps that leave the queue, the list and the tasks alone.
LEMMA QuietStep ==
    ASSUME IInv, NEW w \in Workers, pc[w] # "none",
           UNCHANGED <<mgr, st, key, queue, order, cur, submitted, acked, final>>,
           disk' = disk \/ (disk # Corrupt /\ disk' = Snapshot(order, st)),
           pc' \in [Workers -> Idle \cup Busy], pc'[w] \in Busy => pc[w] \in Busy,
           outcome' \in [Workers -> Terminal \cup {"none"}],
           \A v \in Workers \ {w} : pc'[v] \in {pc[v], Woken(pc[v])} /\ outcome'[v] = outcome[v],
           owner' \in [Keys -> Tasks \cup {NoTask}],
           \A v \in Workers \ {w} : pc[v] \in {"owned", "call", "final"} =>
                                        owner'[key[cur[v]]] = owner[key[cur[v]]],
           calls' \in [Tasks -> Nat],
           \A t \in Tasks : calls'[t] # calls[t] => pc[w] \in Early /\ t = cur[w] /\ calls'[t] = 1,
           WorkerOK(w)'
    PROVE  IInv'
<1>0. Types /\ ListOK /\ Shown /\ mgr # "down"
  BY AtWork DEF IInv
<1>1. disk' = Corrupt \/ disk' \in Seq(TaskRecord)
  <2>1. order' \in Seq(Tasks) /\ \A i \in 1..Len(order') : st'[order'[i]] \in States
    BY <1>0 DEF Types, ListOK
  <2>2. disk' = disk \/ (disk # Corrupt /\ disk' = Snapshot(order', st'))
    OBVIOUS
  <2> QED  BY <2>1, <2>2, <1>0, SavedType
<1>2. Types'
  BY <1>0, <1>1 DEF Types
<1>3. ListOK' /\ DiskOK' /\ (Capacity <= Retention => Kept')
  <2>1. Distinct(order') /\ Len(order') <= Len(order)
    BY <1>0 DEF ListOK, Types
  <2>2. disk' = disk \/ (disk # Corrupt /\ disk' = Snapshot(order', st'))
    OBVIOUS
  <2> QED  BY <1>0, <1>2, <2>1, <2>2, DataStep
<1>4. Shown'
  BY <1>0 DEF Shown
<1>5. Rest' /\ Lined' /\ Apart' /\ NeverReplayed' /\ \A v \in Workers : WorkerOK(v)'
  BY <1>2, WorkerMoves
<1> QED  BY <1>2, <1>3, <1>4, <1>5 DEF IInv

LEMMA TimerKeeps == ASSUME IInv, NEW w \in Workers, WorkerTimer(w) PROVE IInv'
<1>1. /\ pc[w] = "timer" /\ pc' = [pc EXCEPT ![w] = "scan"]
      /\ UNCHANGED <<mgr, st, key, queue, order, owner, cur, outcome, disk, submitted, acked, calls, final>>
  BY DEF WorkerTimer, Goto, resources, store, hist
<1>2. /\ pc' \in [Workers -> Idle \cup Busy] /\ pc'[w] = "scan"
      /\ outcome' \in [Workers -> Terminal \cup {"none"}] /\ owner' \in [Keys -> Tasks \cup {NoTask}]
      /\ calls' \in [Tasks -> Nat] /\ \A v \in Workers \ {w} : pc'[v] = pc[v]
  BY <1>1 DEF IInv, Types, Idle
<1>3. WorkerOK(w)' /\ pc'[w] \notin Busy
  BY <1>2 DEF WorkerOK, Busy, Early
<1> QED  BY <1>1, <1>2, <1>3, QuietStep

\* Checkpoints, the call and its return: a task that goes on keeps what it has.
LEMMA CallKeeps ==
    ASSUME IInv, NEW w \in Workers,
           WorkerCheck(w) \/ WorkerCall(w) \/ WorkerCallReturns(w) \/ WorkerFinalCheck(w)
    PROVE  IInv'
<1> DEFINE t == cur[w]
<1>0. Types /\ WorkerOK(w)
  BY DEF IInv
<1>1. UNCHANGED <<mgr, st, key, queue, order, owner, cur, disk, submitted, acked, final>>
  BY DEF WorkerCheck, WorkerCall, WorkerCallReturns, WorkerFinalCheck, resources, store, hist
<1>2. \/ pc[w] = "check" /\ pc' = [pc EXCEPT ![w] = "enter"] /\ outcome' = outcome /\ calls' = calls
      \/ /\ pc[w] \in {"check", "owned", "call", "final"} /\ pc' = [pc EXCEPT ![w] = "finish"]
         /\ \E x \in Terminal : outcome' = [outcome EXCEPT ![w] = x]
         /\ calls' = calls
      \/ pc[w] = "call" /\ pc' = [pc EXCEPT ![w] = "final"] /\ outcome' = outcome /\ calls' = calls
      \/ /\ pc[w] = "owned" /\ pc' = [pc EXCEPT ![w] = "call"] /\ outcome' = outcome
         /\ calls' = [calls EXCEPT ![t] = @ + 1]
  <2>0. pc \in [Workers -> Idle \cup Busy]
    BY <1>0 DEF Types
  <2>1. CASE WorkerCheck(w)
    BY <2>1 DEF WorkerCheck, Checkpoint, Goto, Stopped, Terminal, hist
  <2>2. CASE WorkerCall(w)
    <3>1. CASE MustStop(t)
      BY <2>0, <2>2, <3>1 DEF WorkerCall, Checkpoint, Goto, Stopped, Terminal
    <3>2. CASE ~MustStop(t)
      BY <2>0, <2>2, <3>2 DEF WorkerCall, Checkpoint, Goto
    <3> QED  BY <3>1, <3>2
  <2>3. CASE WorkerCallReturns(w)
    BY <2>3 DEF WorkerCallReturns, Goto, Terminal, hist
  <2>4. CASE WorkerFinalCheck(w)
    BY <2>4 DEF WorkerFinalCheck, Goto, Stopped, Terminal, hist
  <2> QED  BY <2>1, <2>2, <2>3, <2>4
<1>3. pc[w] \in Busy /\ t \in Tasks /\ pc[w] # "none"
  BY <1>0, <1>2, PlaceFacts DEF WorkerOK, Early, Busy
<1>4. /\ pc' \in [Workers -> Idle \cup Busy]
      /\ outcome' \in [Workers -> Terminal \cup {"none"}] /\ owner' \in [Keys -> Tasks \cup {NoTask}]
      /\ \A v \in Workers \ {w} : pc'[v] = pc[v] /\ outcome'[v] = outcome[v]
  BY <1>0, <1>1, <1>2 DEF Types, Busy, Early
<1>5. /\ calls' \in [Tasks -> Nat]
      /\ \A s \in Tasks : calls'[s] # calls[s] => pc[w] \in Early /\ s = cur[w] /\ calls'[s] = 1
  <2>1. CASE calls' = calls
    BY <2>1, <1>0 DEF Types
  <2>2. CASE pc[w] = "owned" /\ calls' = [calls EXCEPT ![t] = @ + 1]
    <3>1. pc[w] \in Early /\ calls[t] = 0 /\ calls \in [Tasks -> Nat]
      BY <2>2, <1>0, <1>3 DEF WorkerOK, Early, Types
    <3> QED  BY <2>2, <3>1, <1>3
  <2> QED  BY <1>2, <2>1, <2>2
<1>6. WorkerOK(w)'
  BY <1>0, <1>1, <1>2, <1>3, <1>4 DEF WorkerOK, Types, Busy, Early
<1> QED  BY <1>1, <1>3, <1>4, <1>5, <1>6, QuietStep

\* acquireResource: a resource that is owned is never taken over.
LEMMA AcquireKeeps ==
    ASSUME IInv, NEW w \in Workers, WorkerEnter(w) \/ WorkerPoll(w)
    PROVE  IInv'
<1> DEFINE t == cur[w]
           k == key[t]
<1>0. Types /\ WorkerOK(w) /\ Apart /\ \A v \in Workers : WorkerOK(v)
  BY DEF IInv
<1>1. /\ UNCHANGED <<mgr, st, key, queue, order, cur, submitted, acked, calls, final>>
      /\ pc[w] \in {"enter", "resWait", "retry"}
  BY DEF WorkerEnter, WorkerPoll, hist
<1>2. disk' = disk \/ (disk # Corrupt /\ disk' = Snapshot(order, st))
  <2>1. Save(order, st) \/ disk' = disk
    BY DEF WorkerEnter, WorkerPoll, store
  <2> QED  BY <2>1, SaveFacts
<1>3. \/ /\ pc' = [pc EXCEPT ![w] = "finish"] /\ owner' = owner
         /\ \E x \in Terminal : outcome' = [outcome EXCEPT ![w] = x]
      \/ /\ pc' = [pc EXCEPT ![w] = "owned"] /\ owner[k] = NoTask
         /\ owner' = [owner EXCEPT ![k] = t] /\ outcome' = outcome
      \/ pc' = [pc EXCEPT ![w] = "resWait"] /\ owner' = owner /\ outcome' = outcome
  <2>1. \E ws : TryOwn(w, ws)
    BY DEF WorkerEnter, WorkerPoll
  <2> QED  BY <2>1 DEF TryOwn, CanOwn, Goto, Stopped, Terminal
<1>4. pc[w] \in Busy /\ pc[w] \in Early /\ t \in Tasks /\ k \in Keys /\ pc[w] # "none"
  BY <1>0, <1>1, PlaceFacts DEF WorkerOK, Early, Busy, Types
<1>5. /\ pc' \in [Workers -> Idle \cup Busy]
      /\ outcome' \in [Workers -> Terminal \cup {"none"}] /\ owner' \in [Keys -> Tasks \cup {NoTask}]
      /\ \A v \in Workers \ {w} : pc'[v] = pc[v] /\ outcome'[v] = outcome[v]
      /\ calls' \in [Tasks -> Nat]
  BY <1>0, <1>1, <1>3, <1>4 DEF Types, Busy, Early
<1>6. ASSUME NEW v \in Workers \ {w}, pc[v] \in {"owned", "call", "final"}
      PROVE  owner'[key[cur[v]]] = owner[key[cur[v]]]
  <2>1. cur[v] \in Tasks /\ owner[key[cur[v]]] = cur[v] /\ key[cur[v]] \in Keys
    BY <1>0, <1>6, PlaceFacts DEF WorkerOK, Types
  <2>2. owner[key[cur[v]]] # NoTask
    BY <2>1, Facts
  <2> QED  BY <2>1, <2>2, <1>0, <1>3, <1>4 DEF Types
<1>7. WorkerOK(w)'
  <2>1. cur'[w] = t /\ key' = key /\ queue' = queue /\ submitted' = submitted /\ calls' = calls
    BY <1>1
  <2>2. t <= submitted /\ ~In(t, queue) /\ calls[t] = 0
    BY <1>0, <1>4 DEF WorkerOK
  <2>3. /\ pc'[w] = "owned" => owner'[k] = t
        /\ pc'[w] = "finish" => outcome'[w] \in Terminal
        /\ pc'[w] \in {"finish", "owned", "resWait"}
    BY <1>0, <1>3, <1>4 DEF Types
  <2> QED  BY <2>1, <2>2, <2>3, <1>4 DEF WorkerOK
<1> QED  BY <1>1, <1>2, <1>4, <1>5, <1>6, <1>7, QuietStep

\* releaseResource: only the owner frees a resource.
LEMMA ReleaseKeeps == ASSUME IInv, NEW w \in Workers, WorkerRelease(w) PROVE IInv'
<1> DEFINE t == cur[w]
           k == key[t]
<1>0. Types /\ WorkerOK(w) /\ Apart /\ \A v \in Workers : WorkerOK(v)
  BY DEF IInv
<1>1. /\ UNCHANGED <<mgr, st, key, queue, order, cur, outcome, disk, submitted, acked, calls, final>>
      /\ pc[w] = "release" /\ owner' = Released(t) /\ pc' = [WakeAll EXCEPT ![w] = "cleanup"]
  BY DEF WorkerRelease, store, hist
<1>2. pc[w] \in Busy /\ t \in Tasks /\ k \in Keys
  BY <1>0, <1>1, PlaceFacts DEF WorkerOK, Types
<1>3. /\ pc' \in [Workers -> Idle \cup Busy] /\ pc'[w] = "cleanup"
      /\ \A v \in Workers \ {w} : pc'[v] = Woken(pc[v])
  <2>1. \A v \in Workers : Woken(pc[v]) \in Idle \cup Busy
    BY <1>0, WokenFacts DEF Types
  <2> QED  BY <1>1, <2>1, PlaceFacts DEF WakeAll
<1>4. owner' \in [Keys -> Tasks \cup {NoTask}]
  BY <1>0, <1>1, <1>2 DEF Released, Types
<1>5. ASSUME NEW v \in Workers \ {w}, pc[v] \in {"owned", "call", "final"}
      PROVE  owner'[key[cur[v]]] = owner[key[cur[v]]]
  <2>1. cur[v] \in Tasks /\ owner[key[cur[v]]] = cur[v] /\ cur[v] # t /\ key[cur[v]] \in Keys
    BY <1>0, <1>2, <1>5, PlaceFacts DEF WorkerOK, Apart, Types
  <2> QED  BY <2>1, <1>0, <1>1, <1>2 DEF Released, Types
<1>6. WorkerOK(w)'
  <2>1. cur'[w] = t /\ queue' = queue /\ submitted' = submitted
    BY <1>1
  <2>2. t <= submitted /\ ~In(t, queue)
    BY <1>0, <1>2 DEF WorkerOK
  <2> QED  BY <2>1, <2>2, <1>2, <1>3 DEF WorkerOK, Early
<1>7. outcome' \in [Workers -> Terminal \cup {"none"}] /\ calls' \in [Tasks -> Nat]
  BY <1>0, <1>1 DEF Types
<1> QED  BY <1>1, <1>2, <1>3, <1>4, <1>5, <1>6, <1>7, QuietStep

\* The end of a task: its state is final before the worker lets go of it.
LEMMA FinishKeeps == ASSUME IInv, NEW w \in Workers, WorkerFinish(w) PROVE IInv'
<1> DEFINE t == cur[w]
<1>0. Types /\ WorkerOK(w) /\ ListOK
  BY DEF IInv
<1>1. /\ UNCHANGED <<mgr, key, queue, order, owner, cur, disk, submitted, acked, calls>>
      /\ pc[w] = "finish" /\ pc' = [pc EXCEPT ![w] = "release"]
      /\ st' = [st EXCEPT ![t] = outcome[w]] /\ Show(st') /\ outcome' = [outcome EXCEPT ![w] = "none"]
  BY DEF WorkerFinish, Goto, resources, store
<1>2. pc[w] \in Busy /\ t \in Tasks /\ outcome[w] \in Terminal /\ mgr # "down"
  BY <1>0, <1>1, PlaceFacts, AtWork DEF WorkerOK
<1>3. /\ st' \in [Tasks -> States \cup {"none"}]
      /\ \A s \in Tasks : st[s] \in States => st'[s] \in States
  BY <1>0, <1>1, <1>2 DEF Types, States
<1>4. /\ final' \in [Tasks -> Terminal \cup {"none"}] /\ Shown'
      /\ \A s \in Tasks : final'[s] = "none" => final[s] = "none"
  BY <1>0, <1>1, <1>3, ShowFacts
<1>5. /\ pc' \in [Workers -> Idle \cup Busy] /\ outcome' \in [Workers -> Terminal \cup {"none"}]
      /\ pc'[w] = "release"
      /\ \A v \in Workers \ {w} : pc'[v] = pc[v] /\ outcome'[v] = outcome[v]
  BY <1>0, <1>1, PlaceFacts DEF Types
<1>6. Types'
  BY <1>0, <1>1, <1>3, <1>4, <1>5 DEF Types
<1>7. ListOK' /\ DiskOK' /\ (Capacity <= Retention => Kept')
  <2>1. Distinct(order') /\ Len(order') <= Len(order) /\ order' = order
    BY <1>0, <1>1 DEF ListOK, Types
  <2> QED  BY <1>1, <1>2, <1>3, <1>4, <1>6, <2>1, DataStep
<1>8. WorkerOK(w)'
  <2>1. cur'[w] = t /\ queue' = queue /\ submitted' = submitted
    BY <1>1
  <2>2. t <= submitted /\ ~In(t, queue)
    BY <1>0, <1>2 DEF WorkerOK
  <2> QED  BY <2>1, <2>2, <1>2, <1>5 DEF WorkerOK, Early
<1>9. Rest' /\ Lined' /\ Apart' /\ NeverReplayed' /\ \A v \in Workers : WorkerOK(v)'
  BY <1>1, <1>2, <1>5, <1>6, <1>8, WorkerMoves
<1> QED  BY <1>4, <1>6, <1>7, <1>9 DEF IInv

\* The last critical section: what is over may be dropped from the list.
LEMMA CleanupKeeps == ASSUME IInv, NEW w \in Workers, WorkerCleanup(w) PROVE IInv'
<1>0. Types /\ ListOK /\ Shown
  BY DEF IInv
<1>1. /\ UNCHANGED <<mgr, st, key, queue, owner, outcome, submitted, acked, calls, final>>
      /\ pc[w] = "cleanup" /\ pc' = [pc EXCEPT ![w] = "scan"] /\ cur' = [cur EXCEPT ![w] = NoTask]
      /\ order' = Pruned(order, st) /\ Save(order', st)
  BY DEF WorkerCleanup, Goto, resources, hist
<1>2. mgr # "down" /\ (disk' = disk \/ (disk # Corrupt /\ disk' = Snapshot(order', st)))
  BY <1>1, SaveFacts, AtWork
<1>3. /\ order' \in Seq(Tasks) /\ Distinct(order') /\ Len(order') <= Len(order)
      /\ \A t \in Tasks : In(t, order') => In(t, order)
      /\ \A t \in Tasks : In(t, order) /\ st[t] \in Active => In(t, order')
  BY <1>0, <1>1, PrunedFacts DEF Types, ListOK
<1>4. disk' = Corrupt \/ disk' \in Seq(TaskRecord)
  <2>1. \A i \in 1..Len(order') : st'[order'[i]] \in States
    <3> SUFFICES ASSUME NEW i \in 1..Len(order') PROVE st[order'[i]] \in States
      BY <1>1
    <3>1. order'[i] \in Tasks /\ In(order'[i], order')
      BY <1>3 DEF In
    <3>2. In(order'[i], order)
      BY <3>1, <1>3
    <3> QED  BY <3>2, <1>0 DEF ListOK, In
  <2> QED  BY <2>1, <1>0, <1>1, <1>2, <1>3, SavedType
<1>5. /\ pc' \in [Workers -> Idle \cup Busy] /\ pc'[w] = "scan" /\ cur' \in [Workers -> Tasks \cup {NoTask}]
      /\ \A v \in Workers \ {w} : pc'[v] = pc[v] /\ cur'[v] = cur[v]
  BY <1>0, <1>1 DEF Types, Idle
<1>6. Types'
  BY <1>0, <1>1, <1>3, <1>4, <1>5 DEF Types
<1>7. ListOK' /\ DiskOK' /\ (Capacity <= Retention => Kept')
  BY <1>1, <1>2, <1>3, <1>6, DataStep, AtWork
<1>8. WorkerOK(w)' /\ pc'[w] \notin Busy
  BY <1>5 DEF WorkerOK, Busy, Early
<1>9. Rest' /\ Lined' /\ Apart' /\ NeverReplayed' /\ \A v \in Workers : WorkerOK(v)'
  BY <1>1, <1>5, <1>6, <1>8, WorkerMoves
<1>10. Shown'
  BY <1>0, <1>1 DEF Shown
<1> QED  BY <1>6, <1>7, <1>9, <1>10 DEF IInv

LEMMA RemainingIn ==
    ASSUME NEW s \in Seq(Tasks), NEW gone, NEW r, r = Remaining(s, gone)
    PROVE  r \in Seq(Tasks) /\ \A t : In(t, r) => In(t, s) /\ t \notin gone
<1>1. Leaves(r, s, gone, Len(s))
  BY RemainingFacts
<1>2. r \in Seq(Tasks) /\ \A i \in 1..Len(r) : r[i] \notin gone /\ \E j \in 1..Len(s) : r[i] = s[j]
  BY <1>1, Zenon DEF Leaves
<1> QED  BY <1>2 DEF In

\* The scan that finds nothing to do: tasks that are late time out.
LEMMA WaitKeeps == ASSUME IInv, NEW w \in Workers, WorkerWait(w) PROVE IInv'
<1> DEFINE gone == ExpiredIn(queue)
<1>0. Types /\ ListOK
  BY DEF IInv
<1>1. /\ UNCHANGED <<mgr, key, order, owner, cur, outcome, submitted, acked, calls>>
      /\ pc[w] = "scan" /\ queue' = Remaining(queue, gone) /\ pc' = [pc EXCEPT ![w] = NextWait(queue')]
      /\ st' = [s \in Tasks |-> IF s \in gone THEN "timed-out" ELSE st[s]] /\ Show(st')
      /\ Save(order, st') \/ disk' = disk
  BY DEF WorkerWait, Goto, resources, store
<1> HIDE DEF gone
<1>2. mgr # "down" /\ (disk' = disk \/ (disk # Corrupt /\ disk' = Snapshot(order', st')))
  BY <1>1, SaveFacts, AtWork
<1>3. queue' \in Seq(Tasks) /\ \A t : In(t, queue') => In(t, queue)
  BY <1>0, <1>1, RemainingIn DEF Types
<1>4. /\ st' \in [Tasks -> States \cup {"none"}]
      /\ \A s \in Tasks : st[s] \in States => st'[s] \in States
  BY <1>0, <1>1 DEF Types, States, Terminal
<1>5. /\ final' \in [Tasks -> Terminal \cup {"none"}] /\ Shown'
      /\ \A s \in Tasks : final'[s] = "none" => final[s] = "none"
  BY <1>0, <1>1, <1>4, ShowFacts
<1>6. /\ pc' \in [Workers -> Idle \cup Busy] /\ pc'[w] \in Idle
      /\ \A v \in Workers \ {w} : pc'[v] = pc[v]
  BY <1>0, <1>1 DEF Types, NextWait, Idle
<1>7. disk' = Corrupt \/ disk' \in Seq(TaskRecord)
  <2>1. order' \in Seq(Tasks) /\ \A i \in 1..Len(order') : st'[order'[i]] \in States
    BY <1>0, <1>1, <1>4 DEF Types, ListOK
  <2> QED  BY <2>1, <1>0, <1>2, SavedType
<1>8. Types'
  BY <1>0, <1>1, <1>3, <1>4, <1>5, <1>6, <1>7 DEF Types
<1>9. ListOK' /\ DiskOK' /\ (Capacity <= Retention => Kept')
  <2>1. Distinct(order') /\ Len(order') <= Len(order) /\ order' = order
    BY <1>0, <1>1 DEF ListOK, Types
  <2> QED  BY <1>1, <1>2, <1>4, <1>5, <1>8, <2>1, DataStep
<1>10. WorkerOK(w)' /\ pc'[w] \notin Busy
  BY <1>6, PlaceFacts DEF WorkerOK
<1>11. Rest' /\ Lined' /\ Apart' /\ NeverReplayed' /\ \A v \in Workers : WorkerOK(v)'
  BY <1>1, <1>3, <1>6, <1>8, <1>10, WorkerMoves
<1> QED  BY <1>5, <1>8, <1>9, <1>11 DEF IInv

\* The scan that takes a task: what was in the queue nobody else works on.
LEMMA TakeKeeps == ASSUME IInv, NEW w \in Workers, WorkerTake(w) PROVE IInv'
<1> DEFINE t == queue[FirstReady(queue)]
           gone == ExpiredIn(queue) \cup {t}
<1>0. Types /\ ListOK /\ Lined /\ Apart /\ Rest /\ NeverReplayed /\ \A v \in Workers : WorkerOK(v)
  BY DEF IInv
<1>1. /\ UNCHANGED <<mgr, key, order, owner, outcome, submitted, acked, calls>>
      /\ pc[w] = "scan" /\ queue' = Remaining(queue, gone) /\ pc' = [pc EXCEPT ![w] = "check"]
      /\ st' = [s \in Tasks |-> IF s = t THEN "running" ELSE IF s \in gone THEN "timed-out" ELSE st[s]]
      /\ Show(st') /\ Save(order, st') /\ cur' = [cur EXCEPT ![w] = t]
      /\ ReadyAt(queue) # {}
  BY DEF WorkerTake, Goto, resources
<1>2. t \in Tasks /\ In(t, queue) /\ t \in gone
  <2>1. ReadyAt(queue) \in SUBSET Nat
    BY DEF ReadyAt
  <2>2. \E i \in ReadyAt(queue) : \A j \in ReadyAt(queue) : i <= j
    BY <2>1, <1>1, LeastNatural
  <2>3. FirstReady(queue) \in ReadyAt(queue)
    BY <2>2, <1>1 DEF FirstReady
  <2>4. FirstReady(queue) \in 1..Len(queue)
    BY <2>3 DEF ReadyAt
  <2> QED  BY <2>4, <1>0 DEF Types, In
<1> HIDE DEF t, gone
<1>3. mgr # "down" /\ (disk' = disk \/ (disk # Corrupt /\ disk' = Snapshot(order', st')))
  BY <1>1, SaveFacts, AtWork
<1>4. queue' \in Seq(Tasks) /\ ~In(t, queue') /\ \A s : In(s, queue') => In(s, queue)
  BY <1>0, <1>1, <1>2, RemainingIn DEF Types
<1>5. /\ st' \in [Tasks -> States \cup {"none"}]
      /\ \A s \in Tasks : st[s] \in States => st'[s] \in States
  BY <1>0, <1>1 DEF Types, States, Terminal, Active
<1>6. /\ final' \in [Tasks -> Terminal \cup {"none"}] /\ Shown'
      /\ \A s \in Tasks : final'[s] = "none" => final[s] = "none"
  BY <1>0, <1>1, <1>5, ShowFacts
<1>7. /\ pc' \in [Workers -> Idle \cup Busy] /\ pc'[w] = "check"
      /\ cur' \in [Workers -> Tasks \cup {NoTask}] /\ cur'[w] = t
      /\ \A v \in Workers \ {w} : pc'[v] = pc[v] /\ cur'[v] = cur[v]
  BY <1>0, <1>1, <1>2 DEF Types, Early, Busy
<1>8. disk' = Corrupt \/ disk' \in Seq(TaskRecord)
  <2>1. order' \in Seq(Tasks) /\ \A i \in 1..Len(order') : st'[order'[i]] \in States
    BY <1>0, <1>1, <1>5 DEF Types, ListOK
  <2> QED  BY <2>1, <1>0, <1>3, SavedType
<1>9. Types'
  BY <1>0, <1>1, <1>4, <1>5, <1>6, <1>7, <1>8 DEF Types
<1>10. ListOK' /\ DiskOK' /\ (Capacity <= Retention => Kept')
  <2>1. Distinct(order') /\ Len(order') <= Len(order) /\ order' = order
    BY <1>0, <1>1 DEF ListOK, Types
  <2> QED  BY <1>1, <1>3, <1>5, <1>6, <1>9, <2>1, DataStep
<1>11. t <= submitted /\ calls[t] = 0
  BY <1>0, <1>2 DEF Lined, Waiting
<1>12. WorkerOK(w)'
  BY <1>1, <1>2, <1>4, <1>7, <1>11 DEF WorkerOK, Early
<1>13. ASSUME NEW v \in Workers \ {w} PROVE WorkerOK(v)' /\ (pc'[v] \in Busy <=> pc[v] \in Busy)
  <2>1. pc[v] \in Busy => ~In(cur[v], queue')
    BY <1>0, <1>4 DEF WorkerOK
  <2>2. submitted <= submitted'
    BY <1>0, <1>1, Facts DEF Types
  <2> QED  BY <2>1, <2>2, <1>0, <1>1, <1>7, <1>9, WorkerStays
<1>14. Apart'
  <2>1. \A v \in Workers \ {w} : pc'[v] \in Busy => pc[v] \in Busy /\ cur'[v] = cur[v] /\ cur[v] # t
    BY <1>0, <1>2, <1>7, <1>13 DEF WorkerOK
  <2> QED  BY <2>1, <1>0, <1>7 DEF Apart
<1>15. Rest' /\ Lined' /\ NeverReplayed'
  BY <1>0, <1>1, <1>3, <1>4 DEF Rest, Lined, Waiting, NeverReplayed
<1> QED  BY <1>6, <1>9, <1>10, <1>12, <1>13, <1>14, <1>15 DEF IInv

-----------------------------------------------------------------------------
(* stop, cancel, submit and start. *)

LEMMA WakeAllFacts ==
    ASSUME Types, pc' = WakeAll
    PROVE  pc' \in [Workers -> Idle \cup Busy] /\ \A v \in Workers : pc'[v] \in {pc[v], Woken(pc[v])}
<1>1. \A v \in Workers : Woken(pc[v]) \in Idle \cup Busy
  BY WokenFacts DEF Types
<1> QED  BY <1>1 DEF WakeAll

\* stop() and cancel(): states of listed tasks change, the queue only shrinks.
LEMMA RequestKeeps ==
    ASSUME IInv, UNCHANGED <<key, order, owner, cur, outcome, submitted, acked, calls>>,
           pc' = WakeAll, Show(st'), Save(order, st'), mgr # "down" \/ mgr' = mgr, mgr' # "down" \/ mgr' = mgr,
           mgr' \in {"down", "up", "stopping"}, mgr # "down" \/ order # <<>>,
           st' \in [Tasks -> States \cup {"none"}], \A s \in Tasks : st[s] \in States => st'[s] \in States,
           queue' \in Seq(Tasks), \A s \in Tasks : In(s, queue') => In(s, queue)
    PROVE  IInv'
<1>0. Types /\ ListOK
  BY DEF IInv
<1>1. disk' = disk \/ (disk # Corrupt /\ disk' = Snapshot(order', st'))
  BY SaveFacts
<1>2. /\ final' \in [Tasks -> Terminal \cup {"none"}] /\ Shown'
      /\ \A s \in Tasks : final'[s] = "none" => final[s] = "none"
  BY <1>0, ShowFacts
<1>3. pc' \in [Workers -> Idle \cup Busy] /\ \A v \in Workers : pc'[v] \in {pc[v], Woken(pc[v])}
  BY <1>0, WakeAllFacts
<1>4. disk' = Corrupt \/ disk' \in Seq(TaskRecord)
  <2>1. order' \in Seq(Tasks) /\ \A i \in 1..Len(order') : st'[order'[i]] \in States
    BY <1>0 DEF Types, ListOK
  <2> QED  BY <2>1, <1>0, <1>1, SavedType
<1>5. Types'
  BY <1>0, <1>2, <1>3, <1>4 DEF Types
<1>6. ListOK' /\ DiskOK' /\ (Capacity <= Retention => Kept')
  <2>1. Distinct(order') /\ Len(order') <= Len(order) /\ order' = order
    BY <1>0 DEF ListOK, Types
  <2> QED  BY <1>1, <1>2, <1>5, <2>1, DataStep
<1>7. Rest' /\ Lined' /\ Apart' /\ NeverReplayed' /\ \A v \in Workers : WorkerOK(v)'
  <2>1. submitted <= submitted'
    BY <1>0, Facts DEF Types
  <2> QED  BY <2>1, <1>3, <1>5, WorkersWait
<1> QED  BY <1>2, <1>5, <1>6, <1>7 DEF IInv

LEMMA StopKeeps == ASSUME IInv, stop PROVE IInv'
<1>0. Types /\ ListOK /\ <<>> \in Seq(Tasks) /\ Len(<<>>) = 0
  BY DEF IInv
<1>1. /\ UNCHANGED <<key, order, owner, cur, outcome, submitted, acked, calls>>
      /\ pc' = WakeAll /\ Show(st') /\ Save(order, st') /\ mgr = "up" /\ mgr' = "stopping" /\ queue' = <<>>
      /\ st' = [t \in Tasks |-> IF \E i \in 1..Len(queue) : queue[i] = t THEN "cancelled" ELSE st[t]]
  BY DEF stop, resources
<1>2. st' \in [Tasks -> States \cup {"none"}] /\ \A s \in Tasks : st[s] \in States => st'[s] \in States
  BY <1>0, <1>1 DEF Types, States, Terminal
<1>3. queue' \in Seq(Tasks) /\ \A s \in Tasks : In(s, queue') => In(s, queue)
  BY <1>0, <1>1 DEF In
<1> QED  BY <1>1, <1>2, <1>3, RequestKeeps

LEMMA CancelKeeps == ASSUME IInv, NEW t \in Tasks, cancel(t) PROVE IInv'
<1>0. Types /\ ListOK
  BY DEF IInv
<1>1. /\ UNCHANGED <<mgr, key, order, owner, cur, outcome, submitted, acked, calls>>
      /\ pc' = WakeAll /\ Show(st') /\ Save(order, st')
      /\ \E i \in 1..Len(order) : order[i] = t
      /\ st' = [st EXCEPT ![t] = "cancelled"] \/ st' = st
      /\ queue' = Dequeued(t) \/ queue' = queue
  BY DEF cancel, resources
<1>2. order # <<>>
  <2>1. Len(<<>>) = 0
    OBVIOUS
  <2> QED  BY <2>1, <1>1
<1>3. st' \in [Tasks -> States \cup {"none"}] /\ \A s \in Tasks : st[s] \in States => st'[s] \in States
  BY <1>0, <1>1 DEF Types, States, Terminal
<1>4. queue' \in Seq(Tasks) /\ \A s \in Tasks : In(s, queue') => In(s, queue)
  BY <1>0, <1>1, RemainingIn DEF Dequeued, Types
<1>5. mgr' \in {"down", "up", "stopping"}
  BY <1>0, <1>1 DEF Types
<1> QED  BY <1>1, <1>2, <1>3, <1>4, <1>5, RequestKeeps

LEMMA WakeOneFacts ==
    ASSUME Types, WakeOne
    PROVE  pc' \in [Workers -> Idle \cup Busy] /\ \A v \in Workers : pc'[v] \in {pc[v], Woken(pc[v])}
<1>1. \A v \in Workers : Woken(pc[v]) \in Idle \cup Busy
  BY WokenFacts DEF Types
<1> QED  BY <1>1 DEF WakeOne, Types

\* The list with a new task t: only tasks that are over make room for it.
NewTask == submitted + 1
NewSt == [st EXCEPT ![NewTask] = "queued"]
NewOrder == Pruned(Append(order, NewTask), NewSt)

LEMMA SubmitList ==
    ASSUME IInv, submitted < MaxTasks, HasRoom,
           NEW t, t = NewTask, NEW s, s = NewSt, NEW o, o = NewOrder
    PROVE  /\ t \in Tasks /\ t \in Nat /\ submitted \in Nat /\ t > submitted /\ ~In(t, order)
           /\ s \in [Tasks -> States \cup {"none"}] /\ s[t] = "queued"
           /\ o \in Seq(Tasks) /\ Distinct(o) /\ Len(o) > 0 /\ o[Len(o)] = t /\ Len(o) <= Len(order) + 1
           /\ \A x \in Tasks : In(x, o) => In(x, order) \/ x = t
           /\ \A x \in Tasks : In(x, order) /\ st[x] \in Active => In(x, o)
           /\ Capacity <= Retention => Len(o) <= Retention
<1>0. /\ Types /\ ListOK /\ order \in Seq(Tasks) /\ Len(order) \in Nat
      /\ st \in [Tasks -> States \cup {"none"}] /\ Retention \in Nat
  BY Facts DEF IInv, Types
<1>a. t = submitted + 1 /\ s = [st EXCEPT ![t] = "queued"] /\ o = Pruned(Append(order, t), s)
  BY DEF NewTask, NewSt, NewOrder
<1>1. t \in Tasks /\ t \in Nat /\ submitted \in Nat /\ t > submitted
  BY <1>0, <1>a, Facts DEF Types, Tasks
<1>2. \A i \in 1..Len(order) : order[i] # t
  <2>1. \A n \in Nat : n <= submitted => n # t
    BY <1>1
  <2> QED  BY <2>1, <1>0, Facts DEF ListOK
<1>3. s \in [Tasks -> States \cup {"none"}] /\ s[t] = "queued" /\ \A x \in Tasks : x # t => s[x] = st[x]
  BY <1>0, <1>1, <1>a DEF States, Active
<1> DEFINE a == Append(order, t)
<1>4. /\ a \in Seq(Tasks) /\ Len(a) = Len(order) + 1 /\ a[Len(order) + 1] = t
      /\ \A i \in 1..Len(order) : a[i] = order[i]
  BY <1>0, <1>1
<1>5. (\A i \in 1..Len(a) : i \in 1..Len(order) \/ i = Len(order) + 1)
      /\ (\A i \in 1..Len(order) : i \in 1..Len(a)) /\ Len(order) + 1 \in 1..Len(a)
  BY <1>0, <1>4
<1> HIDE DEF a
<1>6. Distinct(a)
  BY <1>0, <1>2, <1>4, <1>5 DEF Distinct, ListOK
<1>7. "queued" \in Active
  BY DEF Active
<1>8. /\ o \in Seq(Tasks) /\ Len(o) <= Len(a) /\ Distinct(o)
      /\ \A x : In(x, o) => In(x, a)
      /\ \A x : In(x, a) /\ s[x] \in Active => In(x, o)
      /\ Len(a) > 0 /\ s[a[Len(a)]] \in Active => Len(o) > 0 /\ o[Len(o)] = a[Len(a)]
      /\ Len(a) = Retention + 1 /\ (\E i \in 1..Len(a) : s[a[i]] \notin Active) => Len(o) <= Retention
  <2>1. o = Pruned(a, s)
    BY <1>a DEF a
  <2> QED  BY <2>1, <1>4, <1>6, PrunedFacts
<1>9. Len(o) > 0 /\ o[Len(o)] = t
  <2>1. Len(a) > 0 /\ a[Len(a)] = t
    BY <1>0, <1>4
  <2> QED  BY <2>1, <1>3, <1>7, <1>8
<1>10. \A x \in Tasks : In(x, o) => In(x, order) \/ x = t
  <2> SUFFICES ASSUME NEW x \in Tasks, In(x, o), x # t PROVE In(x, order)
    OBVIOUS
  <2>1. PICK i \in 1..Len(a) : a[i] = x
    BY <1>8 DEF In
  <2>2. i \in 1..Len(order)
    BY <2>1, <1>4, <1>5
  <2> QED  BY <2>1, <2>2, <1>4 DEF In
<1>11. ASSUME NEW x \in Tasks, In(x, order), st[x] \in Active PROVE In(x, o)
  <2>1. x # t /\ In(x, a)
    BY <1>2, <1>4, <1>5, <1>11 DEF In
  <2> QED  BY <2>1, <1>3, <1>8, <1>11
<1>12. ASSUME Capacity <= Retention PROVE Len(o) <= Retention
  <2>1. Len(order) <= Retention /\ Len(o) \in Nat
    BY <1>8, <1>12 DEF IInv, Kept
  <2>2. CASE Len(order) = Retention
    <3>1. PICK i \in 1..Len(order) : st[order[i]] \notin Active
      BY <2>2, <1>0, <1>12, RoomFacts DEF ListOK
    <3>2. order[i] \in Tasks /\ order[i] # t
      BY <1>0, <1>2
    <3>3. i \in 1..Len(a) /\ s[a[i]] \notin Active
      BY <3>1, <3>2, <1>3, <1>4, <1>5
    <3>4. Len(a) = Retention + 1
      BY <2>2, <1>4
    <3> QED  BY <3>3, <3>4, <1>8
  <2>3. CASE Len(order) # Retention
    BY <2>1, <2>3, <1>0, <1>4, <1>8
  <2> QED  BY <2>2, <2>3
<1>13. Len(o) <= Len(order) + 1
  BY <1>4, <1>8
<1> QED  BY <1>1, <1>2, <1>3, <1>8, <1>9, <1>10, <1>11, <1>12, <1>13 DEF In

\* A list without its last element.
ButLast(o) == SubSeq(o, 1, Len(o) - 1)

LEMMA FrontFacts ==
    ASSUME NEW o \in Seq(Tasks), Len(o) > 0, Distinct(o), NEW f, f = ButLast(o)
    PROVE  /\ f \in Seq(Tasks) /\ Len(f) = Len(o) - 1 /\ Distinct(f)
           /\ \A x : In(x, f) <=> In(x, o) /\ x # o[Len(o)]
<1> DEFINE n == Len(o)
<1>0. n \in Nat /\ n \in 1..n /\ \A i \in 1..n : i \in 1..(n - 1) \/ i = n
  OBVIOUS
<1>1. f \in Seq(Tasks) /\ Len(f) = n - 1 /\ \A i \in 1..(n - 1) : f[i] = o[i]
  <2>1. \A i \in 1..(n - 1) : o[i] \in Tasks
    BY <1>0
  <2> HIDE DEF n
  <2>2. 1 \in Int /\ n - 1 \in Int /\ (IF 1 <= n - 1 THEN (n - 1) - 1 + 1 ELSE 0) = n - 1
        /\ (n - 1) - 1 + 1 = n - 1 /\ \A i \in 1..(n - 1) : 1 + i - 1 = i
    <3>1. \A m \in Nat : m > 0 => /\ m - 1 \in Int /\ (m - 1) - 1 + 1 = m - 1
                                  /\ (IF 1 <= m - 1 THEN (m - 1) - 1 + 1 ELSE 0) = m - 1
      OBVIOUS
    <3>2. \A i \in Int : 1 + i - 1 = i
      OBVIOUS
    <3>3. n \in Nat /\ n > 0 /\ \A i \in 1..(n - 1) : i \in Int
      BY <1>0
    <3> QED  BY <3>1, <3>2, <3>3
  <2>3. /\ SubSeq(o, 1, n - 1) \in Seq(Tasks)
        /\ Len(SubSeq(o, 1, n - 1)) = IF 1 <= n - 1 THEN (n - 1) - 1 + 1 ELSE 0
        /\ \A i \in 1..((n - 1) - 1 + 1) : SubSeq(o, 1, n - 1)[i] = o[1 + i - 1]
    BY <2>1, <2>2, SubSeqProperties
  <2>4. f = SubSeq(o, 1, n - 1)
    BY DEF n, ButLast
  <2> QED  BY <2>2, <2>3, <2>4
<1>2. \A i \in 1..(n - 1) : i \in 1..n /\ i # n
  BY <1>0
<1>3. Distinct(f)
  BY <1>1, <1>2 DEF Distinct
<1>4. ASSUME NEW x PROVE In(x, f) <=> In(x, o) /\ x # o[n]
  BY <1>0, <1>1, <1>2 DEF In, Distinct
<1> QED  BY <1>1, <1>3, <1>4

\* submit(): accepted tasks are saved with the list; one that could not be saved
\* is taken off the list again.
LEMMA SubmitKeeps == ASSUME IInv, NEW k \in Keys, NEW isDue \in BOOLEAN, submit(k, isDue) PROVE IInv'
<1> DEFINE t == NewTask
           s == NewSt
           o == NewOrder
<1>0. Types /\ ListOK /\ Shown /\ DiskOK
  BY DEF IInv
<1>a. t = submitted + 1 /\ s = [st EXCEPT ![t] = "queued"]
  BY DEF NewTask, NewSt
<1>1. /\ mgr = "up" /\ submitted < MaxTasks /\ HasRoom /\ submitted' = t
      /\ UNCHANGED <<mgr, key, owner, cur, outcome, calls, final>>
  BY DEF submit, resources, NewTask
<1>2. \/ /\ disk # Corrupt /\ disk' = Snapshot(o, s) /\ st' = s /\ order' = o /\ queue' = Append(queue, t)
         /\ acked' = acked \cup {t} /\ WakeOne
      \/ order' = ButLast(o) /\ UNCHANGED <<disk, st, queue, acked, pc>>
  BY DEF submit, MaySave, NewTask, NewSt, NewOrder, ButLast
<1> HIDE DEF t, s, o
<1>3. /\ t \in Tasks /\ t \in Nat /\ submitted \in Nat /\ t > submitted /\ ~In(t, order)
      /\ s \in [Tasks -> States \cup {"none"}] /\ s[t] = "queued"
      /\ o \in Seq(Tasks) /\ Distinct(o) /\ Len(o) > 0 /\ o[Len(o)] = t /\ Len(o) <= Len(order) + 1
      /\ \A x \in Tasks : In(x, o) => In(x, order) \/ x = t
      /\ \A x \in Tasks : In(x, order) /\ st[x] \in Active => In(x, o)
      /\ (Capacity <= Retention => Len(o) <= Retention)
  BY <1>1, SubmitList DEF t, s, o
<1>4. \A x \in Tasks : x # t => s[x] = st[x]
  BY <1>0, <1>a DEF Types
<1>5. t \in 0..MaxTasks /\ submitted <= t /\ t <= t
  BY <1>a, <1>1, <1>3, Facts
<1>6. CASE /\ disk # Corrupt /\ disk' = Snapshot(o, s) /\ st' = s /\ order' = o /\ queue' = Append(queue, t)
           /\ acked' = acked \cup {t} /\ WakeOne
  <2>0. \A n \in Nat : n <= submitted => n <= t
    BY <1>3
  <2>1. \A i \in 1..Len(o) : o[i] \in Tasks /\ o[i] <= t /\ s[o[i]] \in States
    <3> SUFFICES ASSUME NEW i \in 1..Len(o) PROVE o[i] \in Tasks /\ o[i] <= t /\ s[o[i]] \in States
      OBVIOUS
    <3>1. o[i] \in Tasks /\ In(o[i], o)
      BY <1>3 DEF In
    <3>2. CASE o[i] = t
      BY <3>2, <1>3, <1>5 DEF States, Active
    <3>3. CASE o[i] # t
      <4>1. PICK j \in 1..Len(order) : order[j] = o[i]
        BY <3>1, <3>3, <1>3 DEF In
      <4>2. o[i] <= submitted /\ st[o[i]] \in States
        BY <4>1, <1>0 DEF ListOK
      <4> QED  BY <3>1, <3>3, <4>2, <2>0, <1>4, Facts
    <3> QED  BY <3>2, <3>3
  <2>2. /\ disk' \in Seq(TaskRecord) /\ Len(disk') = Len(o) /\ disk' # Corrupt
        /\ \A i \in 1..Len(o) : disk'[i].id = o[i]
    BY <2>1, <1>3, <1>6, SnapshotFacts
  <2>3. queue' \in Seq(Tasks) /\ \A x \in Tasks : In(x, queue') => In(x, queue) \/ x = t
    <3>1. queue \in Seq(Tasks)
      BY <1>0 DEF Types
    <3>2. /\ queue' \in Seq(Tasks) /\ Len(queue') = Len(queue) + 1 /\ queue'[Len(queue) + 1] = t
          /\ \A i \in 1..Len(queue) : queue'[i] = queue[i]
      BY <3>1, <1>3, <1>6
    <3>3. \A i \in 1..Len(queue') : i \in 1..Len(queue) \/ i = Len(queue) + 1
      BY <3>1, <3>2
    <3> QED  BY <3>2, <3>3 DEF In
  <2>4. pc' \in [Workers -> Idle \cup Busy] /\ \A v \in Workers : pc'[v] \in {pc[v], Woken(pc[v])}
    BY <1>0, <1>6, WakeOneFacts
  <2>5. Types'
    <3>1. acked' \subseteq Tasks /\ st' \in [Tasks -> States \cup {"none"}] /\ order' \in Seq(Tasks)
          /\ submitted' \in 0..MaxTasks
      BY <1>0, <1>1, <1>3, <1>5, <1>6 DEF Types
    <3> QED  BY <3>1, <1>0, <1>1, <2>2, <2>3, <2>4 DEF Types
  <2>6. ListOK' /\ DiskOK'
    BY <2>1, <2>2, <1>1, <1>3, <1>6 DEF ListOK, DiskOK, Distinct
  <2>7. Shown'
    <3>1. s[t] \notin Terminal
      BY <1>3 DEF Terminal
    <3> QED  BY <3>1, <1>0, <1>1, <1>4, <1>6 DEF Shown
  <2>8. Rest' /\ Lined' /\ Apart' /\ NeverReplayed' /\ \A v \in Workers : WorkerOK(v)'
    <3>1. \A x \in Tasks : In(x, queue') => In(x, queue) \/ (x > submitted /\ x <= submitted')
      BY <2>3, <1>1, <1>3, <1>5
    <3>2. submitted <= submitted'
      BY <1>1, <1>5
    <3> QED  BY <3>1, <3>2, <1>1, <2>4, <2>5, WorkersWait
  <2>9. ASSUME Capacity <= Retention PROVE Kept'
    <3>0. Kept
      BY <2>9 DEF IInv
    <3>1. Len(order') <= Retention /\ Len(disk') <= Retention
      BY <2>2, <2>9, <1>3, <1>6
    <3>2. ASSUME NEW x \in acked', final'[x] = "none" PROVE In(x, o)
      <4>1. CASE x = t
        <5>1. Len(o) \in 1..Len(o)
          BY <1>3
        <5> QED  BY <4>1, <5>1, <1>3 DEF In
      <4>2. CASE x # t
        <5>1. x \in acked /\ x \in Tasks /\ final[x] = "none"
          BY <3>2, <4>2, <1>0, <1>1, <1>6 DEF Types
        <5>2. In(x, order)
          BY <5>1, <3>0, <1>1 DEF Kept, Listed, In
        <5>3. st[x] \in Active
          BY <5>1, <5>2, <1>0 DEF ListOK, Shown, In, States
        <5> QED  BY <5>1, <5>2, <5>3, <1>3
      <4> QED  BY <4>1, <4>2
    <3>3. ASSUME NEW x \in acked', final'[x] = "none" PROVE Listed(x)' /\ InDisk(x)'
      BY <3>2, <3>3, <2>2, <1>6 DEF Listed, InDisk, In
    <3> QED  BY <3>1, <3>3 DEF Kept
  <2> QED  BY <2>5, <2>6, <2>7, <2>8, <2>9 DEF IInv
<1>7. CASE order' = ButLast(o) /\ UNCHANGED <<disk, st, queue, acked, pc>>
  <2>1. /\ order' \in Seq(Tasks) /\ Len(order') = Len(o) - 1 /\ Distinct(order')
        /\ \A x : In(x, order') <=> In(x, o) /\ x # o[Len(o)]
    BY <1>3, <1>7, FrontFacts
  <2>2. Len(order') <= Len(order)
    BY <2>1, <1>0, <1>3 DEF Types
  <2>3. /\ \A x \in Tasks : In(x, order') => In(x, order)
        /\ \A x \in Tasks : In(x, order) /\ st[x] \in Active => In(x, order')
    BY <2>1, <1>3
  <2>4. Types'
    BY <2>1, <1>0, <1>1, <1>5, <1>7 DEF Types
  <2>5. ListOK' /\ DiskOK' /\ (Capacity <= Retention => Kept')
    BY <2>1, <2>2, <2>3, <2>4, <1>a, <1>1, <1>7, DataStep
  <2>6. Shown'
    BY <1>0, <1>1, <1>7 DEF Shown
  <2>7. Rest' /\ Lined' /\ Apart' /\ NeverReplayed' /\ \A v \in Workers : WorkerOK(v)'
    <3>1. submitted <= submitted'
      BY <1>1, <1>5
    <3> QED  BY <3>1, <1>1, <1>7, <2>4, WorkersWait
  <2> QED  BY <2>4, <2>5, <2>6, <2>7 DEF IInv
<1> QED  BY <1>2, <1>6, <1>7

\* What loadLocked takes from the snapshot.
LEMMA LoadedFacts ==
    ASSUME IInv, disk # Corrupt
    PROVE  /\ LoadedOrder \in Seq(Tasks) /\ Len(LoadedOrder) <= Retention /\ Distinct(LoadedOrder)
           /\ \A t \in Tasks : In(t, LoadedOrder) => t <= submitted /\ LoadedSt[t] \in Terminal
           /\ LoadedSt \in [Tasks -> Terminal \cup {"none"}]
           /\ Len(disk) <= Retention => \A t \in Tasks : InDisk(t) => In(t, LoadedOrder)
<1> DEFINE n == Len(disk)
           b == IF n > Retention THEN n - Retention ELSE 0
           m == n - b
<1>0. disk \in Seq(TaskRecord) /\ n \in Nat /\ Retention \in Nat /\ DiskOK
  BY Facts DEF IInv, Types
<1>1. /\ b \in Nat /\ m \in Nat /\ b <= n /\ m <= Retention /\ (n <= Retention => b = 0 /\ m = n)
      /\ b + 1 \in Int /\ n \in Int /\ (IF b + 1 <= n THEN n - (b + 1) + 1 ELSE 0) = m
      /\ n - (b + 1) + 1 = m
  <2> HIDE DEF n
  <2>1. /\ b \in Nat /\ b <= n /\ n - b \in Nat /\ n - b <= Retention
        /\ (n <= Retention => b = 0 /\ n - b = n)
    BY <1>0
  <2>2. \A x, y \in Nat : y <= x => /\ y + 1 \in Int /\ x \in Int /\ x - (y + 1) + 1 = x - y
                                    /\ (IF y + 1 <= x THEN x - (y + 1) + 1 ELSE 0) = x - y
    OBVIOUS
  <2> HIDE DEF b
  <2> QED  BY <1>0, <2>1, <2>2
<1>2. Loaded = SubSeq(disk, b + 1, n)
  BY DEF Loaded
<1>3. \A i \in 1..n : disk[i] \in TaskRecord
  BY <1>0
<1> HIDE DEF n, b, m
<1>4. (\A i \in (b + 1)..n : i \in 1..n) /\ (\A i \in 1..m : b + 1 + i - 1 = b + i /\ b + i \in 1..n)
  <2>1. \A x, y, z \in Nat : z = y - x /\ x <= y =>
            /\ \A i \in (x + 1)..y : i \in 1..y
            /\ \A i \in 1..z : x + 1 + i - 1 = x + i /\ x + i \in 1..y
    OBVIOUS
  <2>2. m = n - b /\ b <= n /\ m \in Nat /\ b \in Nat /\ n \in Nat
    BY <1>0, <1>1 DEF m
  <2> QED  BY <2>1, <2>2
<1>5. /\ Loaded \in Seq(TaskRecord) /\ Len(Loaded) = m
      /\ \A i \in 1..m : Loaded[i] = disk[b + i]
  <2>1. \A i \in (b + 1)..n : disk[i] \in TaskRecord
    BY <1>3, <1>4
  <2>2. /\ SubSeq(disk, b + 1, n) \in Seq(TaskRecord)
        /\ Len(SubSeq(disk, b + 1, n)) = IF b + 1 <= n THEN n - (b + 1) + 1 ELSE 0
        /\ \A i \in 1..(n - (b + 1) + 1) : SubSeq(disk, b + 1, n)[i] = disk[b + 1 + i - 1]
    BY <2>1, <1>1, SubSeqProperties
  <2>3. \A i \in 1..m : SubSeq(disk, b + 1, n)[i] = disk[b + 1 + i - 1]
    BY <2>2, <1>1
  <2> QED  BY <2>2, <2>3, <1>1, <1>2, <1>4
<1>6. \A i \in 1..m : Loaded[i] \in TaskRecord /\ Loaded[i].id \in Tasks /\ Loaded[i].st \in States
  <2>1. \A r \in TaskRecord : r.id \in Tasks /\ r.st \in States
    BY DEF TaskRecord, States
  <2> QED  BY <2>1, <1>3, <1>4, <1>5
<1>7. /\ LoadedOrder \in Seq(Tasks) /\ Len(LoadedOrder) = m
      /\ \A i \in 1..m : LoadedOrder[i] = Loaded[i].id
  <2>1. LoadedOrder = [i \in 1..m |-> Loaded[i].id]
    BY <1>5 DEF LoadedOrder
  <2>2. LoadedOrder \in [1..m -> Tasks]
    BY <2>1, <1>6
  <2> QED  BY <2>1, <2>2, <1>1, ListOf
<1>8. Distinct(LoadedOrder)
  <2> SUFFICES ASSUME NEW i \in 1..m, NEW j \in 1..m, disk[b + i].id = disk[b + j].id PROVE i = j
    BY <1>5, <1>7 DEF Distinct
  <2>1. b + i = b + j
    BY <1>0, <1>4 DEF DiskOK, n
  <2> QED  BY <2>1, <1>1
<1>9. \A x \in States : LoadedState(x) \in Terminal
  BY DEF LoadedState, States, Active, Terminal
<1>10. ASSUME NEW t \in Tasks, In(t, LoadedOrder) PROVE t <= submitted /\ LoadedSt[t] \in Terminal
  <2>1. PICK i \in 1..m : Loaded[i].id = t
    BY <1>7, <1>10 DEF In
  <2>2. t <= submitted
    BY <2>1, <1>0, <1>4, <1>5 DEF DiskOK, n
  <2>3. \E j \in 1..Len(Loaded) : Loaded[j].id = t
    BY <2>1, <1>5
  <2> DEFINE c == CHOOSE j \in 1..Len(Loaded) : Loaded[j].id = t
  <2>4. c \in 1..m
    BY <2>3, <1>5
  <2>5. LoadedSt[t] = LoadedState(Loaded[c].st)
    BY <2>3 DEF LoadedSt
  <2> HIDE DEF c
  <2> QED  BY <2>2, <2>4, <2>5, <1>6, <1>9
<1>11. LoadedSt \in [Tasks -> Terminal \cup {"none"}]
  <2>1. ASSUME NEW t \in Tasks, ~In(t, LoadedOrder) PROVE LoadedSt[t] = "none"
    <3>1. ~\E j \in 1..Len(Loaded) : Loaded[j].id = t
      BY <2>1, <1>5, <1>7 DEF In
    <3> QED  BY <3>1 DEF LoadedSt
  <2>2. LoadedSt = [t \in Tasks |-> LoadedSt[t]]
    BY DEF LoadedSt
  <2> QED  BY <2>1, <2>2, <1>10
<1>12. ASSUME n <= Retention, NEW t \in Tasks, InDisk(t) PROVE In(t, LoadedOrder)
  <2>1. PICK i \in 1..n : disk[i].id = t
    BY <1>12 DEF InDisk, n
  <2>2. b + i = i /\ i \in 1..m
    BY <1>0, <1>1, <1>12
  <2> QED  BY <2>1, <2>2, <1>5, <1>7 DEF In
<1> QED  BY <1>1, <1>7, <1>8, <1>10, <1>11, <1>12 DEF n

\* No loaded task is queued again.
LEMMA LoadedQueueEmpty ==
    ASSUME IInv, disk # Corrupt
    PROVE  LoadedQueue \in Seq(Tasks) /\ \A t \in Tasks : ~In(t, LoadedQueue)
<1> DEFINE gone == {t \in Tasks : LoadedSt[t] # "queued"}
<1>1. LoadedQueue = Remaining(LoadedOrder, gone)
  BY DEF LoadedQueue
<1>2. \A t \in Tasks : t \in gone
  BY LoadedFacts DEF Terminal
<1> HIDE DEF gone
<1> QED  BY <1>1, <1>2, LoadedFacts, RemainingIn

\* start(): what was not over when the Runtime went down is shown as interrupted.
LEMMA StartKeeps == ASSUME IInv, start PROVE IInv'
<1>0. Types /\ DiskOK /\ Shown /\ <<>> \in Seq(Tasks) /\ Len(<<>>) = 0
  BY DEF IInv
<1>1. /\ mgr' = "up" /\ owner' = [k \in Keys |-> NoTask] /\ pc' = [w \in Workers |-> "scan"]
      /\ UNCHANGED <<key, cur, outcome, submitted, acked, calls>>
  BY DEF start
<1>2. \A w \in Workers : pc'[w] \in Idle
  BY <1>1 DEF Idle
<1>3. CASE disk # Corrupt
  <2>1. /\ queue' = LoadedQueue /\ order' = Pruned(LoadedOrder, LoadedSt) /\ st' = LoadedSt /\ Show(st')
        /\ disk' = disk \/ disk' = Snapshot(order', st')
    BY <1>3 DEF start
  <2>2. /\ LoadedOrder \in Seq(Tasks) /\ Len(LoadedOrder) <= Retention /\ Distinct(LoadedOrder)
        /\ \A t \in Tasks : In(t, LoadedOrder) => t <= submitted /\ LoadedSt[t] \in Terminal
        /\ LoadedSt \in [Tasks -> Terminal \cup {"none"}]
        /\ (Len(disk) <= Retention => \A t \in Tasks : InDisk(t) => In(t, LoadedOrder))
    BY <1>3, LoadedFacts
  <2>3. /\ order' \in Seq(Tasks) /\ Len(order') <= Len(LoadedOrder) /\ Distinct(order')
        /\ \A t : In(t, order') => In(t, LoadedOrder)
    BY <2>1, <2>2, PrunedFacts
  <2>4. \A i \in 1..Len(order') : order'[i] <= submitted /\ st'[order'[i]] \in States
    <3> SUFFICES ASSUME NEW i \in 1..Len(order') PROVE order'[i] <= submitted /\ st'[order'[i]] \in States
      OBVIOUS
    <3>1. order'[i] \in Tasks /\ In(order'[i], order')
      BY <2>3 DEF In
    <3> QED  BY <3>1, <2>1, <2>2, <2>3 DEF States
  <2>5. st' \in [Tasks -> States \cup {"none"}]
    BY <2>1, <2>2 DEF States
  <2>6. final' \in [Tasks -> Terminal \cup {"none"}] /\ Shown'
        /\ \A t \in Tasks : final'[t] = "none" => final[t] = "none"
    BY <2>1, <2>5, <1>0, ShowFacts
  <2>7. /\ Snapshot(order', st') \in Seq(TaskRecord) /\ Len(Snapshot(order', st')) = Len(order')
        /\ \A i \in 1..Len(order') : Snapshot(order', st')[i].id = order'[i]
        /\ Snapshot(order', st') # Corrupt
    BY <2>3, <2>4, SnapshotFacts
  <2>8. queue' \in Seq(Tasks) /\ \A t \in Tasks : ~In(t, queue')
    BY <2>1, <1>3, LoadedQueueEmpty
  <2>9. Types'
    BY <1>0, <1>1, <2>1, <2>3, <2>5, <2>6, <2>7, <2>8 DEF Types, Idle
  <2>10. ListOK'
    BY <1>1, <2>3, <2>4 DEF ListOK
  <2>11. DiskOK'
    <3>1. CASE disk' = disk
      BY <3>1, <1>0, <1>1 DEF DiskOK
    <3>2. CASE disk' = Snapshot(order', st')
      BY <3>2, <1>1, <2>3, <2>4, <2>7 DEF DiskOK, Distinct
    <3> QED  BY <2>1, <3>1, <3>2
  <2>12. Rest' /\ Lined' /\ Apart' /\ NeverReplayed' /\ \A v \in Workers : WorkerOK(v)'
    BY <1>1, <1>2, <2>8, NobodyWorks
  <2>13. ASSUME Capacity <= Retention PROVE Kept'
    <3>0. Kept
      BY <2>13 DEF IInv
    <3>1. Len(disk) <= Retention
      BY <3>0, <1>3 DEF Kept
    <3>2. Len(order') <= Retention
      <4>1. Len(order') \in Nat /\ Len(LoadedOrder) \in Nat /\ Retention \in Nat
        BY <2>2, <2>3, Facts
      <4> QED  BY <4>1, <2>2, <2>3
    <3>3. disk' # Corrupt => Len(disk') <= Retention
      BY <3>1, <3>2, <2>1, <2>7
    <3>4. ASSUME NEW t \in acked', final'[t] = "none" PROVE FALSE
      <4>1. t \in Tasks /\ t \in acked /\ final[t] = "none"
        BY <3>4, <1>0, <1>1, <2>6 DEF Types
      <4>2. In(t, LoadedOrder)
        BY <4>1, <3>0, <3>1, <2>2 DEF Kept
      <4>3. st'[t] \in Terminal
        BY <4>1, <4>2, <2>1, <2>2
      <4> QED  BY <4>1, <4>3, <3>4, <2>6 DEF Shown
    <3> QED  BY <3>2, <3>3, <3>4 DEF Kept
  <2> QED  BY <2>6, <2>9, <2>10, <2>11, <2>12, <2>13 DEF IInv
<1>4. CASE disk = Corrupt
  <2>1. /\ queue' = <<>> /\ order' = <<>> /\ st' = [t \in Tasks |-> "none"] /\ UNCHANGED <<final, disk>>
    BY <1>4 DEF start
  <2>2. Types'
    BY <1>0, <1>1, <2>1 DEF Types, Idle
  <2>3. \A t \in Tasks : In(t, queue') => In(t, queue)
    BY <2>1, <1>0 DEF In
  <2>4. Rest' /\ Lined' /\ Apart' /\ NeverReplayed' /\ \A v \in Workers : WorkerOK(v)'
    BY <1>1, <1>2, <2>3, NobodyWorks
  <2>5. ListOK' /\ DiskOK'
    BY <1>0, <1>1, <1>4, <2>1 DEF ListOK, Distinct, DiskOK
  <2>6. Shown'
    BY <2>1 DEF Shown, Terminal
  <2>7. Kept'
    <3>1. 0 <= Retention /\ acked' = {}
      BY <1>0, <1>1, <1>4, Facts DEF DiskOK
    <3> QED  BY <3>1, <1>0, <1>4, <2>1 DEF Kept
  <2> QED  BY <2>2, <2>4, <2>5, <2>6, <2>7 DEF IInv
<1> QED  BY <1>3, <1>4

LEMMA NextKeeps == ASSUME IInv, [Next]_vars PROVE IInv'
<1>1. CASE start \/ stop \/ joined \/ Crash \/ DiskCorrupts
  BY <1>1, StartKeeps, StopKeeps, JoinedKeeps, CrashKeeps, DiskCorruptsKeeps
<1>2. CASE \E k \in Keys, isDue \in BOOLEAN : submit(k, isDue)
  BY <1>2, SubmitKeeps
<1>3. CASE \E t \in Tasks : cancel(t) \/ ClockDue(t) \/ ClockLate(t) \/ ClockOverrun(t)
  BY <1>3, CancelKeeps, ClockKeeps
<1>4. CASE \E w \in Workers : WorkerStep(w) \/ WorkerCallReturns(w)
  BY <1>4, TakeKeeps, WaitKeeps, TimerKeeps, CallKeeps, AcquireKeeps, FinishKeeps, ReleaseKeeps, CleanupKeeps
     DEF WorkerStep
<1>5. CASE UNCHANGED vars
  <2>1. UNCHANGED <<mgr, disk, acked, st, key, queue, order, owner, pc, cur, outcome, submitted, calls, final>>
    BY <1>5 DEF vars, resources, threads, store, hist
  <2>2. Types'
    BY <2>1 DEF IInv, Types
  <2>3. Rest' /\ Lined' /\ Apart' /\ NeverReplayed' /\ \A v \in Workers : WorkerOK(v)'
    BY <2>1 DEF IInv, Rest, Lined, Waiting, In, Apart, NeverReplayed, WorkerOK
  <2>4. ListOK' /\ DiskOK' /\ Shown' /\ (Capacity <= Retention => Kept')
    BY <2>1, DataSame
  <2> QED  BY <2>2, <2>3, <2>4 DEF IInv
<1> QED  BY <1>1, <1>2, <1>3, <1>4, <1>5 DEF Next

-----------------------------------------------------------------------------
(* The results. *)

\* The inductive invariant holds in every reachable state of the manager, across
\* any number of crashes, restarts, failed writes and damaged snapshots.
THEOREM TasksInvariance == Spec => []IInv
<1>1. IInv /\ [Next]_vars => IInv'
  BY NextKeeps
<1> QED  BY <1>1, InitEstablishes, PTL DEF Spec

\* acquireResource and releaseResource make the operations on one resource
\* serial: no two workers are inside the call for the same resource key.
THEOREM ResourceExclusiveHolds == Spec => []ResourceExclusive
<1>1. IInv => ResourceExclusive
  <2> SUFFICES ASSUME IInv, NEW v \in Workers, NEW w \in Workers, v # w, pc[v] = "call", pc[w] = "call"
               PROVE  key[cur[v]] # key[cur[w]]
    BY DEF ResourceExclusive
  <2>1. pc[v] \in Busy /\ pc[w] \in Busy
    BY PlaceFacts
  <2>2. owner[key[cur[v]]] = cur[v] /\ owner[key[cur[w]]] = cur[w] /\ cur[v] # cur[w]
    BY <2>1 DEF IInv, WorkerOK, Apart
  <2> QED  BY <2>2
<1> QED  BY <1>1, TasksInvariance, PTL

\* No task is executed twice: loadLocked turns what a crash interrupted into a
\* terminal state, so neither a restart nor a second worker calls it again.
THEOREM NeverReplayedHolds == Spec => []NeverReplayed
<1>1. IInv => NeverReplayed
  BY DEF IInv
<1> QED  BY <1>1, TasksInvariance, PTL

\* Where the retention is at least the capacity, as with the defaults, a task
\* whose submit returned is listed and in the snapshot until it has shown a
\* terminal state, whatever is pruned, cancelled, lost in a crash or restarted.
THEOREM AckedNotLostHolds == Capacity <= Retention /\ Spec => []AckedNotLost
<1> SUFFICES ASSUME Capacity <= Retention PROVE Spec => []AckedNotLost
  OBVIOUS
<1>1. IInv => AckedNotLost
  BY DEF IInv, Kept, AckedNotLost
<1> QED  BY <1>1, TasksInvariance, PTL

\* persistLocked and preservePreviousSnapshot never replace a damaged snapshot.
THEOREM CorruptKeptHolds == Spec => CorruptKept
<1>1. ASSUME [Next]_vars PROVE [disk = Corrupt => disk' = Corrupt]_vars
  <2> SUFFICES ASSUME Next, disk = Corrupt PROVE disk' = Corrupt
    BY <1>1
  <2> USE DEF store
  <2>1. CASE start \/ stop \/ joined \/ Crash \/ DiskCorrupts
    BY <2>1 DEF start, stop, joined, Crash, DiskCorrupts, Save, MaySave
  <2>2. CASE \E k \in Keys, isDue \in BOOLEAN : submit(k, isDue)
    BY <2>2 DEF submit, MaySave
  <2>3. CASE \E t \in Tasks : cancel(t) \/ ClockDue(t) \/ ClockLate(t) \/ ClockOverrun(t)
    BY <2>3 DEF cancel, ClockDue, ClockLate, ClockOverrun, Save, MaySave
  <2>4. CASE \E w \in Workers : WorkerStep(w) \/ WorkerCallReturns(w)
    BY <2>4 DEF WorkerStep, WorkerTake, WorkerWait, WorkerTimer, WorkerCheck, WorkerEnter, WorkerPoll,
       WorkerCall, WorkerCallReturns, WorkerFinalCheck, WorkerFinish, WorkerRelease, WorkerCleanup, Save, MaySave
  <2> QED  BY <2>1, <2>2, <2>3, <2>4 DEF Next
<1> QED  BY <1>1, PTL DEF Spec, CorruptKept
=============================================================================
