------------------------ MODULE ServiceEndpointProofs ------------------------
(***************************************************************************)
(* Proofs about ServiceEndpoint for every cache limit, every set of        *)
(* correlation ids and any number of samples, events and restarts; and     *)
(* about the device gateway, for any devices, that nothing of a device is  *)
(* left running when the gateway gives it up.                              *)
(***************************************************************************)
EXTENDS ServiceEndpoint, DeviceGateway, TLAPS

Working == {"wait", "begin", "handle", "store", "lookup", "write"}

\* Where the worker can be, by the position of start()/stop().
ThreadInv ==
    /\ wpc \in Working => participant /\ ctl \in {"subscribe", "started", "failed", "join"}
    /\ wpc = "done" => ctl = "join"
    /\ wpc \in Working /\ stopping => ctl = "join"
    /\ ctl = "spawn" => ~stopping
    /\ ctl \in {"prepare", "arm", "spawn", "subscribe", "started"} => participant

\* What the worker holds.
JobInv ==
    /\ wpc \in {"none", "done", "wait"} => job = NoJob
    /\ job.kind \in {"fresh", "cached"} => job.req \in Request
    /\ wpc \in {"begin", "handle", "store"} => job.kind = "fresh"
    /\ wpc \in {"begin", "handle", "store"} /\ job.req.cid # NoId => responses[job.req.cid] = 0
    /\ wpc = "store" =>
         /\ job.req.cid \in CorrIds /\ job.value > 0
         /\ Len(executed) > 0 /\ executed[Len(executed)] = job.req.cid

\* The cache holds exactly the last CacheLimit executions; an execution still
\* waiting for its store step is not in it yet.
Stored == Len(executed) - (IF wpc = "store" THEN 1 ELSE 0)
CacheInv ==
    /\ Len(responseOrder) <= CacheLimit
    /\ Len(responseOrder) <= Stored
    /\ Len(responseOrder) < Stored => Len(responseOrder) = CacheLimit
    /\ \A i \in 1..Len(responseOrder) :
         responseOrder[i] = executed[Stored - Len(responseOrder) + i]
    /\ \A c \in CorrIds :
         responses[c] # 0 <=> \E i \in 1..Len(responseOrder) : responseOrder[i] = c

IInv == TypeOK /\ ThreadInv /\ JobInv /\ CacheInv /\ ReplayWindow

USE DEF rtVars, epVars, thrVars, boundVars, histVars

-----------------------------------------------------------------------------
(* Type correctness and the thread positions. *)

\* Requests, the idle job and event jobs are jobs the worker may hold.
LEMMA RequestShape ==
    /\ \A r \in Request : r.id \in Nat \ {0} /\ r.cid \in CorrIds \cup {NoId}
    /\ Idle \notin Request
    /\ NoJob \in Job
BY DEF Request, Idle, NoJob, EventJob, Job

\* The invariant holds in a constructed endpoint.
LEMMA InitIInv == Init => IInv
<1> SUFFICES ASSUME Init PROVE IInv
  OBVIOUS
<1> USE EndpointAssumption DEF Init
<1>1. TypeOK
  <2>1. /\ responses \in [CorrIds -> Nat] /\ responseOrder \in Seq(CorrIds)
        /\ executed \in Seq(CorrIds) /\ executions \in Seq(Request) /\ requests \in Seq(Request)
        /\ replies \in SUBSET [req: Request, value: Nat, ok: BOOLEAN]
    OBVIOUS
  <2>2. job \in Job
    BY RequestShape
  <2> QED
    BY <2>1, <2>2 DEF TypeOK, CtlStates, WorkerStates
<1>2. ThreadInv /\ JobInv
  BY DEF ThreadInv, Working, JobInv, NoJob, EventJob
<1>3. CacheInv /\ ReplayWindow
  BY DEF CacheInv, Stored, ReplayWindow
<1> QED
  BY <1>1, <1>2, <1>3 DEF IInv

\* Every step of the endpoint and its Runtime preserves the types.
LEMMA TypeStep == IInv /\ [Next]_vars => TypeOK'
<1> SUFFICES ASSUME IInv, [Next]_vars PROVE TypeOK'
  OBVIOUS
<1> USE RequestShape, EndpointAssumption DEF IInv, TypeOK, CtlStates, WorkerStates
<1>1. CASE Control
  <2>1. CASE StartRuntime
    <3>1. participant' \in BOOLEAN
      BY <2>1 DEF StartRuntime
    <3>2. ctl' \in CtlStates
      BY <2>1 DEF StartRuntime
    <3> QED
      BY <2>1, <3>1, <3>2 DEF StartRuntime
  <2>2. CASE PreparePublishers
    BY <2>2 DEF PreparePublishers
  <2>3. CASE Arm
    BY <2>3 DEF Arm
  <2>4. CASE SpawnWorker
    BY <2>4 DEF SpawnWorker
  <2>5. CASE Subscribe
    BY <2>5, ZenonT(40) DEF Subscribe
  <2>6. CASE RaiseStopping
    BY <2>6 DEF RaiseStopping
  <2>7. CASE JoinWorker
    BY <2>7 DEF JoinWorker
  <2>8. CASE RuntimeStopLock
    BY <2>8 DEF RuntimeStopLock
  <2>9. CASE RuntimeStopDelete
    BY <2>9 DEF RuntimeStopDelete
  <2>10. CASE Clear
    <3>1. /\ responses' \in [CorrIds -> Nat] /\ responseOrder' \in Seq(CorrIds)
          /\ executed' \in Seq(CorrIds) /\ requests' \in Seq(Request)
      BY <2>10 DEF Clear
    <3>2. ctl' \in CtlStates /\ events' \in Nat /\ traceEvents' \in Nat
      BY <2>10 DEF Clear
    <3>3. hadWorker' \in BOOLEAN
      BY <2>10 DEF Clear
    <3>4. UNCHANGED <<rtVars, mutex, stopping, wpc, job, listener, pub, boundVars,
                      executions, pushed, replies>>
      BY <2>10 DEF Clear
    <3> QED
      BY <3>1, <3>2, <3>3, <3>4
  <2> QED
    BY <1>1, <2>1, <2>2, <2>3, <2>4, <2>5, <2>6, <2>7, <2>8, <2>9, <2>10 DEF Control
<1>2. ASSUME NEW c \in CorrIds \cup {NoId}, TakeSample(c) PROVE TypeOK'
  <2>1. [id |-> samples + 1, cid |-> c] \in Request
    BY DEF Request
  <2> QED
    BY <1>2, <2>1 DEF TakeSample
<1>3. CASE enqueue
  <2>1. listener \in Request
    BY <1>3 DEF enqueue
  <2>2a. requests' = requests \/ requests' = Append(requests, listener)
    BY <1>3 DEF enqueue, Pushed
  <2>2b. requests' \in Seq(Request)
    <3>1. requests \in Seq(Request) /\ Append(requests, listener) \in Seq(Request)
      BY <2>1
    <3> QED
      BY <2>2a, <3>1
  <2>2c. pushed' = pushed \/ pushed' = pushed \cup {listener.id}
    BY <1>3 DEF enqueue
  <2>2d. pushed' \in SUBSET Nat
    <3>1. pushed \in SUBSET Nat /\ pushed \cup {listener.id} \in SUBSET Nat
      BY <2>1
    <3> QED
      BY <2>2c, <3>1
  <2>3. UNCHANGED <<rtVars, mutex, stopping, events, traceEvents, responses, responseOrder,
                    ctl, wpc, job, pub, boundVars, executions, executed, hadWorker, replies>>
        /\ listener' = Idle
    BY <1>3 DEF enqueue
  <2> QED
    BY <2>2b, <2>2d, <2>3
<1>4. CASE publishEvent
  BY <1>4 DEF publishEvent
<1>4a. CASE publishEventPush
  BY <1>4a DEF publishEventPush
<1>5. CASE WorkerReturn
  BY <1>5 DEF WorkerReturn
<1>6. CASE WorkerTakeRequest
  <2>1. Head(requests) \in Request /\ Tail(requests) \in Seq(Request)
    BY <1>6 DEF WorkerTakeRequest
  <2>2. job' \in Job
    BY <1>6, <2>1 DEF WorkerTakeRequest, Job, CachedReply
  <2> QED
    BY <1>6, <2>1, <2>2 DEF WorkerTakeRequest
<1>7. CASE WorkerTakeEvent
  <2>1. job' \in Job
    BY <1>7 DEF WorkerTakeEvent, Job, EventJob
  <2> QED
    BY <1>7, <2>1 DEF WorkerTakeEvent, HasEvent
<1>8. CASE WorkerBegin
  BY <1>8 DEF WorkerBegin, RecordSpan
<1>9. CASE WorkerHandle
  <2>1. job.req \in Request
    BY <1>9 DEF WorkerHandle, JobInv
  <2>2. job' \in Job
    BY <1>9 DEF WorkerHandle, Job
  <2>3. executed' \in Seq(CorrIds) /\ executions' \in Seq(Request)
    BY <1>9, <2>1 DEF WorkerHandle
  <2> QED
    BY <1>9, <2>2, <2>3, SMTT(20) DEF WorkerHandle, RecordSpan
<1>10. CASE WorkerStore
  <2>1. Append(responseOrder, job.req.cid) \in Seq(CorrIds)
    BY <1>10 DEF WorkerStore, JobInv
  <2>2. responseOrder' \in Seq(CorrIds)
    BY <1>10, <2>1 DEF WorkerStore, Excess
  <2>3. responses' \in [CorrIds -> Nat]
    BY <1>10 DEF WorkerStore, Job
  <2> QED
    BY <1>10, <2>2, <2>3, ZenonT(40) DEF WorkerStore
<1>11. CASE WorkerLookup
  BY <1>11 DEF WorkerLookup
<1>12. ASSUME NEW ok \in BOOLEAN, WorkerWrite(ok) PROVE TypeOK'
  <2>1. job.value \in Nat
    BY DEF Job
  <2>2. replies' \in SUBSET [req: Request, value: Nat, ok: BOOLEAN]
    BY <1>12, <2>1 DEF WorkerWrite, JobInv
  <2> QED
    BY <1>12, <2>2 DEF WorkerWrite
<1>13. CASE UNCHANGED vars
  BY <1>13 DEF vars
<1> QED
  BY <1>1, <1>2, <1>3, <1>4, <1>4a, <1>5, <1>6, <1>7, <1>8, <1>9, <1>10, <1>11, <1>12, <1>13
     DEF Next, Listener, Publisher, Worker

\* Every step preserves the relation between the positions of start(), stop() and the worker.
LEMMA ThreadStep == IInv /\ [Next]_vars => ThreadInv'
<1> SUFFICES ASSUME IInv, [Next]_vars PROVE ThreadInv'
  OBVIOUS
<1> USE DEF IInv, ThreadInv, Working
<1>1. CASE Control
  BY <1>1, SMTT(20) DEF Control, StartRuntime, PreparePublishers, Arm, SpawnWorker, Subscribe,
     TypeOK, RaiseStopping, JoinWorker, WorkerFinished, RuntimeStopLock, RuntimeStopDelete, Clear,
     CtlStates, WorkerStates
<1>2. CASE Listener \/ Publisher
  BY <1>2 DEF Listener, TakeSample, enqueue, Publisher, publishEvent, publishEventPush
<1>3. CASE Worker
  BY <1>3 DEF Worker, WorkerReturn, MayReturn, WorkerTakeRequest, WorkerTakeEvent, WorkerBegin,
     WorkerHandle, WorkerStore, WorkerLookup, WorkerWrite
<1>4. CASE UNCHANGED vars
  BY <1>4 DEF vars
<1> QED
  BY <1>1, <1>2, <1>3, <1>4 DEF Next

-----------------------------------------------------------------------------
(* What the worker holds. *)

\* Every step preserves what the worker's local variables hold at its position.
LEMMA JobStep == IInv /\ [Next]_vars => JobInv'
<1> SUFFICES ASSUME IInv, [Next]_vars PROVE JobInv'
  OBVIOUS
<1> USE DEF IInv, JobInv
<1>1. CASE Control
  <2>1. CASE SpawnWorker
    BY <2>1 DEF SpawnWorker, ThreadInv, Working
  <2>2. CASE JoinWorker
    BY <2>2 DEF JoinWorker, WorkerFinished
  <2>3. CASE Clear
    <3>1. wpc = "none"
      BY <2>3 DEF Clear, ThreadInv, Working, TypeOK, WorkerStates
    <3> QED
      BY <2>3, <3>1 DEF Clear, NoJob, EventJob
  <2>4. CASE StartRuntime \/ PreparePublishers \/ Arm \/ Subscribe \/ RaiseStopping
             \/ RuntimeStopLock \/ RuntimeStopDelete
    BY <2>4 DEF StartRuntime, PreparePublishers, Arm, Subscribe, RaiseStopping,
       RuntimeStopLock, RuntimeStopDelete
  <2> QED
    BY <1>1, <2>1, <2>2, <2>3, <2>4 DEF Control
<1>2. CASE Listener \/ Publisher
  BY <1>2 DEF Listener, TakeSample, enqueue, Publisher, publishEvent, publishEventPush
<1>3. CASE WorkerReturn \/ WorkerLookup \/ \E ok \in BOOLEAN : WorkerWrite(ok)
  BY <1>3 DEF WorkerReturn, WorkerLookup, WorkerWrite, NoJob, EventJob
<1>4. CASE WorkerTakeRequest
  <2>1. Head(requests) \in Request
    BY <1>4 DEF WorkerTakeRequest, TypeOK
  <2> QED
    BY <1>4, <2>1 DEF WorkerTakeRequest
<1>5. CASE WorkerTakeEvent
  BY <1>5 DEF WorkerTakeEvent, EventJob
<1>6. CASE WorkerBegin
  BY <1>6 DEF WorkerBegin
<1>7. CASE WorkerHandle
  <2>1. /\ job.req \in Request
        /\ executed \in Seq(CorrIds) /\ executions \in Seq(Request)
    BY <1>7 DEF WorkerHandle, TypeOK
  <2>2. job'.kind = job.kind /\ job'.req = job.req /\ job'.value = Len(executions) + 1
    BY <1>7 DEF WorkerHandle
  <2>3. job'.value > 0
    BY <2>1, <2>2
  <2>4. wpc' = "store" =>
          /\ job.req.cid \in CorrIds
          /\ Len(executed') > 0 /\ executed'[Len(executed')] = job.req.cid
    BY <1>7, <2>1, RequestShape DEF WorkerHandle
  <2> QED
    BY <1>7, <2>1, <2>2, <2>3, <2>4 DEF WorkerHandle
<1>8. CASE WorkerStore
  BY <1>8 DEF WorkerStore
<1>9. CASE UNCHANGED vars
  BY <1>9 DEF vars
<1> QED
  BY <1>1, <1>2, <1>3, <1>4, <1>5, <1>6, <1>7, <1>8, <1>9 DEF Next, Worker

-----------------------------------------------------------------------------
(* The cache and the replay window. *)

\* Steps that touch neither the cache nor the execution history.
LEMMA QuietStep ==
    ASSUME IInv, [Next]_vars, ~Clear, ~WorkerHandle, ~WorkerStore
    PROVE  /\ executed' = executed /\ responses' = responses /\ responseOrder' = responseOrder
           /\ Stored' = Stored
<1>1. CASE Control
  BY <1>1 DEF Control, StartRuntime, PreparePublishers, Arm, SpawnWorker, Subscribe,
     RaiseStopping, JoinWorker, RuntimeStopLock, RuntimeStopDelete, Stored, IInv
<1>2. CASE Listener \/ Publisher
  BY <1>2 DEF Listener, TakeSample, enqueue, Publisher, publishEvent, publishEventPush, Stored
<1>3. CASE Worker
  BY <1>3 DEF Worker, WorkerReturn, WorkerTakeRequest, WorkerTakeEvent, WorkerBegin,
     WorkerLookup, WorkerWrite, Stored
<1>4. CASE UNCHANGED vars
  BY <1>4 DEF vars, Stored
<1> QED
  BY <1>1, <1>2, <1>3, <1>4 DEF Next

\* Every step preserves the relation between _cache, _cacheOrder and the executed ids.
LEMMA CacheStep == IInv /\ [Next]_vars => CacheInv'
<1> SUFFICES ASSUME IInv, [Next]_vars PROVE CacheInv'
  OBVIOUS
<1> USE EndpointAssumption
<1>0. /\ responses \in [CorrIds -> Nat] /\ responseOrder \in Seq(CorrIds)
      /\ executed \in Seq(CorrIds)
  BY DEF IInv, TypeOK
<1>1. CASE Clear
  <2>1. wpc' # "store"
    BY <1>1 DEF Clear, IInv, ThreadInv, Working
  <2> QED
    BY <1>1, <2>1 DEF Clear, CacheInv, Stored
<1>2. CASE WorkerHandle
  <2>1. CASE job.req.cid = NoId
    BY <1>2, <2>1 DEF WorkerHandle, IInv, CacheInv, Stored
  <2>2. CASE job.req.cid # NoId
    <3>1. job.req.cid \in CorrIds
      BY <1>2, <2>2, RequestShape DEF WorkerHandle, IInv, JobInv
    <3>2. Stored = Len(executed) /\ Stored' = Stored
      BY <1>0, <1>2, <2>2, <3>1 DEF WorkerHandle, Stored
    <3>3. \A k \in 1..Len(executed) : executed'[k] = executed[k]
      BY <1>0, <1>2, <2>2, <3>1 DEF WorkerHandle
    <3>4. responseOrder' = responseOrder /\ responses' = responses
      BY <1>2 DEF WorkerHandle
    <3>5. \A i \in 1..Len(responseOrder) :
            executed'[Stored - Len(responseOrder) + i] = executed[Stored - Len(responseOrder) + i]
      <4> TAKE i \in 1..Len(responseOrder)
      <4>1. Stored - Len(responseOrder) + i \in 1..Len(executed)
        BY <1>0, <3>2 DEF IInv, CacheInv
      <4> QED
        BY <3>3, <4>1
    <3> QED
      BY <3>2, <3>4, <3>5 DEF IInv, CacheInv
  <2> QED
    BY <2>1, <2>2
<1>3. CASE WorkerStore
  <2> DEFINE cid == job.req.cid
             L == Len(responseOrder)
             order == Append(responseOrder, cid)
  <2>1. /\ cid \in CorrIds /\ job.value > 0 /\ job.value \in Nat /\ responses[cid] = 0
        /\ Len(executed) > 0 /\ executed[Len(executed)] = cid
    <3>1. wpc = "store" /\ job.kind = "fresh" /\ cid \in CorrIds
      BY <1>3 DEF WorkerStore, IInv, JobInv
    <3>2. cid # NoId /\ job.value \in Nat
      BY <3>1 DEF IInv, TypeOK, Job
    <3> QED
      BY <3>1, <3>2 DEF IInv, JobInv
  <2>2. L \in Nat /\ L <= CacheLimit /\ Stored = Len(executed) - 1 /\ L <= Stored
        /\ (L < Stored => L = CacheLimit) /\ Stored \in Nat
    BY <1>0, <1>3, <2>1 DEF WorkerStore, IInv, CacheInv, Stored
  <2>3. Stored' = Stored + 1 /\ executed' = executed
    BY <1>0, <1>3, <2>2 DEF WorkerStore, Stored
  <2> DEFINE d == Stored - L
  <2>d. d \in Nat /\ d = Stored - L
    BY <2>2
  <2> HIDE DEF d
  <2>4. /\ order \in Seq(CorrIds) /\ Len(order) = L + 1 /\ order[L + 1] = cid
        /\ \A i \in 1..L : order[i] = responseOrder[i]
    BY <1>0, <2>1
  <2>5. \A i \in 1..L+1 : order[i] = executed[d + i]
    <3>1. \A i \in 1..L : responseOrder[i] = executed[d + i]
      BY <2>d DEF IInv, CacheInv
    <3>2. d + (L + 1) = Len(executed)
      BY <1>0, <2>2, <2>d
    <3> QED
      BY <2>1, <2>2, <2>4, <3>1, <3>2
  <2>6. \A i \in 1..L : responses[responseOrder[i]] # 0 /\ responseOrder[i] # cid
    BY <1>0, <2>1 DEF IInv, CacheInv
  <2>7. \A i, j \in 1..L+1 : i < j => order[i] # order[j]
    <3> SUFFICES ASSUME NEW i \in 1..L+1, NEW j \in 1..L+1, i < j, order[i] = order[j]
                 PROVE FALSE
      OBVIOUS
    <3>1. j # L + 1
      BY <2>2, <2>4, <2>6
    <3>2. executed[d + i] = executed[d + j]
      BY <2>5
    <3>3. d + i \in 1..Len(executed) /\ d + j \in 1..Len(executed) /\ d + i < d + j
      <4>1. Len(executed) = d + L + 1
        BY <1>0, <2>2, <2>d
      <4> QED
        BY <2>2, <2>d, <4>1
    <3>4. (d + j) - (d + i) > CacheLimit
      BY <3>2, <3>3 DEF IInv, ReplayWindow
    <3> QED
      BY <2>2, <2>d, <3>1, <3>4
  <2>8. \A c \in CorrIds : responses[c] # 0 <=> \E i \in 1..L : order[i] = c
    BY <2>4 DEF IInv, CacheInv
  <2>9. CASE L < CacheLimit
    <3>1. Excess(order) = 0
      BY <2>2, <2>4, <2>9 DEF Excess
    <3>2. responseOrder' = order
      BY <1>3, <2>4, <2>2, <3>1 DEF WorkerStore
    <3>3. \A c \in CorrIds : responses'[c] = IF c = cid THEN job.value ELSE responses[c]
      BY <1>3, <3>1 DEF WorkerStore
    <3>4. L = Stored
      BY <2>2, <2>9
    <3>5. \A c \in CorrIds : responses'[c] # 0 <=> \E i \in 1..L+1 : order[i] = c
      BY <2>1, <2>2, <2>4, <2>8, <3>3
    <3>6. \A i \in 1..L+1 : order[i] = executed'[Stored' - (L + 1) + i]
      <4> TAKE i \in 1..L+1
      <4>1. Stored' - (L + 1) + i = d + i
        BY <2>2, <2>3, <2>d
      <4> QED
        BY <2>3, <2>5, <4>1
    <3> QED
      BY <2>2, <2>3, <2>4, <2>9, <3>2, <3>4, <3>5, <3>6 DEF CacheInv
  <2>10. CASE L = CacheLimit
    <3>1. Excess(order) = 1
      BY <2>2, <2>4, <2>10 DEF Excess
    <3>2. responseOrder' = SubSeq(order, 2, L + 1)
      BY <1>3, <2>4, <2>2, <3>1 DEF WorkerStore
    <3>3. Len(responseOrder') = L /\ \A i \in 1..L : responseOrder'[i] = order[i + 1]
      BY <2>2, <2>4, <2>10, <3>2
    <3>4. \A c \in CorrIds : responses'[c] = IF c = order[1] THEN 0
                                             ELSE IF c = cid THEN job.value ELSE responses[c]
      BY <1>3, <3>1 DEF WorkerStore
    <3>5. ASSUME NEW c \in CorrIds
          PROVE responses'[c] # 0 <=> \E i \in 1..L : responseOrder'[i] = c
      <4>1. CASE c = order[1]
        BY <2>2, <2>7, <3>3, <3>4, <4>1, SMTT(20)
      <4>2. CASE c # order[1] /\ c = cid
        BY <2>1, <2>2, <2>4, <2>10, <3>3, <3>4, <4>2
      <4>3. CASE c # order[1] /\ c # cid
        <5>1. responses'[c] = responses[c]
          BY <3>4, <4>3
        <5>2. ASSUME NEW i \in 1..L, order[i] = c PROVE \E k \in 1..L : responseOrder'[k] = c
          <6> DEFINE k == i - 1
          <6>1. k \in 1..L /\ i = k + 1
            BY <2>2, <4>3, <5>2
          <6> HIDE DEF k
          <6> QED
            BY <3>3, <5>2, <6>1
        <5>3. ASSUME NEW k \in 1..L, responseOrder'[k] = c PROVE \E i \in 1..L : order[i] = c
          <6>1. order[k + 1] = c /\ k + 1 # L + 1
            BY <2>2, <2>4, <3>3, <4>3, <5>3
          <6> QED
            BY <2>2, <6>1
        <5> QED
          BY <2>8, <5>1, <5>2, <5>3
      <4> QED
        BY <4>1, <4>2, <4>3
    <3>6. \A i \in 1..L : responseOrder'[i] = executed'[Stored' - L + i]
      <4> TAKE i \in 1..L
      <4>1. Stored' - L + i = d + (i + 1) /\ i + 1 \in 1..L+1
        BY <2>2, <2>3, <2>d
      <4> QED
        BY <2>3, <2>5, <3>3, <4>1
    <3> QED
      BY <2>2, <2>3, <2>10, <3>3, <3>5, <3>6 DEF CacheInv
  <2> QED
    BY <2>2, <2>9, <2>10
<1>4. CASE ~Clear /\ ~WorkerHandle /\ ~WorkerStore
  BY <1>4, QuietStep DEF IInv, CacheInv
<1> QED
  BY <1>1, <1>2, <1>3, <1>4

\* Every step preserves the replay window.
LEMMA WindowStep == IInv /\ [Next]_vars => ReplayWindow'
<1> SUFFICES ASSUME IInv, [Next]_vars PROVE ReplayWindow'
  OBVIOUS
<1> USE EndpointAssumption
<1>0. executed \in Seq(CorrIds) /\ responseOrder \in Seq(CorrIds)
  BY DEF IInv, TypeOK
<1>1. CASE WorkerHandle /\ job.req.cid # NoId
  <2> DEFINE cid == job.req.cid
             L == Len(responseOrder)
             N == Len(executed)
  <2>1. cid \in CorrIds /\ responses[cid] = 0
    BY <1>1, RequestShape DEF WorkerHandle, IInv, JobInv
  <2>2. Stored = N /\ L \in Nat /\ N \in Nat /\ L <= N /\ (L < N => L = CacheLimit)
    BY <1>0, <1>1 DEF WorkerHandle, IInv, CacheInv, Stored
  <2>3. Len(executed') = N + 1 /\ executed'[N + 1] = cid
        /\ \A k \in 1..N : executed'[k] = executed[k]
    BY <1>0, <1>1, <2>1 DEF WorkerHandle
  <2>4. ASSUME NEW i \in 1..N, executed[i] = cid PROVE N + 1 - i > CacheLimit
    <3>1. CASE i > N - L
      <4>1. i - (N - L) \in 1..L
        BY <2>2, <3>1
      <4>2. responseOrder[i - (N - L)] = executed[N - L + (i - (N - L))]
        BY <2>2, <4>1 DEF IInv, CacheInv
      <4>3. responseOrder[i - (N - L)] = cid
        BY <2>2, <2>4, <4>2
      <4> QED
        BY <2>1, <4>1, <4>3 DEF IInv, CacheInv
    <3>2. CASE i <= N - L
      BY <2>2, <3>2
    <3> QED
      BY <2>2, <3>1, <3>2
  <2> SUFFICES ASSUME NEW i \in 1..N+1, NEW j \in 1..N+1, i < j, executed'[i] = executed'[j]
               PROVE j - i > CacheLimit
    BY <2>3 DEF ReplayWindow
  <2>5. CASE j = N + 1
    BY <2>2, <2>3, <2>4, <2>5
  <2>6. CASE j # N + 1
    BY <2>2, <2>3, <2>6 DEF IInv, ReplayWindow
  <2> QED
    BY <2>5, <2>6
<1>2. CASE Clear
  BY <1>2 DEF Clear, ReplayWindow
<1>3. CASE WorkerHandle /\ job.req.cid = NoId
  BY <1>3 DEF WorkerHandle, IInv, ReplayWindow
<1>4. CASE WorkerStore
  BY <1>4 DEF WorkerStore, IInv, ReplayWindow
<1>5. CASE ~Clear /\ ~WorkerHandle /\ ~WorkerStore
  BY <1>5, QuietStep DEF IInv, ReplayWindow
<1> QED
  BY <1>1, <1>2, <1>3, <1>4, <1>5

\* The invariant that carries the three results below holds in every reachable state.
THEOREM Invariance == Spec => []IInv
<1>1. IInv /\ [Next]_vars => IInv'
  BY TypeStep, ThreadStep, JobStep, CacheStep, WindowStep DEF IInv
<1> QED
  BY <1>1, InitIInv, PTL DEF Spec

\* Type correctness of the endpoint.
THEOREM TypeCorrect == Spec => []TypeOK
<1>1. IInv => TypeOK
  BY DEF IInv
<1> QED
  BY <1>1, Invariance, PTL

\* The replay window, for every cache limit: run() never executes a correlation
\* id again before CacheLimit other ids were executed.
THEOREM ReplayWindowHolds == Spec => []ReplayWindow
<1>1. IInv => ReplayWindow
  BY DEF IInv
<1> QED
  BY <1>1, Invariance, PTL

\* run() never writes through a DataWriter that Runtime::stop has deleted.
THEOREM NoWriteAfterDeleteHolds == Spec => []NoWriteAfterDelete
<1>1. IInv => NoWriteAfterDelete
  BY DEF IInv, ThreadInv, Working, NoWriteAfterDelete
<1> QED
  BY <1>1, Invariance, PTL

-----------------------------------------------------------------------------
(* Replies. *)

\* Execution v is one that may answer request r.
Answers(v, r) ==
    /\ v \in 1..Len(executions) /\ executions[v].cid = r.cid
    /\ r.cid = NoId => executions[v].id = r.id

\* The cache and the worker hold executions for the right id, not only the replies.
FaithInv ==
    /\ \A r \in replies : Answers(r.value, r.req)
    /\ \A c \in CorrIds :
         responses[c] # 0 => responses[c] \in 1..Len(executions) /\ executions[responses[c]].cid = c
    /\ wpc \in {"store", "lookup", "write"} /\ job.kind \in {"fresh", "cached"} => Answers(job.value, job.req)

\* Every step keeps replies, cache and job with executions for the right id.
LEMMA FaithStep == ASSUME IInv, FaithInv, [Next]_vars PROVE FaithInv'
<1>0. /\ executions \in Seq(Request) /\ job \in Job /\ responses \in [CorrIds -> Nat]
      /\ replies \subseteq [req: Request, value: Nat, ok: BOOLEAN] /\ requests \in Seq(Request)
      /\ wpc \in WorkerStates
  BY DEF IInv, TypeOK
<1>1. CASE Clear
  <2>1. wpc' = "none"
    BY <1>1 DEF Clear, IInv, ThreadInv, Working, TypeOK, WorkerStates
  <2>2. replies' = replies /\ executions' = executions /\ \A c \in CorrIds : responses'[c] = 0
    BY <1>1 DEF Clear
  <2> QED
    BY <2>1, <2>2 DEF FaithInv, Answers
<1>2. CASE WorkerHandle
  <2> DEFINE n == Len(executions)
  <2>1. job.req \in Request /\ n \in Nat
    BY <1>0, <1>2 DEF WorkerHandle, IInv, JobInv
  <2>2. /\ Len(executions') = n + 1 /\ executions'[n + 1] = job.req
        /\ \A v \in 1..n : v \in 1..(n + 1) /\ executions'[v] = executions[v]
    BY <1>0, <1>2, <2>1 DEF WorkerHandle
  <2>3. n + 1 \in 1..(n + 1)
    BY <2>1
  <2>4. /\ job'.req = job.req /\ job'.value = n + 1 /\ responses' = responses /\ replies' = replies
    BY <1>2 DEF WorkerHandle
  <2> HIDE DEF n
  <2>5. \A v, r : Answers(v, r) => Answers(v, r)'
    BY <2>2 DEF Answers, n
  <2>6. Answers(job.value, job.req)'
    BY <2>2, <2>3, <2>4 DEF Answers
  <2>7. \A c \in CorrIds : responses'[c] # 0 =>
            responses'[c] \in 1..Len(executions') /\ executions'[responses'[c]].cid = c
    BY <2>2, <2>4 DEF FaithInv, n
  <2>8. \A r \in replies' : Answers(r.value, r.req)'
    BY <2>4, <2>5 DEF FaithInv
  <2> QED
    BY <2>6, <2>7, <2>8 DEF FaithInv
<1>3. CASE WorkerStore
  <2>1. executions' = executions /\ replies' = replies /\ job' = job /\ wpc = "store" /\ wpc' = "lookup"
    BY <1>3 DEF WorkerStore
  <2>2. job.kind = "fresh" /\ job.req.cid \in CorrIds
    BY <2>1 DEF IInv, JobInv
  <2>3. Answers(job.value, job.req)
    BY <2>1, <2>2 DEF FaithInv
  <2>4. \A c \in CorrIds : responses'[c] \in {0, responses[c]} \/ (c = job.req.cid /\ responses'[c] = job.value)
    BY <1>3 DEF WorkerStore
  <2> QED
    BY <2>1, <2>3, <2>4 DEF FaithInv, Answers
<1>4. CASE WorkerTakeRequest
  <2> DEFINE r == Head(requests)
             hit == r.cid # NoId /\ responses[r.cid] # 0
  <2>1. r \in Request /\ r.cid \in CorrIds \cup {NoId}
    BY <1>0, <1>4, RequestShape DEF WorkerTakeRequest
  <2>2. /\ job' = [kind |-> IF hit THEN "cached" ELSE "fresh", req |-> r,
                   value |-> IF hit THEN CachedReply(r.cid) ELSE 0]
        /\ wpc' = IF hit THEN "lookup" ELSE "begin"
        /\ executions' = executions /\ replies' = replies /\ responses' = responses
    BY <1>4 DEF WorkerTakeRequest
  <2> HIDE DEF r
  <2>3. hit => job'.req = r /\ job'.value = responses[r.cid] /\ Answers(job'.value, r)
    BY <2>1, <2>2 DEF FaithInv, Answers, CachedReply
  <2>4. wpc' \in {"store", "lookup", "write"} => hit
    BY <2>2
  <2> QED
    BY <2>2, <2>3, <2>4 DEF FaithInv, Answers
<1>5. CASE WorkerTakeEvent
  <2>1. job'.kind \in {"event", "trace"} /\ executions' = executions /\ replies' = replies /\ responses' = responses
    BY <1>5 DEF WorkerTakeEvent, EventJob
  <2> QED
    BY <2>1 DEF FaithInv, Answers
<1>6. ASSUME NEW ok \in BOOLEAN, WorkerWrite(ok) PROVE FaithInv'
  <2>1. executions' = executions /\ responses' = responses /\ wpc = "write" /\ wpc' = "wait"
    BY <1>6 DEF WorkerWrite
  <2>2. \/ replies' = replies
        \/ /\ job.kind \in {"fresh", "cached"}
           /\ replies' = replies \cup {[req |-> job.req, value |-> job.value, ok |-> ok]}
    BY <1>6 DEF WorkerWrite
  <2>3. \A r \in replies' : r \in replies \/ (job.kind \in {"fresh", "cached"} /\ r.req = job.req /\ r.value = job.value)
    BY <2>2
  <2> QED
    BY <2>1, <2>3 DEF FaithInv, Answers
<1>7. CASE UNCHANGED <<executions, replies, responses>>
           /\ ((job' = job /\ (wpc' = wpc \/ wpc = "lookup")) \/ wpc' \notin {"store", "lookup", "write"})
  BY <1>7 DEF FaithInv, Answers
<1>8. CASE Control /\ ~Clear
  BY <1>7, <1>8 DEF Control, StartRuntime, PreparePublishers, Arm, SpawnWorker, Subscribe,
     RaiseStopping, JoinWorker, RuntimeStopLock, RuntimeStopDelete
<1>9. CASE Listener \/ Publisher \/ UNCHANGED vars
  BY <1>7, <1>9 DEF Listener, TakeSample, enqueue, Publisher, publishEvent, publishEventPush, vars
<1>10. CASE WorkerReturn \/ WorkerBegin \/ WorkerLookup
  BY <1>7, <1>10 DEF WorkerReturn, WorkerBegin, WorkerLookup
<1> QED
  BY <1>1, <1>2, <1>3, <1>4, <1>5, <1>6, <1>8, <1>9, <1>10 DEF Next, Worker

\* A reply of run() carries the result of an execution for the same correlation
\* id, from the handler or from the cache; without an id, of its own execution.
THEOREM ReplyFidelityHolds == Spec => []ReplyFidelity
<1>1. Init => FaithInv
  BY DEF Init, FaithInv
<1>2. IInv /\ FaithInv /\ [Next]_vars => FaithInv'
  BY FaithStep
<1>3. FaithInv => ReplyFidelity
  BY DEF FaithInv, Answers, ReplyFidelity
<1> QED
  BY <1>1, <1>2, <1>3, Invariance, PTL DEF Spec

-----------------------------------------------------------------------------
(* Graceful stop. *)

InQueue(id) == \E i \in 1..Len(requests) : requests[i].id = id
InJob(id) == job.kind \in {"fresh", "cached"} /\ job.req.id = id

\* Only an endpoint that got its worker has a reader, hence requests.
Unread == {"idle", "prepare", "arm", "spawn", "subscribe", "clear"}
SupplyInv ==
    /\ ctl \in Unread => ~reader
    /\ reader \/ ctl \in {"subscribe", "started"} => hadWorker
    /\ listener # Idle => reader
    /\ requests # <<>> => hadWorker
    /\ hadWorker => ctl \notin {"idle", "prepare", "arm", "spawn"}
    /\ hadWorker /\ ctl \in {"subscribe", "started", "failed", "join"} => wpc # "none"

\* Once the worker has returned nobody fills the queues again.
AfterJoin == {"rtLock", "rtDelete", "clear"}
Drained == wpc = "done" \/ (hadWorker /\ ctl \in AfterJoin)
DrainInv ==
    /\ mutex = "free" => pub = "idle"
    /\ ctl \in AfterJoin \cup {"join"} => stopping
    /\ Drained => pub = "idle" /\ QueuesEmpty
    /\ \A id \in pushed : Replied(id) \/ InQueue(id) \/ InJob(id)

\* Every step keeps requests with the endpoints that have a worker.
LEMMA SupplyStep == ASSUME IInv, SupplyInv, [Next]_vars PROVE SupplyInv'
<1>0. ThreadInv /\ wpc \in WorkerStates /\ ctl \in CtlStates /\ requests \in Seq(Request)
  BY DEF IInv, TypeOK
<1> USE DEF SupplyInv, Unread
<1>1. CASE Control
  <2>1. CASE StartRuntime \/ PreparePublishers \/ Arm
    BY <2>1 DEF StartRuntime, PreparePublishers, Arm
  <2>2. CASE SpawnWorker \/ Subscribe
    BY <2>2 DEF SpawnWorker, Subscribe
  <2>3. CASE RaiseStopping \/ RuntimeStopLock \/ RuntimeStopDelete
    BY <2>3 DEF RaiseStopping, RuntimeStopLock, RuntimeStopDelete
  <2>4. CASE JoinWorker
    BY <2>4 DEF JoinWorker
  <2>5. CASE Clear
    BY <2>5 DEF Clear
  <2> QED
    BY <1>1, <2>1, <2>2, <2>3, <2>4, <2>5 DEF Control
<1>2. CASE Listener
  BY <1>2 DEF Listener, TakeSample, enqueue
<1>3. CASE Publisher
  BY <1>3 DEF Publisher, publishEvent, publishEventPush
<1>4. CASE WorkerTakeRequest
  BY <1>4 DEF WorkerTakeRequest
<1>5. CASE WorkerReturn \/ WorkerTakeEvent \/ WorkerBegin \/ WorkerHandle \/ WorkerStore \/ WorkerLookup
           \/ \E ok \in BOOLEAN : WorkerWrite(ok)
  BY <1>5 DEF WorkerReturn, WorkerTakeEvent, WorkerBegin, WorkerHandle, WorkerStore, WorkerLookup, WorkerWrite
<1>6. CASE UNCHANGED vars
  BY <1>6 DEF vars
<1> QED
  BY <1>1, <1>2, <1>3, <1>4, <1>5, <1>6 DEF Next, Worker

\* The worker drains the queues before it returns, and they stay empty.
LEMMA DrainedStep ==
    ASSUME IInv, SupplyInv, DrainInv, [Next]_vars
    PROVE  /\ (mutex = "free" => pub = "idle")'
           /\ (ctl \in AfterJoin \cup {"join"} => stopping)'
           /\ (Drained => pub = "idle" /\ QueuesEmpty)'
<1>0. ThreadInv /\ wpc \in WorkerStates /\ ctl \in CtlStates
  BY DEF IInv, TypeOK
<1> USE DEF DrainInv, Drained, AfterJoin, QueuesEmpty
<1>1. CASE Control
  <2>1. CASE StartRuntime \/ PreparePublishers \/ Arm
    BY <1>0, <2>1 DEF StartRuntime, PreparePublishers, Arm, SupplyInv, ThreadInv
  <2>2. CASE SpawnWorker \/ Subscribe
    BY <1>0, <2>2 DEF SpawnWorker, Subscribe, ThreadInv
  <2>3. CASE RaiseStopping \/ RuntimeStopLock \/ RuntimeStopDelete
    BY <1>0, <2>3 DEF RaiseStopping, RuntimeStopLock, RuntimeStopDelete, ThreadInv
  <2>4. CASE JoinWorker
    BY <1>0, <2>4 DEF JoinWorker, WorkerFinished, SupplyInv
  <2>5. CASE Clear
    BY <1>0, <2>5 DEF Clear, ThreadInv
  <2> QED
    BY <1>1, <2>1, <2>2, <2>3, <2>4, <2>5 DEF Control
<1>2. CASE Listener
  BY <1>0, <1>2 DEF Listener, TakeSample, enqueue, ThreadInv
<1>3. CASE Publisher
  BY <1>0, <1>3 DEF Publisher, publishEvent, publishEventPush, EventAccepted, ThreadInv
<1>4. CASE WorkerReturn
  BY <1>0, <1>4 DEF WorkerReturn, MayReturn
<1>5. CASE WorkerTakeRequest \/ WorkerTakeEvent \/ WorkerBegin \/ WorkerHandle \/ WorkerStore \/ WorkerLookup
           \/ \E ok \in BOOLEAN : WorkerWrite(ok)
  <2>1. wpc \in Working /\ wpc' # "done" /\ ctl' = ctl /\ UNCHANGED <<mutex, pub, stopping, hadWorker>>
    BY <1>5 DEF WorkerTakeRequest, WorkerTakeEvent, WorkerBegin, WorkerHandle, WorkerStore, WorkerLookup,
       WorkerWrite, Working
  <2> QED
    BY <1>0, <2>1 DEF ThreadInv
<1>6. CASE UNCHANGED vars
  BY <1>6 DEF vars
<1> QED
  BY <1>1, <1>2, <1>3, <1>4, <1>5, <1>6 DEF Next, Worker

\* An accepted request is queued, in the worker's hands, or answered.
Tracked(id) == Replied(id) \/ InQueue(id) \/ InJob(id)

LEMMA TrackedStep ==
    ASSUME IInv, SupplyInv, DrainInv, [Next]_vars
    PROVE  \A id \in pushed' : Tracked(id)'
<1>0. /\ ThreadInv /\ JobInv /\ requests \in Seq(Request) /\ job \in Job
      /\ replies \subseteq [req: Request, value: Nat, ok: BOOLEAN]
      /\ listener \in Request \cup {Idle}
      /\ \A id \in pushed : Tracked(id)
  BY DEF IInv, TypeOK, DrainInv, Tracked
<1>1. CASE enqueue /\ requests' # requests
  <2>1. /\ listener \in Request /\ requests' = Append(requests, listener) /\ pushed' = pushed \cup {listener.id}
        /\ replies' = replies /\ job' = job
    BY <1>0, <1>1 DEF enqueue, Pushed
  <2>2. /\ Len(requests') = Len(requests) + 1 /\ requests'[Len(requests) + 1] = listener
        /\ \A i \in 1..Len(requests) : i \in 1..Len(requests') /\ requests'[i] = requests[i]
        /\ Len(requests) + 1 \in 1..Len(requests')
    BY <1>0, <2>1
  <2>3. \A id : id = listener.id \/ InQueue(id) => InQueue(id)'
    BY <2>2 DEF InQueue
  <2> QED
    BY <1>0, <2>1, <2>3 DEF Tracked, Replied, InJob
<1>2. CASE WorkerTakeRequest
  <2>1. /\ requests # <<>> /\ requests' = Tail(requests) /\ job'.kind \in {"fresh", "cached"}
        /\ job'.req = Head(requests) /\ replies' = replies /\ pushed' = pushed /\ job = NoJob
    BY <1>0, <1>2 DEF WorkerTakeRequest, JobInv
  <2>2. /\ Len(requests) \in Nat /\ Head(requests) = requests[1] /\ Len(requests') = Len(requests) - 1
        /\ \A i \in 1..Len(requests') : requests'[i] = requests[i + 1]
    BY <1>0, <2>1
  <2>3. ASSUME NEW id, InQueue(id) PROVE InQueue(id)' \/ InJob(id)'
    <3>1. PICK i \in 1..Len(requests) : requests[i].id = id
      BY <2>3 DEF InQueue
    <3>2. CASE i = 1
      BY <2>1, <2>2, <3>1, <3>2 DEF InJob
    <3>3. CASE i # 1
      <4>1. i - 1 \in 1..Len(requests') /\ (i - 1) + 1 = i
        BY <2>2, <3>3
      <4>2. requests'[i - 1] = requests[i]
        BY <2>2, <4>1
      <4> QED
        BY <3>1, <4>1, <4>2 DEF InQueue
    <3> QED
      BY <3>2, <3>3
  <2>4. \A id : ~InJob(id)
    BY <2>1 DEF InJob, NoJob, EventJob
  <2> QED
    BY <1>0, <2>1, <2>3, <2>4 DEF Tracked, Replied
<1>3. ASSUME NEW ok \in BOOLEAN, WorkerWrite(ok) PROVE \A id \in pushed' : Tracked(id)'
  <2>1. requests' = requests /\ pushed' = pushed /\ replies \subseteq replies'
    BY <1>3 DEF WorkerWrite
  <2>2. job.kind \in {"fresh", "cached"} => [req |-> job.req, value |-> job.value, ok |-> ok] \in replies'
    BY <1>3 DEF WorkerWrite
  <2>3. ASSUME NEW id, InJob(id) PROVE Replied(id)'
    <3> DEFINE r == [req |-> job.req, value |-> job.value, ok |-> ok]
    <3>1. r \in replies' /\ r.req.id = id
      BY <2>2, <2>3 DEF InJob
    <3> HIDE DEF r
    <3> QED
      BY <3>1 DEF Replied
  <2>4. \A id : (Replied(id) => Replied(id)') /\ (InQueue(id) => InQueue(id)')
    BY <2>1 DEF Replied, InQueue
  <2> QED
    BY <1>0, <2>1, <2>3, <2>4 DEF Tracked
<1>4. CASE Clear
  <2>1. requests = <<>>
    BY <1>4 DEF Clear, SupplyInv, DrainInv, Drained, AfterJoin, QueuesEmpty
  <2>2. requests' = <<>> /\ pushed' = pushed /\ replies' = replies /\ job' = job
    BY <1>4 DEF Clear
  <2> QED
    BY <1>0, <2>1, <2>2 DEF Tracked, Replied, InQueue, InJob
<1>5. CASE /\ UNCHANGED <<requests, pushed, replies>>
           /\ (job'.kind = job.kind /\ job'.req = job.req) \/ job = NoJob
  <2>1. job = NoJob => \A id : ~InJob(id)
    BY DEF InJob, NoJob, EventJob
  <2> QED
    BY <1>0, <1>5, <2>1 DEF Tracked, Replied, InQueue, InJob
<1>6. CASE Control /\ ~Clear
  BY <1>5, <1>6 DEF Control, StartRuntime, PreparePublishers, Arm, SpawnWorker, Subscribe,
     RaiseStopping, JoinWorker, RuntimeStopLock, RuntimeStopDelete
<1>7. CASE (\E c \in CorrIds \cup {NoId} : TakeSample(c)) \/ Publisher \/ UNCHANGED vars
  BY <1>5, <1>7 DEF TakeSample, Publisher, publishEvent, publishEventPush, vars
<1>8. CASE enqueue /\ requests' = requests
  <2>1. stopping
    <3>1. ASSUME ~stopping PROVE FALSE
      <4>1. requests' = Append(requests, listener) /\ listener \in Request
        BY <1>0, <1>8, <3>1 DEF enqueue, Pushed
      <4>2. Len(requests') = Len(requests) + 1 /\ Len(requests) \in Nat
        BY <1>0, <4>1
      <4> QED
        BY <1>8, <4>2
    <3> QED
      BY <3>1
  <2> QED
    BY <1>5, <1>8, <2>1 DEF enqueue
<1>9. CASE WorkerReturn \/ WorkerBegin \/ WorkerHandle \/ WorkerStore
  BY <1>5, <1>9 DEF WorkerReturn, WorkerBegin, WorkerHandle, WorkerStore
<1>10. CASE WorkerTakeEvent
  BY <1>0, <1>5, <1>10 DEF WorkerTakeEvent, JobInv
<1>11. CASE WorkerLookup
  <2>1. participant
    BY <1>0, <1>11 DEF WorkerLookup, ThreadInv, Working
  <2> QED
    BY <1>5, <1>11, <2>1 DEF WorkerLookup
<1> QED
  BY <1>1, <1>2, <1>3, <1>4, <1>6, <1>7, <1>8, <1>9, <1>10, <1>11 DEF Next, Listener, Worker

\* stop() is graceful: when it has joined the worker every request that enqueue
\* accepted was answered and the clear() calls find the queues empty, however
\* the listener, publishEvent and stop() interleave.
THEOREM DrainedBeforeClearHolds == Spec => []DrainedBeforeClear
<1>1. Init => SupplyInv /\ DrainInv
  BY DEF Init, SupplyInv, DrainInv, Drained, Unread, AfterJoin
<1>2. IInv /\ SupplyInv /\ [Next]_vars => SupplyInv'
  BY SupplyStep
<1>3. IInv /\ SupplyInv /\ DrainInv /\ [Next]_vars => DrainInv'
  BY DrainedStep, TrackedStep DEF DrainInv, Tracked
<1>4. IInv /\ SupplyInv /\ DrainInv => DrainedBeforeClear
  <2> SUFFICES ASSUME IInv, SupplyInv, DrainInv, ctl \in AfterJoin
               PROVE  (hadWorker => QueuesEmpty) /\ \A id \in pushed : Replied(id)
    BY DEF DrainedBeforeClear, AfterJoin
  <2>1. wpc = "none" /\ job = NoJob
    BY DEF IInv, TypeOK, ThreadInv, JobInv, Working, WorkerStates, AfterJoin
  <2>2. requests = <<>> /\ (hadWorker => QueuesEmpty)
    BY DEF SupplyInv, DrainInv, Drained, QueuesEmpty
  <2>3. \A id : ~InQueue(id) /\ ~InJob(id)
    BY <2>1, <2>2 DEF InQueue, InJob, NoJob, EventJob
  <2> QED
    BY <2>2, <2>3 DEF DrainInv
<1> QED
  BY <1>1, <1>2, <1>3, <1>4, Invariance, PTL DEF Spec

-----------------------------------------------------------------------------
(***************************************************************************)
(* The device gateway, the other user of the DDS runtime: module           *)
(* DeviceGateway.                                                          *)
(***************************************************************************)
Positions ==
    {"idle", "create", "replacing", "add", "open", "ready", "snap", "publish", "register", "up",
     "stopping", "join", "unregister", "clear", "closing", "top", "read", "mark", "fail", "got",
     "ended", "execute", "write", "wrote", "close", "respond", "held", "stuck", "crashed"}

Position == [at : Positions, dev : DeviceSet \cup {NoDevice}, seq : Nat, ok : BOOLEAN]
Device == [running : BOOLEAN, state : {"offline", "ready", "fault"}, seq : Nat, open : BOOLEAN]

GatewayTypes ==
    /\ th \in [Threads -> Position]
    /\ dev \in [DeviceSet -> Device]
    /\ bridge \in [DeviceSet -> {"none", "live", "dead"}] /\ ids \subseteq DeviceSet

\* A thread in a call for a device knows which; a reader serves its own.
OnDevice ==
    /\ th[Main].at \in {"open", "ready", "snap", "publish", "register", "stopping", "join"}
          => th[Main].dev \in DeviceSet
    /\ th[Callback].at \in {"execute", "write", "wrote", "close", "fail", "snap", "publish", "respond"}
          => th[Callback].dev \in DeviceSet
    /\ th[Consumer].at \in {"idle", "held", "stuck", "crashed"}

Over(d) == th[d].at \in {"idle", "ended", "crashed"}
Shut(d) == Over(d) /\ dev[d].open = FALSE /\ dev[d].running = FALSE

\* What addDevice has reached for the device it is adding.
Adds ==
    /\ th[Main].at \in {"open", "ready"} => bridge[th[Main].dev] = "live"
    /\ th[Main].at = "ready" => th[Main].dev \in Serial
    /\ th[Main].at \in {"open", "ready"} /\ th[Main].dev \in Serial => Over(th[Main].dev)
    /\ th[Main].at = "open" => dev[th[Main].dev].open = FALSE

\* What the activator's stop has reached: the devices before the one it is at.
Passed(d) == \E i, j \in DOMAIN Devices : i < j /\ Devices[i] = d /\ Devices[j] = th[Main].dev

Stops ==
    /\ th[Main].at = "join" => dev[th[Main].dev].running = FALSE
    /\ th[Main].at \in {"stopping", "join"} /\ th[Main].ok = TRUE
          => \A d \in Serial : Passed(d) => Shut(d)
    /\ th[Main].at \in {"unregister", "clear"} => \A d \in Serial : Shut(d)

Readers == \A d \in Serial : th[d].at \notin {"idle", "ended", "crashed"} => th[d].dev = d

GatewayInv ==
    /\ GatewayTypes /\ OnDevice /\ Adds /\ Stops /\ Readers
    /\ \A d \in Serial : bridge[d] # "live" => Shut(d)
    /\ \A d \in DeviceSet : bridge[d] = "live" => d \in ids

LEMMA GatewayConstants ==
    /\ DeviceSet' = DeviceSet /\ Threads' = Threads
    /\ Position' = Position /\ Device' = Device
  BY DEF DeviceSet, Range, Threads, Position, Device, Positions

LEMMA Moved ==
    ASSUME NEW p \in Position, NEW a \in Positions
    PROVE  LET q == [p EXCEPT !.at = a] IN
           q \in Position /\ q.at = a /\ q.dev = p.dev /\ q.seq = p.seq /\ q.ok = p.ok
  BY DEF Position

\* The threads are distinct, and the readers are named by devices.
LEMMA GatewayThreads ==
    /\ Main \in Threads /\ Callback \in Threads /\ Consumer \in Threads
    /\ Serial \subseteq Threads /\ Serial \subseteq DeviceSet
    /\ Main \notin DeviceSet /\ Callback \notin DeviceSet /\ Consumer \notin DeviceSet
    /\ Main # Callback /\ Main # Consumer /\ Callback # Consumer
    /\ NoDevice \notin DeviceSet
    /\ Threads = {Main, Callback, Consumer} \cup Serial
  BY DeviceAssumption DEF Threads

\* A step of the listener or of a monitoring thread.
LEMMA OtherStep ==
    ASSUME GatewayInv, GatewayTypes', OnDevice',
           th'[Main] = th[Main], \A d \in Serial : th'[d] = th[d], UNCHANGED <<bridge, ids>>,
           \A d \in DeviceSet : /\ dev'[d].running = dev[d].running
                                /\ dev'[d].open = dev[d].open \/ dev'[d].open = FALSE
    PROVE  GatewayInv'
<1>1. \A d \in Serial : Shut(d) => Shut(d)'
  BY GatewayThreads DEF Shut, Over
<1>2. \A d \in Serial : Over(d) => Over(d)'
  BY DEF Over
<1>3. \A d \in Serial : Passed(d)' => Passed(d)
  BY DEF Passed
<1>4. Adds'
  BY <1>2 DEF GatewayInv, OnDevice, Adds, Over
<1>5. Stops'
  BY <1>1, <1>3 DEF GatewayInv, OnDevice, Stops
<1>6. Readers'
  BY DEF GatewayInv, Readers
<1> QED BY <1>1, <1>4, <1>5, <1>6, GatewayConstants DEF GatewayInv

\* The process ends: every thread has crashed.
LEMMA CrashStep ==
    ASSUME GatewayInv, UNCHANGED <<bridge, ids, dev>>,
           th' = [u \in Threads |-> [th[u] EXCEPT !.at = "crashed"]]
    PROVE  GatewayInv'
<1>1. \A u \in Threads : th'[u].at = "crashed"
  BY DEF GatewayInv, GatewayTypes, Position
<1>2. GatewayTypes'
  <2>1. \A u \in Threads : [th[u] EXCEPT !.at = "crashed"] \in Position
    <3>1. "crashed" \in Positions
      BY DEF Positions
    <3> QED BY <3>1, Moved DEF GatewayInv, GatewayTypes
  <2> QED BY <2>1, GatewayConstants DEF GatewayInv, GatewayTypes
<1>3. OnDevice' /\ Adds' /\ Stops'
  BY <1>1, GatewayThreads DEF OnDevice, Adds, Stops
<1>4. Readers' /\ \A d \in Serial : Shut(d) => Shut(d)'
  BY <1>1, GatewayThreads DEF Readers, Shut, Over
<1> QED BY <1>2, <1>3, <1>4, GatewayConstants DEF GatewayInv

\* A step of the reader of d.
LEMMA ReaderStepOK ==
    ASSUME GatewayInv, NEW d \in Serial, ~Over(d), GatewayTypes',
           UNCHANGED <<bridge, ids>>, \A u \in Threads \ {d} : th'[u] = th[u],
           th'[d].dev = d, \A e \in DeviceSet \ {d} : dev'[e] = dev[e],
           dev'[d].running = dev[d].running
    PROVE  GatewayInv'
<1>1. /\ th'[Main] = th[Main] /\ th'[Callback] = th[Callback] /\ th'[Consumer] = th[Consumer]
      /\ \A e \in Serial \ {d} : th'[e] = th[e]
  BY GatewayThreads
<1>2. \A e \in Serial : (Shut(e) \/ Over(e)) => e # d
  BY DEF Shut
<1>3. \A e \in Serial : (Shut(e) => Shut(e)') /\ (Over(e) => Over(e)')
  BY <1>1, <1>2, GatewayThreads DEF Shut, Over
<1>4. OnDevice'
  BY <1>1, GatewayConstants DEF GatewayInv, OnDevice
<1>5. Adds'
  <2>1. th[Main].at \in {"open", "ready"} => th[Main].dev # d /\ th[Main].dev \in DeviceSet
    BY <1>2 DEF GatewayInv, Adds, OnDevice
  <2> QED BY <1>1, <1>3, <2>1 DEF GatewayInv, Adds, Over
<1>6. Stops'
  <2>1. th[Main].at = "join" => dev'[th[Main].dev].running = FALSE
    BY DEF GatewayInv, OnDevice, Stops
  <2>2. \A e \in Serial : Passed(e)' => Passed(e)
    BY <1>1 DEF Passed
  <2> QED BY <1>1, <1>3, <2>1, <2>2 DEF GatewayInv, Stops
<1>7. Readers'
  BY <1>1 DEF GatewayInv, Readers
<1> QED BY <1>3, <1>4, <1>5, <1>6, <1>7, GatewayConstants DEF GatewayInv

\* What the shapes of an update of one thread, or of one device, leave.
Only(t) == th' \in [Threads -> Position] /\ \A u \in Threads \ {t} : th'[u] = th[u]

LEMMA ThreadUpdate ==
    ASSUME GatewayTypes, NEW t \in Threads, NEW a \in Positions
    PROVE  /\ Goes(t, a) => Only(t) /\ th'[t].at = a /\ th'[t].dev = th[t].dev /\ th'[t].ok = th[t].ok
           /\ \A d \in DeviceSet \cup {NoDevice} :
                 th' = [th EXCEPT ![t].at = a, ![t].dev = d]
                 => Only(t) /\ th'[t].at = a /\ th'[t].dev = d /\ th'[t].ok = th[t].ok
           /\ \A o \in BOOLEAN :
                 th' = [th EXCEPT ![t].at = a, ![t].ok = o]
                 => Only(t) /\ th'[t].at = a /\ th'[t].dev = th[t].dev /\ th'[t].ok = o
           /\ \A n \in Nat :
                 th' = [th EXCEPT ![t].at = a, ![t].seq = n]
                 => Only(t) /\ th'[t].at = a /\ th'[t].dev = th[t].dev /\ th'[t].ok = th[t].ok
           /\ \A p \in Position : th' = [th EXCEPT ![t] = p] => Only(t) /\ th'[t] = p
<1>0. th[t] \in Position /\ th \in [Threads -> Position]
  BY DEF GatewayTypes
<1>1. ASSUME Goes(t, a)
      PROVE  Only(t) /\ th'[t].at = a /\ th'[t].dev = th[t].dev /\ th'[t].ok = th[t].ok
  BY <1>0, <1>1, Moved DEF Goes, Only
<1>2. ASSUME NEW d \in DeviceSet \cup {NoDevice}, th' = [th EXCEPT ![t].at = a, ![t].dev = d]
      PROVE  Only(t) /\ th'[t].at = a /\ th'[t].dev = d /\ th'[t].ok = th[t].ok
  <2> DEFINE p == [th[t] EXCEPT !.at = a, !.dev = d]
  <2>1. p \in Position /\ p.at = a /\ p.dev = d /\ p.ok = th[t].ok
    BY <1>0 DEF Position
  <2>2. th' = [th EXCEPT ![t] = p]
    BY <1>0, <1>2
  <2> HIDE DEF p
  <2> QED BY <1>0, <2>1, <2>2 DEF Only
<1>3. ASSUME NEW o \in BOOLEAN, th' = [th EXCEPT ![t].at = a, ![t].ok = o]
      PROVE  Only(t) /\ th'[t].at = a /\ th'[t].dev = th[t].dev /\ th'[t].ok = o
  <2> DEFINE p == [th[t] EXCEPT !.at = a, !.ok = o]
  <2>1. p \in Position /\ p.at = a /\ p.dev = th[t].dev /\ p.ok = o
    BY <1>0 DEF Position
  <2>2. th' = [th EXCEPT ![t] = p]
    BY <1>0, <1>3
  <2> HIDE DEF p
  <2> QED BY <1>0, <2>1, <2>2 DEF Only
<1>4. ASSUME NEW n \in Nat, th' = [th EXCEPT ![t].at = a, ![t].seq = n]
      PROVE  Only(t) /\ th'[t].at = a /\ th'[t].dev = th[t].dev /\ th'[t].ok = th[t].ok
  <2> DEFINE p == [th[t] EXCEPT !.at = a, !.seq = n]
  <2>1. p \in Position /\ p.at = a /\ p.dev = th[t].dev /\ p.ok = th[t].ok
    BY <1>0 DEF Position
  <2>2. th' = [th EXCEPT ![t] = p]
    BY <1>0, <1>4
  <2> HIDE DEF p
  <2> QED BY <1>0, <2>1, <2>2 DEF Only
<1>5. ASSUME NEW p \in Position, th' = [th EXCEPT ![t] = p]
      PROVE  Only(t) /\ th'[t] = p
  BY <1>0, <1>5 DEF Only
<1> QED BY <1>1, <1>2, <1>3, <1>4, <1>5

OnlyDev(d) == dev' \in [DeviceSet -> Device] /\ \A e \in DeviceSet \ {d} : dev'[e] = dev[e]

LEMMA DeviceUpdate ==
    ASSUME GatewayTypes, NEW d \in DeviceSet
    PROVE  /\ \A o \in BOOLEAN : dev' = [dev EXCEPT ![d].open = o]
                 => OnlyDev(d) /\ dev'[d].open = o /\ dev'[d].running = dev[d].running
           /\ markReady(d) \/ markFailure(d) \/ dev' = [dev EXCEPT ![d].seq = @ + 1]
                 => OnlyDev(d) /\ dev'[d].open = dev[d].open /\ dev'[d].running = dev[d].running
           /\ dev' = [dev EXCEPT ![d].running = FALSE]
                 => OnlyDev(d) /\ dev'[d].open = dev[d].open /\ dev'[d].running = FALSE
           /\ dev' = [dev EXCEPT ![d].state = "offline", ![d].seq = @ + 1, ![d].open = FALSE]
                 => OnlyDev(d) /\ dev'[d].open = FALSE /\ dev'[d].running = dev[d].running
           /\ \A r \in Device : dev' = [dev EXCEPT ![d] = r] => OnlyDev(d) /\ dev'[d] = r
<1>0. dev[d] \in Device /\ dev \in [DeviceSet -> Device]
  BY DEF GatewayTypes
<1>1. ASSUME NEW o \in BOOLEAN, dev' = [dev EXCEPT ![d].open = o]
      PROVE  OnlyDev(d) /\ dev'[d].open = o /\ dev'[d].running = dev[d].running
  <2> DEFINE r == [dev[d] EXCEPT !.open = o]
  <2>1. r \in Device /\ r.open = o /\ r.running = dev[d].running
    BY <1>0 DEF Device
  <2>2. dev' = [dev EXCEPT ![d] = r]
    BY <1>0, <1>1
  <2> HIDE DEF r
  <2> QED BY <1>0, <2>1, <2>2 DEF OnlyDev
<1>2. ASSUME NEW s \in {"offline", "ready", "fault"},
             dev' = [dev EXCEPT ![d].state = s, ![d].seq = @ + 1] \/ dev' = [dev EXCEPT ![d].seq = @ + 1]
      PROVE  OnlyDev(d) /\ dev'[d].open = dev[d].open /\ dev'[d].running = dev[d].running
  <2> DEFINE n == dev[d].seq + 1
             r == [dev[d] EXCEPT !.state = s, !.seq = n]
             q == [dev[d] EXCEPT !.seq = n]
  <2>0. n \in Nat
    BY <1>0 DEF Device
  <2>1. /\ r \in Device /\ r.open = dev[d].open /\ r.running = dev[d].running
        /\ q \in Device /\ q.open = dev[d].open /\ q.running = dev[d].running
    <3> HIDE DEF n
    <3> QED BY <1>0, <2>0 DEF Device
  <2>2. dev' = [dev EXCEPT ![d] = r] \/ dev' = [dev EXCEPT ![d] = q]
    BY <1>0, <1>2
  <2> HIDE DEF r, q
  <2> QED BY <1>0, <2>1, <2>2 DEF OnlyDev
<1>3. ASSUME dev' = [dev EXCEPT ![d].running = FALSE]
      PROVE  OnlyDev(d) /\ dev'[d].open = dev[d].open /\ dev'[d].running = FALSE
  <2> DEFINE r == [dev[d] EXCEPT !.running = FALSE]
  <2>1. r \in Device /\ r.open = dev[d].open /\ r.running = FALSE
    BY <1>0 DEF Device
  <2>2. dev' = [dev EXCEPT ![d] = r]
    BY <1>0, <1>3
  <2> HIDE DEF r
  <2> QED BY <1>0, <2>1, <2>2 DEF OnlyDev
<1>4. ASSUME dev' = [dev EXCEPT ![d].state = "offline", ![d].seq = @ + 1, ![d].open = FALSE]
      PROVE  OnlyDev(d) /\ dev'[d].open = FALSE /\ dev'[d].running = dev[d].running
  <2> DEFINE n == dev[d].seq + 1
             r == [dev[d] EXCEPT !.state = "offline", !.seq = n, !.open = FALSE]
  <2>0. n \in Nat
    BY <1>0 DEF Device
  <2>1. r \in Device /\ r.open = FALSE /\ r.running = dev[d].running
    <3> HIDE DEF n
    <3> QED BY <1>0, <2>0 DEF Device
  <2>2. dev' = [dev EXCEPT ![d] = r]
    BY <1>0, <1>4
  <2> HIDE DEF r
  <2> QED BY <1>0, <2>1, <2>2 DEF OnlyDev
<1>5. ASSUME NEW r \in Device, dev' = [dev EXCEPT ![d] = r] PROVE OnlyDev(d) /\ dev'[d] = r
  BY <1>0, <1>5 DEF OnlyDev
<1> QED BY <1>1, <1>2, <1>3, <1>4, <1>5 DEF markReady, markFailure

LEMMA IdlePosition ==
    /\ IdleThread \in Position /\ IdleThread.at = "idle" /\ IdleThread.dev = NoDevice /\ IdleThread.ok = TRUE
    /\ \A d \in DeviceSet, a \in Positions :
          LET p == [IdleThread EXCEPT !.at = a, !.dev = d]
          IN  p \in Position /\ p.at = a /\ p.dev = d
    /\ \A a \in Positions :
          LET p == [IdleThread EXCEPT !.at = a] IN p \in Position /\ p.at = a
<1>1. IdleThread \in Position /\ IdleThread.at = "idle" /\ IdleThread.dev = NoDevice /\ IdleThread.ok = TRUE
  BY DEF IdleThread, Position, Positions
<1>2. ASSUME NEW d \in DeviceSet, NEW a \in Positions
      PROVE  LET p == [IdleThread EXCEPT !.at = a, !.dev = d]
             IN  p \in Position /\ p.at = a /\ p.dev = d
  BY <1>1 DEF Position
<1>3. ASSUME NEW a \in Positions
      PROVE  LET p == [IdleThread EXCEPT !.at = a] IN p \in Position /\ p.at = a
  BY <1>1 DEF Position
<1> QED BY <1>1, <1>2, <1>3

LEMMA IdleUpdate ==
    ASSUME GatewayTypes, NEW t \in Threads, th' = [th EXCEPT ![t] = IdleThread]
    PROVE  Only(t) /\ th'[t].at = "idle" /\ th'[t] = IdleThread
<1>1. IdleThread \in Position /\ IdleThread.at = "idle"
  BY IdlePosition
<1>2. th \in [Threads -> Position]
  BY DEF GatewayTypes
<1> QED BY <1>1, <1>2 DEF Only

\* A use of a destroyed object.
LEMMA StrayCases ==
    ASSUME GatewayTypes, NEW t \in Threads, NEW w, Stray(t, w)
    PROVE  \/ Only(t) /\ t \notin Serial /\ th'[t] = IdleThread
           \/ Only(t) /\ t \in Serial /\ th'[t].at = "top" /\ th'[t].dev = t
           \/ Only(t) /\ th'[t].at = "stuck" /\ th'[t].dev = th[t].dev
           \/ th' = [u \in Threads |-> [th[u] EXCEPT !.at = "crashed"]]
<1>1. "top" \in Positions /\ "stuck" \in Positions /\ (t \in Serial => t \in DeviceSet)
  BY GatewayThreads DEF Positions
<1>2. CASE t \in Serial /\ th' = [th EXCEPT ![t] = [IdleThread EXCEPT !.at = "top", !.dev = t]]
  <2> DEFINE p == [IdleThread EXCEPT !.at = "top", !.dev = t]
  <2>1. p \in Position /\ p.at = "top" /\ p.dev = t
    BY <1>1, <1>2, IdlePosition
  <2>2. th' = [th EXCEPT ![t] = p]
    BY <1>2
  <2> HIDE DEF p
  <2>3. Only(t) /\ th'[t] = p
    BY <2>1, <2>2 DEF GatewayTypes, Only
  <2> QED BY <1>2, <2>1, <2>3
<1>3. CASE t \notin Serial /\ th' = [th EXCEPT ![t] = IdleThread]
  <2>1. Only(t) /\ th'[t] = IdleThread
    BY <1>3, IdleUpdate
  <2> QED BY <1>3, <2>1
<1>4. CASE Goes(t, "stuck")
  BY <1>1, <1>4, ThreadUpdate
<1> QED BY <1>2, <1>3, <1>4 DEF Stray

LEMMA ThreadTurns ==
    ASSUME GatewayTypes, NEW t \in Threads, NEW a \in Positions, NEW d \in DeviceSet,
           th' = [th EXCEPT ![t].at = a, ![t].dev = d]
    PROVE  Only(t) /\ th'[t].at = a /\ th'[t].dev = d
<1> DEFINE p == [th[t] EXCEPT !.at = a, !.dev = d]
<1>1. th \in [Threads -> Position] /\ th[t] \in Position
  BY DEF GatewayTypes
<1>2. p \in Position /\ p.at = a /\ p.dev = d
  BY <1>1 DEF Position
<1>3. th' = [th EXCEPT ![t] = p]
  BY <1>1
<1> HIDE DEF p
<1> QED BY <1>1, <1>2, <1>3 DEF Only

LEMMA PositionsKnown ==
    /\ "idle" \in Positions /\ "create" \in Positions /\ "replacing" \in Positions
    /\ "add" \in Positions /\ "open" \in Positions /\ "ready" \in Positions
    /\ "snap" \in Positions /\ "publish" \in Positions /\ "register" \in Positions
    /\ "up" \in Positions /\ "stopping" \in Positions /\ "join" \in Positions
    /\ "unregister" \in Positions /\ "clear" \in Positions /\ "closing" \in Positions
    /\ "top" \in Positions /\ "read" \in Positions /\ "mark" \in Positions /\ "fail" \in Positions
    /\ "got" \in Positions /\ "ended" \in Positions /\ "execute" \in Positions
    /\ "write" \in Positions /\ "wrote" \in Positions /\ "close" \in Positions /\ "respond" \in Positions
    /\ "held" \in Positions
  BY DEF Positions

LEMMA TypesAfter ==
    ASSUME GatewayInv, th' \in [Threads -> Position], dev' \in [DeviceSet -> Device],
           UNCHANGED <<bridge, ids>>
    PROVE  GatewayTypes'
  BY GatewayConstants DEF GatewayInv, GatewayTypes

\* Publishing a snapshot, by any thread: the position after it, or a stray use.
LEMMA PublishCases ==
    ASSUME GatewayInv, NEW t \in Threads, Publish(t)
    PROVE  /\ UNCHANGED <<bridge, ids, dev>> /\ th[t].at = "publish"
           /\ \/ Only(t) /\ th'[t].at = AfterPublish(t) /\ th'[t].dev = th[t].dev /\ ~Gone(t)
              \/ Stray(t, "bridge") /\ Gone(t)
              \/ Stray(t, "runtime") /\ ~Gone(t)
<1>1. UNCHANGED <<bridge, ids, dev>> /\ th[t].at = "publish"
  BY DEF Publish, At, gateway
<1>2. AfterPublish(t) \in Positions
  BY PositionsKnown DEF AfterPublish
<1>3. ASSUME Published(t)
      PROVE  Only(t) /\ th'[t].at = AfterPublish(t) /\ th'[t].dev = th[t].dev
  <2>1. th' = [th EXCEPT ![t].at = AfterPublish(t), ![t].seq = 0]
    BY <1>3 DEF Published
  <2> QED BY <1>2, <2>1, ThreadUpdate DEF GatewayInv
<1> QED BY <1>1, <1>3 DEF Publish

LEMMA ReaderKeeps ==
    ASSUME GatewayInv, NEW d \in Serial, ~Over(d),
           UNCHANGED <<bridge, ids>>, Only(d), th'[d].dev = d,
           dev' = dev \/ (OnlyDev(d) /\ dev'[d].running = dev[d].running)
    PROVE  GatewayInv'
<1>1. GatewayTypes'
  BY TypesAfter DEF Only, OnlyDev, GatewayInv, GatewayTypes
<1> QED BY <1>1, ReaderStepOK DEF Only, OnlyDev

\* The reader of d takes a step: it is not over and serves d.
LEMMA ReaderActs ==
    ASSUME GatewayInv, NEW d \in Serial, ReaderStep(d)
    PROVE  GatewayInv'
<1>1. d \in Threads /\ d \in DeviceSet /\ d # Main /\ d # Callback
  BY GatewayThreads
<1>2. ~Over(d)
  BY DEF ReaderStep, ReaderTop, ReaderOpens, ReaderMarks, ReaderReads, ReaderGot,
         Snapshot, Publish, At, Over
<1>3. th[d].dev = d
  BY <1>2 DEF GatewayInv, Readers, Over
<1>4. dev[d].seq \in Nat /\ GatewayTypes
  BY <1>1 DEF GatewayInv, GatewayTypes, Device
<1>5. CASE ReaderTop(d)
  <2>1. UNCHANGED <<bridge, ids, dev>>
    BY <1>5 DEF ReaderTop, gateway
  <2>2. Goes(d, "ended") \/ Goes(d, "read") \/ Goes(d, "open")
    BY <1>5 DEF ReaderTop
  <2>3. Only(d) /\ th'[d].dev = th[d].dev
    BY <1>1, <1>4, <2>2, ThreadUpdate, PositionsKnown
  <2> QED BY <1>2, <1>3, <2>1, <2>3, ReaderKeeps
<1>6. CASE ReaderOpens(d)
  <2>1. UNCHANGED <<bridge, ids>>
    BY <1>6 DEF ReaderOpens, gateway
  <2>2. Goes(d, "mark") \/ Goes(d, "fail")
    BY <1>6 DEF ReaderOpens
  <2>3. Only(d) /\ th'[d].dev = th[d].dev
    BY <1>1, <1>4, <2>2, ThreadUpdate, PositionsKnown
  <2>4. dev' = dev \/ dev' = [dev EXCEPT ![d].open = TRUE]
    BY <1>6 DEF ReaderOpens
  <2>5. dev' = dev \/ (OnlyDev(d) /\ dev'[d].running = dev[d].running)
    BY <1>1, <1>4, <2>4, DeviceUpdate
  <2> QED BY <1>2, <1>3, <2>1, <2>3, <2>5, ReaderKeeps
<1>7. CASE ReaderMarks(d)
  <2>1. UNCHANGED <<bridge, ids>> /\ Goes(d, "snap") /\ (markReady(d) \/ markFailure(d))
    BY <1>7 DEF ReaderMarks, gateway
  <2>2. Only(d) /\ th'[d].dev = th[d].dev
    BY <1>1, <1>4, <2>1, ThreadUpdate, PositionsKnown
  <2>3. OnlyDev(d) /\ dev'[d].running = dev[d].running
    BY <1>1, <1>4, <2>1, DeviceUpdate
  <2> QED BY <1>2, <1>3, <2>1, <2>2, <2>3, ReaderKeeps
<1>8. CASE ReaderReads(d)
  <2>1. UNCHANGED <<bridge, ids>> /\ (dev' = dev \/ dev' = [dev EXCEPT ![d].open = FALSE])
    BY <1>8 DEF ReaderReads, gateway
  <2>2. Goes(d, "top") \/ Goes(d, "got") \/ Goes(d, "fail")
    BY <1>8 DEF ReaderReads
  <2>3. Only(d) /\ th'[d].dev = th[d].dev
    BY <1>1, <1>4, <2>2, ThreadUpdate, PositionsKnown
  <2>4. dev' = dev \/ (OnlyDev(d) /\ dev'[d].running = dev[d].running)
    BY <1>1, <1>4, <2>1, DeviceUpdate
  <2> QED BY <1>2, <1>3, <2>1, <2>3, <2>4, ReaderKeeps
<1>9. CASE ReaderGot(d)
  <2>1. /\ UNCHANGED <<bridge, ids>> /\ markReady(d)
        /\ th' = [th EXCEPT ![d].at = "publish", ![d].seq = dev[d].seq + 1]
    BY <1>9 DEF ReaderGot, gateway
  <2>2. dev[d].seq + 1 \in Nat
    BY <1>4
  <2>3. Only(d) /\ th'[d].dev = th[d].dev
    BY <1>1, <1>4, <2>1, <2>2, ThreadUpdate, PositionsKnown
  <2>4. OnlyDev(d) /\ dev'[d].running = dev[d].running
    BY <1>1, <1>4, <2>1, DeviceUpdate
  <2> QED BY <1>2, <1>3, <2>1, <2>3, <2>4, ReaderKeeps
<1>10. CASE Snapshot(d)
  <2>1. /\ UNCHANGED <<bridge, ids, dev>>
        /\ th' = [th EXCEPT ![d].at = "publish", ![d].seq = dev[d].seq]
    BY <1>3, <1>10 DEF Snapshot, gateway
  <2>2. Only(d) /\ th'[d].dev = th[d].dev
    BY <1>1, <1>4, <2>1, ThreadUpdate, PositionsKnown
  <2> QED BY <1>2, <1>3, <2>1, <2>2, ReaderKeeps
<1>11. CASE Publish(d)
  <2>1. ~Gone(d)
    BY <1>2, <1>3 DEF Gone, GatewayInv, Shut
  <2>2. UNCHANGED <<bridge, ids, dev>>
    BY <1>1, <1>11, PublishCases
  <2>3. CASE Only(d) /\ th'[d].dev = th[d].dev
    BY <1>2, <1>3, <2>2, <2>3, ReaderKeeps
  <2>4. CASE Stray(d, "runtime")
    <3>1. \/ Only(d) /\ th'[d].dev = d
          \/ th' = [u \in Threads |-> [th[u] EXCEPT !.at = "crashed"]]
      BY <1>1, <1>3, <1>4, <2>4, StrayCases
    <3> QED BY <1>2, <2>2, <3>1, ReaderKeeps, CrashStep
  <2> QED BY <1>1, <1>11, <2>1, <2>3, <2>4, PublishCases
<1> QED BY <1>5, <1>6, <1>7, <1>8, <1>9, <1>10, <1>11 DEF ReaderStep

\* The listener goes on in a call, or is idle or stuck.
LEMMA ListenerKeeps ==
    ASSUME GatewayInv, UNCHANGED <<bridge, ids>>, Only(Callback),
           th'[Callback].at \in {"idle", "stuck"} \/ th'[Callback].dev \in DeviceSet,
           dev' = dev \/ \E d \in DeviceSet :
                            /\ OnlyDev(d) /\ dev'[d].running = dev[d].running
                            /\ dev'[d].open = dev[d].open \/ dev'[d].open = FALSE
    PROVE  GatewayInv'
<1>1. /\ th'[Main] = th[Main] /\ th'[Consumer] = th[Consumer]
      /\ \A d \in Serial : th'[d] = th[d]
  BY GatewayThreads DEF Only
<1>2. GatewayTypes'
  BY TypesAfter DEF Only, OnlyDev, GatewayInv, GatewayTypes
<1>3. OnDevice'
  BY <1>1, GatewayConstants DEF GatewayInv, OnDevice
<1> QED BY <1>1, <1>2, <1>3, OtherStep DEF OnlyDev

LEMMA ListenerStrays ==
    ASSUME GatewayInv, UNCHANGED <<bridge, ids, dev>>, NEW w, Stray(Callback, w)
    PROVE  GatewayInv'
<1>1. \/ Only(Callback) /\ th'[Callback].at \in {"idle", "stuck"}
      \/ th' = [u \in Threads |-> [th[u] EXCEPT !.at = "crashed"]]
  BY StrayCases, GatewayThreads, IdlePosition DEF GatewayInv
<1> QED BY <1>1, ListenerKeeps, CrashStep

\* The steps of handleRequest and of write() keep to the listener's device.
LEMMA HandlesCases ==
    ASSUME GatewayInv,
           Execute \/ Write \/ Wrote \/ WriteCloses \/ WriteFailed \/ Respond
    PROVE  /\ UNCHANGED <<bridge, ids>> /\ th[Callback].dev \in DeviceSet
           /\ \/ dev' = dev /\ Stray(Callback, "bridge")
              \/ Execute /\ dev' = dev /\ (Refuses \/ Goes(Callback, "write") \/ Goes(Callback, "respond"))
              \/ (Write \/ WriteCloses)
                 /\ (Goes(Callback, "wrote") \/ Goes(Callback, "close") \/ Goes(Callback, "fail"))
                 /\ (dev' = dev \/ dev' = [dev EXCEPT ![th[Callback].dev].open = FALSE])
              \/ Wrote /\ dev' = [dev EXCEPT ![th[Callback].dev].seq = @ + 1]
                 /\ th' = [th EXCEPT ![Callback].at = "publish",
                                     ![Callback].seq = dev[th[Callback].dev].seq + 1]
              \/ WriteFailed /\ markFailure(th[Callback].dev)
                 /\ th' = [th EXCEPT ![Callback].at = "snap", ![Callback].ok = FALSE]
              \/ Respond /\ dev' = dev /\ th' = [th EXCEPT ![Callback] = IdleThread]
<1>1. CASE Execute
  BY <1>1 DEF Execute, Handles, At, D, gateway, GatewayInv, OnDevice
<1>2. CASE Write
  BY <1>2 DEF Write, Handles, At, D, gateway, GatewayInv, OnDevice
<1>3. CASE Wrote
  BY <1>3 DEF Wrote, Handles, At, D, gateway, GatewayInv, OnDevice
<1>4. CASE WriteFailed
  BY <1>4 DEF WriteFailed, Handles, At, D, gateway, GatewayInv, OnDevice
<1>5. CASE Respond
  BY <1>5 DEF Respond, Handles, At, D, gateway, GatewayInv, OnDevice
<1>6. CASE WriteCloses
  BY <1>6 DEF WriteCloses, Handles, At, D, gateway, GatewayInv, OnDevice
<1> QED BY <1>1, <1>2, <1>3, <1>4, <1>5, <1>6

LEMMA ListenerActs ==
    ASSUME GatewayInv, ListenerStep
    PROVE  GatewayInv'
<1> DEFINE d == th[Callback].dev
<1>1. Callback \in Threads /\ Callback # Main /\ GatewayTypes
  BY GatewayThreads DEF GatewayInv
<1>2. CASE Execute \/ Write \/ Wrote \/ WriteCloses \/ WriteFailed \/ Respond
  <2>1. UNCHANGED <<bridge, ids>> /\ d \in DeviceSet /\ dev[d].seq + 1 \in Nat
    <3>1. UNCHANGED <<bridge, ids>> /\ d \in DeviceSet
      BY <1>2, HandlesCases
    <3>2. dev[d] \in Device
      BY <1>1, <3>1 DEF GatewayTypes
    <3> QED BY <3>1, <3>2 DEF Device
  <2>2. CASE dev' = dev /\ Stray(Callback, "bridge")
    BY <2>1, <2>2, ListenerStrays
  <2>3. CASE dev' = dev /\ (Refuses \/ Goes(Callback, "write") \/ Goes(Callback, "respond"))
    <3>1. Only(Callback) /\ th'[Callback].dev = d
      BY <1>1, <2>3, ThreadUpdate, PositionsKnown DEF Refuses, OnError
    <3> QED BY <2>1, <2>3, <3>1, ListenerKeeps
  <2>4. CASE /\ Goes(Callback, "wrote") \/ Goes(Callback, "close") \/ Goes(Callback, "fail")
             /\ dev' = dev \/ dev' = [dev EXCEPT ![d].open = FALSE]
    <3>1. Only(Callback) /\ th'[Callback].dev = d
      BY <1>1, <2>4, ThreadUpdate, PositionsKnown
    <3>2. dev' = dev \/ (OnlyDev(d) /\ dev'[d].running = dev[d].running /\ dev'[d].open = FALSE)
      BY <1>1, <2>1, <2>4, DeviceUpdate
    <3> QED BY <2>1, <3>1, <3>2, ListenerKeeps
  <2>5. CASE /\ dev' = [dev EXCEPT ![d].seq = @ + 1]
             /\ th' = [th EXCEPT ![Callback].at = "publish", ![Callback].seq = dev[d].seq + 1]
    <3>1. Only(Callback) /\ th'[Callback].dev = d
      BY <1>1, <2>1, <2>5, ThreadUpdate, PositionsKnown
    <3>2. OnlyDev(d) /\ dev'[d].running = dev[d].running /\ dev'[d].open = dev[d].open
      BY <1>1, <2>1, <2>5, DeviceUpdate
    <3> QED BY <2>1, <3>1, <3>2, ListenerKeeps
  <2>6. CASE markFailure(d) /\ th' = [th EXCEPT ![Callback].at = "snap", ![Callback].ok = FALSE]
    <3>1. Only(Callback) /\ th'[Callback].dev = d
      BY <1>1, <2>6, ThreadUpdate, PositionsKnown
    <3>2. OnlyDev(d) /\ dev'[d].running = dev[d].running /\ dev'[d].open = dev[d].open
      BY <1>1, <2>1, <2>6, DeviceUpdate
    <3> QED BY <2>1, <3>1, <3>2, ListenerKeeps
  <2>7. CASE dev' = dev /\ th' = [th EXCEPT ![Callback] = IdleThread]
    <3>1. Only(Callback) /\ th'[Callback].at = "idle"
      BY <1>1, <2>7, IdleUpdate
    <3> QED BY <2>1, <2>7, <3>1, ListenerKeeps
  <2> QED BY <1>2, <2>2, <2>3, <2>4, <2>5, <2>6, <2>7, HandlesCases
<1>3. CASE Snapshot(Callback)
  <2>1. /\ UNCHANGED <<bridge, ids, dev>> /\ d \in DeviceSet
        /\ th' = [th EXCEPT ![Callback].at = "publish", ![Callback].seq = dev[d].seq]
    BY <1>3 DEF Snapshot, At, gateway, GatewayInv, OnDevice
  <2>2. dev[d].seq \in Nat
    BY <1>1, <2>1 DEF GatewayTypes, Device
  <2>3. Only(Callback) /\ th'[Callback].dev = d
    BY <1>1, <2>1, <2>2, ThreadUpdate, PositionsKnown
  <2> QED BY <2>1, <2>3, ListenerKeeps
<1>4. CASE Publish(Callback)
  <2>1. UNCHANGED <<bridge, ids, dev>> /\ d \in DeviceSet
    BY <1>1, <1>4, PublishCases DEF GatewayInv, OnDevice
  <2> QED BY <1>1, <1>4, <2>1, PublishCases, ListenerStrays, ListenerKeeps
<1> QED BY <1>2, <1>3, <1>4 DEF ListenerStep

LEMMA DeliverStep ==
    ASSUME GatewayInv, NEW d \in DeviceSet, Deliver(d)
    PROVE  GatewayInv'
<1>1. UNCHANGED <<bridge, ids, dev>> /\ Callback \in Threads /\ GatewayTypes
  BY GatewayThreads DEF Deliver, gateway, GatewayInv
<1>2. CASE Stray(Callback, "bridge")
  BY <1>1, <1>2, ListenerStrays
<1>3. CASE th' = [th EXCEPT ![Callback] = [IdleThread EXCEPT !.at = "execute", !.dev = d]]
  <2> DEFINE p == [IdleThread EXCEPT !.at = "execute", !.dev = d]
  <2>1. p \in Position /\ p.dev = d
    BY IdlePosition, PositionsKnown
  <2>2. th' = [th EXCEPT ![Callback] = p]
    BY <1>3
  <2> HIDE DEF p
  <2>3. Only(Callback) /\ th'[Callback].dev = d
    BY <1>1, <2>1, <2>2 DEF GatewayTypes, Only
  <2> QED BY <1>1, <2>3, ListenerKeeps
<1>4. CASE th' = th
  BY <1>1, <1>4, OtherStep, TypesAfter, GatewayConstants DEF GatewayInv, GatewayTypes, OnDevice
<1> QED BY <1>2, <1>3, <1>4 DEF Deliver

LEMMA ConsumerActs ==
    ASSUME GatewayInv, Find \/ Ask
    PROVE  GatewayInv'
<1>1. UNCHANGED <<bridge, ids, dev>> /\ Consumer \in Threads /\ GatewayTypes
  BY GatewayThreads DEF Find, Ask, gateway, GatewayInv
<1>2. ASSUME Only(Consumer), th'[Consumer].at \in {"idle", "held", "stuck"} PROVE GatewayInv'
  <2>1. /\ th'[Main] = th[Main] /\ th'[Callback] = th[Callback]
        /\ \A d \in Serial : th'[d] = th[d]
    BY <1>2, GatewayThreads DEF Only
  <2>2. GatewayTypes'
    BY <1>1, <1>2, TypesAfter DEF Only, GatewayTypes
  <2>3. OnDevice'
    BY <1>2, <2>1, GatewayConstants DEF GatewayInv, OnDevice
  <2> QED BY <1>1, <2>1, <2>2, <2>3, OtherStep
<1>3. CASE Goes(Consumer, "held")
  BY <1>1, <1>2, <1>3, ThreadUpdate, PositionsKnown
<1>4. CASE th' = [th EXCEPT ![Consumer] = IdleThread]
  BY <1>1, <1>2, <1>4, IdleUpdate
<1>5. CASE Stray(Consumer, "device")
  <2>1. \/ Only(Consumer) /\ th'[Consumer].at \in {"idle", "stuck"}
        \/ th' = [u \in Threads |-> [th[u] EXCEPT !.at = "crashed"]]
    BY <1>1, <1>5, StrayCases, GatewayThreads, IdlePosition
  <2> QED BY <1>1, <1>2, <2>1, CrashStep
<1> QED BY <1>3, <1>4, <1>5 DEF Find, Ask, Goes

\* A step of the activator that leaves the devices alone and takes it to a
\* position from which nothing is known of them.
Plain == {"idle", "create", "replacing", "add", "up", "closing", "stuck"}

LEMMA MainMoves ==
    ASSUME GatewayInv, Only(Main), UNCHANGED <<ids, dev>>,
           bridge' \in [DeviceSet -> {"none", "live", "dead"}],
           \A d \in DeviceSet : bridge'[d] = "live" <=> bridge[d] = "live",
           \/ th'[Main].at \in Plain
           \/ th'[Main].at \in {"snap", "publish", "register"} /\ th'[Main].dev \in DeviceSet
           \/ th'[Main].at = "stopping" /\ th'[Main].ok = FALSE /\ th'[Main].dev \in DeviceSet
           \/ th'[Main].at = "clear" /\ th[Main].at = "unregister"
    PROVE  GatewayInv'
<1>1. /\ th'[Callback] = th[Callback] /\ th'[Consumer] = th[Consumer]
      /\ \A d \in Serial : th'[d] = th[d]
  BY GatewayThreads DEF Only
<1>2. GatewayTypes'
  BY GatewayConstants DEF GatewayInv, GatewayTypes, Only
<1>3. OnDevice'
  BY <1>1, GatewayConstants DEF GatewayInv, OnDevice, Plain
<1>4. \A d \in Serial : Shut(d) => Shut(d)'
  BY <1>1 DEF Shut, Over
<1>5. Adds'
  BY DEF Adds, Plain
<1>6. Stops'
  BY <1>4 DEF Stops, Plain, GatewayInv
<1>7. Readers'
  BY <1>1 DEF Readers, GatewayInv
<1>8. \A d \in Serial : bridge'[d] # "live" => Shut(d)'
  BY <1>4, GatewayThreads DEF GatewayInv
<1> QED BY <1>2, <1>3, <1>5, <1>6, <1>7, <1>8, GatewayConstants DEF GatewayInv

LEMMA BridgesKept ==
    ASSUME GatewayInv, bridge' = bridge \/ Closed
    PROVE  /\ bridge' \in [DeviceSet -> {"none", "live", "dead"}]
           /\ \A d \in DeviceSet : bridge'[d] = "live" <=> bridge[d] = "live"
  BY DEF GatewayInv, GatewayTypes, Closed

LEMMA MainThrown ==
    ASSUME GatewayInv, Thrown
    PROVE  Only(Main) /\ th'[Main].at = "idle"
  BY IdleUpdate, GatewayThreads DEF Thrown, GatewayInv

LEMMA MainPlainSteps ==
    ASSUME GatewayInv,
           \/ Start \/ Replace \/ CreateRuntime \/ Register \/ StartEnds \/ Unregister
           \/ RuntimeStop \/ Snapshot(Main) \/ Publish(Main)
    PROVE  GatewayInv'
<1>0. Main \in Threads /\ GatewayTypes
  BY GatewayThreads DEF GatewayInv
<1>1. CASE Start \/ Replace \/ CreateRuntime
  <2>1. UNCHANGED <<ids, dev>> /\ (bridge' = bridge \/ Closed)
    BY <1>1 DEF Start, Replace, CreateRuntime, gateway
  <2>2. Goes(Main, "replacing") \/ Goes(Main, "create") \/ Goes(Main, "add") \/ Thrown
    BY <1>1 DEF Start, Replace, CreateRuntime
  <2>3. Only(Main) /\ th'[Main].at \in Plain
    BY <1>0, <2>2, ThreadUpdate, PositionsKnown, MainThrown DEF Plain
  <2> QED BY <2>1, <2>3, MainMoves, BridgesKept
<1>2. CASE Register
  <2>1. UNCHANGED <<ids, dev, bridge>> /\ th[Main].dev \in DeviceSet
    BY <1>2 DEF Register, At, GatewayInv, OnDevice
  <2>2. Goes(Main, "add") \/ th' = [th EXCEPT ![Main].at = "stopping", ![Main].ok = FALSE]
    BY <1>2 DEF Register
  <2>3. /\ Only(Main) /\ th'[Main].dev = th[Main].dev
        /\ th'[Main].at = "add" \/ (th'[Main].at = "stopping" /\ th'[Main].ok = FALSE)
    BY <1>0, <2>2, ThreadUpdate, PositionsKnown
  <2> QED BY <2>1, <2>3, MainMoves, BridgesKept DEF Plain
<1>3. CASE StartEnds
  <2> DEFINE p == [IdleThread EXCEPT !.at = "up"]
  <2>1. UNCHANGED <<ids, dev, bridge>> /\ th' = [th EXCEPT ![Main] = p]
    BY <1>3 DEF StartEnds, gateway
  <2>2. p \in Position /\ p.at = "up"
    BY IdlePosition, PositionsKnown
  <2> HIDE DEF p
  <2>3. Only(Main) /\ th'[Main].at = "up"
    BY <1>0, <2>1, <2>2 DEF GatewayTypes, Only
  <2> QED BY <2>1, <2>3, MainMoves, BridgesKept DEF Plain
<1>4. CASE Unregister
  <2>1. UNCHANGED <<ids, dev, bridge>> /\ th[Main].at = "unregister" /\ Goes(Main, "clear")
    BY <1>4 DEF Unregister, At
  <2>2. Only(Main) /\ th'[Main].at = "clear"
    BY <1>0, <2>1, ThreadUpdate, PositionsKnown
  <2> QED BY <2>1, <2>2, MainMoves, BridgesKept
<1>5. CASE RuntimeStop
  <2>1. UNCHANGED <<ids, dev>> /\ Closed /\ Thrown
    BY <1>5 DEF RuntimeStop
  <2> QED BY <2>1, MainThrown, MainMoves, BridgesKept DEF Plain
<1>6. CASE Snapshot(Main)
  <2>1. /\ UNCHANGED <<bridge, ids, dev>> /\ th[Main].dev \in DeviceSet
        /\ th' = [th EXCEPT ![Main].at = "publish", ![Main].seq = dev[th[Main].dev].seq]
    BY <1>6 DEF Snapshot, At, gateway, GatewayInv, OnDevice
  <2>2. dev[th[Main].dev].seq \in Nat
    BY <1>0, <2>1 DEF GatewayTypes, Device
  <2>3. Only(Main) /\ th'[Main].dev = th[Main].dev /\ th'[Main].at = "publish"
    BY <1>0, <2>1, <2>2, ThreadUpdate, PositionsKnown
  <2> QED BY <2>1, <2>3, MainMoves, BridgesKept
<1>7. CASE Publish(Main)
  <2>1. UNCHANGED <<bridge, ids, dev>> /\ th[Main].dev \in DeviceSet
    BY <1>0, <1>7, PublishCases DEF GatewayInv, OnDevice
  <2>2. AfterPublish(Main) = "register"
    BY GatewayThreads DEF AfterPublish
  <2>3. CASE Only(Main) /\ th'[Main].at = "register" /\ th'[Main].dev = th[Main].dev
    BY <2>1, <2>3, MainMoves, BridgesKept
  <2>4. ASSUME NEW w, Stray(Main, w) PROVE GatewayInv'
    <3>1. \/ Only(Main) /\ th'[Main].at \in {"idle", "stuck"}
          \/ th' = [u \in Threads |-> [th[u] EXCEPT !.at = "crashed"]]
      BY <1>0, <2>4, StrayCases, GatewayThreads, IdlePosition
    <3> QED BY <2>1, <3>1, MainMoves, BridgesKept, CrashStep DEF Plain
  <2> QED BY <1>0, <1>7, <2>2, <2>3, <2>4, PublishCases
<1> QED BY <1>1, <1>2, <1>3, <1>4, <1>5, <1>6, <1>7

\* The device after the one the activator is at.
LEMMA NextDevice ==
    ASSUME th[Main].dev \in DeviceSet, ~AllAdded
    PROVE  \E i \in DOMAIN Devices :
              /\ i + 1 \in DOMAIN Devices /\ Devices[i] = th[Main].dev /\ Adding = Devices[i + 1]
              /\ Adding \in DeviceSet
<1>1. /\ Devices \in Seq(DeviceSet) /\ \A i, j \in DOMAIN Devices : Devices[i] = Devices[j] => i = j
      /\ NoDevice \notin DeviceSet
  BY DeviceAssumption DEF IsInjective
<1>2. PICK i \in DOMAIN Devices : Devices[i] = th[Main].dev
  BY DEF DeviceSet, Range
<1>3. (CHOOSE k \in DOMAIN Devices : Devices[k] = th[Main].dev) = i
  BY <1>1, <1>2
<1>4. Adding = Devices[1 + i]
  BY <1>1, <1>3 DEF Adding
<1>5. i # Len(Devices)
  BY <1>2 DEF AllAdded, Last
<1>6. i + 1 \in DOMAIN Devices /\ 1 + i = i + 1
  BY <1>1, <1>2, <1>5
<1> QED BY <1>1, <1>2, <1>4, <1>6

LEMMA FirstDevice ==
    Devices[1] \in DeviceSet /\ 1 \in DOMAIN Devices
  BY DeviceAssumption

LEMMA AddDeviceStep == ASSUME GatewayInv, AddDevice PROVE GatewayInv'
<1> DEFINE d == Adding
<1>0. Main \in Threads /\ GatewayTypes
  BY GatewayThreads DEF GatewayInv
<1>1. d \in DeviceSet
  <2>1. th[Main].dev \in DeviceSet \cup {NoDevice} /\ ~AllAdded
    BY <1>0 DEF AddDevice, GatewayTypes, Position
  <2>2. CASE th[Main].dev = NoDevice
    BY <2>2, FirstDevice DEF Adding
  <2> QED BY <2>1, <2>2, NextDevice
<1>2. CASE Thrown /\ UNCHANGED <<bridge, ids, dev>>
  BY <1>2, MainThrown, MainMoves, BridgesKept DEF Plain
<1>3. CASE /\ d \notin ids /\ ids' = ids \cup {d} /\ bridge' = [bridge EXCEPT ![d] = "live"]
           /\ dev' = [dev EXCEPT ![d] = [Offline EXCEPT !.running = TRUE]]
           /\ th' = [th EXCEPT ![Main].at = "open", ![Main].dev = d]
  <2> HIDE DEF d
  <2>1. Only(Main) /\ th'[Main].at = "open" /\ th'[Main].dev = d
    BY <1>0, <1>1, <1>3, ThreadTurns, PositionsKnown
  <2>2. OnlyDev(d) /\ dev'[d].open = FALSE
    <3> DEFINE r == [Offline EXCEPT !.running = TRUE]
    <3>1. r \in Device /\ r.open = FALSE
      BY DEF Offline, Device
    <3>2. dev' = [dev EXCEPT ![d] = r]
      BY <1>3
    <3> HIDE DEF r
    <3> QED BY <1>0, <1>1, <3>1, <3>2 DEF GatewayTypes, OnlyDev
  <2>3. bridge[d] # "live"
    BY <1>1, <1>3 DEF GatewayInv
  <2>4. d \in Serial => Shut(d)
    BY <2>3 DEF GatewayInv
  <2>5. bridge' \in [DeviceSet -> {"none", "live", "dead"}] /\ bridge'[d] = "live"
        /\ \A e \in DeviceSet \ {d} : bridge'[e] = bridge[e]
    BY <1>0, <1>1, <1>3 DEF GatewayTypes
  <2>6. /\ th'[Callback] = th[Callback] /\ th'[Consumer] = th[Consumer]
        /\ \A e \in Serial : th'[e] = th[e]
    BY <2>1, GatewayThreads DEF Only
  <2>7. GatewayTypes'
    BY <1>0, <1>1, <1>3, <2>1, <2>2, <2>5, GatewayConstants DEF GatewayTypes, Only, OnlyDev
  <2>8. OnDevice'
    BY <1>1, <2>1, <2>6, GatewayConstants DEF GatewayInv, OnDevice
  <2>9. Adds'
    BY <2>1, <2>2, <2>4, <2>5, <2>6 DEF Adds, Shut, Over
  <2>10. Stops'
    BY <2>1 DEF Stops
  <2>11. Readers'
    BY <2>6 DEF Readers, GatewayInv
  <2>12. \A e \in Serial : bridge'[e] # "live" => Shut(e)'
    BY <2>2, <2>5, <2>6, GatewayThreads DEF GatewayInv, Shut, Over, OnlyDev
  <2>13. \A e \in DeviceSet : bridge'[e] = "live" => e \in ids'
    BY <1>3, <2>5 DEF GatewayInv
  <2> QED BY <2>7, <2>8, <2>9, <2>10, <2>11, <2>12, <2>13, GatewayConstants DEF GatewayInv
<1> QED BY <1>2, <1>3 DEF AddDevice

\* The local bridge and device are destroyed: their reader is over, the port shut.
LEMMA DiscardStep ==
    ASSUME GatewayInv, NEW d \in DeviceSet, Discard(d), OnlyDev(d),
           d \in Serial => Over(d) /\ dev'[d].open = FALSE /\ dev'[d].running = FALSE
    PROVE  GatewayInv'
<1>0. Main \in Threads /\ GatewayTypes
  BY GatewayThreads DEF GatewayInv
<1>1. Only(Main) /\ th'[Main].at = "idle"
  BY MainThrown DEF Discard
<1>2. /\ bridge' \in [DeviceSet -> {"none", "live", "dead"}] /\ ids' = ids \ {d} /\ bridge'[d] = "dead"
      /\ \A e \in DeviceSet \ {d} : bridge'[e] = bridge[e]
  BY <1>0 DEF GatewayTypes, Discard
<1>3. /\ th'[Callback] = th[Callback] /\ th'[Consumer] = th[Consumer]
      /\ \A e \in Serial : th'[e] = th[e]
  BY <1>1, GatewayThreads DEF Only
<1>4. GatewayTypes'
  BY <1>0, <1>1, <1>2, GatewayConstants DEF GatewayTypes, Only, OnlyDev
<1>5. OnDevice' /\ Adds' /\ Stops'
  BY <1>1, <1>3, GatewayConstants DEF GatewayInv, OnDevice, Adds, Stops
<1>6. Readers'
  BY <1>3 DEF Readers, GatewayInv
<1>7. \A e \in Serial : bridge'[e] # "live" => Shut(e)'
  BY <1>2, <1>3, GatewayThreads DEF GatewayInv, Shut, Over, OnlyDev
<1>8. \A e \in DeviceSet : bridge'[e] = "live" => e \in ids'
  BY <1>2 DEF GatewayInv
<1> QED BY <1>4, <1>5, <1>6, <1>7, <1>8, GatewayConstants DEF GatewayInv

LEMMA DeviceOpenStep == ASSUME GatewayInv, DeviceOpen PROVE GatewayInv'
<1> DEFINE d == th[Main].dev
<1>0. Main \in Threads /\ GatewayTypes
  BY GatewayThreads DEF GatewayInv
<1>1. /\ th[Main].at = "open" /\ d \in DeviceSet /\ bridge[d] = "live"
      /\ d \in Serial => Over(d)
  BY DEF DeviceOpen, At, GatewayInv, OnDevice, Adds
<1>2. CASE Discard(d) /\ dev' = [dev EXCEPT ![d] = Offline]
  <2>1. Offline \in Device /\ Offline.open = FALSE /\ Offline.running = FALSE
    BY DEF Offline, Device
  <2>2. OnlyDev(d) /\ dev'[d] = Offline
    BY <1>0, <1>1, <1>2, <2>1, DeviceUpdate
  <2> QED BY <1>1, <1>2, <2>1, <2>2, DiscardStep
<1>3. CASE /\ dev' = [dev EXCEPT ![d].open = d \in Serial]
           /\ Goes(Main, IF d \in Serial THEN "ready" ELSE "register")
           /\ UNCHANGED <<bridge, ids>>
  <2>1. /\ Only(Main) /\ th'[Main].dev = d
        /\ th'[Main].at = IF d \in Serial THEN "ready" ELSE "register"
    BY <1>0, <1>3, ThreadUpdate, PositionsKnown
  <2>2. OnlyDev(d)
    <3> DEFINE o == d \in Serial
    <3>1. o \in BOOLEAN /\ dev' = [dev EXCEPT ![d].open = o]
      BY <1>3
    <3> HIDE DEF o
    <3> QED BY <1>0, <1>1, <3>1, DeviceUpdate
  <2> HIDE DEF d
  <2>3. /\ th'[Callback] = th[Callback] /\ th'[Consumer] = th[Consumer]
        /\ \A e \in Serial : th'[e] = th[e]
    BY <2>1, GatewayThreads DEF Only
  <2>4. GatewayTypes'
    BY <1>0, <1>3, <2>1, <2>2, GatewayConstants DEF GatewayTypes, Only, OnlyDev
  <2>5. OnDevice'
    BY <1>1, <2>1, <2>3, GatewayConstants DEF GatewayInv, OnDevice
  <2>6. Adds'
    BY <1>1, <1>3, <2>1, <2>3 DEF Adds, Over
  <2>7. Stops' /\ Readers'
    BY <2>1, <2>3 DEF Stops, Readers, GatewayInv
  <2>8. \A e \in Serial : bridge'[e] # "live" => Shut(e)'
    BY <1>1, <1>3, <2>2, <2>3, GatewayThreads DEF GatewayInv, Shut, Over, OnlyDev
  <2> QED BY <1>3, <2>4, <2>5, <2>6, <2>7, <2>8, GatewayConstants DEF GatewayInv
<1> QED BY <1>2, <1>3 DEF DeviceOpen

\* markReady and the start of the reader.
LEMMA DeviceReadyStep == ASSUME GatewayInv, DeviceReady PROVE GatewayInv'
<1> DEFINE d == th[Main].dev
           p == [IdleThread EXCEPT !.at = "top", !.dev = d]
           q == [th[Main] EXCEPT !.at = "snap"]
<1>0. Main \in Threads /\ GatewayTypes
  BY GatewayThreads DEF GatewayInv
<1>1. /\ th[Main].at = "ready" /\ d \in DeviceSet /\ bridge[d] = "live" /\ d \in Serial
      /\ UNCHANGED <<bridge, ids>> /\ markReady(d)
      /\ th' = [th EXCEPT ![Main].at = "snap", ![d] = p]
  BY DEF DeviceReady, At, gateway, GatewayInv, OnDevice, Adds
<1>2. OnlyDev(d)
  BY <1>0, <1>1, DeviceUpdate
<1>3. p \in Position /\ p.dev = d /\ d # Main /\ d \in Threads
  <2>1. d # Main /\ d \in Threads
    BY <1>1, GatewayThreads
  <2>2. "top" \in Positions /\ d \in DeviceSet
    BY <1>1, PositionsKnown
  <2>3. p \in Position /\ p.dev = d
    BY <2>2, IdlePosition
  <2> QED BY <2>1, <2>3
<1>4. q \in Position /\ q.at = "snap" /\ q.dev = d
  BY <1>0, Moved, PositionsKnown DEF GatewayTypes
<1>5. th' = [th EXCEPT ![Main] = q, ![d] = p]
  BY <1>0, <1>1, <1>3 DEF GatewayTypes
<1> HIDE DEF d, p, q
<1>6. /\ th' \in [Threads -> Position] /\ th'[Main] = q /\ th'[d] = p
      /\ \A u \in Threads \ {Main, d} : th'[u] = th[u]
  BY <1>0, <1>3, <1>4, <1>5 DEF GatewayTypes
<1>7. /\ th'[Callback] = th[Callback] /\ th'[Consumer] = th[Consumer]
      /\ \A e \in Serial \ {d} : th'[e] = th[e]
  BY <1>1, <1>6, GatewayThreads
<1>8. GatewayTypes'
  BY <1>0, <1>1, <1>2, <1>6, GatewayConstants DEF GatewayTypes, OnlyDev
<1>9. OnDevice'
  BY <1>1, <1>4, <1>6, <1>7, GatewayConstants DEF GatewayInv, OnDevice
<1>10. Adds' /\ Stops'
  BY <1>4, <1>6 DEF Adds, Stops
<1>11. Readers'
  BY <1>3, <1>6, <1>7 DEF Readers, GatewayInv
<1>12. \A e \in Serial : bridge'[e] # "live" => Shut(e)'
  BY <1>1, <1>2, <1>7, GatewayThreads DEF GatewayInv, Shut, Over, OnlyDev
<1> QED BY <1>1, <1>8, <1>9, <1>10, <1>11, <1>12, GatewayConstants DEF GatewayInv

\* Before the first device there is none.
LEMMA StopStep == ASSUME GatewayInv, Stop PROVE GatewayInv'
<1>0. Main \in Threads /\ GatewayTypes
  BY GatewayThreads DEF GatewayInv
<1>1. UNCHANGED <<bridge, ids, dev>> /\ th' = [th EXCEPT ![Main].at = "stopping", ![Main].dev = Devices[1]]
  BY DEF Stop, gateway
<1>2. Only(Main) /\ th'[Main].at = "stopping" /\ th'[Main].dev = Devices[1]
  <2> DEFINE d == Devices[1]
  <2>1. d \in DeviceSet /\ th' = [th EXCEPT ![Main].at = "stopping", ![Main].dev = d]
    BY <1>1, FirstDevice
  <2> HIDE DEF d
  <2>2. Only(Main) /\ th'[Main].at = "stopping" /\ th'[Main].dev = d
    BY <1>0, <2>1, ThreadTurns, PositionsKnown
  <2> QED BY <2>2 DEF d
<1>3. /\ th'[Callback] = th[Callback] /\ th'[Consumer] = th[Consumer]
      /\ \A e \in Serial : th'[e] = th[e]
  BY <1>2, GatewayThreads DEF Only
<1>4. \A d \in Serial : ~Passed(d)'
  <2>1. /\ \A i \in DOMAIN Devices : i \in Nat /\ i >= 1
        /\ \A i, j \in DOMAIN Devices : Devices[i] = Devices[j] => i = j
    BY DeviceAssumption DEF IsInjective
  <2>2. \A j \in DOMAIN Devices : Devices[j] = Devices[1] => j = 1
    BY <2>1, FirstDevice
  <2> QED BY <1>2, <2>1, <2>2 DEF Passed
<1>5. GatewayTypes'
  BY <1>0, <1>1, <1>2, GatewayConstants DEF GatewayTypes, Only
<1>6. OnDevice'
  BY <1>2, <1>3, FirstDevice, GatewayConstants DEF GatewayInv, OnDevice
<1>7. Adds' /\ Stops'
  BY <1>2, <1>4 DEF Adds, Stops
<1>8. Readers' /\ \A d \in Serial : Shut(d) => Shut(d)'
  BY <1>1, <1>3 DEF Readers, GatewayInv, Shut, Over
<1> QED BY <1>1, <1>5, <1>6, <1>7, <1>8, GatewayConstants DEF GatewayInv

\* _running is cleared.
LEMMA BridgeStopStep == ASSUME GatewayInv, BridgeStop PROVE GatewayInv'
<1> DEFINE d == th[Main].dev
<1>0. Main \in Threads /\ GatewayTypes
  BY GatewayThreads DEF GatewayInv
<1>1. /\ th[Main].at = "stopping" /\ d \in DeviceSet /\ UNCHANGED <<bridge, ids>>
      /\ dev' = [dev EXCEPT ![d].running = FALSE] /\ Goes(Main, "join")
  BY DEF BridgeStop, At, GatewayInv, OnDevice
<1>2. OnlyDev(d) /\ dev'[d].open = dev[d].open /\ dev'[d].running = FALSE
  BY <1>0, <1>1, DeviceUpdate
<1>3. Only(Main) /\ th'[Main].at = "join" /\ th'[Main].dev = d /\ th'[Main].ok = th[Main].ok
  BY <1>0, <1>1, ThreadUpdate, PositionsKnown
<1>4. \A e \in Serial : Passed(e)' => Passed(e)
  BY <1>3 DEF Passed
<1> HIDE DEF d
<1>5. /\ th'[Callback] = th[Callback] /\ th'[Consumer] = th[Consumer]
      /\ \A e \in Serial : th'[e] = th[e]
  BY <1>3, GatewayThreads DEF Only
<1>6. \A e \in Serial : Shut(e) => Shut(e)'
  BY <1>2, <1>5, GatewayThreads DEF Shut, Over, OnlyDev
<1>7. GatewayTypes'
  BY <1>0, <1>1, <1>2, <1>3, GatewayConstants DEF GatewayTypes, Only, OnlyDev
<1>8. OnDevice'
  BY <1>1, <1>3, <1>5, GatewayConstants DEF GatewayInv, OnDevice
<1>9. Adds' /\ Stops'
  BY <1>1, <1>2, <1>3, <1>4, <1>6 DEF Adds, Stops, GatewayInv
<1>10. Readers'
  BY <1>5 DEF Readers, GatewayInv
<1> QED BY <1>1, <1>6, <1>7, <1>8, <1>9, <1>10, GatewayConstants DEF GatewayInv

\* The bridges up to this one are stopped; the next, or none, is left.
LEMMA PassedOn ==
    ASSUME NEW d \in DeviceSet, NEW e \in Serial, th[Main].dev = d
    PROVE  /\ AllAdded => e = d \/ Passed(e)
           /\ ~AllAdded /\ th'[Main].dev = Adding /\ Passed(e)' => e = d \/ Passed(e)
<1>1. /\ \A i \in DOMAIN Devices : i \in Nat /\ i >= 1 /\ i <= Len(Devices)
      /\ \A i, j \in DOMAIN Devices : Devices[i] = Devices[j] => i = j
      /\ Len(Devices) \in DOMAIN Devices
  BY DeviceAssumption DEF IsInjective
<1>2. PICK k \in DOMAIN Devices : Devices[k] = e
  BY GatewayThreads DEF DeviceSet, Range
<1>3. ASSUME AllAdded PROVE e = d \/ Passed(e)
  <2>1. d = Devices[Len(Devices)]
    BY <1>3 DEF AllAdded, Last
  <2>2. k = Len(Devices) \/ k < Len(Devices)
    BY <1>1
  <2> QED BY <1>1, <1>2, <2>1, <2>2 DEF Passed
<1>4. ASSUME ~AllAdded, th'[Main].dev = Adding, Passed(e)' PROVE e = d \/ Passed(e)
  <2>1. PICK i \in DOMAIN Devices : i + 1 \in DOMAIN Devices /\ Devices[i] = d /\ Adding = Devices[i + 1]
    BY <1>4, NextDevice
  <2>2. PICK m, j \in DOMAIN Devices : m < j /\ Devices[m] = e /\ Devices[j] = Devices[i + 1]
    BY <1>4, <2>1 DEF Passed
  <2>3. j = i + 1
    BY <1>1, <2>1, <2>2
  <2>4. m = i \/ m < i
    BY <1>1, <2>2, <2>3
  <2> QED BY <2>1, <2>2, <2>4 DEF Passed
<1> QED BY <1>3, <1>4

\* The reader is joined, the port closed.
LEMMA DeviceStoppedStep == ASSUME GatewayInv, DeviceStopped PROVE GatewayInv'
<1> DEFINE d == th[Main].dev
<1>0. Main \in Threads /\ GatewayTypes
  BY GatewayThreads DEF GatewayInv
<1>1. /\ th[Main].at = "join" /\ d \in DeviceSet /\ dev[d].running = FALSE
      /\ d \in Serial => Over(d)
      /\ dev' = [dev EXCEPT ![d].state = "offline", ![d].seq = @ + 1, ![d].open = FALSE]
  BY DEF DeviceStopped, ReaderEnded, At, GatewayInv, OnDevice, Stops, Over
<1>2. OnlyDev(d) /\ dev'[d].open = FALSE /\ dev'[d].running = FALSE
  BY <1>0, <1>1, DeviceUpdate
<1>3. CASE Discard(d)
  BY <1>1, <1>2, <1>3, DiscardStep
<1>4. CASE /\ th[Main].ok = TRUE /\ UNCHANGED <<bridge, ids>>
           /\ \/ AllAdded /\ Goes(Main, "unregister")
              \/ ~AllAdded /\ th' = [th EXCEPT ![Main].at = "stopping", ![Main].dev = Adding]
  <2>1. /\ Only(Main)
        /\ \/ AllAdded /\ th'[Main].at = "unregister"
           \/ ~AllAdded /\ th'[Main].at = "stopping" /\ th'[Main].dev = Adding /\ Adding \in DeviceSet
    <3> DEFINE n == Adding
    <3>1. ~AllAdded => n \in DeviceSet
      BY <1>1, NextDevice
    <3>2. CASE AllAdded /\ Goes(Main, "unregister")
      BY <1>0, <3>2, ThreadUpdate, PositionsKnown
    <3>3. CASE ~AllAdded /\ th' = [th EXCEPT ![Main].at = "stopping", ![Main].dev = n]
      <4> HIDE DEF n
      <4>1. Only(Main) /\ th'[Main].at = "stopping" /\ th'[Main].dev = n
        BY <1>0, <3>1, <3>3, ThreadTurns, PositionsKnown
      <4> QED BY <3>1, <3>3, <4>1 DEF n
    <3> QED BY <1>4, <3>2, <3>3
  <2>2. /\ th'[Callback] = th[Callback] /\ th'[Consumer] = th[Consumer]
        /\ \A e \in Serial : th'[e] = th[e]
    BY <2>1, GatewayThreads DEF Only
  <2>3. \A e \in Serial : e = d \/ Passed(e) => Shut(e)'
    <3>1. \A e \in Serial : Passed(e) => Shut(e)
      BY <1>1, <1>4 DEF GatewayInv, Stops
    <3> HIDE DEF d
    <3> QED BY <1>1, <1>2, <2>2, <3>1, GatewayThreads DEF Shut, Over, OnlyDev
  <2>4. \A e \in Serial : AllAdded \/ Passed(e)' => e = d \/ Passed(e)
    BY <1>1, <2>1, PassedOn
  <2>5. Stops'
    BY <2>1, <2>3, <2>4 DEF Stops
  <2> HIDE DEF d
  <2>6. \A e \in Serial : Shut(e) => Shut(e)'
    BY <1>2, <2>2, GatewayThreads DEF Shut, Over, OnlyDev
  <2>7. GatewayTypes'
    BY <1>0, <1>2, <1>4, <2>1, GatewayConstants DEF GatewayTypes, Only, OnlyDev
  <2>8. OnDevice'
    BY <2>1, <2>2, GatewayConstants DEF GatewayInv, OnDevice
  <2>9. Adds' /\ Readers'
    BY <2>1, <2>2 DEF Adds, Readers, GatewayInv
  <2> QED BY <1>4, <2>5, <2>6, <2>7, <2>8, <2>9, GatewayConstants DEF GatewayInv
<1>5. th[Main].ok \in BOOLEAN
  BY <1>0 DEF GatewayTypes, Position
<1> QED BY <1>3, <1>4, <1>5 DEF DeviceStopped

LEMMA ClearStep == ASSUME GatewayInv, ClearGateway PROVE GatewayInv'
<1> DEFINE o == At(Consumer, "idle")
           q == [th[Main] EXCEPT !.at = "closing"]
           p == [th[Consumer] EXCEPT !.ok = o]
<1>0. Main \in Threads /\ Consumer \in Threads /\ Main # Consumer /\ GatewayTypes
  BY GatewayThreads DEF GatewayInv
<1>1. /\ th[Main].at = "clear" /\ bridge' = [d \in DeviceSet |-> "dead"] /\ ids' = {} /\ dev' = dev
      /\ th' = [th EXCEPT ![Main].at = "closing", ![Consumer].ok = o]
  BY DEF ClearGateway, At
<1>2. q \in Position /\ q.at = "closing"
  BY <1>0, Moved, PositionsKnown DEF GatewayTypes
<1>3. p \in Position /\ p.at = th[Consumer].at
  <2>1. o \in BOOLEAN
    BY DEF At
  <2> HIDE DEF o
  <2> QED BY <1>0, <2>1 DEF GatewayTypes, Position
<1>4. th' = [th EXCEPT ![Main] = q, ![Consumer] = p]
  BY <1>0, <1>1 DEF GatewayTypes
<1> HIDE DEF o, p, q
<1>5. /\ th' \in [Threads -> Position] /\ th'[Main] = q /\ th'[Consumer] = p
      /\ \A u \in Threads \ {Main, Consumer} : th'[u] = th[u]
  BY <1>0, <1>2, <1>3, <1>4 DEF GatewayTypes
<1>6. th'[Callback] = th[Callback] /\ \A e \in Serial : th'[e] = th[e]
  BY <1>5, GatewayThreads
<1>7. \A e \in Serial : Shut(e)'
  BY <1>1, <1>6 DEF GatewayInv, Stops, Shut, Over
<1>8. GatewayTypes'
  BY <1>0, <1>1, <1>5, GatewayConstants DEF GatewayTypes
<1>9. OnDevice' /\ Adds' /\ Stops'
  BY <1>2, <1>3, <1>5, <1>6, GatewayConstants DEF GatewayInv, OnDevice, Adds, Stops
<1>10. Readers' /\ \A e \in DeviceSet : bridge'[e] = "live" => e \in ids'
  BY <1>1, <1>6 DEF Readers, GatewayInv
<1> QED BY <1>7, <1>8, <1>9, <1>10, GatewayConstants DEF GatewayInv

LEMMA GatewayInitial == ASSUME GatewayInit PROVE GatewayInv
<1>1. th = [t \in Threads |-> IdleThread] /\ \A t \in Threads : th[t] = IdleThread
  BY DEF GatewayInit
<1>2. /\ bridge = [d \in DeviceSet |-> "none"] /\ ids = {}
      /\ dev = [d \in DeviceSet |-> Offline]
  BY DEF GatewayInit
<1>3. Offline \in Device /\ Offline.open = FALSE /\ Offline.running = FALSE
  BY DEF Offline, Device
<1>4. GatewayTypes
  BY <1>1, <1>2, <1>3, IdlePosition DEF GatewayTypes
<1>5. OnDevice /\ Adds /\ Stops /\ Readers
  BY <1>1, IdlePosition, GatewayThreads DEF OnDevice, Adds, Stops, Readers
<1>6. \A d \in Serial : Shut(d)
  BY <1>1, <1>2, <1>3, IdlePosition, GatewayThreads DEF Shut, Over
<1> QED BY <1>2, <1>4, <1>5, <1>6 DEF GatewayInv

LEMMA GatewayStep == ASSUME GatewayInv, [GatewayNext]_gatewayVars PROVE GatewayInv'
<1>1. CASE MainStep
  BY <1>1, MainPlainSteps, AddDeviceStep, DeviceOpenStep, DeviceReadyStep, BridgeStopStep,
     DeviceStoppedStep, ClearStep DEF MainStep
<1>2. CASE ListenerStep
  BY <1>2, ListenerActs
<1>3. ASSUME NEW d \in Serial, ReaderStep(d) PROVE GatewayInv'
  BY <1>3, ReaderActs
<1>4. ASSUME NEW d \in DeviceSet, Deliver(d) PROVE GatewayInv'
  BY <1>4, DeliverStep
<1>5. CASE Find \/ Ask
  BY <1>5, ConsumerActs
<1>6. CASE Start
  BY <1>6, MainPlainSteps
<1>7. CASE UNCHANGED gatewayVars
  <2>1. UNCHANGED <<th, bridge, ids, dev>>
    BY <1>7 DEF gatewayVars, gateway
  <2>2. GatewayTypes' /\ OnDevice'
    BY <2>1, GatewayConstants DEF GatewayInv, GatewayTypes, OnDevice
  <2> QED BY <2>1, <2>2, OtherStep
<1> QED BY <1>1, <1>2, <1>3, <1>4, <1>5, <1>6, <1>7, StopStep DEF GatewayNext

(* DeviceGateway: when a bridge and its device are destroyed, by stop() or by *)
(* a start that failed half-way, the device's reader is over and its port is  *)
(* closed, for any number of devices, requests, faults and restarts.          *)
THEOREM NothingBehindHolds == GatewaySpec => []NothingBehind
<1>1. GatewayInit => GatewayInv
  BY GatewayInitial
<1>2. GatewayInv /\ [GatewayNext]_gatewayVars => GatewayInv'
  BY GatewayStep
<1>3. GatewayInv => NothingBehind
  BY DEF GatewayInv, NothingBehind, Shut, Over
<1> QED BY <1>1, <1>2, <1>3, PTL DEF GatewaySpec
=============================================================================
