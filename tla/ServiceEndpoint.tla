--------------------------- MODULE ServiceEndpoint ---------------------------
(***************************************************************************)
(* The Fast DDS request/response endpoint of a service bundle              *)
(* (platform/DDS/src/ServiceEndpoint.cpp) on top of its private Runtime    *)
(* (platform/DDS/src/Runtime.cpp).  Four threads meet here:                *)
(*   control    the OSP thread that calls start() and stop(),              *)
(*   worker     ServiceEndpoint::run, created by start, joined by stop,    *)
(*   listener   the Fast DDS thread that calls enqueue for each sample,    *)
(*   publisher  an application thread that calls publishEvent.             *)
(* They share _mutex (queues, cache, _stopping) and the Runtime's mutex    *)
(* (participant, writers, readers).  A critical section is one step unless *)
(* it takes the other mutex inside.                                        *)
(***************************************************************************)
EXTENDS Naturals, Sequences, FiniteSets

CONSTANTS
    CorrIds,      \* non-empty correlation ids clients use
    NoId,         \* the empty correlation id
    CacheLimit,   \* responses kept for replay (256 in the code)
    TraceEnabled, \* PDR_ENABLE_OBSERVABILITY
    MaxSamples,   \* bound: samples the listener takes
    MaxEvents,    \* bound: publishEvent calls
    MaxStarts     \* bound: start() calls

ASSUME EndpointAssumption ==
    /\ NoId \notin CorrIds
    /\ CacheLimit \in Nat \ {0}
    /\ TraceEnabled \in BOOLEAN
    /\ MaxSamples \in Nat /\ MaxEvents \in Nat /\ MaxStarts \in Nat

VARIABLES
    participant,   \* Runtime: the DomainParticipant (and its writers) exist
    reader,        \* Runtime: the request DataReader and its listener exist
    rtMutex,       \* holder of the Runtime mutex between two steps
    mutex,         \* holder of ServiceEndpoint::_mutex between two steps
    ctl,           \* control thread: where start() or stop() stands
    stopping,      \* _stopping
    requests,      \* _requests
    events,        \* _events, as a count
    traceEvents,   \* _traceEvents, as a count
    responses,     \* _responses: execution that produced the reply, 0 if none
    responseOrder, \* _responseOrder
    wpc,           \* worker: position in run()
    job,           \* worker: the request or event taken from the queues
    listener,      \* listener: sample taken and not yet enqueued, or Idle
    pub,           \* publisher: position in publishEvent
    samples, eventsSent, starts, \* counters for the bounds
    executions,    \* history: the requests the handler was called with, in order
    executed,      \* history: correlation ids executed since the cache was cleared
    pushed,        \* history: ids of the requests accepted into _requests
    hadWorker,     \* history: this start() got as far as creating the worker
    replies        \* history: attempts to publish a reply

rtVars   == <<participant, reader, rtMutex>>
epVars   == <<mutex, stopping, requests, events, traceEvents, responses, responseOrder>>
thrVars  == <<ctl, wpc, job, listener, pub>>
boundVars == <<samples, eventsSent, starts>>
histVars == <<executions, executed, pushed, hadWorker, replies>>
vars == <<rtVars, epVars, thrVars, boundVars, histVars>>

Request == [id: Nat \ {0}, cid: CorrIds \cup {NoId}]
Idle == [id |-> 0, cid |-> NoId]
Job == [kind: {"none", "fresh", "cached", "event", "trace"},
        req: Request \cup {Idle}, value: Nat]
EventJob(kind) == [kind |-> kind, req |-> Idle, value |-> 0]
NoJob == EventJob("none")

CtlStates == {"idle", "prepare", "arm", "spawn", "subscribe", "started", "failed",
              "join", "rtLock", "rtDelete", "clear"}
WorkerStates == {"none", "wait", "begin", "handle", "store", "lookup", "write", "done"}

Init ==
    /\ participant = FALSE /\ reader = FALSE /\ rtMutex = "free"
    /\ mutex = "free" /\ stopping = FALSE
    /\ requests = <<>> /\ events = 0 /\ traceEvents = 0
    /\ responses = [c \in CorrIds |-> 0] /\ responseOrder = <<>>
    /\ ctl = "idle" /\ wpc = "none" /\ job = NoJob
    /\ listener = Idle /\ pub = "idle"
    /\ samples = 0 /\ eventsSent = 0 /\ starts = 0
    /\ executions = <<>> /\ executed = <<>> /\ pushed = {} /\ hadWorker = FALSE /\ replies = {}

-----------------------------------------------------------------------------
(* start(): Runtime::start, preparePublisher, arm, spawn the worker, subscribe. *)
(* Any Runtime call may throw; the activator then destroys the endpoint.        *)

StartRuntime ==
    /\ ctl = "idle" /\ starts < MaxStarts /\ rtMutex = "free"
    /\ starts' = starts + 1
    /\ \/ participant' = TRUE /\ ctl' = "prepare"
       \/ participant' = FALSE /\ ctl' = "failed"
    /\ UNCHANGED <<reader, rtMutex, epVars, wpc, job, listener, pub, samples, eventsSent, histVars>>

PreparePublishers ==
    /\ ctl = "prepare" /\ rtMutex = "free"
    /\ ctl' \in {"arm", "failed"}
    /\ UNCHANGED <<rtVars, epVars, wpc, job, listener, pub, boundVars, histVars>>

Arm ==
    /\ ctl = "arm" /\ mutex = "free"
    /\ stopping' = FALSE
    /\ ctl' = "spawn"
    /\ UNCHANGED <<rtVars, mutex, requests, events, traceEvents, responses, responseOrder,
                   wpc, job, listener, pub, boundVars, histVars>>

SpawnWorker ==
    /\ ctl = "spawn" /\ wpc = "none"
    /\ wpc' = "wait" /\ hadWorker' = TRUE
    /\ ctl' = "subscribe"
    /\ UNCHANGED <<rtVars, epVars, job, listener, pub, boundVars,
                   executions, executed, pushed, replies>>

Subscribe ==
    /\ ctl = "subscribe" /\ rtMutex = "free"
    /\ \/ reader' = TRUE /\ ctl' = "started"
       \/ reader' = FALSE /\ ctl' = "failed"
    /\ UNCHANGED <<participant, rtMutex, epVars, wpc, job, listener, pub, boundVars, histVars>>

-----------------------------------------------------------------------------
(* stop(): raise _stopping, join the worker, Runtime::stop, clear.              *)
(* Runtime::stop keeps the Runtime mutex while Fast DDS deletes the reader,     *)
(* and that waits for a listener callback in progress.                          *)

\* std::thread::join returns; the mutant detaches instead.
WorkerFinishedDetached == TRUE
WorkerFinished == wpc \in {"none", "done"}

RaiseStopping ==
    /\ ctl \in {"started", "failed"} /\ mutex = "free"
    /\ stopping' = TRUE
    /\ ctl' = "join"
    /\ UNCHANGED <<rtVars, mutex, requests, events, traceEvents, responses, responseOrder,
                   wpc, job, listener, pub, boundVars, histVars>>

JoinWorker ==
    /\ ctl = "join" /\ WorkerFinished
    /\ wpc' = IF wpc = "done" THEN "none" ELSE wpc
    /\ ctl' = "rtLock"
    /\ UNCHANGED <<rtVars, epVars, job, listener, pub, boundVars, histVars>>

RuntimeStopLock ==
    /\ ctl = "rtLock" /\ rtMutex = "free"
    /\ rtMutex' = "control"
    /\ ctl' = "rtDelete"
    /\ UNCHANGED <<participant, reader, epVars, wpc, job, listener, pub, boundVars, histVars>>

RuntimeStopDelete ==
    /\ ctl = "rtDelete" /\ listener = Idle
    /\ participant' = FALSE /\ reader' = FALSE /\ rtMutex' = "free"
    /\ ctl' = "clear"
    /\ UNCHANGED <<epVars, wpc, job, listener, pub, boundVars, histVars>>

Clear ==
    /\ ctl = "clear" /\ mutex = "free"
    /\ requests' = <<>> /\ events' = 0 /\ traceEvents' = 0
    /\ responses' = [c \in CorrIds |-> 0] /\ responseOrder' = <<>>
    /\ executed' = <<>> /\ hadWorker' = FALSE
    /\ ctl' = "idle"
    /\ UNCHANGED <<rtVars, mutex, stopping, wpc, job, listener, pub, boundVars,
                   executions, pushed, replies>>

-----------------------------------------------------------------------------
(* Listener: on_data_available takes a sample, the handler is enqueue().        *)
(* A client that retries sends the same correlation id again.                   *)

TakeSample(c) ==
    /\ reader /\ listener = Idle /\ samples < MaxSamples
    /\ samples' = samples + 1
    /\ listener' = [id |-> samples + 1, cid |-> c]
    /\ UNCHANGED <<rtVars, epVars, ctl, wpc, job, pub, eventsSent, starts, histVars>>

Pushed(r) == Append(requests, r)

enqueue ==
    /\ listener # Idle /\ mutex = "free"
    /\ listener' = Idle
    /\ \/ /\ stopping
          /\ UNCHANGED <<requests, pushed>>
       \/ /\ ~stopping
          /\ requests' = Pushed(listener)
          /\ pushed' = pushed \cup {listener.id}
    /\ UNCHANGED <<rtVars, mutex, stopping, events, traceEvents, responses, responseOrder,
                   ctl, wpc, job, pub, boundVars, executions, executed, hadWorker, replies>>

-----------------------------------------------------------------------------
(* Publisher: publishEvent asks the Runtime whether it is started while it      *)
(* holds _mutex; the test of _stopping comes first and short-circuits it.       *)

EventAcceptedLate == TRUE
EventAccepted == ~stopping

publishEvent ==
    /\ pub = "idle" /\ eventsSent < MaxEvents /\ mutex = "free"
    /\ eventsSent' = eventsSent + 1
    /\ \/ /\ ~EventAccepted
          /\ UNCHANGED <<pub, mutex>>
       \/ /\ EventAccepted
          /\ pub' = "started?" /\ mutex' = "publisher"
    /\ UNCHANGED <<rtVars, stopping, requests, events, traceEvents, responses, responseOrder,
                   ctl, wpc, job, listener, samples, starts, histVars>>

publishEventPush ==
    /\ pub = "started?" /\ rtMutex = "free"
    /\ pub' = "idle" /\ mutex' = "free"
    /\ events' = IF participant THEN events + 1 ELSE events
    /\ UNCHANGED <<rtVars, stopping, requests, traceEvents, responses, responseOrder,
                   ctl, wpc, job, listener, boundVars, histVars>>

-----------------------------------------------------------------------------
(* Worker: run().                                                               *)

QueuesEmpty == requests = <<>> /\ events = 0 /\ traceEvents = 0

MayReturnAtOnce == stopping
MayReturn == stopping /\ QueuesEmpty

HasEvent == events > 0

CachedReplyLast(c) == Len(executions)
CachedReply(c) == responses[c]

\* The predicate of the condition variable holds: return, or take one item,
\* requests before events before trace spans.
WorkerReturn ==
    /\ wpc = "wait" /\ mutex = "free"
    /\ MayReturn
    /\ wpc' = "done"
    /\ UNCHANGED <<rtVars, epVars, ctl, job, listener, pub, boundVars, histVars>>

WorkerTakeRequest ==
    /\ wpc = "wait" /\ mutex = "free" /\ requests # <<>>
    /\ requests' = Tail(requests)
    /\ LET r == Head(requests)
           hit == r.cid # NoId /\ responses[r.cid] # 0
       IN /\ job' = [kind |-> IF hit THEN "cached" ELSE "fresh", req |-> r,
                     value |-> IF hit THEN CachedReply(r.cid) ELSE 0]
          /\ wpc' = IF hit THEN "lookup" ELSE "begin"
    /\ UNCHANGED <<rtVars, mutex, stopping, events, traceEvents, responses, responseOrder,
                   ctl, listener, pub, boundVars, histVars>>

WorkerTakeEvent ==
    /\ wpc = "wait" /\ mutex = "free" /\ requests = <<>>
    /\ \/ /\ HasEvent
          /\ events' = events - 1 /\ job' = EventJob("event")
          /\ UNCHANGED traceEvents
       \/ /\ ~HasEvent /\ traceEvents > 0
          /\ traceEvents' = traceEvents - 1 /\ job' = EventJob("trace")
          /\ UNCHANGED events
    /\ wpc' = "lookup"
    /\ UNCHANGED <<rtVars, mutex, stopping, requests, responses, responseOrder,
                   ctl, listener, pub, boundVars, histVars>>

\* onChanged: queue a span snapshot, unless observability is off or the
\* endpoint is stopping.
RecordSpan ==
    /\ TraceEnabled => mutex = "free"
    /\ traceEvents' = IF TraceEnabled /\ ~stopping THEN traceEvents + 1 ELSE traceEvents

\* startBusiness or continueBusiness opens the span of the request.
WorkerBegin ==
    /\ wpc = "begin"
    /\ RecordSpan
    /\ wpc' = "handle"
    /\ UNCHANGED <<rtVars, mutex, stopping, requests, events, responses, responseOrder,
                   ctl, job, listener, pub, boundVars, histVars>>

\* The handler runs without any lock; a thrown exception becomes a status-500
\* reply that is stored and sent like any other.  Then the span is closed.
WorkerHandle ==
    /\ wpc = "handle"
    /\ RecordSpan
    /\ executions' = Append(executions, job.req)
    /\ executed' = IF job.req.cid # NoId THEN Append(executed, job.req.cid) ELSE executed
    /\ job' = [kind |-> job.kind, req |-> job.req, value |-> Len(executions) + 1]
    /\ wpc' = IF job.req.cid # NoId THEN "store" ELSE "lookup"
    /\ UNCHANGED <<rtVars, mutex, stopping, requests, events, responses, responseOrder,
                   ctl, listener, pub, boundVars, pushed, hadWorker, replies>>

\* How many entries the eviction loop drops from the front of the order.
ExcessEarly(order) == IF Len(order) >= CacheLimit THEN Len(order) - CacheLimit + 1 ELSE 0
Excess(order) == IF Len(order) > CacheLimit THEN Len(order) - CacheLimit ELSE 0

WorkerStore ==
    /\ wpc = "store" /\ mutex = "free"
    /\ LET order == Append(responseOrder, job.req.cid)
           evicted == {order[i] : i \in 1..Excess(order)}
       IN /\ responseOrder' = SubSeq(order, Excess(order) + 1, Len(order))
          /\ responses' = [c \in CorrIds |->
                             IF c \in evicted THEN 0
                             ELSE IF c = job.req.cid THEN job.value
                             ELSE responses[c]]
    /\ wpc' = "lookup"
    /\ UNCHANGED <<rtVars, mutex, stopping, requests, events, traceEvents,
                   ctl, job, listener, pub, boundVars, histVars>>

\* Runtime::publish: preparePublisher and writers.at under the Runtime mutex
\* (they throw when the runtime is not started), then write() without it.
WorkerLookup ==
    /\ wpc = "lookup" /\ rtMutex = "free"
    /\ wpc' = IF participant THEN "write" ELSE "wait"
    /\ job' = IF participant THEN job ELSE NoJob
    /\ UNCHANGED <<rtVars, epVars, ctl, listener, pub, boundVars, histVars>>

\* write() may fail; run() swallows the exception.
WorkerWrite(ok) ==
    /\ wpc = "write"
    /\ replies' = IF job.kind \in {"fresh", "cached"}
                  THEN replies \cup {[req |-> job.req, value |-> job.value, ok |-> ok]}
                  ELSE replies
    /\ job' = NoJob
    /\ wpc' = "wait"
    /\ UNCHANGED <<rtVars, epVars, ctl, listener, pub, boundVars, executions, executed, pushed, hadWorker>>

-----------------------------------------------------------------------------
Control == \/ StartRuntime \/ PreparePublishers \/ Arm \/ SpawnWorker \/ Subscribe
           \/ RaiseStopping \/ JoinWorker \/ RuntimeStopLock \/ RuntimeStopDelete \/ Clear
Listener == (\E c \in CorrIds \cup {NoId} : TakeSample(c)) \/ enqueue
Publisher == publishEvent \/ publishEventPush
Worker == \/ WorkerReturn \/ WorkerTakeRequest \/ WorkerTakeEvent
          \/ WorkerBegin \/ WorkerHandle \/ WorkerStore \/ WorkerLookup
          \/ \E ok \in BOOLEAN : WorkerWrite(ok)

Next == Control \/ Listener \/ Publisher \/ Worker

Spec == Init /\ [][Next]_vars

\* The control thread finishes a start() or stop() it has begun, the worker is
\* scheduled and its handler returns, a sample taken is handed on, publishEvent
\* returns.  Nothing obliges a client to send or the container to start or stop.
FairSpec ==
    /\ Spec
    /\ WF_vars(PreparePublishers \/ Arm \/ SpawnWorker \/ Subscribe
               \/ JoinWorker \/ RuntimeStopLock \/ RuntimeStopDelete \/ Clear)
    /\ WF_vars(Worker)
    /\ WF_vars(enqueue)
    /\ WF_vars(publishEventPush)

-----------------------------------------------------------------------------
(* Properties.                                                                  *)

TypeOK ==
    /\ participant \in BOOLEAN /\ reader \in BOOLEAN /\ stopping \in BOOLEAN
    /\ rtMutex \in {"free", "control"} /\ mutex \in {"free", "publisher"}
    /\ ctl \in CtlStates /\ wpc \in WorkerStates /\ job \in Job
    /\ listener \in Request \cup {Idle} /\ pub \in {"idle", "started?"}
    /\ requests \in Seq(Request) /\ events \in Nat /\ traceEvents \in Nat
    /\ responses \in [CorrIds -> Nat] /\ responseOrder \in Seq(CorrIds)
    /\ samples \in Nat /\ eventsSent \in Nat /\ starts \in Nat
    /\ executions \in Seq(Request) /\ executed \in Seq(CorrIds)
    /\ pushed \in SUBSET Nat /\ hadWorker \in BOOLEAN
    /\ replies \in SUBSET [req: Request, value: Nat, ok: BOOLEAN]

Replied(id) == \E r \in replies : r.req.id = id

\* The response cache makes retries idempotent within its capacity: between two
\* executions of the handler for one correlation id lie at least CacheLimit
\* executions for other ids (or a stop()).  Lookup and store are two separate
\* critical sections with the handler in between.
ReplayWindow ==
    \A i, j \in 1..Len(executed) :
        i < j /\ executed[i] = executed[j] => j - i > CacheLimit

\* A reply carries the result of an execution for the same correlation id, and a
\* request without correlation id is answered by its own execution only.
ReplyFidelity ==
    \A r \in replies :
        /\ r.value \in 1..Len(executions)
        /\ executions[r.value].cid = r.req.cid
        /\ r.req.cid = NoId => executions[r.value].id = r.req.id

\* Graceful stop: when stop() has joined the worker, every request that enqueue
\* accepted has been answered and no queued event or span is left for the
\* clear() calls to discard, however enqueue, publishEvent and stop interleave
\* (a start() that failed before it created the worker has nobody to drain).
DrainedBeforeClear ==
    ctl \in {"rtLock", "rtDelete", "clear"} =>
        (hadWorker => QueuesEmpty) /\ \A id \in pushed : Replied(id)

\* Runtime::publish uses the DataWriter after it released the Runtime mutex; the
\* writer is still alive because stop() joins the worker before Runtime::stop.
NoWriteAfterDelete == wpc = "write" => participant

\* stop() returns: no cycle among _mutex (publishEvent), the Runtime mutex
\* (Runtime::stop) and the listener callback that Runtime::stop waits for.
StopCompletes == ctl = "join" ~> ctl = "idle"

\* Every accepted request is eventually answered, also when stop() races it.
AcceptedIsAnswered == \A id \in 1..MaxSamples : id \in pushed ~> Replied(id)
=============================================================================
