--------------------------- MODULE DeviceGateway ----------------------------
(***************************************************************************)
(* The device gateway: its activator makes a DDS runtime and, for every    *)
(* configured device, a bridge that publishes the device's snapshots and   *)
(* executes the requests that arrive.  Serial devices have a reader thread *)
(* that shares the channel and the device's state with the DDS listener    *)
(* thread, which writes; other devices are reduced to whether they start.  *)
(* A monitoring thread reads devices through their registered services.    *)
(* Source: services/DeviceGateway/src/BundleActivator.cpp,                 *)
(* DeviceBridge.cpp and Runtime.cpp of platform/DDS/src,                   *)
(* platform/devices/Serial/src/SerialPortDevice.cpp and                    *)
(* platform/protocols/Serial/src/SerialChannel.cpp, under src/.            *)
(***************************************************************************)
EXTENDS Naturals, Sequences, SequencesExt, FiniteSets

CONSTANTS
    Devices,      \* the configured devices, in the order they are added
    Serial,       \* those with a serial port
    Reconnect,    \* SerialReconnectPolicy.enabled
    Main, Callback, Consumer,  \* threads; a reader is named by its device
    NoDevice,
    MaxLaunches,  \* bound: calls of the activator's start()
    MaxRequests,  \* bound: requests
    MaxData,      \* bound: reads that return bytes
    MaxFaults     \* bound: failures of a port, a device or the registry

DeviceSet == Range(Devices)
Threads == {Main, Callback, Consumer} \cup Serial

ASSUME DeviceAssumption ==
    /\ Devices \in Seq(DeviceSet) /\ Devices # <<>> /\ IsInjective(Devices)
    /\ Serial \subseteq DeviceSet /\ Reconnect \in BOOLEAN
    /\ NoDevice \notin DeviceSet /\ {Main, Callback, Consumer} \cap DeviceSet = {}
    /\ Main # Callback /\ Main # Consumer /\ Callback # Consumer

VARIABLES
    th,        \* per thread: where it is, its device, the sequence of the snapshot it
               \* holds and the status of the response it prepares
    runtime,   \* the participant of _runtime exists
    subs,      \* devices whose bridge has a reader on the request topic
    bridge,    \* per device: none, live, or dead while a subscription may call it
    started,   \* _started of the bridges
    ids,       \* _deviceIds: the devices added
    services,  \* registered services
    foreign,   \* bridges that refer to a runtime that was replaced
    dev,       \* per device: _running, _state, _sequence, the channel
    wire,      \* per device: the last sequence published
    answered,  \* history: per request, the number of responses
    overtaken, \* history: devices reopened before their failure was recorded
    stray,     \* history: what was used after its destruction
    launches, asked, data, faults   \* bounds

gateway == <<runtime, subs, bridge, started, ids, services, foreign>>
history == <<answered, overtaken, stray>>
bounds == <<launches, asked, data, faults>>
gatewayVars == <<th, gateway, dev, wire, history, bounds>>

At(t, at) == th[t].at = at
Goes(t, at) == th' = [th EXCEPT ![t].at = at]
IdleThread == [at |-> "idle", dev |-> NoDevice, seq |-> 0, ok |-> TRUE]

Offline == [running |-> FALSE, state |-> "offline", seq |-> 0, open |-> FALSE]

GatewayInit ==
    /\ th = [t \in Threads |-> IdleThread]
    /\ runtime = FALSE /\ subs = {} /\ bridge = [d \in DeviceSet |-> "none"]
    /\ started = {} /\ ids = {} /\ services = {} /\ foreign = {}
    /\ dev = [d \in DeviceSet |-> Offline] /\ wire = [d \in DeviceSet |-> 0]
    /\ answered = [r \in 1..MaxRequests |-> 0] /\ overtaken = {} /\ stray = {}
    /\ launches = 0 /\ asked = 0 /\ data = 0 /\ faults = 0

Fault == faults < MaxFaults /\ faults' = faults + 1

(***************************************************************************)
(* Runtime.  stop() holds the mutex that publish() takes, and deleting the *)
(* readers waits for a callback in progress.                               *)
(***************************************************************************)
MutexFree == ~(th[Main].at \in {"closing", "replacing"} /\ runtime)
CallbackOver == At(Callback, "idle")

\* Undefined behaviour, a destroyed object is used: the call returns, never
\* returns, or ends the process.
Stray(t, what) ==
    /\ stray' = stray \cup {what}
    /\ \/ th' = [th EXCEPT ![t] =
                    IF t \in Serial THEN [IdleThread EXCEPT !.at = "top", !.dev = t] ELSE IdleThread]
       \/ Goes(t, "stuck")
       \/ th' = [u \in Threads |-> [th[u] EXCEPT !.at = "crashed"]]

(***************************************************************************)
(* Activator start and addDevice.                                          *)
(***************************************************************************)
Rest == UNCHANGED <<wire, history>>

\* make_unique: the assignment destroys the runtime a failed start left.
Start ==
    /\ At(Main, "idle") /\ launches < MaxLaunches
    /\ launches' = launches + 1
    /\ Goes(Main, IF runtime THEN "replacing" ELSE "create")
    /\ Rest /\ UNCHANGED <<gateway, dev, asked, data, faults>>

\* stopUnlocked(): the listeners go with the participant.
Closed ==
    /\ CallbackOver
    /\ runtime' = FALSE /\ subs' = {}
    /\ bridge' = [d \in DeviceSet |-> IF bridge[d] = "dead" THEN "none" ELSE bridge[d]]

Replace ==
    /\ At(Main, "replacing") /\ Closed /\ Goes(Main, "create")
    /\ foreign' = {d \in DeviceSet : bridge[d] = "live"}
    /\ Rest /\ UNCHANGED <<started, ids, services, dev, bounds>>

\* An exception leaves start(): the Bundle stays resolved and the activator
\* keeps what it has made.
Thrown == th' = [th EXCEPT ![Main] = IdleThread]

CreateRuntime ==
    /\ At(Main, "create")
    /\ \/ runtime' = TRUE /\ Goes(Main, "add") /\ UNCHANGED faults
       \/ Fault /\ Thrown /\ UNCHANGED runtime
    /\ Rest /\ UNCHANGED <<subs, bridge, started, ids, services, foreign, dev, launches, asked, data>>

\* Every device of the configuration is added from the first one on.
Adding == IF th[Main].dev = NoDevice THEN Devices[1]
          ELSE Devices[1 + CHOOSE i \in DOMAIN Devices : Devices[i] = th[Main].dev]

AllAdded == th[Main].dev = Last(Devices)

\* A duplicate id throws; so may preparePublisher and subscribe, while nobody
\* else can know of the bridge, which is then destroyed.
AddDevice ==
    /\ At(Main, "add") /\ ~AllAdded
    /\ LET d == Adding IN
       \/ d \in ids /\ Thrown /\ UNCHANGED <<subs, bridge, started, ids, dev, wire, faults>>
       \/ d \notin ids /\ Fault /\ Thrown /\ UNCHANGED <<subs, bridge, started, ids, dev, wire>>
       \/ /\ d \notin ids /\ UNCHANGED faults
          /\ ids' = ids \cup {d} /\ bridge' = [bridge EXCEPT ![d] = "live"]
          /\ started' = started \cup {d} /\ subs' = subs \cup {d}
          /\ dev' = [dev EXCEPT ![d] = [Offline EXCEPT !.running = TRUE]]
          /\ wire' = [wire EXCEPT ![d] = 0]
          /\ th' = [th EXCEPT ![Main].at = "open", ![Main].dev = d]
    /\ UNCHANGED <<runtime, services, foreign, history, launches, asked, data>>

\* The local bridge and device are destroyed; the subscription is not.
Discard(d) ==
    /\ bridge' = [bridge EXCEPT ![d] = "dead"]
    /\ started' = started \ {d} /\ ids' = ids \ {d} /\ Thrown

\* SerialPortDevice::start opens the channel; another device just starts.
DeviceOpen ==
    /\ At(Main, "open")
    /\ LET d == th[Main].dev IN
       \/ /\ dev' = [dev EXCEPT ![d].open = d \in Serial]
          /\ Goes(Main, IF d \in Serial THEN "ready" ELSE "register")
          /\ UNCHANGED <<bridge, started, ids, faults>>
       \/ Fault /\ Discard(d) /\ dev' = [dev EXCEPT ![d] = Offline]
    /\ Rest /\ UNCHANGED <<runtime, subs, services, foreign, launches, asked, data>>

markReady(d) == dev' = [dev EXCEPT ![d].state = "ready", ![d].seq = @ + 1]
markFailure(d) == dev' = [dev EXCEPT ![d].state = "fault", ![d].seq = @ + 1]

\* markReady and the start of the reader.
DeviceReady ==
    /\ At(Main, "ready") /\ markReady(th[Main].dev)
    /\ th' = [th EXCEPT ![Main].at = "snap",
                       ![th[Main].dev] = [IdleThread EXCEPT !.at = "top", !.dev = th[Main].dev]]
    /\ Rest /\ UNCHANGED <<gateway, bounds>>

Register ==
    /\ At(Main, "register")
    /\ \/ services' = services \cup {th[Main].dev} /\ Goes(Main, "add") /\ UNCHANGED faults
       \/ Fault /\ th' = [th EXCEPT ![Main].at = "stopping", ![Main].ok = FALSE] /\ UNCHANGED services
    /\ Rest /\ UNCHANGED <<runtime, subs, bridge, started, ids, foreign, dev, launches, asked, data>>

StartEnds ==
    /\ At(Main, "add") /\ AllAdded
    /\ th' = [th EXCEPT ![Main] = [IdleThread EXCEPT !.at = "up"]]
    /\ Rest /\ UNCHANGED <<gateway, dev, bounds>>

(***************************************************************************)
(* DeviceBridge::stop for one device, and the activator's stop.            *)
(***************************************************************************)
Stop ==
    /\ At(Main, "up")
    /\ th' = [th EXCEPT ![Main].at = "stopping", ![Main].dev = Devices[1]]
    /\ Rest /\ UNCHANGED <<gateway, dev, bounds>>

\* The handler is taken away and _running cleared.
BridgeStop ==
    /\ At(Main, "stopping")
    /\ started' = started \ {th[Main].dev}
    /\ dev' = [dev EXCEPT ![th[Main].dev].running = FALSE]
    /\ Goes(Main, "join")
    /\ Rest /\ UNCHANGED <<runtime, subs, bridge, ids, services, foreign, bounds>>

ReaderEndedNot(d) == TRUE     \* mutant: the thread is not joined
ReaderEnded(d) == d \in Serial => At(d, "ended")

\* The rest of the device's stop.  After a service that could not be
\* registered the device is given up; otherwise the next bridge is stopped.
DeviceStopped ==
    /\ At(Main, "join")
    /\ LET d == th[Main].dev IN
       /\ ReaderEnded(d)
       /\ dev' = [dev EXCEPT ![d].state = "offline", ![d].seq = @ + 1, ![d].open = FALSE]
       /\ \/ ~th[Main].ok /\ Discard(d)
          \/ th[Main].ok /\ AllAdded /\ Goes(Main, "unregister") /\ UNCHANGED <<bridge, started, ids>>
          \/ /\ th[Main].ok /\ ~AllAdded
             /\ th' = [th EXCEPT ![Main].at = "stopping", ![Main].dev = Adding]
             /\ UNCHANGED <<bridge, started, ids>>
    /\ Rest /\ UNCHANGED <<runtime, subs, services, foreign, bounds>>

Unregister ==
    /\ At(Main, "unregister")
    /\ services' = {} /\ Goes(Main, "clear")
    /\ Rest /\ UNCHANGED <<runtime, subs, bridge, started, ids, foreign, dev, bounds>>

\* Bridges and devices are destroyed while their subscriptions exist.
ClearGateway ==
    /\ At(Main, "clear")
    /\ bridge' = [d \in DeviceSet |-> "dead"] /\ ids' = {}
    /\ th' = [th EXCEPT ![Main].at = "closing", ![Consumer].ok = At(Consumer, "idle")]
    /\ Rest /\ UNCHANGED <<runtime, subs, started, services, foreign, dev, bounds>>

RuntimeStop ==
    /\ At(Main, "closing") /\ Closed /\ Thrown
    /\ Rest /\ UNCHANGED <<started, ids, services, foreign, dev, bounds>>

(***************************************************************************)
(* Snapshots: notify(snapshot()) copies under the device's mutex, then     *)
(* publishes without it.                                                   *)
(***************************************************************************)
Snapshot(t) ==
    /\ At(t, "snap")
    /\ th' = [th EXCEPT ![t].at = "publish", ![t].seq = dev[th[t].dev].seq]
    /\ Rest /\ UNCHANGED <<gateway, dev, bounds>>

AfterPublish(t) == CASE t = Main     -> "register"
                     [] t = Callback -> "respond"
                     [] OTHER        -> "top"

Published(t) == th' = [th EXCEPT ![t].at = AfterPublish(t), ![t].seq = 0]

Gone(t) == bridge[th[t].dev] = "dead"

\* publishSnapshot and Runtime::publish.
Publish(t) ==
    /\ At(t, "publish")
    /\ LET d == th[t].dev IN
       \/ Gone(t) /\ Stray(t, "bridge") /\ UNCHANGED wire
       \/ ~Gone(t) /\ d \notin started /\ Published(t) /\ UNCHANGED <<wire, stray>>
       \/ /\ ~Gone(t) /\ d \in started /\ d \in foreign
          /\ Stray(t, "runtime") /\ UNCHANGED wire
       \/ /\ ~Gone(t) /\ d \in started \ foreign /\ MutexFree
          /\ wire' = [wire EXCEPT ![d] = th[t].seq]
          /\ Published(t) /\ UNCHANGED stray
    /\ UNCHANGED <<gateway, dev, answered, overtaken, bounds>>

(***************************************************************************)
(* The reader of a serial device: SerialPortDevice::run.                   *)
(***************************************************************************)
KeepsOnAlways(d) == TRUE          \* mutant: the loop does not look at _running
KeepsOn(d) == dev[d].running

GivesUpAlways(d) == TRUE          \* mutant: no recovery
GivesUp(d) == ~Reconnect

ReaderTop(d) ==
    /\ At(d, "top")
    /\ \/ ~KeepsOn(d) /\ Goes(d, "ended")
       \/ KeepsOn(d) /\ dev[d].open /\ Goes(d, "read")
       \/ KeepsOn(d) /\ ~dev[d].open /\ Goes(d, IF GivesUp(d) THEN "ended" ELSE "open")
    /\ Rest /\ UNCHANGED <<gateway, dev, bounds>>

ReaderOpens(d) ==
    /\ At(d, "open")
    /\ \/ Goes(d, "mark") /\ dev' = [dev EXCEPT ![d].open = TRUE] /\ UNCHANGED faults
       \/ Fault /\ Goes(d, "fail") /\ UNCHANGED dev
    /\ Rest /\ UNCHANGED <<gateway, launches, asked, data>>

ReaderMarks(d) ==
    /\ \/ At(d, "mark") /\ markReady(d)
       \/ At(d, "fail") /\ markFailure(d)
    /\ Goes(d, "snap")
    /\ Rest /\ UNCHANGED <<gateway, bounds>>

\* Nothing within the timeout, bytes, or an exception that closes the channel;
\* a channel closed by the writer throws.
ReaderReads(d) ==
    /\ At(d, "read")
    /\ \/ dev[d].open /\ Goes(d, "top") /\ UNCHANGED <<dev, data, faults>>
       \/ /\ dev[d].open /\ data < MaxData
          /\ data' = data + 1 /\ Goes(d, "got") /\ UNCHANGED <<dev, faults>>
       \/ dev[d].open /\ Fault /\ Goes(d, "fail") /\ dev' = [dev EXCEPT ![d].open = FALSE] /\ UNCHANGED data
       \/ ~dev[d].open /\ Goes(d, "fail") /\ UNCHANGED <<dev, data, faults>>
    /\ Rest /\ UNCHANGED <<gateway, launches, asked>>

\* The bytes are recorded and the snapshot taken under the mutex.
ReaderGot(d) ==
    /\ At(d, "got") /\ markReady(d)
    /\ th' = [th EXCEPT ![d].at = "publish", ![d].seq = dev[d].seq + 1]
    /\ Rest /\ UNCHANGED <<gateway, bounds>>

(***************************************************************************)
(* The listener: DeviceBridge::handleRequest and SerialPortDevice::write.  *)
(***************************************************************************)
Deliver(d) ==
    /\ At(Callback, "idle") /\ d \in subs /\ asked < MaxRequests
    /\ asked' = asked + 1
    /\ \/ bridge[d] = "dead" /\ Stray(Callback, "bridge")
       \/ /\ bridge[d] = "live" /\ d \in started /\ UNCHANGED stray
          /\ th' = [th EXCEPT ![Callback] = [IdleThread EXCEPT !.at = "execute", !.dev = d]]
       \/ bridge[d] = "live" /\ d \notin started /\ UNCHANGED <<th, stray>>
    /\ UNCHANGED <<gateway, dev, wire, answered, overtaken, launches, data, faults>>

\* A step of the listener in a bridge that still exists, or the stray one.
Handles(at, step) ==
    /\ At(Callback, at)
    /\ \/ Gone(Callback) /\ Stray(Callback, "bridge") /\ UNCHANGED <<dev, answered, overtaken, faults>>
       \/ ~Gone(Callback) /\ step /\ UNCHANGED stray
    /\ UNCHANGED <<gateway, wire, launches, asked, data>>

D == th[Callback].dev
OnError == "respond"
Refuses == th' = [th EXCEPT ![Callback].at = OnError, ![Callback].ok = FALSE]

\* An operation that is not supported, or write()'s check of the state.
Execute == Handles("execute",
    /\ \/ Refuses
       \/ D \in Serial /\ dev[D].running /\ dev[D].state = "ready" /\ Goes(Callback, "write")
       \/ D \notin Serial /\ Goes(Callback, "respond")
    /\ UNCHANGED <<dev, answered, overtaken, faults>>)

\* SerialChannel::write: a closed channel throws, an exception of the port
\* closes it, a short write does not.
Write == Handles("write",
    /\ \/ dev[D].open /\ Goes(Callback, "wrote") /\ UNCHANGED <<dev, faults>>
       \/ /\ dev[D].open /\ Fault /\ Goes(Callback, "close")
          /\ dev' = dev \/ dev' = [dev EXCEPT ![D].open = FALSE]
       \/ ~dev[D].open /\ Goes(Callback, "close") /\ UNCHANGED <<dev, faults>>
    /\ UNCHANGED <<answered, overtaken>>)

\* The device closes the channel in any case, also one that the reader has
\* opened again since.
WriteCloses == Handles("close",
    /\ dev' = [dev EXCEPT ![D].open = FALSE] /\ Goes(Callback, "fail")
    /\ UNCHANGED <<answered, overtaken, faults>>)

Wrote == Handles("wrote",
    /\ dev' = [dev EXCEPT ![D].seq = @ + 1]
    /\ th' = [th EXCEPT ![Callback].at = "publish", ![Callback].seq = dev[D].seq + 1]
    /\ UNCHANGED <<answered, overtaken, faults>>)

WriteFailed == Handles("fail",
    /\ markFailure(D)
    /\ overtaken' = IF dev[D].open THEN overtaken \cup {D} ELSE overtaken
    /\ th' = [th EXCEPT ![Callback].at = "snap", ![Callback].ok = FALSE]
    /\ UNCHANGED <<answered, faults>>)

Respond == Handles("respond",
    /\ MutexFree
    /\ answered' = [answered EXCEPT ![asked] = @ + 1]
    /\ th' = [th EXCEPT ![Callback] = IdleThread]
    /\ UNCHANGED <<dev, overtaken, faults>>)

(***************************************************************************)
(* A monitoring thread: it finds the services, then asks their devices.    *)
(***************************************************************************)
Find ==
    /\ At(Consumer, "idle") /\ services # {}
    /\ th' = [th EXCEPT ![Consumer].at = "held"]
    /\ Rest /\ UNCHANGED <<gateway, dev, bounds>>

Ask ==
    /\ At(Consumer, "held")
    /\ \/ th[Consumer].ok /\ th' = [th EXCEPT ![Consumer] = IdleThread] /\ UNCHANGED stray
       \/ ~th[Consumer].ok /\ Stray(Consumer, "device")
    /\ UNCHANGED <<gateway, dev, wire, answered, overtaken, bounds>>

-----------------------------------------------------------------------------
MainStep ==
    \/ Replace \/ CreateRuntime \/ AddDevice \/ DeviceOpen \/ DeviceReady \/ Register \/ StartEnds
    \/ BridgeStop \/ DeviceStopped \/ Unregister \/ ClearGateway \/ RuntimeStop
    \/ Snapshot(Main) \/ Publish(Main)

ReaderStep(d) ==
    \/ ReaderTop(d) \/ ReaderOpens(d) \/ ReaderMarks(d) \/ ReaderReads(d) \/ ReaderGot(d)
    \/ Snapshot(d) \/ Publish(d)

ListenerStep ==
    \/ Execute \/ Write \/ Wrote \/ WriteCloses \/ WriteFailed \/ Respond \/ Snapshot(Callback) \/ Publish(Callback)

GatewayNext ==
    \/ Start \/ Stop \/ MainStep \/ ListenerStep \/ Find \/ Ask
    \/ \E d \in Serial : ReaderStep(d)
    \/ \E d \in DeviceSet : Deliver(d)

\* The threads that exist run; nobody has to start or stop the gateway, send a
\* request or ask for a device.
Fairness ==
    /\ WF_gatewayVars(MainStep) /\ WF_gatewayVars(ListenerStep) /\ WF_gatewayVars(Ask)
    /\ \A d \in Serial : WF_gatewayVars(ReaderStep(d))

GatewaySpec == GatewayInit /\ [][GatewayNext]_gatewayVars /\ Fairness
-----------------------------------------------------------------------------
(* Type invariant. *)
GatewayTypeOK ==
    /\ runtime \in BOOLEAN /\ subs \cup started \cup ids \cup services \cup foreign \subseteq DeviceSet
    /\ bridge \in [DeviceSet -> {"none", "live", "dead"}]
    /\ \A d \in DeviceSet : dev[d].state \in {"offline", "ready", "fault"} /\ wire[d] <= dev[d].seq
    /\ \A t \in Threads : th[t].dev \in DeviceSet \cup {NoDevice}

(* When a bridge and its device are destroyed, by stop() or by a start that   *)
(* failed half-way, no reader of the device runs any more and its port is     *)
(* closed, whatever the reader and a request that was being written did.      *)
NothingBehind ==
    \A d \in Serial : bridge[d] # "live" =>
        /\ th[d].at \in {"idle", "ended", "crashed"}
        /\ ~dev[d].open /\ ~dev[d].running

(* A running device whose port can be opened again comes back: it is ready    *)
(* and its channel is open, unless it is stopped, or a failed write was       *)
(* recorded only after the reader had opened the channel again.               *)
RecoversUnlessOvertaken ==
    \A d \in Serial :
        (At(d, "top") /\ dev[d].running)
        ~> \/ dev[d].state = "ready" /\ dev[d].open
           \/ ~dev[d].running \/ d \in overtaken \/ stray # {}

CallbackBlocked == th[Callback].at \in {"publish", "respond"} /\ ~MutexFree

(* stop(), and the start after one that failed, get past the runtime's end    *)
(* unless a callback in progress waits for the mutex they hold or runs in a   *)
(* destroyed bridge.                                                          *)
StopReturnsUnlessHeld ==
    th[Main].at \in {"stopping", "replacing"}
        ~> (th[Main].at \in {"idle", "create"} \/ CallbackBlocked \/ stray # {})

(* A request that a bridge accepts gets its response, also when the device    *)
(* refuses or fails it, unless the bridge or the runtime is taken away.       *)
Answered ==
    \A r \in 1..MaxRequests :
        (asked = r /\ At(Callback, "execute"))
            ~> (answered[r] = 1 \/ stray # {} \/ ~MutexFree)

(* Violated: as above, without the exceptions. *)
Recovers ==
    \A d \in Serial :
        (At(d, "top") /\ dev[d].running)
        ~> ((dev[d].state = "ready" /\ dev[d].open) \/ ~dev[d].running \/ stray # {})

StopReturns ==
    th[Main].at \in {"stopping", "replacing"} ~> (th[Main].at \in {"idle", "create"} \/ stray # {})

(* Violated: once nothing fails any more, a start of the gateway succeeds.   *)
StartsAgain == (At(Main, "create") /\ faults = MaxFaults) ~> (At(Main, "up") \/ stray # {})

(* Violated: a consumer that holds a service has a device to ask.  *)
HeldServiceHasDevice == "device" \notin stray

(* Violated: a callback finds its bridge. *)
CallbackHasBridge == "bridge" \notin stray

(* Violated: a bridge finds its runtime. *)
BridgeHasRuntime == "runtime" \notin stray

(* Violated: the snapshots of a device are published in their order.  *)
InOrder == [][\A d \in DeviceSet : bridge[d] = "live" /\ bridge'[d] = "live" => wire'[d] >= wire[d]]_gatewayVars
=============================================================================
