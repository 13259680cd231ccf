--------------------------- MODULE AlertDelivery ---------------------------
(***************************************************************************)
(* Delivery of alert notifications: AlertDispatcher gives every registered *)
(* alert sink a SinkChannel with a bounded queue, a worker thread and a    *)
(* circuit breaker.  The diagnostics thread enqueues, the thread that      *)
(* starts and stops Bundles registers, replaces and unregisters sinks and  *)
(* finally stops the dispatcher; BundleLoader's mutex makes that one       *)
(* thread at a time.  deliver() of a sink may take any time.               *)
(* Source: AlertDispatcher in                                              *)
(* src/platform/OSP/SystemMonitoring/src/SystemMonitoring.cpp.             *)
(***************************************************************************)
EXTENDS Naturals, Sequences

CONSTANTS
    Sinks,        \* service names of alert sinks
    Slow,         \* sinks whose deliver() may never return
    Audit,        \* sinks with pdr.alertSink.receiveSilenced
    Silenced,     \* notifications of silenced alerts
    Capacity,     \* deliveryQueueCapacity
    Threshold,    \* deliveryFailureThreshold
    MaxNotes,     \* bound: notifications
    MaxChannels,  \* bound: registrations
    MaxFaults     \* bound: failing deliveries

ASSUME DeliveryAssumption ==
    /\ Slow \subseteq Sinks /\ Audit \subseteq Sinks
    /\ Capacity \in Nat \ {0} /\ Threshold \in Nat \ {0}
    /\ MaxNotes \in Nat /\ MaxChannels \in Nat /\ MaxFaults \in Nat

VARIABLES
    running,   \* _running of the dispatcher
    current,   \* _channels: [Sinks -> 0..MaxChannels], 0 for none
    retired,   \* _retiredChannels
    chan,      \* the channels ever made, as records
    made,      \* how many
    note,      \* the notification last enqueued
    posting,   \* channels the diagnostics thread has still to offer it to
    stopping,  \* channels AlertDispatcher::stop has still to stop
    joining,   \* the channel it is joining, or 0
    faults,    \* bound
    accepted,  \* history: per channel, how many notifications were queued
    calls,     \* history: per channel, how often deliver() was called, and for which last
    abandoned, \* history: per channel, how many its worker gave up in the circuit wait
    disorder,  \* history: channels where deliver() was called out of order or twice
    late       \* history: channels whose deliver() was called after their stop

chans == <<chan, made>>
dispatcher == <<running, current, retired, stopping, joining>>
history == <<accepted, calls, abandoned, disorder, late>>
vars == <<dispatcher, chans, note, posting, faults, history>>

Ids == 1..MaxChannels
Channel == [sink : Sinks \cup {"none"}, run : BOOLEAN, queue : Seq(1..MaxNotes), hand : 0..MaxNotes,
            pc : {"new", "wait", "circuit", "cool", "deliver", "end"},
            failures : 0..MaxFaults, open : BOOLEAN, dropped : 0..MaxNotes]

Fresh(s) == [sink |-> s, run |-> TRUE, queue |-> <<>>, hand |-> 0, pc |-> "wait",
             failures |-> 0, open |-> FALSE, dropped |-> 0]

Init ==
    /\ running = TRUE /\ current = [s \in Sinks |-> 0] /\ retired = {}
    /\ chan = [c \in Ids |-> [Fresh("none") EXCEPT !.pc = "new", !.run = FALSE]] /\ made = 0
    /\ note = 0 /\ posting = {} /\ stopping = {} /\ joining = 0 /\ faults = 0
    /\ accepted = [c \in Ids |-> 0]
    /\ calls = [c \in Ids |-> [count |-> 0, last |-> 0]]
    /\ abandoned = [c \in Ids |-> 0] /\ disorder = {} /\ late = {}

Live == {current[s] : s \in Sinks} \ {0}

\* finished(): the worker has left run().
Finished == {c \in Ids : chan[c].pc = "end"}

\* reapRetiredChannels: channels whose worker has ended are joined and freed.
Reaped(set) == set \ Finished

RequestedUncounted(r) == [r EXCEPT !.run = FALSE, !.queue = <<>>]   \* mutant
RequestedNot(r) == [r EXCEPT !.queue = <<>>]   \* mutant: _running stays set

\* SinkChannel::requestStop: the queue is counted as dropped and cleared.
Requested(r) == [r EXCEPT !.run = FALSE, !.queue = <<>>,
                          !.dropped = IF r.run THEN @ + Len(r.queue) ELSE @]

(***************************************************************************)
(* The diagnostics thread.                                                 *)
(***************************************************************************)
\* AlertDispatcher::enqueue copies the channels under the dispatcher's mutex.
enqueue ==
    /\ posting = {} /\ note < MaxNotes /\ running
    /\ note' = note + 1
    /\ retired' = Reaped(retired)
    /\ posting' = Live
    /\ UNCHANGED <<running, current, stopping, joining, chans, faults, history>>

HasRoom(r) == Len(r.queue) < Capacity

Queued(q, n) == Append(q, n)

\* A silenced alert only goes to the sinks that ask for it.
Refused(r) == ~r.run \/ (note \in Silenced /\ r.sink \notin Audit)

\* SinkChannel::enqueue, under the channel's mutex.
Post(c) ==
    /\ c \in posting
    /\ posting' = posting \ {c}
    /\ LET r == chan[c] IN
       \/ Refused(r) /\ UNCHANGED <<chan, accepted>>
       \/ /\ ~Refused(r) /\ ~HasRoom(r)
          /\ chan' = [chan EXCEPT ![c].dropped = @ + 1]
          /\ UNCHANGED accepted
       \/ /\ ~Refused(r) /\ HasRoom(r)
          /\ chan' = [chan EXCEPT ![c].queue = Queued(@, note)]
          /\ accepted' = [accepted EXCEPT ![c] = @ + 1]
    /\ UNCHANGED <<dispatcher, made, note, faults, calls, abandoned, disorder, late>>

(***************************************************************************)
(* Registration, and AlertDispatcher::stop.                                *)
(***************************************************************************)
Idle == stopping = {} /\ joining = 0

Retire(s) == IF current[s] = 0 THEN {} ELSE {current[s]}

\* onSinkRegistered.  The event of a new service may overtake the one of the
\* service it replaces, which is then ignored because it does not match.
Register(s) ==
    /\ running /\ Idle /\ made < MaxChannels
    /\ made' = made + 1
    /\ chan' = [c \in Ids |-> IF c = made + 1 THEN Fresh(s)
                              ELSE IF c \in Retire(s) THEN Requested(chan[c]) ELSE chan[c]]
    /\ current' = [current EXCEPT ![s] = made + 1]
    /\ retired' = Reaped(retired \cup Retire(s))
    /\ UNCHANGED <<running, stopping, joining, note, posting, faults, history>>

\* onSinkUnregistered.
Unregister(s) ==
    /\ running /\ Idle /\ current[s] # 0
    /\ chan' = [chan EXCEPT ![current[s]] = Requested(@)]
    /\ current' = [current EXCEPT ![s] = 0]
    /\ retired' = Reaped(retired \cup Retire(s))
    /\ UNCHANGED <<running, stopping, joining, made, note, posting, faults, history>>

stop ==
    /\ running
    /\ running' = FALSE
    /\ stopping' = Live \cup retired
    /\ current' = [s \in Sinks |-> 0] /\ retired' = {}
    /\ UNCHANGED <<joining, chans, note, posting, faults, history>>

\* The loop over the channels: one is told to stop and joined, then the next.
StopChannel(c) ==
    /\ joining = 0 /\ c \in stopping
    /\ stopping' = stopping \ {c} /\ joining' = c
    /\ chan' = [chan EXCEPT ![c] = Requested(@)]
    /\ UNCHANGED <<running, current, retired, made, note, posting, faults, history>>

Joined ==
    /\ joining # 0 /\ joining \in Finished
    /\ joining' = 0
    /\ UNCHANGED <<running, current, retired, stopping, chans, note, posting, faults, history>>

(***************************************************************************)
(* The worker of a channel: SinkChannel::run.                              *)
(***************************************************************************)
Same == UNCHANGED <<dispatcher, made, note, posting>>

Take(c) ==
    /\ chan[c].pc = "wait" /\ chan[c].run /\ chan[c].queue # <<>>
    /\ chan' = [chan EXCEPT ![c].pc = "circuit", ![c].hand = Head(chan[c].queue),
                            ![c].queue = Tail(@)]
    /\ Same /\ UNCHANGED <<faults, history>>

Exit(c) ==
    /\ chan[c].pc = "wait" /\ ~chan[c].run
    /\ chan' = [chan EXCEPT ![c].pc = "end"]
    /\ Same /\ UNCHANGED <<faults, history>>

\* circuitOpenDelayMicroseconds, under the mutex of its own.
CheckCircuit(c) ==
    /\ chan[c].pc = "circuit" /\ chan[c].open
    /\ chan' = [chan EXCEPT ![c].pc = "cool"]
    /\ Same /\ UNCHANGED <<faults, history>>

\* Time reaches circuitOpenUntilMicroseconds.
CircuitExpires(c) ==
    /\ chan[c].open
    /\ chan' = [chan EXCEPT ![c].open = FALSE]
    /\ Same /\ UNCHANGED <<faults, history>>

\* wait_for ends early because the channel stops: what it held is given up.
CoolStopped(c) ==
    /\ chan[c].pc = "cool" /\ ~chan[c].run
    /\ chan' = [chan EXCEPT ![c].pc = "end", ![c].hand = 0]
    /\ abandoned' = [abandoned EXCEPT ![c] = @ + 1]
    /\ Same /\ UNCHANGED <<faults, accepted, calls, disorder, late>>

CallWhenNever(r) == r.pc = "circuit" /\ ~r.open   \* mutant: waits without a timeout
CallWhen(r) == r.pc \in {"circuit", "cool"} /\ ~r.open

\* sink->deliver is called.
Call(c) ==
    /\ CallWhen(chan[c])
    /\ chan' = [chan EXCEPT ![c].pc = "deliver"]
    /\ calls' = [calls EXCEPT ![c] = [count |-> @.count + 1, last |-> chan[c].hand]]
    /\ disorder' = IF calls[c].last < chan[c].hand THEN disorder ELSE disorder \cup {c}
    /\ late' = IF chan[c].run THEN late ELSE late \cup {c}
    /\ Same /\ UNCHANGED <<faults, accepted, abandoned>>

DeliverSucceeds(c) ==
    /\ chan[c].pc = "deliver"
    /\ chan' = [chan EXCEPT ![c].pc = "wait", ![c].hand = 0, ![c].failures = 0,
                            ![c].open = FALSE]
    /\ Same /\ UNCHANGED <<faults, history>>

\* recordFailure: from Threshold failures in a row on, each opens the circuit.
Trips(n) == n >= Threshold

DeliverFails(c) ==
    /\ chan[c].pc = "deliver" /\ faults < MaxFaults
    /\ faults' = faults + 1
    /\ chan' = [chan EXCEPT ![c].pc = "wait", ![c].hand = 0,
                            ![c].failures = @ + 1,
                            ![c].open = @ \/ Trips(chan[c].failures + 1)]
    /\ Same /\ UNCHANGED history

Worker(c) == Take(c) \/ Exit(c) \/ CheckCircuit(c) \/ CoolStopped(c) \/ Call(c)
Returns(c) == DeliverSucceeds(c) \/ DeliverFails(c)

Next ==
    \/ enqueue \/ stop \/ Joined
    \/ \E s \in Sinks : Register(s) \/ Unregister(s)
    \/ \E c \in Ids : Post(c) \/ StopChannel(c) \/ Worker(c) \/ Returns(c) \/ CircuitExpires(c)

Spec == Init /\ [][Next]_vars

\* Threads run and time passes; deliver() of a sink that is not Slow returns.
Fairness ==
    /\ \A c \in Ids : /\ WF_vars(Worker(c)) /\ WF_vars(Post(c)) /\ WF_vars(CircuitExpires(c))
                      /\ WF_vars(chan[c].sink \notin Slow /\ Returns(c))
    /\ WF_vars(Joined) /\ WF_vars(\E c \in Ids : StopChannel(c))

FairSpec == Spec /\ Fairness
-----------------------------------------------------------------------------
(* Type invariant: the queue of a channel never exceeds its capacity. *)
TypeOK ==
    /\ running \in BOOLEAN /\ current \in [Sinks -> 0..MaxChannels]
    /\ retired \subseteq Ids /\ posting \subseteq Ids /\ stopping \subseteq Ids
    /\ joining \in 0..MaxChannels /\ made \in 0..MaxChannels /\ note \in 0..MaxNotes
    /\ chan \in [Ids -> Channel] /\ \A c \in Ids : Len(chan[c].queue) <= Capacity
    /\ late \subseteq Ids

InHand(c) == IF chan[c].pc \in {"circuit", "cool"} THEN 1 ELSE 0

(* Every notification a channel accepted is in one place: handed to the sink, *)
(* still queued, in the worker's hand, counted as dropped by requestStop, or  *)
(* given up in the circuit wait of a stopped channel; a full queue is the     *)
(* only other thing that counts as dropped.                                   *)
Accounted ==
    \A c \in Ids :
        LET held == calls[c].count + InHand(c) + Len(chan[c].queue) IN
        /\ chan[c].run => accepted[c] = held
        /\ accepted[c] <= held + abandoned[c] + chan[c].dropped
        /\ abandoned[c] > 0 => ~chan[c].run /\ abandoned[c] = 1

(* Per sink service, deliver() is called in the order of enqueue, at most     *)
(* once for each notification, through every opening of the circuit.          *)
InOrder == disorder = {}

(* No channel is lost: a channel whose worker has not ended is current, or on *)
(* the way to be joined.                                                      *)
NoStrayWorker ==
    \A c \in Ids : chan[c].pc \notin {"new", "end"} =>
        \/ c \in Live /\ chan[c].run
        \/ c \in retired \cup stopping \cup {joining}

(* A sink that hangs does not hold up another: what the channel of a sink     *)
(* that returns has accepted is handed to it, or the channel is stopped.      *)
Isolated ==
    \A c \in Ids : (chan[c].sink \notin Slow /\ Len(chan[c].queue) + InHand(c) > 0)
                       ~> (Len(chan[c].queue) + InHand(c) = 0 \/ ~chan[c].run)

(* stop() returns, unless a sink never returns from deliver().                *)
StopReturns ==
    ~running ~> (Idle \/ \E c \in Ids : chan[c].sink \in Slow /\ chan[c].pc = "deliver")

(* A channel that was told to stop makes no further call of its sink.         *)
NoCallAfterStop == late = {}

(* A retired channel is released once the call in progress has ended.         *)
Released == \A c \in Ids : (c \in retired /\ c \in Finished) ~> c \notin retired
=============================================================================
