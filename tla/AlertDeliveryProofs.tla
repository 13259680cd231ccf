------------------------- MODULE AlertDeliveryProofs -------------------------
(***************************************************************************)
(* Safety of the alert delivery, for any number of sinks, channels and     *)
(* notifications, any queue capacity and failure threshold: no accepted    *)
(* notification is lost without a trace, a sink sees notifications in      *)
(* order and at most once, and no worker thread is left unjoined.  And of  *)
(* the state machine whose alerts it delivers, for any instances, codes    *)
(* and policy: the life of an alert is told in order, and a failure that   *)
(* flaps is not told at all.                                               *)
(***************************************************************************)
EXTENDS AlertDelivery, AlertTracker, TLAPS

PC == {"new", "wait", "circuit", "cool", "deliver", "end"}

Chan == [sink : Sinks \cup {"none"}, run : BOOLEAN, queue : Seq(Nat), hand : Nat,
         pc : PC, failures : Nat, open : BOOLEAN, dropped : Nat]

Types ==
    /\ chan \in [Ids -> Chan]
    /\ accepted \in [Ids -> Nat] /\ abandoned \in [Ids -> Nat]
    /\ calls \in [Ids -> [count : Nat, last : Nat]]
    /\ made \in 0..MaxChannels /\ note \in Nat /\ faults \in Nat
    /\ current \in [Sinks -> 0..MaxChannels]

\* A channel that was not made yet has done nothing, one that was told to stop
\* has an empty queue, and only a worker that has ended gave something up.
Untouched(c) ==
    /\ chan[c].pc = "new" /\ chan[c].run = FALSE
    /\ accepted[c] = 0 /\ abandoned[c] = 0 /\ calls[c].count = 0 /\ calls[c].last = 0

Lifecycle(c) ==
    /\ c > made => Untouched(c)
    /\ chan[c].run = FALSE => chan[c].queue = <<>>
    /\ abandoned[c] > 0 => chan[c].pc = "end"

\* Accounted, of one channel.
Balance(c) ==
    LET held == calls[c].count + InHand(c) + Len(chan[c].queue) IN
    /\ chan[c].run => accepted[c] = held
    /\ accepted[c] <= held + abandoned[c] + chan[c].dropped
    /\ abandoned[c] > 0 => ~chan[c].run /\ abandoned[c] = 1

\* What a channel saw is older than what it holds, which is older than what it
\* has queued, in order; the note being offered is newer than all of it.
Sorted(q) == \A i, j \in 1..Len(q) : i < j => q[i] < q[j]
Above(n, q) == \A i \in 1..Len(q) : n < q[i]
Below(q, n) == \A i \in 1..Len(q) : q[i] < n
Holds(r) == r.pc \in {"circuit", "cool"}

Limit(c) == IF c \in posting THEN note ELSE note + 1

Order(c) ==
    /\ Sorted(chan[c].queue) /\ Above(calls[c].last, chan[c].queue)
    /\ Below(chan[c].queue, Limit(c)) /\ calls[c].last < Limit(c)
    /\ Holds(chan[c]) => /\ Above(chan[c].hand, chan[c].queue)
                         /\ calls[c].last < chan[c].hand /\ chan[c].hand < Limit(c)

\* Only stop() fills the list of channels to join, and it is called once.
StopOnce == running => stopping = {} /\ joining = 0

ChannelOK(c) == Lifecycle(c) /\ Balance(c) /\ Order(c)

IInv ==
    /\ Types /\ (\A c \in Ids : ChannelOK(c))
    /\ InOrder /\ StopOnce /\ NoStrayWorker
-----------------------------------------------------------------------------
(* What is left of an ordered queue is ordered, and follows its head.        *)
LEMMA TailOrder ==
    ASSUME NEW q \in Seq(Nat), q # <<>>
    PROVE  /\ Head(q) \in Nat /\ Tail(q) \in Seq(Nat) /\ Len(Tail(q)) = Len(q) - 1
           /\ Len(q) \in Nat
           /\ Sorted(q) => Sorted(Tail(q)) /\ Above(Head(q), Tail(q))
           /\ \A n \in Nat : Above(n, q) => Above(n, Tail(q)) /\ n < Head(q)
           /\ \A n \in Nat : Below(q, n) => Below(Tail(q), n) /\ Head(q) < n
<1>1. Head(q) = q[1] /\ Head(q) \in Nat /\ Tail(q) \in Seq(Nat) /\ Len(Tail(q)) = Len(q) - 1
      /\ Len(q) \in Nat /\ 1 \in 1..Len(q)
  OBVIOUS
<1>2. \A i \in 1..Len(Tail(q)) : Tail(q)[i] = q[i + 1] /\ i + 1 \in 1..Len(q) /\ 1 < i + 1
  BY <1>1
<1>3. ASSUME Sorted(q) PROVE Sorted(Tail(q))
  <2> SUFFICES ASSUME NEW i \in 1..Len(Tail(q)), NEW j \in 1..Len(Tail(q)), i < j
               PROVE  Tail(q)[i] < Tail(q)[j]
    BY DEF Sorted
  <2>1. i + 1 \in 1..Len(q) /\ j + 1 \in 1..Len(q) /\ i + 1 < j + 1
    BY <1>1
  <2>2. q[i + 1] < q[j + 1]
    BY <1>3, <2>1 DEF Sorted
  <2> QED BY <1>2, <2>2
<1>4. Sorted(q) => Above(Head(q), Tail(q))
  BY <1>1, <1>2 DEF Sorted, Above
<1>5. \A n \in Nat : Above(n, q) => Above(n, Tail(q)) /\ n < Head(q)
  BY <1>1, <1>2 DEF Above
<1>6. \A n \in Nat : Below(q, n) => Below(Tail(q), n) /\ Head(q) < n
  BY <1>1, <1>2 DEF Below
<1> QED BY <1>1, <1>3, <1>4, <1>5, <1>6

(* A note newer than everything in an ordered queue keeps it ordered.        *)
LEMMA AppendOrder ==
    ASSUME NEW q \in Seq(Nat), NEW n \in Nat, Sorted(q), Below(q, n)
    PROVE  /\ Append(q, n) \in Seq(Nat) /\ Len(Append(q, n)) = Len(q) + 1 /\ Len(q) \in Nat
           /\ Sorted(Append(q, n)) /\ Below(Append(q, n), n + 1)
           /\ \A m \in Nat : Above(m, q) /\ m < n => Above(m, Append(q, n))
<1>1. Append(q, n) \in Seq(Nat) /\ Len(Append(q, n)) = Len(q) + 1 /\ Len(q) \in Nat
  OBVIOUS
<1>2. \A i \in 1..Len(Append(q, n)) :
        \/ i \in 1..Len(q) /\ Append(q, n)[i] = q[i] /\ q[i] \in Nat
        \/ i = Len(q) + 1 /\ Append(q, n)[i] = n
  OBVIOUS
<1>3. Sorted(Append(q, n))
  <2> SUFFICES ASSUME NEW i \in 1..Len(Append(q, n)), NEW j \in 1..Len(Append(q, n)), i < j
               PROVE  Append(q, n)[i] < Append(q, n)[j]
    BY DEF Sorted
  <2>1. i \in 1..Len(q) /\ Append(q, n)[i] = q[i]
    BY <1>1, <1>2
  <2>2. CASE j \in 1..Len(q)
    BY <1>2, <2>1, <2>2 DEF Sorted
  <2>3. CASE j = Len(q) + 1
    BY <2>1, <2>3, <1>2 DEF Below
  <2> QED BY <1>2, <2>2, <2>3
<1>4. Below(Append(q, n), n + 1)
  BY <1>1, <1>2 DEF Below
<1>5. \A m \in Nat : Above(m, q) /\ m < n => Above(m, Append(q, n))
  BY <1>1, <1>2 DEF Above
<1> QED BY <1>1, <1>3, <1>4, <1>5

(* The types of what concerns one channel.                                   *)
LEMMA ChannelTypes ==
    ASSUME IInv, NEW c \in Ids
    PROVE  /\ c \in Nat /\ c # 0 /\ made \in Nat /\ note \in Nat /\ Limit(c) \in Nat
           /\ chan[c] \in Chan /\ chan[c].queue \in Seq(Nat) /\ chan[c].dropped \in Nat
           /\ chan[c].hand \in Nat /\ chan[c].pc \in PC /\ chan[c].run \in BOOLEAN
           /\ accepted[c] \in Nat /\ abandoned[c] \in Nat
           /\ calls[c].count \in Nat /\ calls[c].last \in Nat
           /\ Len(chan[c].queue) \in Nat
<1>1. c \in Nat /\ c # 0 /\ made \in Nat /\ note \in Nat
  BY DeliveryAssumption DEF IInv, Types, Ids
<1>2. chan[c] \in Chan /\ accepted[c] \in Nat /\ abandoned[c] \in Nat
      /\ calls[c] \in [count : Nat, last : Nat]
  BY DEF IInv, Types
<1>3. chan[c].queue \in Seq(Nat) /\ chan[c].dropped \in Nat /\ chan[c].hand \in Nat
      /\ chan[c].pc \in PC /\ chan[c].run \in BOOLEAN
  BY <1>2 DEF Chan
<1>4. Limit(c) \in Nat
  BY <1>1 DEF Limit
<1>5. Len(chan[c].queue) \in Nat
  BY <1>3
<1> QED BY <1>1, <1>2, <1>3, <1>4, <1>5

(* A channel that a step does not touch stays in order, as long as the offer *)
(* of a note to it is not renewed.                                           *)
LEMMA Frame ==
    ASSUME IInv, NEW c \in Ids, note' \in Nat, made' \in Nat, made' >= made,
           chan'[c] = chan[c], accepted'[c] = accepted[c],
           abandoned'[c] = abandoned[c], calls'[c] = calls[c],
           Limit(c)' >= Limit(c)
    PROVE  ChannelOK(c)'
<1>0. Ids \subseteq Nat /\ made \in Nat /\ chan[c] \in Chan /\ calls[c].last \in Nat
  BY DeliveryAssumption DEF IInv, Types, Ids
<1>n. note \in Nat
  BY DEF IInv, Types
<1>1. Limit(c) \in Nat /\ Limit(c)' \in Nat
  BY <1>n DEF Limit
<1>q. chan[c].queue \in Seq(Nat) /\ chan[c].hand \in Nat
  BY <1>0 DEF Chan
<1>2. Lifecycle(c)'
  BY <1>0 DEF IInv, ChannelOK, Lifecycle, Untouched
<1>3. Balance(c)'
  BY DEF IInv, ChannelOK, Balance, InHand
<1>4. Below(chan[c].queue, Limit(c)')
  <2> SUFFICES ASSUME NEW i \in 1..Len(chan[c].queue) PROVE chan[c].queue[i] < Limit(c)'
    BY DEF Below
  <2>1. chan[c].queue[i] < Limit(c) /\ chan[c].queue[i] \in Nat
    BY <1>q DEF IInv, ChannelOK, Order, Below
  <2> QED BY <2>1, <1>1
<1>5. calls[c].last < Limit(c)' /\ (Holds(chan[c]) => chan[c].hand < Limit(c)')
  BY <1>0, <1>1, <1>q DEF IInv, ChannelOK, Order
<1>6. Order(c)'
  BY <1>4, <1>5 DEF IInv, ChannelOK, Order
<1> QED BY <1>2, <1>3, <1>6 DEF ChannelOK

(* A step of one worker, or of its sink: the dispatcher and the other        *)
(* channels are as they were.                                                *)
LEMMA OneChannel ==
    ASSUME IInv, NEW c \in Ids, Same,
           chan' \in [Ids -> Chan], faults' \in Nat, accepted' \in [Ids -> Nat],
           abandoned' \in [Ids -> Nat], calls' \in [Ids -> [count : Nat, last : Nat]],
           \A x \in Ids \ {c} : /\ chan'[x] = chan[x] /\ accepted'[x] = accepted[x]
                                /\ abandoned'[x] = abandoned[x] /\ calls'[x] = calls[x],
           chan'[c].run = chan[c].run,
           chan[c].pc \in {"new", "end"} => chan'[c].pc = chan[c].pc,
           ChannelOK(c)', InOrder'
    PROVE  IInv'
<1>0. made \in Nat /\ note \in Nat /\ (\A x \in Ids : Limit(x) \in Nat)
  BY DeliveryAssumption DEF IInv, Types, Limit
<1>s. made' = made /\ note' = note /\ posting' = posting /\ running' = running
      /\ stopping' = stopping /\ joining' = joining /\ current' = current /\ retired' = retired
  BY DEF Same, dispatcher
<1>1. Types'
  BY <1>s DEF IInv, Types
<1>2. \A x \in Ids : ChannelOK(x)'
  <2> SUFFICES ASSUME NEW x \in Ids, x # c PROVE ChannelOK(x)'
    OBVIOUS
  <2>1. Limit(x)' = Limit(x)
    BY <1>s DEF Limit
  <2>2. made' \in Nat /\ note' \in Nat /\ made' >= made /\ Limit(x)' >= Limit(x)
    BY <1>0, <1>s, <2>1
  <2> QED BY <2>2, Frame
<1>3. StopOnce'
  BY <1>s DEF IInv, StopOnce
<1>4. NoStrayWorker'
  BY <1>s DEF IInv, NoStrayWorker, Live
<1> QED BY <1>1, <1>2, <1>3, <1>4 DEF IInv

LEMMA TakeStep == ASSUME IInv, NEW c \in Ids, Take(c) PROVE IInv'
<1> DEFINE q == chan[c].queue
<1>0. c \in Nat /\ chan[c] \in Chan /\ q \in Seq(Nat) /\ q # <<>> /\ chan[c].dropped \in Nat
      /\ accepted[c] \in Nat /\ abandoned[c] \in Nat /\ calls[c].count \in Nat
      /\ calls[c].last \in Nat /\ Limit(c) \in Nat
  BY ChannelTypes DEF Take
<1>1. chan[c].pc = "wait" /\ chan[c].run = TRUE
  BY <1>0 DEF Take, Chan
<1>2. Head(q) \in Nat /\ Tail(q) \in Seq(Nat) /\ Len(Tail(q)) = Len(q) - 1 /\ Len(q) \in Nat
  BY <1>0, TailOrder
<1>3. chan'[c] = [chan[c] EXCEPT !.pc = "circuit", !.hand = Head(q), !.queue = Tail(q)]
      /\ \A x \in Ids \ {c} : chan'[x] = chan[x]
  BY DEF Take, IInv, Types
<1>4. chan' \in [Ids -> Chan]
  BY <1>0, <1>2 DEF Take, IInv, Types, Chan, PC
<1>5. chan'[c].pc = "circuit" /\ chan'[c].hand = Head(q) /\ chan'[c].queue = Tail(q)
      /\ chan'[c].run = TRUE /\ chan'[c].dropped = chan[c].dropped
  BY <1>0, <1>1, <1>3 DEF Chan
<1>6. Same /\ UNCHANGED <<faults, accepted, calls, abandoned, disorder, late>>
      /\ made' = made /\ Limit(c)' = Limit(c)
  BY DEF Take, Same, history, Limit
<1>7. Lifecycle(c)'
  BY <1>0, <1>1, <1>5, <1>6 DEF IInv, ChannelOK, Lifecycle, Untouched
<1>8. Balance(c)'
  <2>1. InHand(c) = 0 /\ InHand(c)' = 1
    BY <1>1, <1>5 DEF InHand
  <2>3. accepted[c] = calls[c].count + 0 + Len(q) /\ abandoned[c] = 0
    BY <1>0, <1>1, <2>1 DEF IInv, ChannelOK, Balance
  <2>4. accepted'[c] = accepted[c] /\ calls'[c].count = calls[c].count
        /\ abandoned'[c] = 0 /\ chan'[c].dropped \in Nat
    BY <1>0, <1>5, <1>6, <2>3
  <2>5. Len(chan'[c].queue) = Len(q) - 1
    BY <1>2, <1>5
  <2>6. accepted[c] = calls[c].count + 1 + (Len(q) - 1)
    <3> DEFINE n == Len(q)
    <3>1. n \in Nat /\ calls[c].count \in Nat /\ accepted[c] = calls[c].count + 0 + n
      BY <1>0, <1>2, <2>3
    <3> HIDE DEF n
    <3>2. accepted[c] = calls[c].count + 1 + (n - 1)
      BY <3>1
    <3> QED BY <3>2 DEF n
  <2>7. accepted'[c] = calls'[c].count + InHand(c)' + Len(chan'[c].queue)
        /\ abandoned'[c] = 0 /\ accepted'[c] \in Nat /\ chan'[c].dropped \in Nat
    BY <1>0, <2>1, <2>4, <2>5, <2>6
  <2> QED BY <2>7 DEF Balance
<1>9. Order(c)'
  <2>1. Sorted(q) /\ Above(calls[c].last, q) /\ Below(q, Limit(c)) /\ calls[c].last < Limit(c)
    BY DEF IInv, ChannelOK, Order
  <2>2. Sorted(Tail(q)) /\ Above(calls[c].last, Tail(q)) /\ Below(Tail(q), Limit(c))
    BY <1>0, <2>1, TailOrder
  <2>3. Above(Head(q), Tail(q)) /\ calls[c].last < Head(q) /\ Head(q) < Limit(c)
    BY <1>0, <2>1, TailOrder
  <2> QED BY <1>5, <1>6, <2>1, <2>2, <2>3 DEF Order
<1>10. InOrder'
  BY <1>6 DEF IInv, InOrder
<1> QED
  <2>1. accepted' \in [Ids -> Nat] /\ abandoned' \in [Ids -> Nat] /\ faults' \in Nat
        /\ calls' \in [Ids -> [count : Nat, last : Nat]]
    BY <1>6 DEF IInv, Types
  <2>2. ChannelOK(c)'
    BY <1>7, <1>8, <1>9 DEF ChannelOK
  <2> QED BY <1>1, <1>3, <1>4, <1>5, <1>6, <1>10, <2>1, <2>2, OneChannel

(* A step of a worker that neither takes a note nor calls the sink.          *)
LEMMA Quiet ==
    ASSUME IInv, NEW c \in Ids, Same, faults' \in Nat, UNCHANGED history,
           chan' \in [Ids -> Chan], \A x \in Ids \ {c} : chan'[x] = chan[x],
           chan'[c].run = chan[c].run, chan'[c].queue = chan[c].queue,
           chan'[c].dropped = chan[c].dropped,
           Holds(chan'[c]) = Holds(chan[c]),
           Holds(chan[c]) => chan'[c].hand = chan[c].hand,
           chan[c].pc \in {"new", "end"} => chan'[c].pc = chan[c].pc
    PROVE  IInv'
<1>1. UNCHANGED <<accepted, calls, abandoned, disorder, made>> /\ Limit(c)' = Limit(c)
  BY DEF history, Same, Limit
<1>2. Lifecycle(c)'
  BY <1>1, ChannelTypes DEF IInv, ChannelOK, Lifecycle, Untouched
<1>3. Balance(c)'
  <2>1. InHand(c)' = InHand(c)
    BY DEF InHand, Holds
  <2> QED BY <1>1, <2>1 DEF IInv, ChannelOK, Balance
<1>4. Order(c)'
  BY <1>1 DEF IInv, ChannelOK, Order
<1>5. InOrder' /\ ChannelOK(c)'
  BY <1>1, <1>2, <1>3, <1>4 DEF IInv, InOrder, ChannelOK
<1>6. accepted' \in [Ids -> Nat] /\ abandoned' \in [Ids -> Nat]
      /\ calls' \in [Ids -> [count : Nat, last : Nat]]
  BY <1>1 DEF IInv, Types
<1> QED BY <1>1, <1>5, <1>6, OneChannel

LEMMA ExitStep == ASSUME IInv, NEW c \in Ids, Exit(c) PROVE IInv'
<1>1. chan[c] \in Chan /\ chan[c].pc = "wait" /\ Same /\ UNCHANGED <<faults, history>>
  BY DEF Exit, IInv, Types
<1>r. [chan[c] EXCEPT !.pc = "end"] \in Chan
  BY <1>1 DEF Chan, PC
<1>e. chan' = [chan EXCEPT ![c] = [chan[c] EXCEPT !.pc = "end"]]
  BY DEF Exit
<1>2. chan' \in [Ids -> Chan] /\ \A x \in Ids \ {c} : chan'[x] = chan[x]
  BY <1>e, <1>r DEF IInv, Types
<1>3. chan'[c].pc = "end" /\ chan'[c].run = chan[c].run /\ chan'[c].queue = chan[c].queue
      /\ chan'[c].dropped = chan[c].dropped
  BY <1>1 DEF Exit, IInv, Types, Chan
<1>4. Holds(chan[c]) = FALSE /\ Holds(chan'[c]) = FALSE
  BY <1>1, <1>3 DEF Holds
<1>5. faults' \in Nat
  BY <1>1 DEF IInv, Types
<1> QED BY <1>1, <1>2, <1>3, <1>4, <1>5, Quiet

LEMMA CheckCircuitStep == ASSUME IInv, NEW c \in Ids, CheckCircuit(c) PROVE IInv'
<1>1. chan[c] \in Chan /\ chan[c].pc = "circuit" /\ Same /\ UNCHANGED <<faults, history>>
  BY DEF CheckCircuit, IInv, Types
<1>r. [chan[c] EXCEPT !.pc = "cool"] \in Chan
  BY <1>1 DEF Chan, PC
<1>e. chan' = [chan EXCEPT ![c] = [chan[c] EXCEPT !.pc = "cool"]]
  BY DEF CheckCircuit
<1>2. chan' \in [Ids -> Chan] /\ \A x \in Ids \ {c} : chan'[x] = chan[x]
  BY <1>e, <1>r DEF IInv, Types
<1>3. chan'[c].pc = "cool" /\ chan'[c].run = chan[c].run /\ chan'[c].queue = chan[c].queue
      /\ chan'[c].dropped = chan[c].dropped /\ chan'[c].hand = chan[c].hand
  BY <1>1 DEF CheckCircuit, IInv, Types, Chan
<1>4. Holds(chan[c]) = TRUE /\ Holds(chan'[c]) = TRUE
  BY <1>1, <1>3 DEF Holds
<1>5. faults' \in Nat
  BY <1>1 DEF IInv, Types
<1> QED BY <1>1, <1>2, <1>3, <1>4, <1>5, Quiet

LEMMA CircuitExpiresStep == ASSUME IInv, NEW c \in Ids, CircuitExpires(c) PROVE IInv'
<1>1. chan[c] \in Chan /\ Same /\ UNCHANGED <<faults, history>>
  BY DEF CircuitExpires, IInv, Types
<1>r. [chan[c] EXCEPT !.open = FALSE] \in Chan
  BY <1>1 DEF Chan
<1>e. chan' = [chan EXCEPT ![c] = [chan[c] EXCEPT !.open = FALSE]]
  BY DEF CircuitExpires
<1>2. chan' \in [Ids -> Chan] /\ \A x \in Ids \ {c} : chan'[x] = chan[x]
  BY <1>e, <1>r DEF IInv, Types
<1>3. chan'[c].pc = chan[c].pc /\ chan'[c].run = chan[c].run /\ chan'[c].queue = chan[c].queue
      /\ chan'[c].dropped = chan[c].dropped /\ chan'[c].hand = chan[c].hand
  BY <1>1 DEF CircuitExpires, IInv, Types, Chan
<1>4. Holds(chan[c]) = Holds(chan'[c])
  BY <1>3 DEF Holds
<1>5. faults' \in Nat
  BY <1>1 DEF IInv, Types
<1> QED BY <1>1, <1>2, <1>3, <1>4, <1>5, Quiet

LEMMA DeliverSucceedsStep == ASSUME IInv, NEW c \in Ids, DeliverSucceeds(c) PROVE IInv'
<1>1. chan[c] \in Chan /\ chan[c].pc = "deliver" /\ Same /\ UNCHANGED <<faults, history>>
  BY DEF DeliverSucceeds, IInv, Types
<1>r. [chan[c] EXCEPT !.pc = "wait", !.hand = 0, !.failures = 0, !.open = FALSE] \in Chan
  BY <1>1 DEF Chan, PC
<1>e. chan' = [chan EXCEPT ![c] = [chan[c] EXCEPT !.pc = "wait", !.hand = 0, !.failures = 0, !.open = FALSE]]
  BY DEF DeliverSucceeds, IInv, Types
<1>2. chan' \in [Ids -> Chan] /\ \A x \in Ids \ {c} : chan'[x] = chan[x]
  BY <1>e, <1>r DEF IInv, Types
<1>3. chan'[c].pc = "wait" /\ chan'[c].run = chan[c].run /\ chan'[c].queue = chan[c].queue
      /\ chan'[c].dropped = chan[c].dropped
  BY <1>1 DEF DeliverSucceeds, IInv, Types, Chan
<1>4. Holds(chan[c]) = FALSE /\ Holds(chan'[c]) = FALSE
  BY <1>1, <1>3 DEF Holds
<1>5. faults' \in Nat
  BY <1>1 DEF IInv, Types
<1> QED BY <1>1, <1>2, <1>3, <1>4, <1>5, Quiet

LEMMA DeliverFailsStep == ASSUME IInv, NEW c \in Ids, DeliverFails(c) PROVE IInv'
<1> DEFINE opens == chan[c].open \/ Trips(chan[c].failures + 1)
<1>1. chan[c] \in Chan /\ chan[c].pc = "deliver" /\ Same /\ UNCHANGED history
      /\ faults' = faults + 1
  BY DEF DeliverFails, IInv, Types
<1>t. opens \in BOOLEAN /\ chan[c].failures \in Nat /\ chan[c].failures + 1 \in Nat
  BY <1>1 DEF Chan
<1>e. chan' = [chan EXCEPT ![c] = [chan[c] EXCEPT !.pc = "wait", !.hand = 0,
                                      !.failures = chan[c].failures + 1, !.open = opens]]
  BY <1>1 DEF DeliverFails, IInv, Types, Chan
<1> HIDE DEF opens
<1>r. [chan[c] EXCEPT !.pc = "wait", !.hand = 0,
                      !.failures = chan[c].failures + 1, !.open = opens] \in Chan
  BY <1>1, <1>t DEF Chan, PC
<1>2. chan' \in [Ids -> Chan] /\ \A x \in Ids \ {c} : chan'[x] = chan[x]
  BY <1>e, <1>r DEF IInv, Types
<1>3. chan'[c].pc = "wait" /\ chan'[c].run = chan[c].run /\ chan'[c].queue = chan[c].queue
      /\ chan'[c].dropped = chan[c].dropped
  BY <1>1, <1>e DEF IInv, Types, Chan
<1>4. Holds(chan[c]) = FALSE /\ Holds(chan'[c]) = FALSE
  BY <1>1, <1>3 DEF Holds
<1>5. faults' \in Nat
  BY <1>1 DEF IInv, Types
<1> QED BY <1>1, <1>2, <1>3, <1>4, <1>5, Quiet

LEMMA CoolStoppedStep == ASSUME IInv, NEW c \in Ids, CoolStopped(c) PROVE IInv'
<1>1. chan[c] \in Chan /\ chan[c].pc = "cool" /\ chan[c].run = FALSE /\ Same
      /\ UNCHANGED <<faults, accepted, calls, disorder, made>> /\ Limit(c)' = Limit(c)
  BY DEF CoolStopped, IInv, Types, Chan, Same, Limit
<1>r. [chan[c] EXCEPT !.pc = "end", !.hand = 0] \in Chan
  BY <1>1 DEF Chan, PC
<1>e. chan' = [chan EXCEPT ![c] = [chan[c] EXCEPT !.pc = "end", !.hand = 0]]
  BY DEF CoolStopped, IInv, Types
<1>2. chan' \in [Ids -> Chan] /\ \A x \in Ids \ {c} : chan'[x] = chan[x]
  BY <1>e, <1>r DEF IInv, Types
<1>3. chan'[c].pc = "end" /\ chan'[c].run = FALSE /\ chan'[c].queue = chan[c].queue
      /\ chan'[c].dropped = chan[c].dropped
  BY <1>1 DEF CoolStopped, IInv, Types, Chan
<1>4. abandoned[c] = 0
  <2>1. abandoned[c] \in Nat /\ ~(abandoned[c] > 0)
    BY <1>1, ChannelTypes DEF IInv, ChannelOK, Lifecycle
  <2> QED BY <2>1
<1>5. abandoned'[c] = 1 /\ abandoned' \in [Ids -> Nat]
      /\ \A x \in Ids \ {c} : abandoned'[x] = abandoned[x]
  BY <1>4 DEF CoolStopped, IInv, Types
<1>6. Lifecycle(c)'
  BY <1>1, <1>3, ChannelTypes DEF IInv, ChannelOK, Lifecycle, Untouched
<1>7. Balance(c)'
  <2>1. InHand(c) = 1 /\ InHand(c)' = 0
    BY <1>1, <1>3 DEF InHand
  <2>2. accepted[c] <= calls[c].count + 1 + Len(chan[c].queue) + 0 + chan[c].dropped
    BY <1>4, <2>1 DEF IInv, ChannelOK, Balance
  <2>t. calls[c].count \in Nat /\ Len(chan[c].queue) \in Nat /\ chan[c].dropped \in Nat
        /\ accepted[c] \in Nat
    BY ChannelTypes
  <2>n. accepted[c] <= calls[c].count + 0 + Len(chan[c].queue) + 1 + chan[c].dropped
    <3>1. \A a, n, l, d \in Nat : a <= n + 1 + l + 0 + d => a <= n + 0 + l + 1 + d
      OBVIOUS
    <3> QED BY <2>t, <2>2, <3>1
  <2>3. accepted'[c] <= calls'[c].count + InHand(c)' + Len(chan'[c].queue) + abandoned'[c]
                          + chan'[c].dropped
    BY <1>1, <1>3, <1>5, <2>1, <2>n
  <2> QED BY <1>3, <1>5, <2>3 DEF Balance
<1>8. Order(c)'
  BY <1>1, <1>3 DEF IInv, ChannelOK, Order, Holds
<1>9. InOrder' /\ ChannelOK(c)'
  BY <1>1, <1>6, <1>7, <1>8 DEF IInv, InOrder, ChannelOK
<1>10. accepted' \in [Ids -> Nat] /\ calls' \in [Ids -> [count : Nat, last : Nat]]
       /\ faults' \in Nat
  BY <1>1 DEF IInv, Types
<1> QED BY <1>1, <1>2, <1>3, <1>5, <1>9, <1>10, OneChannel

LEMMA CallStep == ASSUME IInv, NEW c \in Ids, Call(c) PROVE IInv'
<1>1. chan[c] \in Chan /\ Holds(chan[c]) /\ Same
      /\ UNCHANGED <<faults, accepted, abandoned, made>> /\ Limit(c)' = Limit(c)
  BY DEF Call, CallWhen, Holds, IInv, Types, Same, Limit
<1>r. [chan[c] EXCEPT !.pc = "deliver"] \in Chan
  BY <1>1 DEF Chan, PC
<1>e. chan' = [chan EXCEPT ![c] = [chan[c] EXCEPT !.pc = "deliver"]]
  BY DEF Call, IInv, Types
<1>2. chan' \in [Ids -> Chan] /\ \A x \in Ids \ {c} : chan'[x] = chan[x]
  BY <1>e, <1>r DEF IInv, Types
<1>3. chan'[c].pc = "deliver" /\ chan'[c].run = chan[c].run /\ chan'[c].queue = chan[c].queue
      /\ chan'[c].dropped = chan[c].dropped
  BY <1>1 DEF Call, IInv, Types, Chan
<1>4. calls' = [calls EXCEPT ![c] = [count |-> calls[c].count + 1, last |-> chan[c].hand]]
  BY DEF Call
<1>5. calls'[c].count = calls[c].count + 1 /\ calls'[c].last = chan[c].hand
      /\ \A x \in Ids \ {c} : calls'[x] = calls[x]
  BY <1>4 DEF IInv, Types
<1>t. calls' \in [Ids -> [count : Nat, last : Nat]]
  <2>1. [count |-> calls[c].count + 1, last |-> chan[c].hand] \in [count : Nat, last : Nat]
    BY ChannelTypes
  <2> QED BY <1>4, <2>1 DEF IInv, Types
<1>6. calls[c].last < chan[c].hand /\ Above(chan[c].hand, chan[c].queue)
      /\ chan[c].hand < Limit(c)
  BY <1>1 DEF IInv, ChannelOK, Order
<1>7. Lifecycle(c)'
  BY <1>1, <1>3, ChannelTypes DEF IInv, ChannelOK, Lifecycle, Untouched, Holds
<1>8. Balance(c)'
  <2>1. InHand(c) = 1 /\ InHand(c)' = 0
    BY <1>1, <1>3 DEF InHand, Holds
  <2>2. calls'[c].count + InHand(c)' + Len(chan'[c].queue)
           = calls[c].count + InHand(c) + Len(chan[c].queue)
    BY <1>3, <1>5, <2>1, ChannelTypes
  <2> QED BY <1>1, <1>3, <2>2 DEF IInv, ChannelOK, Balance
<1>9. Order(c)'
  BY <1>1, <1>3, <1>5, <1>6 DEF IInv, ChannelOK, Order, Holds
<1>10. InOrder' /\ ChannelOK(c)'
  BY <1>6, <1>7, <1>8, <1>9 DEF IInv, InOrder, ChannelOK, Call
<1>11. accepted' \in [Ids -> Nat] /\ abandoned' \in [Ids -> Nat] /\ faults' \in Nat
  BY <1>1 DEF IInv, Types
<1>12. chan[c].pc \notin {"new", "end"}
  BY <1>1 DEF Holds
<1> QED BY <1>1, <1>2, <1>3, <1>5, <1>t, <1>10, <1>11, <1>12, OneChannel

(* A channel that is told to stop: what it had queued moves to its dropped   *)
(* count.                                                                    *)
LEMMA RequestedKeeps ==
    ASSUME IInv, NEW c \in Ids, chan'[c] = Requested(chan[c]),
           UNCHANGED <<accepted, abandoned, calls, note, posting>>,
           made' \in Nat, made' >= made
    PROVE  /\ ChannelOK(c)' /\ chan'[c] \in Chan
           /\ chan'[c].pc = chan[c].pc /\ chan'[c].run = FALSE
<1> DEFINE r == chan[c]
           d == IF r.run THEN r.dropped + Len(r.queue) ELSE r.dropped
<1>0. r \in Chan /\ r.run \in BOOLEAN /\ Len(r.queue) \in Nat /\ r.dropped \in Nat
      /\ accepted[c] \in Nat /\ calls[c].count \in Nat /\ abandoned[c] \in Nat
      /\ made \in Nat /\ c \in Nat
  BY ChannelTypes
<1>1. d \in Nat
  BY <1>0
<1>2. chan'[c] = [r EXCEPT !.run = FALSE, !.queue = <<>>, !.dropped = d]
  BY <1>0 DEF Requested, Chan
<1> HIDE DEF d
<1>3. chan'[c].run = FALSE /\ chan'[c].queue = <<>> /\ chan'[c].dropped = d
      /\ chan'[c].pc = r.pc /\ chan'[c].hand = r.hand
  BY <1>0, <1>2 DEF Chan
<1>4. chan'[c] \in Chan
  <2>1. <<>> \in Seq(Nat)
    OBVIOUS
  <2> QED BY <1>0, <1>1, <1>2, <2>1 DEF Chan
<1>5. Limit(c)' = Limit(c)
  BY DEF Limit
<1>6. Lifecycle(c)'
  BY <1>0, <1>3 DEF IInv, ChannelOK, Lifecycle, Untouched
<1>7. Balance(c)'
  <2>1. InHand(c)' = InHand(c) /\ InHand(c) \in Nat /\ Len(chan'[c].queue) = 0
    BY <1>3 DEF InHand
  <2>2. abandoned[c] > 0 => abandoned[c] = 1
    BY DEF IInv, ChannelOK, Balance
  <2>3. accepted[c] <= calls[c].count + InHand(c) + 0 + abandoned[c] + d
    <3>1. CASE r.run
      <4>1. accepted[c] = calls[c].count + InHand(c) + Len(r.queue)
        BY <3>1 DEF IInv, ChannelOK, Balance
      <4>2. d = r.dropped + Len(r.queue)
        BY <3>1 DEF d
      <4>3. \A n, h, l, b, k \in Nat : n + h + l <= n + h + 0 + b + (k + l)
        OBVIOUS
      <4>4. calls[c].count + InHand(c) + Len(r.queue)
              <= calls[c].count + InHand(c) + 0 + abandoned[c] + (r.dropped + Len(r.queue))
        BY <4>3, <1>0, <2>1
      <4> QED BY <4>1, <4>2, <4>4
    <3>2. CASE ~r.run
      <4>1. r.queue = <<>> /\ d = r.dropped
        BY <1>0, <3>2 DEF IInv, ChannelOK, Lifecycle, d
      <4>2. accepted[c] <= calls[c].count + InHand(c) + 0 + abandoned[c] + r.dropped
        BY <4>1 DEF IInv, ChannelOK, Balance
      <4> QED BY <4>1, <4>2
    <3> QED BY <3>1, <3>2
  <2> QED BY <1>3, <2>1, <2>2, <2>3 DEF Balance
<1>8. Order(c)'
  <2>1. Sorted(<<>>) /\ \A n : Above(n, <<>>) /\ Below(<<>>, n)
    BY DEF Sorted, Above, Below
  <2>2. Holds(chan'[c]) = Holds(r)
    BY <1>3 DEF Holds
  <2> QED BY <1>3, <1>5, <2>1, <2>2 DEF IInv, ChannelOK, Order
<1> QED BY <1>3, <1>4, <1>6, <1>7, <1>8 DEF ChannelOK

LEMMA InitIInv == Init => IInv
<1> SUFFICES ASSUME Init PROVE IInv
  OBVIOUS
<1>1. \A c \in Ids : chan[c] = [sink |-> "none", run |-> FALSE, queue |-> <<>>, hand |-> 0,
                               pc |-> "new", failures |-> 0, open |-> FALSE, dropped |-> 0]
  BY DEF Init, Fresh
<1>2. <<>> \in Seq(Nat)
  OBVIOUS
<1>3. chan \in [Ids -> Chan]
  <2>1. chan = [c \in Ids |-> chan[c]]
    BY DEF Init
  <2>2. \A c \in Ids : chan[c] \in Chan
    <3>1. [sink |-> "none", run |-> FALSE, queue |-> <<>>, hand |-> 0, pc |-> "new",
           failures |-> 0, open |-> FALSE, dropped |-> 0] \in Chan
      BY <1>2 DEF Chan, PC
    <3> QED BY <1>1, <3>1
  <2> QED BY <2>1, <2>2
<1>4. Types
  BY <1>3, DeliveryAssumption DEF Init, Types
<1>5. ASSUME NEW c \in Ids PROVE ChannelOK(c)
  <2>1. chan[c].pc = "new" /\ chan[c].run = FALSE /\ chan[c].queue = <<>> /\ chan[c].dropped = 0
        /\ accepted[c] = 0 /\ abandoned[c] = 0 /\ calls[c].count = 0 /\ calls[c].last = 0
    BY <1>1 DEF Init
  <2>2. InHand(c) = 0 /\ ~Holds(chan[c]) /\ Limit(c) = 1 /\ Len(<<>>) = 0
    BY <2>1 DEF InHand, Holds, Limit, Init
  <2>3. Sorted(<<>>) /\ \A n : Above(n, <<>>) /\ Below(<<>>, n)
    BY DEF Sorted, Above, Below
  <2>4. Lifecycle(c)
    BY <2>1 DEF Lifecycle, Untouched
  <2>5. Balance(c)
    BY <2>1, <2>2 DEF Balance
  <2>6. Order(c)
    BY <2>1, <2>2, <2>3 DEF Order
  <2> QED BY <2>4, <2>5, <2>6 DEF ChannelOK
<1>6. InOrder /\ StopOnce
  BY DEF Init, InOrder, StopOnce
<1>7. NoStrayWorker
  BY <1>1 DEF NoStrayWorker
<1> QED BY <1>4, <1>5, <1>6, <1>7 DEF IInv

LEMMA EnqueueStep == ASSUME IInv, enqueue PROVE IInv'
<1>1. UNCHANGED <<running, current, stopping, joining, chan, made, faults, accepted, calls,
                  abandoned, disorder>> /\ note' = note + 1 /\ posting = {}
      /\ retired' = retired \ Finished
  BY DEF enqueue, chans, history, Reaped
<1>2. note \in Nat /\ note' \in Nat /\ made \in Nat
  BY <1>1, DeliveryAssumption DEF IInv, Types
<1>3. Types'
  BY <1>1, <1>2 DEF IInv, Types
<1>4. ASSUME NEW c \in Ids PROVE ChannelOK(c)'
  <2>1. Limit(c) = note + 1 /\ Limit(c)' >= note + 1
    BY <1>1, <1>2 DEF Limit
  <2>2. made' \in Nat /\ made' >= made
    BY <1>1, <1>2
  <2>3. Limit(c)' >= Limit(c)
    BY <2>1
  <2> QED BY <1>1, <1>2, <2>2, <2>3, Frame
<1>5. InOrder' /\ StopOnce'
  BY <1>1 DEF IInv, InOrder, StopOnce
<1>6. NoStrayWorker'
  BY <1>1 DEF IInv, NoStrayWorker, Live, Finished
<1> QED BY <1>3, <1>4, <1>5, <1>6 DEF IInv

LEMMA JoinedStep == ASSUME IInv, Joined PROVE IInv'
<1>1. UNCHANGED <<running, current, retired, stopping, chan, made, note, posting, faults, accepted,
                  calls, abandoned, disorder>> /\ joining' = 0 /\ joining \in Finished
  BY DEF Joined, chans, history
<1>2. note \in Nat /\ made \in Nat
  BY DeliveryAssumption DEF IInv, Types
<1>3. Types'
  BY <1>1 DEF IInv, Types
<1>4. ASSUME NEW c \in Ids PROVE ChannelOK(c)'
  <2>1. Limit(c)' = Limit(c) /\ Limit(c) \in Nat
    BY <1>1, <1>2 DEF Limit
  <2>2. made' \in Nat /\ made' >= made /\ note' \in Nat /\ Limit(c)' >= Limit(c)
    BY <1>1, <1>2, <2>1
  <2> QED BY <1>1, <2>2, Frame
<1>5. InOrder' /\ StopOnce'
  BY <1>1 DEF IInv, InOrder, StopOnce
<1>6. NoStrayWorker'
  BY <1>1 DEF IInv, NoStrayWorker, Live, Finished
<1> QED BY <1>3, <1>4, <1>5, <1>6 DEF IInv

LEMMA StopStep == ASSUME IInv, stop PROVE IInv'
<1>1. UNCHANGED <<joining, chan, made, note, posting, faults, accepted, calls, abandoned, disorder>>
      /\ running = TRUE /\ running' = FALSE /\ stopping' = Live \cup retired /\ joining = 0
  BY DEF stop, chans, history, IInv, StopOnce
<1>2. note \in Nat /\ made \in Nat
  BY DeliveryAssumption DEF IInv, Types
<1>3. Types'
  BY <1>1, DeliveryAssumption DEF IInv, Types, stop
<1>4. ASSUME NEW c \in Ids PROVE ChannelOK(c)'
  <2>1. Limit(c)' = Limit(c) /\ Limit(c) \in Nat
    BY <1>1, <1>2 DEF Limit
  <2>2. made' \in Nat /\ made' >= made /\ note' \in Nat /\ Limit(c)' >= Limit(c)
    BY <1>1, <1>2, <2>1
  <2> QED BY <1>1, <2>2, Frame
<1>5. InOrder' /\ StopOnce'
  BY <1>1 DEF IInv, InOrder, StopOnce
<1>6. NoStrayWorker'
  <2>1. \A c \in Ids : c # 0
    BY DEF Ids
  <2>2. stopping = {}
    BY <1>1 DEF IInv, StopOnce
  <2>3. \A c \in Ids : chan[c].pc \notin {"new", "end"} => c \in Live \cup retired
    BY <1>1, <2>1, <2>2 DEF IInv, NoStrayWorker
  <2> QED BY <1>1, <2>3 DEF NoStrayWorker
<1> QED BY <1>3, <1>4, <1>5, <1>6 DEF IInv

LEMMA StopChannelStep == ASSUME IInv, NEW c \in Ids, StopChannel(c) PROVE IInv'
<1>1. UNCHANGED <<running, current, retired, made, note, posting, faults, accepted, calls,
                  abandoned, disorder>> /\ joining = 0 /\ joining' = c
      /\ c \in stopping /\ stopping' = stopping \ {c}
  BY DEF StopChannel, history
<1>2. chan'[c] = Requested(chan[c]) /\ (\A x \in Ids \ {c} : chan'[x] = chan[x])
      /\ chan' = [x \in Ids |-> chan'[x]]
  BY DEF StopChannel, IInv, Types
<1>3. note' \in Nat /\ made' \in Nat /\ made' >= made
  BY <1>1, DeliveryAssumption DEF IInv, Types
<1>4. ChannelOK(c)' /\ chan'[c] \in Chan /\ chan'[c].pc = chan[c].pc /\ chan'[c].run = FALSE
  BY <1>1, <1>2, <1>3, RequestedKeeps
<1>5. Types'
  <2>1. chan' \in [Ids -> Chan]
    BY <1>2, <1>4 DEF IInv, Types
  <2> QED BY <1>1, <2>1 DEF IInv, Types
<1>6. ASSUME NEW x \in Ids, x # c PROVE ChannelOK(x)'
  <2>1. Limit(x)' = Limit(x) /\ Limit(x) \in Nat
    BY <1>1, ChannelTypes DEF Limit
  <2>2. Limit(x)' >= Limit(x)
    BY <2>1
  <2> QED BY <1>1, <1>2, <1>3, <1>6, <2>2, Frame
<1>7. InOrder' /\ StopOnce'
  BY <1>1 DEF IInv, InOrder, StopOnce
<1>8. NoStrayWorker'
  <2>1. \A x \in Ids : x # 0
    BY DEF Ids
  <2> QED BY <1>1, <1>2, <1>4, <2>1 DEF IInv, NoStrayWorker, Live
<1> QED BY <1>4, <1>5, <1>6, <1>7, <1>8 DEF IInv

LEMMA UnregisterStep == ASSUME IInv, NEW s \in Sinks, Unregister(s) PROVE IInv'
<1>c. PICK c \in Ids : c = current[s]
  BY DeliveryAssumption DEF Unregister, IInv, Types, Ids
<1>1. UNCHANGED <<running, stopping, joining, made, note, posting, faults, accepted, calls,
                  abandoned, disorder>> /\ c # 0 /\ current' = [current EXCEPT ![s] = 0]
      /\ retired' = (retired \cup {c}) \ Finished
  BY <1>c DEF Unregister, history, Reaped, Retire
<1>2. chan'[c] = Requested(chan[c]) /\ (\A x \in Ids \ {c} : chan'[x] = chan[x])
      /\ chan' = [x \in Ids |-> chan'[x]]
  BY <1>c DEF Unregister, IInv, Types
<1>3. note' \in Nat /\ made' \in Nat /\ made' >= made
  BY <1>1, DeliveryAssumption DEF IInv, Types
<1>4. ChannelOK(c)' /\ chan'[c] \in Chan /\ chan'[c].pc = chan[c].pc /\ chan'[c].run = FALSE
  BY <1>1, <1>2, <1>3, RequestedKeeps
<1>5. Types'
  <2>1. chan' \in [Ids -> Chan]
    BY <1>2, <1>4 DEF IInv, Types
  <2>2. current' \in [Sinks -> 0..MaxChannels]
    BY <1>1, DeliveryAssumption DEF IInv, Types
  <2> QED BY <1>1, <2>1, <2>2 DEF IInv, Types
<1>6. ASSUME NEW x \in Ids, x # c PROVE ChannelOK(x)'
  <2>1. Limit(x)' = Limit(x) /\ Limit(x) \in Nat
    BY <1>1, ChannelTypes DEF Limit
  <2>2. Limit(x)' >= Limit(x)
    BY <2>1
  <2> QED BY <1>1, <1>2, <1>3, <1>6, <2>2, Frame
<1>7. InOrder' /\ StopOnce'
  BY <1>1 DEF IInv, InOrder, StopOnce
<1>8. NoStrayWorker'
  <2> SUFFICES ASSUME NEW x \in Ids, chan'[x].pc \notin {"new", "end"}
               PROVE  \/ x \in Live' /\ chan'[x].run
                      \/ x \in retired' \cup stopping' \cup {joining'}
    BY DEF NoStrayWorker
  <2>1. chan[x].pc \notin {"new", "end"} /\ x \notin Finished
    BY <1>2, <1>4 DEF Finished
  <2>2. CASE x = c
    BY <1>1, <2>1, <2>2
  <2>3. CASE x # c
    <3>1. x \in Live => x \in Live'
      BY <1>c, <1>1, <2>3 DEF Live, IInv, Types
    <3> QED BY <1>1, <1>2, <2>1, <2>3, <3>1 DEF IInv, NoStrayWorker
  <2> QED BY <2>2, <2>3
<1> QED BY <1>4, <1>5, <1>6, <1>7, <1>8 DEF IInv

LEMMA RegisterStep == ASSUME IInv, NEW s \in Sinks, Register(s) PROVE IInv'
<1>n. PICK n \in Ids : n = made + 1
  BY DeliveryAssumption DEF Register, IInv, Types, Ids
<1>1. UNCHANGED <<running, stopping, joining, note, posting, faults, accepted, calls,
                  abandoned, disorder>> /\ made' = n
      /\ current' = [current EXCEPT ![s] = n]
      /\ retired' = (retired \cup Retire(s)) \ Finished
  BY <1>n DEF Register, history, Reaped
<1>2. chan' = [x \in Ids |-> IF x = n THEN Fresh(s)
                             ELSE IF x \in Retire(s) THEN Requested(chan[x]) ELSE chan[x]]
  BY <1>n DEF Register
<1>3. note' \in Nat /\ made \in Nat /\ made' \in Nat /\ made' >= made
      /\ n \in 0..MaxChannels /\ n # 0 /\ n > made
  BY <1>1, <1>n, DeliveryAssumption DEF IInv, Types, Ids
<1>r. <<>> \in Seq(Nat) /\ Len(<<>>) = 0
  OBVIOUS
<1>f. chan'[n] = Fresh(s) /\ Fresh(s) \in Chan
  BY <1>2, <1>3, <1>r DEF Fresh, Chan, PC
<1>g. chan'[n].pc = "wait" /\ chan'[n].run = TRUE /\ chan'[n].queue = <<>>
      /\ chan'[n].dropped = 0
  BY <1>f DEF Fresh
<1>4. ASSUME NEW x \in Ids, x # n
      PROVE  ChannelOK(x)' /\ chan'[x] \in Chan /\ chan'[x].pc = chan[x].pc
             /\ (x \notin Retire(s) => chan'[x] = chan[x])
  <2>1. CASE x \in Retire(s)
    <3>1. chan'[x] = Requested(chan[x])
      BY <1>2, <1>4, <2>1
    <3> QED BY <1>1, <1>3, <2>1, <3>1, RequestedKeeps
  <2>2. CASE x \notin Retire(s)
    <3>1. chan'[x] = chan[x]
      BY <1>2, <1>4, <2>2
    <3>2. Limit(x)' = Limit(x) /\ Limit(x) \in Nat
      BY <1>1, ChannelTypes DEF Limit
    <3>3. Limit(x)' >= Limit(x)
      BY <3>2
    <3> QED BY <1>1, <1>3, <3>1, <3>3, Frame, ChannelTypes
  <2> QED BY <2>1, <2>2
<1>5. Types'
  <2>1. chan' \in [Ids -> Chan]
    <3>1. \A x \in Ids : chan'[x] \in Chan
      BY <1>4, <1>f
    <3>2. chan' = [x \in Ids |-> chan'[x]]
      BY <1>2
    <3> QED BY <3>1, <3>2
  <2>2. current' \in [Sinks -> 0..MaxChannels] /\ made' \in 0..MaxChannels
    BY <1>1, <1>3 DEF IInv, Types
  <2> QED BY <1>1, <2>1, <2>2 DEF IInv, Types
<1>6. ChannelOK(n)'
  <2>1. accepted'[n] = 0 /\ abandoned'[n] = 0 /\ calls'[n].count = 0 /\ calls'[n].last = 0
    BY <1>1, <1>3 DEF IInv, ChannelOK, Lifecycle, Untouched
  <2>2. InHand(n)' = 0 /\ ~Holds(chan'[n])
    BY <1>g DEF InHand, Holds
  <2>3. Lifecycle(n)'
    BY <1>1, <1>3, <1>g, <2>1 DEF Lifecycle
  <2>4. Balance(n)'
    BY <1>g, <1>r, <2>1, <2>2 DEF Balance
  <2>5. Sorted(<<>>) /\ \A k : Above(k, <<>>) /\ Below(<<>>, k)
    BY DEF Sorted, Above, Below
  <2>6. calls'[n].last < Limit(n)'
    <3>1. calls[n].last < Limit(n) /\ Limit(n)' = Limit(n) /\ calls'[n] = calls[n]
      BY <1>1, <1>3 DEF IInv, ChannelOK, Order, Limit
    <3> QED BY <3>1
  <2>7. Order(n)'
    BY <1>g, <2>2, <2>5, <2>6 DEF Order
  <2> QED BY <2>3, <2>4, <2>7 DEF ChannelOK
<1>7. InOrder' /\ StopOnce'
  BY <1>1 DEF IInv, InOrder, StopOnce
<1>8. NoStrayWorker'
  <2> SUFFICES ASSUME NEW x \in Ids, chan'[x].pc \notin {"new", "end"}
               PROVE  \/ x \in Live' /\ chan'[x].run
                      \/ x \in retired' \cup stopping' \cup {joining'}
    BY DEF NoStrayWorker
  <2>1. CASE x = n
    <3>1. current'[s] = n
      BY <1>1 DEF IInv, Types
    <3> QED BY <1>3, <1>g, <2>1, <3>1 DEF Live
  <2>2. CASE x # n
    <3>1. chan[x].pc \notin {"new", "end"} /\ x \notin Finished
      BY <1>4, <2>2 DEF Finished
    <3>2. CASE x \in Retire(s)
      BY <1>1, <3>1, <3>2
    <3>3. CASE x \notin Retire(s)
      <4>0. x # 0
        BY DEF Ids
      <4>1. x \in Live => x \in Live'
        <5> SUFFICES ASSUME NEW t \in Sinks, x = current[t] PROVE x \in Live'
          BY DEF Live
        <5>1. t # s
          BY <3>3, <4>0 DEF Retire
        <5>2. current'[t] = x
          BY <1>1, <5>1 DEF IInv, Types
        <5> QED BY <5>2, <4>0 DEF Live
      <4>2. chan'[x] = chan[x]
        BY <1>4, <2>2, <3>3
      <4> QED BY <1>1, <3>1, <4>1, <4>2 DEF IInv, NoStrayWorker
    <3> QED BY <3>2, <3>3
  <2> QED BY <2>1, <2>2
<1> QED BY <1>4, <1>5, <1>6, <1>7, <1>8 DEF IInv

(* What an offer leaves behind: the channel is off the list, and its queue   *)
(* may end in the note.                                                      *)
LEMMA PostStep == ASSUME IInv, NEW c \in Ids, Post(c) PROVE IInv'
<1> DEFINE q == chan[c].queue
<1>1. UNCHANGED <<running, current, retired, stopping, joining, made, note, faults, calls,
                  abandoned, disorder>> /\ c \in posting /\ posting' = posting \ {c}
  BY DEF Post, dispatcher
<1>2. q \in Seq(Nat) /\ Len(q) \in Nat /\ chan[c] \in Chan /\ chan[c].dropped \in Nat
      /\ accepted[c] \in Nat /\ abandoned[c] \in Nat /\ calls[c].count \in Nat
      /\ calls[c].last \in Nat /\ note \in Nat /\ made \in Nat /\ c \in Nat
      /\ chan[c].run \in BOOLEAN /\ chan[c].hand \in Nat
  BY ChannelTypes
<1>3. Limit(c) = note /\ Limit(c)' = note + 1 /\ \A x \in Ids \ {c} : Limit(x)' = Limit(x)
  BY <1>1 DEF Limit
<1>4. Below(q, note) /\ Sorted(q) /\ Above(calls[c].last, q) /\ calls[c].last < note
      /\ (Holds(chan[c]) => Above(chan[c].hand, q) /\ calls[c].last < chan[c].hand
                            /\ chan[c].hand < note)
  BY <1>3 DEF IInv, ChannelOK, Order
<1>5. calls[c].last < note + 1 /\ (Holds(chan[c]) => chan[c].hand < note + 1)
      /\ Below(q, note + 1)
  <2>0. q \in Seq(Nat) /\ note \in Nat /\ Below(q, note)
    BY <1>2, <1>4
  <2>1. \A i \in 1..Len(q) : q[i] \in Nat
    BY <2>0
  <2>2. Below(q, note + 1)
    BY <2>0, <2>1 DEF Below
  <2> QED BY <1>2, <1>4, <2>2
<1>6. ASSUME chan' \in [Ids -> Chan], accepted' \in [Ids -> Nat], ChannelOK(c)',
             \A x \in Ids \ {c} : chan'[x] = chan[x] /\ accepted'[x] = accepted[x],
             chan'[c].run = chan[c].run, chan'[c].pc = chan[c].pc
      PROVE  IInv'
  <2>1. Types'
    BY <1>1, <1>6 DEF IInv, Types
  <2>2. ASSUME NEW x \in Ids, x # c PROVE ChannelOK(x)'
    <3>1. Limit(x)' >= Limit(x) /\ note' \in Nat /\ made' \in Nat /\ made' >= made
      BY <1>1, <1>2, <1>3, <2>2, ChannelTypes
    <3> QED BY <1>1, <1>6, <2>2, <3>1, Frame
  <2>3. InOrder' /\ StopOnce'
    BY <1>1 DEF IInv, InOrder, StopOnce
  <2>4. NoStrayWorker'
    BY <1>1, <1>6 DEF IInv, NoStrayWorker, Live
  <2> QED BY <1>6, <2>1, <2>2, <2>3, <2>4 DEF IInv
<1>7. CASE UNCHANGED <<chan, accepted>>
  <2>1. chan' = chan /\ accepted' = accepted
    BY <1>7
  <2>2. Lifecycle(c)'
    BY <1>1, <2>1 DEF IInv, ChannelOK, Lifecycle, Untouched
  <2>3. Balance(c)'
    BY <1>1, <2>1 DEF IInv, ChannelOK, Balance, InHand
  <2>4. Order(c)'
    BY <1>1, <1>3, <1>4, <1>5, <2>1 DEF Order
  <2>5. ChannelOK(c)' /\ chan' \in [Ids -> Chan] /\ accepted' \in [Ids -> Nat]
    BY <2>1, <2>2, <2>3, <2>4 DEF ChannelOK, IInv, Types
  <2> QED BY <1>6, <2>1, <2>5
<1>8. CASE chan' = [chan EXCEPT ![c].dropped = @ + 1] /\ accepted' = accepted
  <2> DEFINE d == chan[c].dropped + 1
  <2>1. chan' = [chan EXCEPT ![c] = [chan[c] EXCEPT !.dropped = d]]
    BY <1>8 DEF IInv, Types
  <2>d. d \in Nat
    BY <1>2
  <2> HIDE DEF d
  <2>2. [chan[c] EXCEPT !.dropped = d] \in Chan
    BY <1>2, <2>d DEF Chan
  <2>3. chan' \in [Ids -> Chan] /\ \A x \in Ids \ {c} : chan'[x] = chan[x]
    BY <2>1, <2>2 DEF IInv, Types
  <2>4. chan'[c].pc = chan[c].pc /\ chan'[c].run = chan[c].run /\ chan'[c].queue = q
        /\ chan'[c].hand = chan[c].hand /\ chan'[c].dropped = d
    BY <1>2, <2>1 DEF IInv, Types, Chan
  <2>5. Lifecycle(c)'
    BY <1>1, <1>8, <2>4 DEF IInv, ChannelOK, Lifecycle, Untouched
  <2>6. Balance(c)'
    <3> DEFINE held == calls[c].count + InHand(c) + Len(q) + abandoned[c]
    <3>1. InHand(c)' = InHand(c) /\ InHand(c) \in Nat
      BY <2>4 DEF InHand
    <3>2. accepted[c] <= held + chan[c].dropped
      BY DEF IInv, ChannelOK, Balance
    <3>n. held \in Nat
      <4>1. calls[c].count \in Nat /\ InHand(c) \in Nat /\ Len(q) \in Nat /\ abandoned[c] \in Nat
        BY <1>2, <3>1
      <4>2. \A n, h, l, b \in Nat : n + h + l + b \in Nat
        OBVIOUS
      <4> QED BY <4>1, <4>2
    <3> HIDE DEF held
    <3>3. accepted[c] <= held + (chan[c].dropped + 1)
      BY <1>2, <3>2, <3>n
    <3> USE DEF held
    <3>4. accepted'[c] <= calls'[c].count + InHand(c)' + Len(chan'[c].queue) + abandoned'[c]
                            + chan'[c].dropped
      BY <1>1, <1>8, <2>4, <3>1, <3>3 DEF d
    <3>5. chan[c].run => accepted[c] = calls[c].count + InHand(c) + Len(q)
      BY DEF IInv, ChannelOK, Balance
    <3>6. abandoned[c] > 0 => ~chan[c].run /\ abandoned[c] = 1
      BY DEF IInv, ChannelOK, Balance
    <3> QED BY <1>1, <1>8, <2>4, <3>1, <3>4, <3>5, <3>6 DEF Balance
  <2>7. Order(c)'
    <3>1. Holds(chan'[c]) = Holds(chan[c])
      BY <2>4 DEF Holds
    <3> QED BY <1>1, <1>3, <1>4, <1>5, <2>4, <3>1 DEF Order
  <2>8. ChannelOK(c)' /\ accepted' \in [Ids -> Nat]
    BY <1>8, <2>5, <2>6, <2>7 DEF ChannelOK, IInv, Types
  <2> QED BY <1>6, <1>8, <2>3, <2>4, <2>8
<1>9. CASE /\ ~Refused(chan[c])
           /\ chan' = [chan EXCEPT ![c].queue = Queued(@, note)]
           /\ accepted' = [accepted EXCEPT ![c] = @ + 1]
  <2> DEFINE p == Append(q, note)
  <2>0. chan[c].run = TRUE
    BY <1>2, <1>9 DEF Refused
  <2>1. chan' = [chan EXCEPT ![c] = [chan[c] EXCEPT !.queue = p]]
    BY <1>9 DEF IInv, Types, Queued
  <2>p. p \in Seq(Nat) /\ Len(p) = Len(q) + 1 /\ Sorted(p) /\ Below(p, note + 1)
        /\ Above(calls[c].last, p) /\ (Holds(chan[c]) => Above(chan[c].hand, p))
    BY <1>2, <1>4, AppendOrder
  <2> HIDE DEF p
  <2>2. [chan[c] EXCEPT !.queue = p] \in Chan
    BY <1>2, <2>p DEF Chan
  <2>3. chan' \in [Ids -> Chan] /\ \A x \in Ids \ {c} : chan'[x] = chan[x]
    BY <2>1, <2>2 DEF IInv, Types
  <2>4. chan'[c].pc = chan[c].pc /\ chan'[c].run = TRUE /\ chan'[c].queue = p
        /\ chan'[c].hand = chan[c].hand /\ chan'[c].dropped = chan[c].dropped
    BY <1>2, <2>0, <2>1 DEF IInv, Types, Chan
  <2>a. accepted' \in [Ids -> Nat] /\ accepted'[c] = accepted[c] + 1
        /\ \A x \in Ids \ {c} : accepted'[x] = accepted[x]
    BY <1>2, <1>9 DEF IInv, Types
  <2>5. Lifecycle(c)'
    BY <1>1, <1>2, <2>0, <2>4 DEF IInv, ChannelOK, Lifecycle, Untouched
  <2>6. Balance(c)'
    <3>1. InHand(c)' = InHand(c) /\ InHand(c) \in Nat
      BY <2>4 DEF InHand
    <3>2. accepted[c] = calls[c].count + InHand(c) + Len(q) /\ abandoned[c] = 0
      BY <1>2, <2>0 DEF IInv, ChannelOK, Balance
    <3>3. \A n, h, l \in Nat : n + h + l + 1 = n + h + (l + 1)
      OBVIOUS
    <3>4. accepted[c] + 1 = calls[c].count + InHand(c) + Len(p)
      <4>1. calls[c].count + InHand(c) + Len(q) + 1 = calls[c].count + InHand(c) + (Len(q) + 1)
        <5>1. calls[c].count \in Nat /\ InHand(c) \in Nat /\ Len(q) \in Nat
          BY <1>2, <3>1
        <5> QED BY <3>3, <5>1
      <4> QED BY <2>p, <3>2, <4>1
    <3>5. accepted'[c] = calls'[c].count + InHand(c)' + Len(chan'[c].queue) /\ abandoned'[c] = 0
          /\ accepted'[c] \in Nat /\ chan'[c].dropped \in Nat
      BY <1>1, <1>2, <2>4, <2>a, <3>1, <3>2, <3>4
    <3> QED BY <3>5 DEF Balance
  <2>7. Order(c)'
    <3>1. Holds(chan'[c]) = Holds(chan[c])
      BY <2>4 DEF Holds
    <3> QED BY <1>1, <1>3, <1>4, <1>5, <2>4, <2>p, <3>1 DEF Order
  <2>8. ChannelOK(c)'
    BY <2>5, <2>6, <2>7 DEF ChannelOK
  <2> QED BY <1>6, <2>0, <2>3, <2>4, <2>8, <2>a
<1> QED BY <1>7, <1>8, <1>9 DEF Post
-----------------------------------------------------------------------------
\* The invariant that carries the results below holds in every reachable state.
THEOREM DeliveryInvariance == Spec => []IInv
<1>1. ASSUME IInv, Next PROVE IInv'
  <2>1. CASE enqueue \/ stop \/ Joined
    BY <1>1, <2>1, EnqueueStep, StopStep, JoinedStep
  <2>2. CASE \E s \in Sinks : Register(s) \/ Unregister(s)
    BY <1>1, <2>2, RegisterStep, UnregisterStep
  <2>3. CASE \E c \in Ids : Post(c) \/ StopChannel(c) \/ CircuitExpires(c)
    BY <1>1, <2>3, PostStep, StopChannelStep, CircuitExpiresStep
  <2>4. CASE \E c \in Ids : Worker(c)
    BY <1>1, <2>4, TakeStep, ExitStep, CheckCircuitStep, CoolStoppedStep, CallStep DEF Worker
  <2>5. CASE \E c \in Ids : Returns(c)
    BY <1>1, <2>5, DeliverSucceedsStep, DeliverFailsStep DEF Returns
  <2> QED BY <1>1, <2>1, <2>2, <2>3, <2>4, <2>5 DEF Next
<1>2. ASSUME IInv, UNCHANGED vars PROVE IInv'
  <2>1. UNCHANGED <<running, current, retired, stopping, joining, chan, made, note, posting,
                    faults, accepted, calls, abandoned, disorder>>
    BY <1>2 DEF vars, dispatcher, chans, history
  <2>2. \A c \in Ids : ChannelOK(c)'
    BY <1>2, <2>1 DEF IInv, ChannelOK, Lifecycle, Untouched, Balance, InHand, Order, Limit
  <2>3. Types' /\ InOrder' /\ StopOnce'
    BY <1>2, <2>1 DEF IInv, Types, InOrder, StopOnce
  <2>4. NoStrayWorker'
    BY <1>2, <2>1 DEF IInv, NoStrayWorker, Live
  <2> QED BY <2>2, <2>3, <2>4 DEF IInv
<1> QED
  BY <1>1, <1>2, InitIInv, PTL DEF Spec

\* Every notification a SinkChannel accepts is called, queued, in the worker's
\* hand, counted as dropped or given up by the worker of a stopped channel.
THEOREM AccountedHolds == Spec => []Accounted
<1>1. IInv => Accounted
  BY DEF IInv, ChannelOK, Balance, Accounted
<1> QED
  BY <1>1, DeliveryInvariance, PTL

\* deliver() of a sink is called in the order of enqueue and at most once for a
\* notification, however often the circuit opens and the channel is retired.
THEOREM InOrderHolds == Spec => []InOrder
<1>1. IInv => InOrder
  BY DEF IInv
<1> QED
  BY <1>1, DeliveryInvariance, PTL

\* The worker of every SinkChannel is that of a registered sink, or retired and
\* to be reaped, or to be joined by stop(): no thread outlives its owner.
THEOREM NoStrayWorkerHolds == Spec => []NoStrayWorker
<1>1. IInv => NoStrayWorker
  BY DEF IInv
<1> QED
  BY <1>1, DeliveryInvariance, PTL
-----------------------------------------------------------------------------
(***************************************************************************)
(* The alert state machine that produces what the dispatcher delivers:     *)
(* module AlertTracker.                                                    *)
(***************************************************************************)
Events == {"opened", "escalated", "resolved"}

OpenLife == <<"opened">>
CriticalLife == <<"opened", "escalated">>

TrackerTypes ==
    /\ failing \in [Instances -> Failures]
    /\ alerts \in [Instances -> Alert \cup {None}]
    /\ now \in 0..MaxTime /\ raised \in 0..MaxAlerts
    /\ told \in [AlertIds -> Lives]
    /\ since \in [Instances -> [code : Failures, at : 0..MaxTime]]

\* What the sinks were told of an alert is what its state says, and it was not
\* opened before its debounce time.
Faithful(a) ==
    /\ a.id <= raised /\ a.first <= now
    /\ a.status = "pending" => a.critical = FALSE /\ told[a.id] = <<>>
    /\ a.status \in {"firing", "silenced"} =>
          /\ a.critical = TRUE => told[a.id] = CriticalLife
          /\ a.critical = FALSE => told[a.id] = OpenLife
          /\ now - a.first >= Debounce

\* The failure of an unresolved alert is what every observation of its instance
\* with a code found, from the alert's first time on.
Followed(k) ==
    alerts[k] # None /\ alerts[k].status # "resolved" =>
        since[k].code = alerts[k].code /\ since[k].at <= alerts[k].first

FreshIds == \A i \in AlertIds : i > raised => told[i] = <<>>

OwnIds == \A k, l \in Instances :
    alerts[k] # None /\ alerts[l] # None /\ alerts[k].id = alerts[l].id => k = l

TrackerInv ==
    /\ TrackerTypes /\ FreshIds /\ OwnIds
    /\ \A k \in Instances :
          /\ alerts[k] # None => Faithful(alerts[k])
          /\ Followed(k) /\ since[k].at <= now

LEMMA TrackerInitial == TrackerInit => TrackerInv
  BY PolicyAssumption DEF TrackerInit, TrackerInv, TrackerTypes, FreshIds, OwnIds, Followed,
                          Failures, Lives, AlertIds

\* The two parts of updateAlert that change an alert, field by field.
LEMMA OpenedAlert ==
    ASSUME NEW a \in Alert
    PROVE  LET p == Opened(a) IN
           /\ p \in Alert /\ p.id = a.id /\ p.code = a.code /\ p.first = a.first
           /\ p.critical = a.critical
           /\ Opens(a) => p.status \in {"firing", "silenced"}
           /\ ~Opens(a) => p = a
<1>1. CASE a.code \in SilencedCodes
  BY <1>1 DEF Opened, Alert
<1>2. CASE a.code \notin SilencedCodes
  BY <1>2 DEF Opened, Alert
<1> QED BY <1>1, <1>2

LEMMA EscalatedAlert ==
    ASSUME NEW a \in Alert
    PROVE  LET f == Escalated(a) IN
           /\ f \in Alert /\ f.id = a.id /\ f.code = a.code /\ f.first = a.first
           /\ f.status = a.status
           /\ Escalates(a) => f.critical = TRUE
           /\ ~Escalates(a) => f = a
  BY DEF Escalated, Alert

\* What updateAlert makes of an alert a that it saw, and the events it emits.
Effect(a, f, e) ==
    /\ f \in Alert /\ f.id = a.id /\ f.code = a.code /\ f.first = a.first
    /\ \/ e = <<>> /\ f = a
       \/ /\ a.status = "pending" /\ now - a.first >= Debounce
          /\ f.status \in {"firing", "silenced"}
          /\ \/ e = <<"opened">> /\ f.critical = a.critical
             \/ e = <<"opened", "escalated">> /\ f.critical = TRUE
       \/ /\ a.status \in {"firing", "silenced"} /\ a.critical = FALSE
          /\ e = <<"escalated">> /\ f.status = a.status /\ f.critical = TRUE

EventsOf(a) ==
    (IF Opens(a) THEN <<"opened">> ELSE <<>>)
    \o (IF Escalates(Opened(a)) THEN <<"escalated">> ELSE <<>>)

\* The lives of an alert, put together from the events of its observations.
LEMMA BothEvents ==
    /\ <<"opened">> \o <<"escalated">> = CriticalLife
    /\ <<"opened">> \o <<"resolved">> = <<"opened", "resolved">>
    /\ CriticalLife \o <<"resolved">> = <<"opened", "escalated", "resolved">>
<1>0. /\ <<"opened">> \in Seq(Events) /\ <<"escalated">> \in Seq(Events)
      /\ <<"resolved">> \in Seq(Events) /\ CriticalLife \in Seq(Events)
  BY DEF Events, CriticalLife
<1>1. ASSUME NEW e \in {"escalated", "resolved"} PROVE <<"opened">> \o <<e>> = <<"opened", e>>
  <2>1. PICK s : s = <<"opened">> \o <<e>>
    OBVIOUS
  <2>2. s \in Seq(Events) /\ Len(s) = 2 /\ s[1] = "opened" /\ s[2] = e
    BY <1>0, <1>1, <2>1 DEF Events
  <2>3. s = <<"opened", e>>
    BY <2>2
  <2> QED BY <2>1, <2>3
<1>2. CriticalLife \o <<"resolved">> = <<"opened", "escalated", "resolved">>
  <2>1. PICK s : s = CriticalLife \o <<"resolved">>
    OBVIOUS
  <2>2. /\ s \in Seq(Events) /\ Len(s) = 3
        /\ s[1] = "opened" /\ s[2] = "escalated" /\ s[3] = "resolved"
    BY <1>0, <2>1 DEF CriticalLife
  <2>3. s = <<"opened", "escalated", "resolved">>
    BY <2>2
  <2> QED BY <2>1, <2>3
<1> QED BY <1>1, <1>2 DEF CriticalLife

\* What is told of an alert after an observation, for what was told before.
LEMMA Tells ==
    /\ \A l \in Lives : l \o <<>> = l
    /\ <<>> \o <<"opened">> = OpenLife /\ <<>> \o <<"opened", "escalated">> = CriticalLife
    /\ OpenLife \o <<"escalated">> = CriticalLife
    /\ \A l \in {OpenLife, CriticalLife} : l \o <<"resolved">> \in Lives
<1>1. \A l \in Lives : l \in Seq(Events)
  <2>1. <<>> \in Seq(Events) /\ <<"opened">> \in Seq(Events)
    BY DEF Events
  <2>2. <<"opened", "escalated">> \in Seq(Events) /\ <<"opened", "resolved">> \in Seq(Events)
    BY DEF Events
  <2>3. <<"opened", "escalated", "resolved">> \in Seq(Events)
    BY DEF Events
  <2> QED BY <2>1, <2>2, <2>3, Zenon DEF Lives
<1>2. \A l \in Lives : l \o <<>> = l
  BY <1>1
<1>3. <<>> \o <<"opened">> = OpenLife /\ <<>> \o <<"opened", "escalated">> = CriticalLife
  BY DEF OpenLife, CriticalLife
<1>4. OpenLife \o <<"escalated">> = CriticalLife
  BY BothEvents, Zenon DEF OpenLife
<1>5. \A l \in {OpenLife, CriticalLife} : l \o <<"resolved">> \in Lives
  BY BothEvents, Zenon DEF OpenLife, Lives
<1> QED BY <1>2, <1>3, <1>4, <1>5

LEMMA AlertEffect ==
    ASSUME NEW a \in Alert
    PROVE  Effect(a, Escalated(Opened(a)), EventsOf(a))
<1> DEFINE p == Opened(a)
           f == Escalated(p)
<1>1. /\ p \in Alert /\ p.id = a.id /\ p.code = a.code /\ p.first = a.first
      /\ p.critical = a.critical
      /\ Opens(a) => p.status \in {"firing", "silenced"}
      /\ ~Opens(a) => p = a
  BY OpenedAlert
<1>2. /\ f \in Alert /\ f.id = p.id /\ f.code = p.code /\ f.first = p.first
      /\ f.status = p.status
      /\ Escalates(p) => f.critical = TRUE
      /\ ~Escalates(p) => f = p
  BY <1>1, EscalatedAlert
<1>3. /\ Opens(a) => a.status = "pending" /\ now - a.first >= Debounce
      /\ Escalates(p) => p.status \in {"firing", "silenced"} /\ p.critical = FALSE
  BY <1>1 DEF Opens, Escalates, Alert
<1>4. /\ Opens(a) /\ Escalates(p) => EventsOf(a) = <<"opened", "escalated">>
      /\ Opens(a) /\ ~Escalates(p) => EventsOf(a) = <<"opened">>
      /\ ~Opens(a) /\ Escalates(p) => EventsOf(a) = <<"escalated">>
      /\ ~Opens(a) /\ ~Escalates(p) => EventsOf(a) = <<>>
  <2>1. /\ <<"opened">> \o <<>> = <<"opened">> /\ <<>> \o <<"escalated">> = <<"escalated">>
        /\ <<>> \o <<>> = <<>>
    OBVIOUS
  <2> QED BY <2>1, BothEvents, Zenon DEF EventsOf, CriticalLife
<1> HIDE DEF p, f
<1>5. Effect(a, f, EventsOf(a))
  BY <1>1, <1>2, <1>3, <1>4 DEF Effect
<1> QED BY <1>5 DEF p, f

\* The alert that updateAlert looks at is new and silent, or an unresolved one of
\* the instance with the same code.
LEMMA SeenAlert ==
    ASSUME TrackerInv, NEW k \in Instances, failing[k] \in Codes, raised < MaxAlerts
    PROVE  LET a == Seen(k, failing[k]) IN
           /\ a \in Alert /\ a.code = failing[k] /\ a.status # "resolved"
           /\ a.first <= now
           /\ a.status = "pending" => a.critical = FALSE /\ told[a.id] = <<>>
           /\ a.status \in {"firing", "silenced"} =>
                 /\ a.critical = TRUE => told[a.id] = CriticalLife
                 /\ a.critical = FALSE => told[a.id] = OpenLife
                 /\ now - a.first >= Debounce
           /\ IsNew(k, failing[k]) => a.id = raised + 1 /\ a.first = now /\ a.status = "pending"
           /\ ~IsNew(k, failing[k]) =>
                 /\ a = alerts[k] /\ alerts[k] # None /\ a.id <= raised
                 /\ since[k].code = failing[k] /\ since[k].at <= a.first
<1> DEFINE c == failing[k]
           a == Seen(k, c)
<1>1. c \in Codes /\ now \in 0..MaxTime /\ raised + 1 \in 1..MaxAlerts /\ raised + 1 \in AlertIds
  BY PolicyAssumption DEF TrackerInv, TrackerTypes, AlertIds
<1>2. CASE IsNew(k, c)
  <2>1. a = [id |-> raised + 1, code |-> c, status |-> "pending", critical |-> FALSE, first |-> now]
    BY <1>2 DEF Seen
  <2>2. told[a.id] = <<>>
    BY <1>1, <2>1 DEF TrackerInv, FreshIds, TrackerTypes
  <2> QED BY <1>1, <1>2, <2>1, <2>2 DEF Alert
<1>3. CASE ~IsNew(k, c)
  <2>1. a = alerts[k] /\ a # None /\ a.status # "resolved" /\ a.code = c
    BY <1>3 DEF Seen, IsNew
  <2>2. a \in Alert /\ Faithful(a) /\ Followed(k)
    BY <2>1 DEF TrackerInv, TrackerTypes
  <2> QED BY <1>3, <2>1, <2>2 DEF Faithful, Followed
<1> QED BY <1>2, <1>3

\* What ObserveFailure does to each variable.
LEMMA ObserveFailureEffect ==
    ASSUME TrackerInv, NEW k \in Instances, ObserveFailure(k)
    PROVE  LET a == Seen(k, failing[k])
               f == Escalated(Opened(a))
           IN  /\ raised' = IF IsNew(k, failing[k]) THEN raised + 1 ELSE raised
               /\ raised' \in 0..MaxAlerts /\ raised <= raised' /\ a.id <= raised'
               /\ emitted' = EventsOf(a) /\ failing' = failing /\ now' = now
               /\ told' = [told EXCEPT ![a.id] = @ \o EventsOf(a)]
               /\ alerts' \in [Instances -> Alert \cup {None}]
               /\ alerts'[k] \in {f, None}
               /\ \A l \in Instances \ {k} : alerts'[l] \in {alerts[l], None}
               /\ since'[k].code = failing[k]
               /\ since' \in [Instances -> [code : Failures, at : 0..MaxTime]]
               /\ \A l \in Instances \ {k} : since'[l] = since[l]
               /\ since'[k] = since[k] \/ (since[k].code # failing[k] /\ since'[k].at = now)
<1> DEFINE c == failing[k]
           a == Seen(k, c)
           f == Escalated(Opened(a))
           o == IF IsNew(k, c) THEN <<k>> \o Without(k) ELSE order
           as == [alerts EXCEPT ![k] = f]
           kept == Pruned(as, o)
<1>1. /\ failing[k] \in Codes /\ raised < MaxAlerts /\ failing' = failing /\ now' = now
      /\ raised' = IF IsNew(k, c) THEN raised + 1 ELSE raised
      /\ alerts' = kept.as
      /\ Emit(a.id, EventsOf(a)) /\ Observed(k)
  BY DEF ObserveFailure, EventsOf
<1>2. a \in Alert /\ f \in Alert
  BY <1>1, SeenAlert, AlertEffect DEF Effect
<1>3. raised' \in 0..MaxAlerts /\ raised <= raised' /\ a.id <= raised'
  <2>1. raised \in 0..MaxAlerts /\ MaxAlerts \in Nat
    BY PolicyAssumption DEF TrackerInv, TrackerTypes
  <2>2. IF IsNew(k, c) THEN a.id = raised + 1 ELSE a.id <= raised
    BY <1>1, SeenAlert
  <2> HIDE DEF a
  <2> QED BY <1>1, <2>1, <2>2
<1>4. /\ alerts' \in [Instances -> Alert \cup {None}]
      /\ alerts'[k] \in {f, None}
      /\ \A l \in Instances \ {k} : alerts'[l] \in {alerts[l], None}
  <2>1. alerts \in [Instances -> Alert \cup {None}]
    BY DEF TrackerInv, TrackerTypes
  <2>2. kept.as = as \/ kept.as = [as EXCEPT ![o[Len(o)]] = None]
    BY DEF Pruned
  <2> HIDE DEF f, o, kept
  <2> QED BY <1>1, <1>2, <2>1, <2>2
<1>5. /\ since'[k].code = failing[k]
      /\ since' \in [Instances -> [code : Failures, at : 0..MaxTime]]
      /\ \A l \in Instances \ {k} : since'[l] = since[l]
      /\ since'[k] = since[k] \/ (since[k].code # failing[k] /\ since'[k].at = now)
  <2>1. /\ since \in [Instances -> [code : Failures, at : 0..MaxTime]]
        /\ failing[k] \in Failures /\ now \in 0..MaxTime
    BY DEF TrackerInv, TrackerTypes
  <2>2. since' = IF since[k].code = failing[k] THEN since
                 ELSE [since EXCEPT ![k] = [code |-> failing[k], at |-> now]]
    BY <1>1 DEF Observed
  <2> QED BY <2>1, <2>2
<1>6. emitted' = EventsOf(a) /\ told' = [told EXCEPT ![a.id] = @ \o EventsOf(a)]
  BY <1>1, Zenon DEF Emit
<1> QED BY <1>1, <1>3, <1>4, <1>5, <1>6, Zenon

LEMMA ObserveFailureStep ==
    ASSUME TrackerInv, NEW k \in Instances, ObserveFailure(k)
    PROVE  TrackerInv'
<1> DEFINE c == failing[k]
           a == Seen(k, c)
           f == Escalated(Opened(a))
           e == EventsOf(a)
<1>1. raised < MaxAlerts /\ c \in Codes
  BY DEF ObserveFailure, TrackerInv, TrackerTypes
<1>2. /\ raised' \in 0..MaxAlerts /\ raised <= raised' /\ a.id <= raised'
      /\ failing' = failing /\ now' = now
      /\ told' = [told EXCEPT ![a.id] = @ \o e]
      /\ alerts' \in [Instances -> Alert \cup {None}]
      /\ alerts'[k] \in {f, None}
      /\ \A l \in Instances \ {k} : alerts'[l] \in {alerts[l], None}
      /\ since'[k].code = c
      /\ since' \in [Instances -> [code : Failures, at : 0..MaxTime]]
      /\ \A l \in Instances \ {k} : since'[l] = since[l]
      /\ since'[k] = since[k] \/ (since[k].code # c /\ since'[k].at = now)
  BY ObserveFailureEffect
<1>3. IsNew(k, c) => raised' = raised + 1
  BY ObserveFailureEffect
<1>4. /\ a \in Alert /\ a.code = c /\ a.status # "resolved" /\ a.first <= now
      /\ a.status = "pending" => a.critical = FALSE /\ told[a.id] = <<>>
      /\ a.status \in {"firing", "silenced"} =>
            /\ a.critical = TRUE => told[a.id] = CriticalLife
            /\ a.critical = FALSE => told[a.id] = OpenLife
            /\ now - a.first >= Debounce
      /\ IsNew(k, c) => a.id = raised + 1 /\ a.first = now /\ a.status = "pending"
      /\ ~IsNew(k, c) =>
            /\ a = alerts[k] /\ alerts[k] # None /\ a.id <= raised
            /\ since[k].code = c /\ since[k].at <= a.first
  BY <1>1, SeenAlert
<1>5. Effect(a, f, e)
  BY <1>4, AlertEffect
<1>6. e \in {<<>>, <<"opened">>, <<"escalated">>, <<"opened", "escalated">>}
  BY <1>5 DEF Effect
<1>7. /\ e = <<>> => told' = told
      /\ e = <<"opened">> => told' = [told EXCEPT ![a.id] = OpenLife]
      /\ e \in {<<"escalated">>, <<"opened", "escalated">>} => told' = [told EXCEPT ![a.id] = CriticalLife]
  <2>1. told \in [AlertIds -> Lives] /\ a.id \in AlertIds
    BY <1>4 DEF TrackerInv, TrackerTypes, Alert, AlertIds
  <2>2. /\ e = <<"opened">> \/ e = <<"opened", "escalated">> => told[a.id] = <<>>
        /\ e = <<"escalated">> => told[a.id] = OpenLife
    <3>1. /\ <<"opened">> # <<>> /\ <<"escalated">> # <<>> /\ <<"opened", "escalated">> # <<>>
          /\ <<"opened">> # <<"escalated">> /\ <<"opened">> # <<"opened", "escalated">>
          /\ <<"escalated">> # <<"opened", "escalated">>
      OBVIOUS
    <3>2. /\ e = <<"opened">> \/ e = <<"opened", "escalated">> => a.status = "pending"
          /\ e = <<"escalated">> => a.status \in {"firing", "silenced"} /\ a.critical = FALSE
      BY <1>5, <3>1, Zenon DEF Effect
    <3> QED BY <1>4, <3>2
  <2> HIDE DEF e, a
  <2>3. CASE e = <<>>
    <3>1. told[a.id] \o e = told[a.id]
      BY <2>1, <2>3, Tells
    <3>2. [told EXCEPT ![a.id] = told[a.id]] = told
      BY <2>1
    <3> QED BY <1>2, <2>3, <3>1, <3>2
  <2>4. CASE e = <<"opened">>
    BY <1>2, <2>2, <2>4, Tells
  <2>5. CASE e = <<"escalated">>
    BY <1>2, <2>2, <2>5, Tells
  <2>6. CASE e = <<"opened", "escalated">>
    BY <1>2, <2>2, <2>6, Tells
  <2> QED BY <1>6, <2>3, <2>4, <2>5, <2>6
<1>8. /\ MaxTime \in Nat /\ MaxAlerts \in Nat /\ Debounce \in Nat /\ now \in 0..MaxTime
      /\ raised \in 0..MaxAlerts /\ told \in [AlertIds -> Lives] /\ AlertIds = 1..MaxAlerts
      /\ alerts \in [Instances -> Alert \cup {None}] /\ None \notin Alert
  BY PolicyAssumption, NoneAssumption DEF TrackerInv, TrackerTypes, AlertIds
<1> HIDE DEF c, a, f, e
<1>9. a.id \in AlertIds /\ f \in Alert /\ f.id = a.id /\ f.first = a.first /\ f.code = a.code
  BY <1>4, <1>5, <1>8 DEF Alert, Effect
<1>10. TrackerTypes'
  <2>1. told' \in [AlertIds -> Lives]
    <3>1. OpenLife \in Lives /\ CriticalLife \in Lives
      BY DEF OpenLife, CriticalLife, Lives
    <3> QED BY <1>6, <1>7, <1>8, <1>9, <3>1
  <2> QED BY <1>2, <1>8, <2>1 DEF TrackerInv, TrackerTypes, AlertIds, Alert
<1>11. FreshIds'
  BY <1>2, <1>6, <1>7, <1>8, <1>9 DEF FreshIds, TrackerInv, AlertIds
<1>12. \A l \in Instances \ {k} : alerts[l] # None => alerts[l].id # a.id
  <2>1. SUFFICES ASSUME NEW l \in Instances \ {k}, alerts[l] # None PROVE alerts[l].id # a.id
    OBVIOUS
  <2>2. alerts[l].id <= raised /\ alerts[l] \in Alert
    BY <1>8, <2>1 DEF TrackerInv, Faithful
  <2>3. CASE IsNew(k, c)
    BY <1>4, <1>8, <2>2, <2>3 DEF Alert
  <2>4. CASE ~IsNew(k, c)
    BY <1>4, <2>1, <2>4 DEF TrackerInv, OwnIds
  <2> QED BY <2>3, <2>4
<1>13. OwnIds'
  BY <1>2, <1>9, <1>12 DEF OwnIds, TrackerInv
<1>14. ASSUME alerts'[k] # None PROVE Faithful(alerts[k])'
  <2>1. f.id <= raised' /\ f.first <= now'
    BY <1>2, <1>4, <1>9
  <2>2. f.status = "pending" => f.critical = FALSE /\ told'[f.id] = <<>>
    BY <1>4, <1>5, <1>7, <1>9 DEF Effect
  <2>3. f.status \in {"firing", "silenced"} => now' - f.first >= Debounce
    BY <1>2, <1>4, <1>5, <1>9 DEF Effect
  <2>4. f.status \in {"firing", "silenced"} =>
          /\ f.critical = TRUE => told'[f.id] = CriticalLife
          /\ f.critical = FALSE => told'[f.id] = OpenLife
    BY <1>4, <1>5, <1>7, <1>8, <1>9 DEF Effect, Alert
  <2>5. alerts'[k] = f
    BY <1>2, <1>14
  <2> QED BY <2>1, <2>2, <2>3, <2>4, <2>5 DEF Faithful
<1>15. ASSUME NEW l \in Instances, alerts'[l] # None PROVE Faithful(alerts[l])'
  <2>1. CASE l = k
    BY <1>14, <1>15, <2>1
  <2>2. CASE l # k
    <3>1. alerts'[l] = alerts[l] /\ alerts[l] # None /\ Faithful(alerts[l])
      BY <1>2, <1>15, <2>2 DEF TrackerInv
    <3>2. told'[alerts[l].id] = told[alerts[l].id] /\ alerts[l] \in Alert
      BY <1>6, <1>7, <1>8, <1>12, <2>2, <3>1 DEF Alert
    <3>3. alerts[l].id <= raised' /\ alerts[l].first <= now'
      BY <1>2, <1>8, <3>1, <3>2 DEF Faithful, Alert
    <3> QED BY <1>2, <3>1, <3>2, <3>3 DEF Faithful
  <2> QED BY <2>1, <2>2
<1>16. ASSUME NEW l \in Instances PROVE Followed(l)' /\ since'[l].at <= now'
  <2>0. since[l].at <= now /\ since[k].at <= now /\ Followed(l)
    BY DEF TrackerInv
  <2>1. CASE l = k
    <3>1. since'[k].at <= now
      BY <1>2, <1>8, <2>0
    <3>2. since'[k].at <= a.first
      BY <1>2, <1>4, <1>8, <2>0, <3>1
    <3> QED BY <1>2, <1>4, <1>9, <2>1, <3>1, <3>2 DEF Followed
  <2>2. CASE l # k
    BY <1>2, <2>0, <2>2 DEF Followed
  <2> QED BY <2>1, <2>2
<1> QED BY <1>10, <1>11, <1>13, <1>15, <1>16 DEF TrackerInv

LEMMA ObserveRecoveryStep ==
    ASSUME TrackerInv, NEW k \in Instances, ObserveRecovery(k)
    PROVE  TrackerInv'
<1>1. /\ failing[k] = Recovered /\ failing' = failing /\ now' = now /\ raised' = raised
      /\ since' = IF since[k].code = failing[k] THEN since
                  ELSE [since EXCEPT ![k] = [code |-> failing[k], at |-> now]]
  BY DEF ObserveRecovery, Observed
<1>2. /\ MaxTime \in Nat /\ MaxAlerts \in Nat /\ Debounce \in Nat /\ now \in 0..MaxTime
      /\ raised \in 0..MaxAlerts /\ told \in [AlertIds -> Lives] /\ AlertIds = 1..MaxAlerts
      /\ alerts \in [Instances -> Alert \cup {None}] /\ None \notin Alert /\ Recovered \notin Codes
      /\ failing \in [Instances -> Failures]
      /\ since \in [Instances -> [code : Failures, at : 0..MaxTime]]
  BY PolicyAssumption, NoneAssumption DEF TrackerInv, TrackerTypes, AlertIds
<1>3. /\ since' \in [Instances -> [code : Failures, at : 0..MaxTime]]
      /\ \A l \in Instances \ {k} : since'[l] = since[l]
      /\ \A l \in Instances : since'[l].at <= now'
  BY <1>1, <1>2 DEF TrackerInv
<1>4. CASE Unresolved(k)
  <2>1. /\ alerts[k] # None /\ alerts[k].status # "resolved" /\ alerts[k] \in Alert
        /\ Faithful(alerts[k])
    BY <1>2, <1>4 DEF Unresolved, TrackerInv
  <2>2. /\ alerts' = [alerts EXCEPT ![k].status = "resolved"]
        /\ \E l \in Lives : told' = [told EXCEPT ![alerts[k].id] = l]
    <3>1. /\ alerts' = [alerts EXCEPT ![k].status = "resolved"]
          /\ Emit(alerts[k].id, IF Announces(alerts[k]) THEN <<"resolved">> ELSE <<>>)
      BY <1>4 DEF ObserveRecovery
    <3> DEFINE e == IF Announces(alerts[k]) THEN <<"resolved">> ELSE <<>>
    <3>2. told' = [told EXCEPT ![alerts[k].id] = told[alerts[k].id] \o e]
      BY <3>1 DEF Emit
    <3>3. told[alerts[k].id] \in Lives
      BY <1>2, <2>1 DEF Alert
    <3>4. Announces(alerts[k]) => told[alerts[k].id] \in {OpenLife, CriticalLife}
      BY <2>1 DEF Announces, Faithful, Alert
    <3>5. told[alerts[k].id] \o e \in Lives
      BY <3>3, <3>4, Tells
    <3> HIDE DEF e
    <3> QED BY <3>1, <3>2, <3>5
  <2>3. /\ alerts' \in [Instances -> Alert \cup {None}]
        /\ alerts'[k].status = "resolved" /\ alerts'[k].id = alerts[k].id
        /\ alerts'[k].first = alerts[k].first
        /\ \A l \in Instances \ {k} : alerts'[l] = alerts[l]
    <3>1. [alerts[k] EXCEPT !.status = "resolved"] \in Alert
      BY <2>1 DEF Alert
    <3> QED BY <1>2, <2>1, <2>2, <3>1 DEF Alert
  <2>4. \A l \in Instances \ {k} : alerts[l] # None => told'[alerts[l].id] = told[alerts[l].id]
    BY <1>2, <2>1, <2>2 DEF TrackerInv, OwnIds, Alert
  <2>5. TrackerTypes'
    <3>1. told' \in [AlertIds -> Lives]
      BY <1>2, <2>2
    <3> QED BY <1>1, <1>2, <1>3, <2>3, <3>1 DEF TrackerTypes, AlertIds, Alert
  <2>6. FreshIds'
    BY <1>1, <1>2, <2>1, <2>2 DEF FreshIds, TrackerInv, AlertIds, Faithful, Alert
  <2>7. OwnIds'
    BY <2>1, <2>3 DEF OwnIds, TrackerInv
  <2>8. ASSUME NEW l \in Instances PROVE (alerts[l] # None => Faithful(alerts[l]))' /\ Followed(l)'
    <3>1. CASE l = k
      BY <1>1, <2>1, <2>3, <3>1 DEF Faithful, Followed
    <3>2. CASE l # k
      BY <1>1, <1>3, <2>3, <2>4, <3>2 DEF Faithful, Followed, TrackerInv
    <3> QED BY <3>1, <3>2
  <2> QED BY <1>3, <2>5, <2>6, <2>7, <2>8 DEF TrackerInv
<1>5. CASE ~Unresolved(k)
  <2>1. alerts' = alerts /\ told' = told
    BY <1>5 DEF ObserveRecovery
  <2>2. TrackerTypes' /\ FreshIds' /\ OwnIds'
    BY <1>1, <1>3, <2>1 DEF TrackerInv, TrackerTypes, FreshIds, OwnIds, AlertIds, Alert
  <2>3. ASSUME NEW l \in Instances PROVE (alerts[l] # None => Faithful(alerts[l]))' /\ Followed(l)'
    BY <1>1, <1>3, <1>5, <2>1 DEF TrackerInv, Faithful, Followed, Unresolved
  <2> QED BY <1>3, <2>2, <2>3 DEF TrackerInv
<1> QED BY <1>4, <1>5

LEMMA TrackerStep ==
    ASSUME TrackerInv, [TrackerNext]_trackerVars
    PROVE  TrackerInv'
<1>1. CASE Tick
  <2>1. /\ UNCHANGED <<failing, alerts, raised, told, since>> /\ now' = now + 1 /\ now < MaxTime
        /\ now \in 0..MaxTime /\ MaxTime \in Nat /\ Debounce \in Nat
    BY <1>1, PolicyAssumption DEF Tick, TrackerInv, TrackerTypes
  <2>2. TrackerTypes' /\ FreshIds' /\ OwnIds'
    BY <2>1 DEF TrackerInv, TrackerTypes, FreshIds, OwnIds, AlertIds, Alert
  <2>3. ASSUME NEW l \in Instances
        PROVE  (alerts[l] # None => Faithful(alerts[l]))' /\ Followed(l)' /\ (since[l].at <= now)'
    BY <2>1 DEF TrackerInv, TrackerTypes, Faithful, Followed, Alert
  <2> QED BY <2>2, <2>3 DEF TrackerInv
<1>2. ASSUME NEW k \in Instances, Changes(k) PROVE TrackerInv'
  <2>1. /\ UNCHANGED <<alerts, now, raised, told, since>>
        /\ failing' \in [Instances -> Failures]
    BY <1>2 DEF Changes, TrackerInv, TrackerTypes
  <2>2. TrackerTypes' /\ FreshIds' /\ OwnIds'
    BY <2>1 DEF TrackerInv, TrackerTypes, FreshIds, OwnIds, AlertIds, Alert
  <2>3. ASSUME NEW l \in Instances
        PROVE  (alerts[l] # None => Faithful(alerts[l]))' /\ Followed(l)' /\ (since[l].at <= now)'
    BY <2>1 DEF TrackerInv, Faithful, Followed
  <2> QED BY <2>2, <2>3 DEF TrackerInv
<1>3. CASE UNCHANGED trackerVars \/ \E k \in Instances : ObserveUncoded(k)
  <2>1. UNCHANGED <<failing, alerts, now, raised, told, since>>
    BY <1>3 DEF trackerVars, ObserveUncoded
  <2>2. TrackerTypes' /\ FreshIds' /\ OwnIds'
    BY <2>1 DEF TrackerInv, TrackerTypes, FreshIds, OwnIds, AlertIds, Alert
  <2>3. ASSUME NEW l \in Instances
        PROVE  (alerts[l] # None => Faithful(alerts[l]))' /\ Followed(l)' /\ (since[l].at <= now)'
    BY <2>1 DEF TrackerInv, Faithful, Followed
  <2> QED BY <2>2, <2>3 DEF TrackerInv
<1> QED BY <1>1, <1>2, <1>3, ObserveFailureStep, ObserveRecoveryStep DEF TrackerNext

\* What the sinks were told of every alert kept is what its state says, ids are
\* never shared, and an unresolved alert is about the failure that every
\* observation with a code reported from the alert's first time on.
THEOREM TrackerInvariance == TrackerSpec => []TrackerInv
<1>1. TrackerInv /\ [TrackerNext]_trackerVars => TrackerInv'
  BY TrackerStep
<1>2. TrackerInit => TrackerInv
  BY TrackerInitial
<1> QED BY <1>1, <1>2, PTL DEF TrackerSpec

\* A sink is told the life of every alert in order and each event of it once,
\* whatever updateAlert replaces, prunes, debounces and re-observes: opened comes
\* first, then escalated at most once, resolved at most once and last.
THEOREM ProtocolHolds == TrackerSpec => []Protocol
<1>1. TrackerInv => Protocol
  BY DEF TrackerInv, TrackerTypes, Protocol
<1> QED BY <1>1, TrackerInvariance, PTL

\* updateAlert emits nothing for a failure that was not seen with the same code
\* at every observation with a code over the debounce time.
THEOREM NoFlapAlertHolds == TrackerSpec => NoFlapAlert
<1>0. TrackerSpec => []TrackerInv
  BY TrackerInvariance
<1> DEFINE Debounced(k) ==
       ObserveFailure(k) /\ emitted' # <<>> => now - since'[k].at >= Debounce
<1>1. ASSUME TrackerInv, NEW k \in Instances PROVE Debounced(k)
  <2> DEFINE a == Seen(k, failing[k])
             f == Escalated(Opened(a))
             e == EventsOf(a)
  <2>1. SUFFICES ASSUME ObserveFailure(k), emitted' # <<>> PROVE now - since'[k].at >= Debounce
    OBVIOUS
  <2>2. /\ failing[k] \in Codes /\ raised < MaxAlerts /\ Debounce \in Nat /\ now \in Nat
        /\ since[k].at <= now /\ since[k].at \in Nat
    BY <1>1, <2>1, PolicyAssumption DEF ObserveFailure, TrackerInv, TrackerTypes
  <2>3. /\ a \in Alert /\ a.first <= now
        /\ a.status \in {"firing", "silenced"} => now - a.first >= Debounce
        /\ IsNew(k, failing[k]) => a.first = now
        /\ ~IsNew(k, failing[k]) => since[k].code = failing[k] /\ since[k].at <= a.first
    BY <1>1, <2>2, SeenAlert
  <2>4. Effect(a, f, e)
    BY <2>3, AlertEffect
  <2>5. /\ emitted' = e
        /\ since'[k] = since[k] \/ (since[k].code # failing[k] /\ since'[k].at = now)
    BY <1>1, <2>1, ObserveFailureEffect
  <2> HIDE DEF a, e, f
  <2>6. now - a.first >= Debounce /\ a.first \in Nat
    BY <2>1, <2>3, <2>4, <2>5 DEF Effect, Alert
  <2> QED BY <2>2, <2>3, <2>5, <2>6
<1>2. TrackerInv /\ [TrackerNext]_trackerVars
      => [\A k \in Instances : Debounced(k)]_trackerVars
  BY <1>1
<1> QED BY <1>0, <1>2, PTL DEF TrackerSpec, NoFlapAlert
=============================================================================
