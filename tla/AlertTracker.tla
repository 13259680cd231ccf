---------------------------- MODULE AlertTracker ----------------------------
(***************************************************************************)
(* The alert state machine: the diagnostics thread observes the failure    *)
(* state of every device and protocol instance and DiagnosticEventTracker  *)
(* turns it into alerts that are pending, firing or silenced, escalate and *)
(* resolve, with one alert per instance and a bounded number kept.         *)
(* Source: DiagnosticEventTracker::observe and updateAlert in              *)
(* src/platform/OSP/SystemMonitoring/src/SystemMonitoring.cpp.             *)
(***************************************************************************)
EXTENDS Naturals, Sequences, FiniteSets

CONSTANTS
    Instances,    \* "domain:instance" keys
    Codes,        \* failure codes
    SilencedCodes,
    None,         \* no alert; and an instance that has recorded no failure yet
    Recovered,    \* a failure that is over: its code is kept, active is false
    Debounce, Escalation,  \* AlertPolicy, in ticks
    Retention,
    MaxTime, MaxAlerts     \* bounds

ASSUME PolicyAssumption ==
    /\ None \notin Codes /\ Recovered \notin Codes \cup {None} /\ SilencedCodes \subseteq Codes
    /\ Debounce \in Nat /\ Escalation \in Nat /\ Retention \in Nat \ {0}
    /\ MaxTime \in Nat /\ MaxAlerts \in Nat

VARIABLES
    failing,   \* what failure() of an instance reports: a code, Recovered, or
               \* None, the empty code of an instance that has just been created
    alerts,    \* _alerts: an alert or None for each instance
    order,     \* _alertOrder, newest first
    now,       \* the clock
    raised,    \* alert ids given out
    told,      \* history: per alert id, the events emitted for it, in order
    since,     \* history: per instance, the coded state observed last and since when
    ignored,   \* history: the instances that were observed without a code since then
    emitted    \* history: the events of the last observation

trackerVars == <<failing, alerts, order, now, raised, told, since, ignored, emitted>>

Failures == Codes \cup {Recovered, None}

Alert == [id : 1..MaxAlerts, code : Codes, status : {"pending", "firing", "silenced", "resolved"},
          critical : BOOLEAN, first : 0..MaxTime]

ASSUME NoneAssumption == None \notin Alert

AlertIds == 1..MaxAlerts

TrackerInit ==
    /\ failing = [k \in Instances |-> None] /\ alerts = [k \in Instances |-> None]
    /\ order = <<>> /\ now = 0 /\ raised = 0
    /\ told = [i \in AlertIds |-> <<>>] /\ since = [k \in Instances |-> [code |-> None, at |-> 0]]
    /\ ignored = {} /\ emitted = <<>>

Tick ==
    /\ now < MaxTime
    /\ now' = now + 1 /\ emitted' = <<>>
    /\ UNCHANGED <<failing, alerts, order, raised, told, since, ignored>>

\* A device or protocol fails, fails in another way or recovers, or is replaced
\* by a new object of the same name (a gateway restarted with other settings).
Changes(k) ==
    /\ \E c \in Failures \ {failing[k]} :
          /\ c = Recovered => failing[k] \in Codes
          /\ failing' = [failing EXCEPT ![k] = c]
    /\ emitted' = <<>>
    /\ UNCHANGED <<alerts, order, now, raised, told, since, ignored>>

Without(k) == SelectSeq(order, LAMBDA x : x # k)

\* updateAlert, one part after the other.  A new alert replaces one that is
\* resolved or has another code.
IsNew(k, c) == alerts[k] = None \/ alerts[k].status = "resolved" \/ alerts[k].code # c

Seen(k, c) ==
    IF IsNew(k, c)
    THEN [id |-> raised + 1, code |-> c, status |-> "pending", critical |-> FALSE, first |-> now]
    ELSE alerts[k]

OpensAtOnce(a) == a.status = "pending"    \* mutant
Opens(a) == a.status = "pending" /\ now - a.first >= Debounce

Opened(a) == IF Opens(a)
             THEN [a EXCEPT !.status = IF a.code \in SilencedCodes THEN "silenced" ELSE "firing"]
             ELSE a

Escalates(a) == a.status \in {"firing", "silenced"} /\ ~a.critical /\ now - a.first >= Escalation

Escalated(a) == IF Escalates(a) THEN [a EXCEPT !.critical = TRUE] ELSE a

\* The loop at the end drops the oldest alerts, whatever their status.
Excess(n) == n > Retention

Pruned(as, o) ==
    IF Excess(Len(o))
    THEN [as |-> [as EXCEPT ![o[Len(o)]] = None], order |-> SubSeq(o, 1, Len(o) - 1)]
    ELSE [as |-> as, order |-> o]

Emit(id, events) ==
    /\ emitted' = events
    /\ told' = [told EXCEPT ![id] = @ \o events]

Observed(k) ==
    IF since[k].code = failing[k] THEN UNCHANGED <<since, ignored>>
    ELSE /\ since' = [since EXCEPT ![k] = [code |-> failing[k], at |-> now]]
         /\ ignored' = ignored \ {k}

\* The early return of observe(): an empty code changes nothing, also where an
\* earlier object of the instance left an unresolved alert.
ObserveUncoded(k) ==
    /\ failing[k] = None
    /\ emitted' = <<>> /\ ignored' = ignored \cup {k}
    /\ UNCHANGED <<failing, alerts, order, now, raised, told, since>>

ObserveFailure(k) ==
    /\ failing[k] \in Codes /\ raised < MaxAlerts
    /\ LET c == failing[k]
           seen == Seen(k, c)
           opened == Opened(seen)
           final == Escalated(opened)
           o == IF IsNew(k, c) THEN <<k>> \o Without(k) ELSE order
           kept == Pruned([alerts EXCEPT ![k] = final], o)
       IN  /\ raised' = IF IsNew(k, c) THEN raised + 1 ELSE raised
           /\ alerts' = kept.as /\ order' = kept.order
           /\ Emit(seen.id, (IF Opens(seen) THEN <<"opened">> ELSE <<>>)
                            \o (IF Escalates(opened) THEN <<"escalated">> ELSE <<>>))
    /\ Observed(k)
    /\ UNCHANGED <<failing, now>>

AnnouncesAlways(a) == TRUE    \* mutant: a debounced alert is resolved aloud
Announces(a) == a.status # "pending"

Unresolved(k) == alerts[k] # None /\ alerts[k].status # "resolved"

ObserveRecovery(k) ==
    /\ failing[k] = Recovered
    /\ \/ /\ Unresolved(k)
          /\ alerts' = [alerts EXCEPT ![k].status = "resolved"]
          /\ Emit(alerts[k].id, IF Announces(alerts[k]) THEN <<"resolved">> ELSE <<>>)
       \/ /\ ~Unresolved(k)
          /\ emitted' = <<>> /\ UNCHANGED <<alerts, told>>
    /\ Observed(k)
    /\ UNCHANGED <<failing, order, now, raised>>

TrackerNext ==
    \/ Tick
    \/ \E k \in Instances :
          Changes(k) \/ ObserveUncoded(k) \/ ObserveFailure(k) \/ ObserveRecovery(k)

TrackerSpec == TrackerInit /\ [][TrackerNext]_trackerVars
-----------------------------------------------------------------------------
(* What the sinks may be told of one alert, from its first event to its last. *)
Lives == {<<>>, <<"opened">>, <<"opened", "escalated">>, <<"opened", "resolved">>,
          <<"opened", "escalated", "resolved">>}

(* Type invariant, with the bound on the number of alerts kept and the       *)
(* agreement of _alertOrder and _alerts.                                     *)
TrackerTypeOK ==
    /\ failing \in [Instances -> Failures]
    /\ \A k \in Instances : alerts[k] = None \/ alerts[k] \in Alert
    /\ Len(order) <= Retention
    /\ \A k \in Instances : Cardinality({i \in DOMAIN order : order[i] = k})
                                = IF alerts[k] = None THEN 0 ELSE 1
    /\ now \in 0..MaxTime /\ raised \in 0..MaxAlerts /\ ignored \subseteq Instances

(* A sink is told the life of every alert in order and each event of it once: *)
(* opened first, escalated at most once, resolved at most once and last, and  *)
(* nothing of an alert that was never opened, however updateAlert replaces,   *)
(* prunes, debounces and re-observes the alerts of an instance.               *)
Protocol == \A i \in AlertIds : told[i] \in Lives

(* No alert is raised for a failure that was not the one every observation    *)
(* with a failure code reported over the debounce time, whatever alerts of    *)
(* the instance came before it or were dropped by the retention.  What        *)
(* observe() finds without a code does not count: it returns early.           *)
NoFlapAlert ==
    [][\A k \in Instances :
          ObserveFailure(k) /\ emitted' # <<>> => now - since'[k].at >= Debounce]_trackerVars

(* The same of every observation: an instance that was seen without a failure *)
(* in between raises no alert either.  The early return of observe() breaks   *)
(* it when a restarted gateway's new device fails as the old one did.         *)
NoFlapEver ==
    [][\A k \in Instances :
          ObserveFailure(k) /\ emitted' # <<>> => k \notin ignored']_trackerVars

(* An instance that has recovered and been observed leaves no alert open at   *)
(* the sinks.                                                                 *)
NoneLeftOpen ==
    (\A k \in Instances : failing[k] = Recovered /\ ~Unresolved(k))
    => \A i \in AlertIds : told[i] = <<>> \/ told[i][Len(told[i])] = "resolved"
=============================================================================
