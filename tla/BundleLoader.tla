---------------------------- MODULE BundleLoader ----------------------------
(***************************************************************************)
(* The life of the Bundles: the control thread (main() at the start and at *)
(* the end, the Bundle monitor in between, one after the other) loads,     *)
(* resolves, starts, stops and unloads all of them, while the workers of   *)
(* the management tasks and the threads of the web server resolve, start,  *)
(* stop and uninstall single ones.  A Bundle's state is read and changed   *)
(* without a lock; the loader's recursive mutex is held while dependencies *)
(* are started and while an activator runs.  One Bundle, the Host, is the  *)
(* one whose activator owns the workers and joins them when it is stopped; *)
(* nobody waits for a request of the web server.                           *)
(* Source: src/platform/OSP/src/BundleLoader.cpp and Bundle.cpp, reload in *)
(* src/platform/BundleManagement/src/BundleManager.cpp, OSPSubsystem.cpp,  *)
(* BundleLifecycleHandler in SystemMonitoring.cpp, and performAction in    *)
(* src/platform/OSP/BundleAdmin/src/BundleInfoHandler.cpp.                 *)
(***************************************************************************)
EXTENDS Naturals, Sequences, FiniteSets

CONSTANTS
    Bundles,
    Requires,    \* [Bundles -> SUBSET Bundles]: the manifests' requirements
    Level,       \* [Bundles -> Nat]: run levels
    Automatic,   \* neither lazy nor blocked
    Host,        \* the system monitoring Bundle
    Console,     \* the Bundle administration
    Manageable,  \* Bundles the lifecycle handler may act on
    Administered,\* Bundles the administrator acts on
    Removable,   \* those whose manifest does not prevent it to be uninstalled
    Workers,     \* threads of the task manager
    Web,         \* threads of the web server
    Control, Nobody,
    MaxOps,      \* bound: tasks and requests
    MaxReloads,  \* bound: reloads
    MaxThrows,   \* bound: exceptions of activators, libraries and files
    MaxEvents    \* bound: all of these together

Servants == Workers \cup Web
Threads == Servants \cup {Control}
None == "none"

ASSUME ManifestAssumption ==
    /\ IsFiniteSet(Bundles) /\ None \notin Bundles
    /\ Requires \in [Bundles -> SUBSET Bundles] /\ Level \in [Bundles -> Nat]
    /\ Automatic \subseteq Bundles /\ Host \in Bundles /\ Console \in Bundles
    /\ Administered \subseteq Bundles /\ Manageable \subseteq Bundles \ {Host}

ASSUME ThreadAssumption ==
    Nobody \notin Threads /\ Control \notin Servants /\ Workers \cap Web = {}

VARIABLES
    disk,       \* the Bundles of the repository
    known,      \* _bundles of the loader
    state,      \* _state of a Bundle
    needs,      \* _resolvedDependencies of a Bundle
    up,         \* history: the activator was started and not yet stopped
    owner,      \* the holder of the loader's mutex
    stack,      \* the Bundle operations a thread is in, the innermost last
    job,        \* what a thread still has to do
    stage,      \* where the control thread is
    accepting,  \* the task manager accepts tasks
    library,    \* the class loader: none, with its library loaded, or broken: without
    late,       \* history: another thread worked on it when or after the stop order was chosen
    raced,      \* history: a call changed it while another had passed the check of its
                \* state, or was made on an object that a reload has replaced
    ops, reloads, throws

counters == <<ops, reloads, throws>>
MayAsk == ops < MaxOps /\ ops + reloads + throws < MaxEvents
MayReload == reloads < MaxReloads /\ ops + reloads + throws < MaxEvents
MayThrow == throws < MaxThrows /\ ops + reloads + throws < MaxEvents

marks == <<late, raced>>
loaderVars == <<disk, known, state, needs, up, owner, stack, job, stage, accepting, library,
                marks, counters>>

\* stale: the Bundle::Ptr is of an object that a reload has replaced.
IdleJob == [b |-> None, plan |-> <<>>, threw |-> FALSE, stale |-> FALSE]

LoaderInit ==
    /\ disk = Bundles /\ known = {}
    /\ state = [b \in Bundles |-> "installed"] /\ needs = [b \in Bundles |-> {}]
    /\ up = [b \in Bundles |-> FALSE]
    /\ owner = Nobody
    /\ stack = [t \in Threads |-> <<>>] /\ job = [t \in Threads |-> IdleJob]
    /\ stage = "load" /\ accepting = FALSE /\ late = {} /\ raced = {}
    /\ library = [b \in Bundles |-> "none"]
    /\ ops = 0 /\ reloads = 0 /\ throws = 0

isResolved(b) == state[b] \in {"resolved", "starting", "active", "stopping"}
isActive(b) == state[b] = "active"

(***************************************************************************)
(* The calls Bundle::resolve, start, stop and uninstall, with the part of  *)
(* the loader each one calls, and BundleLoader::unloadBundle.  A frame of  *)
(* a stack is one call of one of them.                                     *)
(***************************************************************************)
Frame(op, b, stale) == [op |-> op, b |-> b, at |-> "check", old |-> None, todo |-> {},
                        ok |-> TRUE, stale |-> stale]
TopCall(t) == stack[t][Len(stack[t])]
Busy(t) == stack[t] # <<>>
At(t, at) == Busy(t) /\ TopCall(t).at = at
SetTop(t, f) == stack' = [stack EXCEPT ![t][Len(stack[t])] = f]
Goto(t, at) == SetTop(t, [TopCall(t) EXCEPT !.at = at])
\* The end of a call; only the outermost one still has the mutex to release.
Exit(t) == IF Len(stack[t]) = 1 THEN "leave" ELSE "done"
Throw(t) == SetTop(t, [TopCall(t) EXCEPT !.at = Exit(t), !.ok = FALSE])

Expected(op) ==
    CASE op = "resolve"   -> {"installed"}
      [] op = "start"     -> {"resolved"}
      [] op = "stop"      -> {"active"}
      [] op = "uninstall" -> {"installed", "resolved"}
      [] op = "unload"    -> {"installed", "resolved", "uninstalled"}

\* Whether the state is one of S: that of a replaced object is not followed.
Looks(stale, b, S) == IF stale THEN BOOLEAN ELSE {state[b] \in S}

\* The call found the state it expects, and may still write it.
Passed(f) == f.at # "check" /\ (f.ok \/ f.old # None)
InCall(t, b) == \E i \in DOMAIN stack[t] : stack[t][i].b = b /\ Passed(stack[t][i])
Called(b) == \E t \in Threads : InCall(t, b)

\* The state is looked at; a wrong one throws before anything has changed.
Check(t) ==
    LET f == TopCall(t)
    IN  /\ At(t, "check")
        /\ \/ /\ TRUE \in Looks(f.stale, f.b, Expected(f.op))
              /\ Goto(t, IF f.op \in {"uninstall", "unload"} THEN "enter" ELSE "set")
              /\ raced' = IF f.stale \/ Called(f.b) THEN raced \cup {f.b} ELSE raced
           \/ FALSE \in Looks(f.stale, f.b, Expected(f.op)) /\ Throw(t) /\ UNCHANGED raced
        /\ UNCHANGED <<disk, known, state, needs, up, owner, job, stage, accepting, library, late,
                       counters>>

Passing(op) == IF op = "start" THEN "starting" ELSE "stopping"

\* StateChange: the old state is read once more, the passing one written;
\* resolve() clears the resolved requirements instead.
Set(t) ==
    LET f    == TopCall(t)
        mine == IF f.stale THEN {} ELSE {f.b}
    IN  /\ At(t, "set")
        /\ SetTop(t, [f EXCEPT !.at = "enter", !.old = IF f.op = "resolve" THEN @ ELSE state[f.b]])
        /\ state' = [b \in Bundles |-> IF b \in mine /\ f.op # "resolve" THEN Passing(f.op)
                                       ELSE state[b]]
        /\ needs' = [b \in Bundles |-> IF b \in mine /\ f.op = "resolve" THEN {} ELSE needs[b]]
        /\ late' = IF t = Control THEN late ELSE late \cup {f.b}
        /\ UNCHANGED <<disk, known, up, owner, job, stage, accepting, library, raced, counters>>

NextNeed(f) == [f EXCEPT !.at = IF f.todo = {} THEN "act" ELSE "needs"]

\* The loader's mutex is taken (it is recursive) and the Bundle looked up.
Enter(t) ==
    LET f == TopCall(t)
    IN  /\ At(t, "enter") /\ owner \in {t, Nobody} /\ owner' = t
        /\ \/ f.b \notin known /\ f.op \in {"start", "stop"} /\ Throw(t)
           \/ f.b \in known /\ f.op = "start"
              /\ SetTop(t, NextNeed([f EXCEPT !.todo = IF f.stale THEN Requires[f.b] ELSE needs[f.b]]))
           \/ (f.b \in known \/ f.op # "stop") /\ f.op # "start" /\ Goto(t, "act")
        /\ UNCHANGED <<disk, known, state, needs, up, job, stage, accepting, library, marks, counters>>

NeedMetAlways(d) == TRUE          \* mutant: what is required is not started
NeedMet(d) == isActive(d)

\* startDependencies: one required Bundle after the other.
Need(t) ==
    LET f == TopCall(t)
    IN  /\ At(t, "needs")
        /\ \E d \in f.todo :
             LET g == NextNeed([f EXCEPT !.todo = @ \ {d}])
             IN  \/ d \notin known /\ Throw(t)
                 \/ d \in known /\ NeedMet(d) /\ SetTop(t, g)
                 \/ d \in known /\ ~NeedMet(d)
                    /\ stack' = [stack EXCEPT ![t] = Append([@ EXCEPT ![Len(@)] = g],
                                                            Frame("start", d, FALSE))]
        /\ UNCHANGED <<disk, known, state, needs, up, owner, job, stage, accepting, library, marks,
                       counters>>

\* What resolve() comes to: the requirements, and those of unresolved ones.
Reach(b) ==
    LET R[n \in Nat] == IF n = 0 THEN Requires[b]
                        ELSE R[n - 1] \cup UNION {Requires[d] : d \in {e \in R[n - 1] : ~isResolved(e)}}
    IN  R[Cardinality(Bundles)]
\* All are known and resolved, or can be: none is in a circle.
Resolvable(b) ==
    /\ Reach(b) \subseteq known
    /\ \A d \in Reach(b) : isResolved(d) \/ (state[d] = "installed" /\ d \notin Reach(d))
Unresolved(b) == {d \in Reach(b) : ~isResolved(d)}

Resolves(done) ==
    /\ state' = [b \in Bundles |-> IF b \in done THEN "resolved" ELSE state[b]]
    /\ raced' = raced \cup {b \in done : Called(b)}
Recorded(set, none) == [b \in Bundles |-> IF b \in none THEN {}
                                          ELSE IF b \in set THEN Requires[b] ELSE needs[b]]

\* resolveBundle: the requirements are resolved first; if that fails some of
\* them stay resolved.  Its own state is written after the mutex is released.
ActResolve(t) ==
    LET b    == TopCall(t).b
        mine == IF TopCall(t).stale THEN {} ELSE {b}
    IN  /\ At(t, "act") /\ TopCall(t).op = "resolve"
        /\ \/ /\ Resolvable(b) /\ Resolves(Unresolved(b)) /\ Goto(t, Exit(t))
              /\ needs' = Recorded(Unresolved(b) \cup mine, {})
           \/ /\ ~Resolvable(b) /\ Throw(t)
              /\ \E done \in SUBSET {d \in Unresolved(b) \cap known :
                                    state[d] = "installed" /\ Resolvable(d)} :
                    /\ \A d \in done : Unresolved(d) \subseteq done
                    /\ Resolves(done) /\ needs' = Recorded(done, mine)
        /\ UNCHANGED <<disk, known, up, owner, job, stage, accepting, library, late, counters>>

\* loadActivator and BundleActivator::start; the Host's starts the workers.
\* The class loader stays when its library cannot be loaded, and the next
\* start then finds no activator to start.
ActStart(t) ==
    LET b == TopCall(t).b
    IN  /\ At(t, "act") /\ TopCall(t).op = "start"
        /\ \/ /\ library[b] # "broken" /\ up' = [up EXCEPT ![b] = TRUE] /\ Goto(t, Exit(t))
              /\ accepting' = (accepting \/ b = Host)
              /\ library' = [library EXCEPT ![b] = "loaded"] /\ UNCHANGED throws
           \/ /\ library[b] = "broken" /\ Goto(t, Exit(t))
              /\ UNCHANGED <<up, accepting, library, throws>>
           \/ /\ library[b] # "broken" /\ MayThrow /\ throws' = throws + 1 /\ Throw(t)
              /\ \/ library' = [library EXCEPT ![b] = "loaded"]
                 \/ library[b] = "none" /\ library' = [library EXCEPT ![b] = "broken"]
              /\ UNCHANGED <<up, accepting>>
        /\ UNCHANGED <<disk, known, state, needs, owner, job, stage, marks, ops, reloads>>

\* BundleActivator::stop; the Host's refuses new tasks, then joins the workers.
ActStop(t) ==
    LET b    == TopCall(t).b
        host == b = Host /\ library[b] # "broken"
    IN  /\ At(t, "act") /\ TopCall(t).op = "stop"
        /\ \/ /\ host /\ accepting' = FALSE /\ Goto(t, "join") /\ UNCHANGED <<up, throws>>
           \/ /\ ~host /\ up' = [up EXCEPT ![b] = FALSE] /\ Goto(t, Exit(t))
              /\ UNCHANGED <<accepting, throws>>
           \/ /\ ~host /\ library[b] # "broken" /\ MayThrow /\ throws' = throws + 1 /\ Throw(t)
              /\ UNCHANGED <<up, accepting>>
        /\ UNCHANGED <<disk, known, state, needs, owner, job, stage, library, marks, ops, reloads>>

WorkersIdle == \A w \in Workers : job[w] = IdleJob /\ ~Busy(w)

Join(t) ==
    /\ At(t, "join") /\ WorkersIdle
    /\ up' = [up EXCEPT ![Host] = FALSE] /\ Goto(t, Exit(t))
    /\ UNCHANGED <<disk, known, state, needs, owner, job, stage, accepting, library, marks, counters>>

\* uninstallBundle and unloadBundle: the library is unloaded, which throws if
\* it never was loaded, and the entry erased; uninstallBundle removes the
\* libraries and the file before that, and may fail in between.
ActUnload(t) ==
    LET b == TopCall(t).b
    IN  /\ At(t, "act") /\ TopCall(t).op \in {"uninstall", "unload"}
        /\ \/ /\ library[b] # "broken" /\ library' = [library EXCEPT ![b] = "none"]
              /\ known' = known \ {b} /\ Goto(t, Exit(t))
              /\ disk' = IF TopCall(t).op = "uninstall" THEN disk \ {b} ELSE disk
              /\ UNCHANGED throws
           \/ library[b] = "broken" /\ Throw(t) /\ UNCHANGED <<library, known, disk, throws>>
           \/ /\ library[b] # "broken" /\ TopCall(t).op = "uninstall"
              /\ MayThrow /\ throws' = throws + 1 /\ Throw(t)
              /\ library' = [library EXCEPT ![b] = "none"]
              /\ UNCHANGED <<known, disk>>
        /\ UNCHANGED <<state, needs, up, owner, job, stage, accepting, marks, ops, reloads>>

\* The outermost call releases the mutex.
Leave(t) ==
    /\ At(t, "leave") /\ Goto(t, "done")
    /\ owner' = IF owner = t THEN Nobody ELSE owner
    /\ UNCHANGED <<disk, known, state, needs, up, job, stage, accepting, library, marks, counters>>

Reached(op, s) ==
    CASE op = "start" -> "active" [] op \in {"resolve", "stop"} -> "resolved"
      [] op = "uninstall" -> "uninstalled" [] op = "unload" -> s

RestoredNot(f, s) == s                   \* mutant: the passing state stays
Restored(f, s) == IF f.old = None THEN s ELSE f.old

\* The new state is committed, or the old one restored and the exception
\* passed on to the caller.
Done(t) ==
    LET f    == TopCall(t)
        rest == SubSeq(stack[t], 1, Len(stack[t]) - 1)
    IN  /\ At(t, "done")
        /\ state' = [state EXCEPT ![f.b] = CASE f.stale -> @ [] ~f.stale /\ f.ok -> Reached(f.op, @)
                                             [] OTHER -> Restored(f, @)]
        /\ stack' = [stack EXCEPT ![t] =
              IF f.ok \/ rest = <<>> THEN rest
              ELSE [rest EXCEPT ![Len(rest)].at = IF Len(rest) = 1 THEN "leave" ELSE "done",
                                ![Len(rest)].ok = FALSE]]
        /\ job' = [job EXCEPT ![t].threw = ~f.ok /\ rest = <<>>]
        /\ UNCHANGED <<disk, known, needs, up, owner, stage, accepting, library, marks, counters>>

Call(t, op, b, stale) == stack' = [stack EXCEPT ![t] = <<Frame(op, b, stale)>>]
Plan(t, plan) == job' = [job EXCEPT ![t].plan = plan]
Ready(t) == ~Busy(t) /\ ~job[t].threw
AtRest(t) == job[t] = IdleJob /\ ~Busy(t)

(***************************************************************************)
(* BundleLifecycleHandler: as a task, at most one at a time for a Bundle,  *)
(* or in the thread of the request.                                        *)
(***************************************************************************)
TaskPlan(action) ==
    CASE action = "start"   -> <<"resolve", "start">>
      [] action = "stop"    -> <<"stop">>
      [] action = "restart" -> <<"stop", "resolve", "start">>

TaskBegins(t, action, b) ==
    /\ \/ t \in Workers /\ accepting /\ \A w \in Workers : job[w].b # b
       \/ t \in Web /\ isActive(Host)
    /\ AtRest(t) /\ MayAsk /\ ops' = ops + 1
    /\ b \in known \cap Manageable
    /\ job' = [job EXCEPT ![t] = [b |-> b, plan |-> TaskPlan(action), threw |-> FALSE,
                                  stale |-> FALSE]]
    /\ UNCHANGED <<disk, known, state, needs, up, owner, stack, stage, accepting, library, marks,
                   reloads, throws>>

\* The handler looks at the state and calls the operation or leaves it out.
TaskNext(t, calls) ==
    LET j == job[t]
    IN  /\ t \in Servants /\ Ready(t) /\ j.plan # <<>>
        /\ calls \in Looks(j.stale, j.b, Expected(Head(j.plan)))
        /\ Plan(t, Tail(j.plan))
        /\ IF calls THEN Call(t, Head(j.plan), j.b, j.stale) ELSE UNCHANGED stack
        /\ UNCHANGED <<disk, known, state, needs, up, owner, stage, accepting, library, marks, counters>>

TaskEnds(t) ==
    /\ t \in Servants /\ ~Busy(t) /\ job[t] # IdleJob
    /\ job[t].threw \/ job[t].plan = <<>>
    /\ job' = [job EXCEPT ![t] = IdleJob]
    /\ UNCHANGED <<disk, known, state, needs, up, owner, stack, stage, accepting, library, marks,
                   counters>>

\* performAction of the Bundle administration, in the thread of a request;
\* what it asks the user to confirm first is another request.
performAction(t, op, b) ==
    /\ AtRest(t) /\ isActive(Console) /\ b \in known \cap Administered
    /\ op = "uninstall" => b \in Removable
    /\ MayAsk /\ ops' = ops + 1
    /\ Call(t, op, b, FALSE)
    /\ UNCHANGED <<disk, known, state, needs, up, owner, job, stage, accepting, library, marks,
                   reloads, throws>>

(***************************************************************************)
(* The control thread.                                                     *)
(***************************************************************************)
\* std::sort leaves the order of equal run levels open.
ByLevel(S) == {q \in [1..Cardinality(S) -> S] :
                 \A i, j \in DOMAIN q : i < j => q[i] # q[j] /\ Level[q[i]] <= Level[q[j]]}

\* A new object for the Bundle: what other threads hold of it is the old one.
loadBundle(b) ==
    /\ stage = "load" /\ owner = Nobody /\ b \in disk \ known
    /\ known' = known \cup {b}
    /\ state' = [state EXCEPT ![b] = "installed"] /\ needs' = [needs EXCEPT ![b] = {}]
    /\ stack' = [t \in Threads |-> [i \in 1..Len(stack[t]) |->
                    [stack[t][i] EXCEPT !.stale = @ \/ stack[t][i].b = b]]]
    /\ job' = [t \in Threads |-> [job[t] EXCEPT !.stale = @ \/ job[t].b = b]]
    /\ raced' = IF Called(b) THEN raced \cup {b} ELSE raced
    /\ UNCHANGED <<disk, up, owner, stage, accepting, library, late, counters>>

Loaded ==
    /\ stage = "load" /\ disk \subseteq known /\ stage' = "resolve"
    /\ UNCHANGED <<disk, known, state, needs, up, owner, stack, job, accepting, library, marks,
                   counters>>

resolveAllBundles ==
    LET done == {b \in known : state[b] = "installed" /\ Resolvable(b)}
    IN  /\ stage = "resolve" /\ owner = Nobody /\ stage' = "startAll"
        /\ Resolves(done) /\ needs' = Recorded(done, {})
        /\ \E plan \in ByLevel(known) : job' = [job EXCEPT ![Control].plan = plan]
        /\ UNCHANGED <<disk, known, up, owner, stack, accepting, library, late, counters>>

\* startAllBundles: a Poco::Exception is logged and the next Bundle follows;
\* another one, which only activators throw, ends the start or the reload.
startAllBundles ==
    LET plan == job[Control].plan
    IN  /\ stage = "startAll" /\ ~Busy(Control)
        /\ \/ /\ plan = <<>> /\ stage' = "run" /\ UNCHANGED stack
              /\ job' = [job EXCEPT ![Control] = IdleJob]
           \/ /\ job[Control].threw /\ throws > 0 /\ UNCHANGED stack
              /\ stage' = IF reloads = 0 THEN "aborted" ELSE "run"
              /\ job' = [job EXCEPT ![Control] = IdleJob]
           \/ /\ plan # <<>> /\ UNCHANGED stage
              /\ IF state[Head(plan)] = "resolved" /\ Head(plan) \in Automatic
                    THEN Call(Control, "start", Head(plan), FALSE) ELSE UNCHANGED stack
              /\ job' = [job EXCEPT ![Control] = [@ EXCEPT !.threw = FALSE, !.plan = Tail(plan)]]
        /\ UNCHANGED <<disk, known, state, needs, up, owner, accepting, library, marks, counters>>

RequestReload ==
    /\ stage = "run" /\ MayReload /\ reloads' = reloads + 1
    /\ stage' = "sortReload"
    /\ UNCHANGED <<disk, known, state, needs, up, owner, stack, job, accepting, library, marks,
                   ops, throws>>

RequestShutdown ==
    /\ stage = "run" /\ stage' = "sort"
    /\ UNCHANGED <<disk, known, state, needs, up, owner, stack, job, accepting, library, marks,
                   counters>>

Wants(b) == IF isResolved(b) THEN needs[b] ELSE {}

\* sortBundles, as it fills its list: the lowest level among those whose
\* requirements are in the list already.  Without an end when none is left
\* that qualifies.
Sortable == \A b \in known : Wants(b) \subseteq known
Sorts(order) ==
    \A i \in DOMAIN order :
        LET sorted  == {order[j] : j \in 1..(i - 1)}
            Free(b) == b \notin sorted /\ Wants(b) \subseteq sorted
        IN  Free(order[i]) /\ \A c \in known : Free(c) => Level[order[i]] <= Level[c]
Orders == {order \in [1..Cardinality(known) -> known] :
             Sorts(order) /\ \A b \in known : \E i \in DOMAIN order : order[i] = b}

StopOrderForward(order) == order        \* mutant: the reversal forgotten
StopOrder(order) == [i \in 1..Len(order) |-> order[Len(order) + 1 - i]]

SortBundles ==
    /\ stage \in {"sort", "sortReload", "sortUnload"} /\ owner = Nobody /\ Sortable
    /\ \E order \in Orders : job' = [job EXCEPT ![Control].plan = StopOrder(order)]
    /\ stage' = CASE stage = "sort" -> "stopAll" [] stage = "sortReload" -> "reloadStop"
                  [] OTHER -> "reloadUnload"
    /\ late' = {b \in Bundles : \E t \in Servants : \E i \in DOMAIN stack[t] : stack[t][i].b = b}
    /\ UNCHANGED <<disk, known, state, needs, up, owner, stack, accepting, library, raced, counters>>

Stopping == stage \in {"stopAll", "reloadStop", "reloadUnload"}

Advanced(plan) == Tail(plan)

\* stopAllBundles, and the first half of unloadAllBundles for each Bundle.
stopAllBundles ==
    LET plan == job[Control].plan
    IN  /\ Stopping /\ Ready(Control) /\ plan # <<>> /\ job[Control].b = None
        /\ IF isActive(Head(plan)) THEN Call(Control, "stop", Head(plan), FALSE) ELSE UNCHANGED stack
        /\ job' = [job EXCEPT ![Control].plan = Advanced(plan),
                              ![Control].b = IF stage = "reloadUnload" THEN Head(plan) ELSE None]
        /\ UNCHANGED <<disk, known, state, needs, up, owner, stage, accepting, library, marks, counters>>

unloadBundle ==
    /\ stage = "reloadUnload" /\ Ready(Control) /\ job[Control].b # None
    /\ Call(Control, "unload", job[Control].b, FALSE)
    /\ job' = [job EXCEPT ![Control].b = None]
    /\ UNCHANGED <<disk, known, state, needs, up, owner, stage, accepting, library, marks, counters>>

\* All are done, or an exception has ended it: the reload is given up.
StoppingEnds ==
    /\ Stopping /\ ~Busy(Control)
    /\ \/ /\ Ready(Control) /\ job[Control].plan = <<>> /\ job[Control].b = None
          /\ stage' = CASE stage = "stopAll" -> "ended" [] stage = "reloadStop" -> "sortUnload"
                        [] OTHER -> "load"
       \/ /\ job[Control].threw
          /\ stage' = IF stage = "stopAll" THEN "aborted" ELSE "run"
    /\ job' = [job EXCEPT ![Control] = IdleJob]
    /\ UNCHANGED <<disk, known, state, needs, up, owner, stack, accepting, library, marks, counters>>

\* The Host's stop joins a worker that waits for the mutex the stop holds.
JoinBlocked == (\E t \in Threads : At(t, "join")) /\ \E w \in Workers : At(w, "enter")

\* sortBundles scans its list for ever.
SortSpins == stage \in {"sort", "sortReload", "sortUnload"} /\ ~Sortable

Over == (stage \in {"ended", "aborted"} \/ JoinBlocked \/ SortSpins) /\ UNCHANGED loaderVars
-----------------------------------------------------------------------------
CallStep(t) ==
    \/ Check(t) \/ Set(t) \/ Enter(t) \/ Need(t) \/ ActResolve(t) \/ ActStart(t) \/ ActStop(t)
    \/ Join(t) \/ ActUnload(t) \/ Leave(t) \/ Done(t)

Step(t) == CallStep(t) \/ (\E calls \in BOOLEAN : TaskNext(t, calls)) \/ TaskEnds(t)

ControlStep ==
    \/ (\E b \in Bundles : loadBundle(b)) \/ Loaded \/ resolveAllBundles \/ startAllBundles
    \/ SortBundles \/ stopAllBundles \/ unloadBundle \/ StoppingEnds

LoaderNext ==
    \/ \E t \in Threads : Step(t)
    \/ \E t \in Servants, action \in {"start", "stop", "restart"}, b \in Bundles :
          TaskBegins(t, action, b)
    \/ \E t \in Web, op \in {"resolve", "start", "stop", "uninstall"}, b \in Bundles :
          performAction(t, op, b)
    \/ ControlStep \/ RequestReload \/ RequestShutdown \/ Over

(* A thread that can run does; the termination request comes in the end.     *)
Fairness ==
    /\ \A t \in Threads : WF_loaderVars(Step(t))
    /\ WF_loaderVars(ControlStep) /\ WF_loaderVars(RequestShutdown)

LoaderSpec == LoaderInit /\ [][LoaderNext]_loaderVars /\ Fairness
-----------------------------------------------------------------------------
(* Type invariant. *)
LoaderTypeOK ==
    /\ disk \subseteq Bundles /\ known \subseteq Bundles
    /\ library \in [Bundles -> {"none", "loaded", "broken"}]
    /\ state \in [Bundles -> {"installed", "resolved", "starting", "active", "stopping", "uninstalled"}]
    /\ needs \in [Bundles -> SUBSET Bundles] /\ up \in [Bundles -> BOOLEAN]
    /\ owner \in Threads \cup {Nobody} /\ late \subseteq Bundles /\ raced \subseteq Bundles
    /\ DOMAIN stack = Threads /\ DOMAIN job = Threads

(* An activator is started only while those of all the Bundles its own one   *)
(* requires are up, whoever resolves, stops, starts or uninstalls them       *)
(* meanwhile (startDependencies, BundleLoader.cpp 674-689).  Excepted are    *)
(* required Bundles on which two calls raced or a call was made through an   *)
(* object a reload had replaced, and those whose library was not loaded,     *)
(* which the loader takes for active without an activator.                   *)
NeedsUp ==
    [][\A b \in Bundles :
         ~up[b] /\ up'[b] => \A d \in needs[b] \ raced : up[d] \/ library[d] = "broken"]_loaderVars

Quiet(b) == \A t \in Threads : \A i \in DOMAIN stack[t] : stack[t][i].b # b

(* A Bundle nobody is working on is active if its activator runs, and its    *)
(* activator runs if it is active, or its library was not loaded and it has  *)
(* none (Bundle.cpp 195-241).  Excepted are raced Bundles: the check of the  *)
(* state takes no lock, and two calls that pass it leave the state of the    *)
(* one that ends last (RacedIsTrue is the property without the exception).   *)
StateIsTrue ==
    \A b \in known \ raced : Quiet(b) => /\ up[b] => isActive(b)
                                         /\ isActive(b) => up[b] \/ library[b] = "broken"

(* A Bundle nobody is working on is active if and only if its activator      *)
(* runs, whatever calls raced.                                               *)
RacedIsTrue == \A b \in known : Quiet(b) /\ library[b] # "broken" => (isActive(b) <=> up[b])

(* An active Bundle nobody is working on has been started.                   *)
ActiveIsUp == \A b \in known \ raced : Quiet(b) /\ isActive(b) => up[b]

(* A Bundle that was uninstalled is not running.                             *)
UninstalledIsDown == \A b \in Bundles \ known : Quiet(b) => ~up[b]

(* A shutdown or reload stops an activator only when those that need it are  *)
(* down, unless a worker or a request worked on one of those meanwhile, or   *)
(* calls on it raced (stopAllBundles, BundleLoader.cpp 324-335).             *)
DependentsFirst ==
    [][\A b, c \in known :
         Stopping /\ Busy(Control) /\ TopCall(Control).b = b /\ up[b] /\ ~up'[b]
           /\ b \in needs[c] /\ up[c] => c \in late \cup raced]_loaderVars

(* After the shutdown no activator runs but those a worker or a request      *)
(* worked on when or after the stop order was chosen, or on which calls      *)
(* raced (BundleLoader.cpp 326-334).                                         *)
NothingLeft == stage = "ended" => \A b \in known : up[b] => b \in late \cup raced


(* The shutdown ends.                                                        *)
ShutdownEnds == stage = "sort" ~> stage \in {"ended", "aborted"}

(* stopAllBundles stops all Bundles.                                         *)
StopsAll == stage = "ended" => \A b \in known : ~up[b]
=============================================================================
