------------------------------ MODULE Executor ------------------------------
(***************************************************************************)
(* WorkflowExecutor of livechain/graph/executor.py: start(), stop(), the   *)
(* cron scheduler's task and the signals published meanwhile.  A runner is *)
(* known by the start() that made it and its routine.  Of a runner, its    *)
(* channel (open or not, and the signals in it) and its loops are kept;    *)
(* SignalRoutineRunner.tla has the rest.  The emitters of the context are  *)
(* one PubSub, their hashes kept apart.                                    *)
(***************************************************************************)
EXTENDS Integers, Sequences, FiniteSets

CONSTANTS Routines,    \* the routines in the order start() makes their runners
          CronRoutine, \* those that are cron routines
          Queued,      \* those whose strategy is Queue
          Topic,       \* event schemas, "effects" and "trigger"
          Hears,       \* the topic of each routine that is not a cron routine
          Lifecycles,  \* how start() may be used, see Start
          MaxStarts,   \* bound: calls of start()
          MaxSignals,  \* bound: signals published
          MaxCancels   \* bound: cancellations by the callers of start() and stop(), by lifecycle

Range(s) == {s[i] : i \in DOMAIN s}
Routine == Range(Routines)

ASSUME ExecutorAssumption ==
    /\ Routines \in Seq(Routine) \ {<<>>}  \* there is always a root
    /\ \A i, j \in DOMAIN Routines : Routines[i] = Routines[j] => i = j
    /\ CronRoutine \subseteq Routine /\ Queued \subseteq Routine
    /\ Hears \in [Routine \ CronRoutine -> Topic]
    /\ Lifecycles \subseteq {"alternating", "repeated"}
    /\ MaxStarts \in Nat /\ MaxSignals \in Nat /\ MaxCancels \in [Lifecycles -> Nat]

Started == 1..MaxStarts
Runner == Started \X Routine
Signal == 1..MaxSignals

\* The tasks of start() number k: its scheduler, and one that runs start() of a
\* runner (and with it the loop), also of a runner made by an earlier start().
SchedulerTask(k) == <<k, 0, "scheduler">>
RunnerTask(k, r) == <<k, r[1], r[2]>>
RunnerOf(t) == <<t[2], t[3]>>
Loop == {RunnerTask(k, r) : k \in Started, r \in Runner}
Task == Loop \cup {SchedulerTask(k) : k \in Started}

VARIABLES lifecycle,   \* fixed: how start() is used
          starts,      \* calls of start() so far
          runners,     \* _runners
          tasks,       \* _executor_tasks: the tasks of this start(), none when 0
          status, asked, soon,   \* the asyncio tasks
          loopOf,      \* _routine_task of each runner, by start(); None when 0
          open,        \* runners whose channel is open
          inbox,       \* the signals in each runner's channel
          subscriptions, emitted, owed,  \* the emitters
          stopper, at, waits,  \* where stop() is, its position in _runners, its futures
          outcome,     \* how the last stop() ended, "none" after a start()
          cancels,     \* cancellations by callers so far
          born, got    \* history: the start() a signal was published after, and the
                       \* signals each runner has accepted

\* A cron runner is subscribed under its own id, another one under its topic.
Shared == {<<0, h>> : h \in Topic}
HashOf(r) == IF r[2] \in CronRoutine THEN r ELSE <<0, Hears[r[2]]>>

INSTANCE AsyncTasks WITH callbacks <- {}
PS == INSTANCE PubSub WITH Callback <- Runner, Hash <- Shared \cup Runner, Default <- <<0, "every">>,
                           Emission <- Signal

listVars == <<lifecycle, starts, runners, tasks>>
taskVars == <<status, asked, soon>>
runnerVars == <<loopOf, open, inbox, got>>
emitterVars == <<subscriptions, emitted, owed, born>>
stopVars == <<stopper, at, waits, outcome, cancels>>
vars == <<listVars, taskVars, runnerVars, emitterVars, stopVars>>

Init == /\ lifecycle \in Lifecycles
        /\ starts = 0 /\ runners = <<>> /\ tasks = 0
        /\ TasksInit
        /\ loopOf = [r \in Runner |-> 0] /\ open = {}
        /\ inbox = [r \in Runner |-> {}] /\ got = [r \in Runner |-> {}]
        /\ PS!Init /\ born = [s \in Signal |-> 0]
        /\ stopper = "idle" /\ at = 0 /\ waits = {} /\ outcome = "none"
        /\ cancels = 0

-----------------------------------------------------------------------------
(* start() and the tasks it creates.                                       *)

NewRunners(k) == [i \in DOMAIN Routines |-> <<k, Routines[i]>>]
TasksFor(k, rs) == <<SchedulerTask(k)>> \o [i \in DOMAIN rs |-> RunnerTask(k, rs[i])]

\* Callers use start() and stop() alternately, or start() again and again; never
\* while a stop() is under way.
MayStart == stopper = "idle" /\ (lifecycle = "alternating" => runners = <<>>)

\* start() that begins a new list of runners.
StartAfresh ==
    /\ starts < MaxStarts /\ MayStart
    /\ LET k == starts + 1
           all == NewRunners(k)
       IN  /\ starts' = k /\ tasks' = k
           /\ runners' = all
           /\ open' = open \cup Range(all)
           /\ PS!SubscribeEach({<<r, HashOf(r)>> : r \in Range(all)})
           /\ CreateEach(TasksFor(k, all))
    /\ outcome' = "none"
    /\ UNCHANGED <<lifecycle, asked, loopOf, inbox, got, born, stopper, at, waits, cancels>>

\* start() appends to _runners, and runs start() of all of them.
Start ==
    /\ starts < MaxStarts /\ MayStart
    /\ LET k == starts + 1
           all == runners \o NewRunners(k)
       IN  /\ starts' = k /\ tasks' = k
           /\ runners' = all
           /\ open' = open \cup Range(NewRunners(k))
           /\ PS!SubscribeEach({<<r, HashOf(r)>> : r \in Range(NewRunners(k))})
           /\ CreateEach(TasksFor(k, all))
    /\ outcome' = "none"
    /\ UNCHANGED <<lifecycle, asked, loopOf, inbox, got, born, stopper, at, waits, cancels>>

\* A runner's start() creates its loop and makes it _routine_task.
TaskFirstStep ==
    /\ FirstStep
    /\ loopOf' = LET t == Head(soon) IN
                 IF t \in Loop /\ t \notin asked THEN [loopOf EXCEPT ![RunnerOf(t)] = t[1]]
                 ELSE loopOf
    /\ UNCHANGED <<listVars, open, inbox, got, emitterVars, stopVars>>

TaskEnds(t, end) ==
    /\ End(t, end)
    /\ UNCHANGED <<listVars, runnerVars, emitterVars, stopVars>>

\* The loop takes a signal and has it handled.
Serve(t) ==
    /\ status[t] = "running"
    /\ \E s \in inbox[RunnerOf(t)] : inbox' = [inbox EXCEPT ![RunnerOf(t)] = @ \ {s}]
    /\ UNCHANGED <<listVars, taskVars, loopOf, open, got, emitterVars, stopVars>>

\* A loop that ends as soon as its channel is closed.
LoopEndsAtClose(t) == RunnerOf(t) \notin open /\ TaskEnds(t, "ok")

\* The channel is closed and drained.
LoopEnds(t) == RunnerOf(t) \notin open /\ inbox[RunnerOf(t)] = {} /\ TaskEnds(t, "ok")

\* Queue: the routine raises, and ends its loop like an error or, when it is
\* ChanClosed, like the end of the channel.
LoopBreaks(t) ==
    /\ t[3] \in Queued /\ got[RunnerOf(t)] # inbox[RunnerOf(t)]
    /\ \E end \in {"ok", "error"} : TaskEnds(t, end)

TaskCancelled(t) == TaskEnds(t, "cancelled")

\* A cron expression raises.
SchedulerFails(k) == TaskEnds(SchedulerTask(k), "error")

\* Whoever awaits what start() number k returned is cancelled, and with it every
\* task gathered, unless the gathering is over because one of them failed.
CancelGather(k) ==
    LET gathered == {t \in Task : t[1] = k} IN
    /\ cancels < MaxCancels[lifecycle] /\ k <= starts
    /\ \A t \in gathered : status[t] \notin {"error", "cancelled", "dropped"}
    /\ RequestCancel(gathered)
    /\ cancels' = cancels + 1
    /\ UNCHANGED <<listVars, status, soon, runnerVars, emitterVars, stopper, at, waits, outcome>>

-----------------------------------------------------------------------------
(* Signals.                                                                *)

\* publish_event, trigger_workflow or mutate_state.
Publish(h) ==
    /\ PS!Emit(h)
    /\ born' = [born EXCEPT ![emitted + 1] = starts]
    /\ UNCHANGED <<listVars, taskVars, runnerVars, stopVars>>

\* A scheduler knows the cron runners made by its own start().
CronTick(k) ==
    /\ status[SchedulerTask(k)] = "running"
    /\ \E r \in {k} \X CronRoutine : Publish(r)

\* An emission that looks up its runners only when it calls them.
CallRunnerNow(n) ==
    /\ \E sub \in owed[n], r \in open :
          /\ <<r, sub[2]>> \in subscriptions
          /\ PS!Deliver(n, sub)
          /\ inbox' = [inbox EXCEPT ![r] = @ \cup {n}]
          /\ got' = [got EXCEPT ![r] = @ \cup {n}]
    /\ UNCHANGED <<listVars, taskVars, loopOf, open, born, stopVars>>

\* An emission calls one of its runners: a closed channel raises ChanClosed.
CallRunner(n) ==
    /\ \E sub \in owed[n] :
          LET r == sub[1] IN
          /\ PS!Deliver(n, sub)
          /\ IF r \in open
             THEN /\ inbox' = [inbox EXCEPT ![r] = @ \cup {n}]
                  /\ got' = [got EXCEPT ![r] = @ \cup {n}]
             ELSE UNCHANGED <<inbox, got>>
    /\ UNCHANGED <<listVars, taskVars, loopOf, open, born, stopVars>>

\* The caller that awaits the emission is cancelled.
DropEmission(n) == /\ owed[n] # {} /\ PS!Drop(n)
                   /\ UNCHANGED <<listVars, taskVars, runnerVars, born, stopVars>>

-----------------------------------------------------------------------------
(* stop().                                                                 *)

ExecutorTasks == {t \in Task : t[1] = tasks /\ status[t] # "none"}

\* Awaiting _routine_task without looking whether there is one.
StopFromAwaitsAny(i) ==
    \/ /\ i <= Len(runners)
       /\ open' = open \ {runners[i]}
       /\ stopper' = "runner" /\ at' = i
       /\ waits' = {RunnerTask(loopOf[runners[i]], runners[i])}
       /\ UNCHANGED asked
    \/ /\ i > Len(runners)
       /\ stopper' = "tasks" /\ at' = 0
       /\ waits' = ExecutorTasks /\ RequestCancel(ExecutorTasks)
       /\ UNCHANGED open

\* Awaiting the loops without closing their channels.
StopFromWithoutClose(i) ==
    LET loops == {j \in i..Len(runners) : loopOf[runners[j]] # 0}
    IN  \/ /\ loops # {}
           /\ \E j \in loops :
                 /\ \A k \in loops : j <= k
                 /\ stopper' = "runner" /\ at' = j
                 /\ waits' = {RunnerTask(loopOf[runners[j]], runners[j])}
           /\ UNCHANGED <<asked, open>>
        \/ /\ loops = {}
           /\ stopper' = "tasks" /\ at' = 0
           /\ waits' = ExecutorTasks /\ RequestCancel(ExecutorTasks)
           /\ UNCHANGED open

\* From runner number i on: close its channel, and wait for its loop if it has
\* one; after the last, cancel the executor's tasks and wait for them.
StopFrom(i) ==
    LET loops == {j \in i..Len(runners) : loopOf[runners[j]] # 0}
    IN  \/ /\ loops # {}
           /\ \E j \in loops :
                 /\ \A k \in loops : j <= k
                 /\ open' = open \ {runners[k] : k \in i..j}
                 /\ stopper' = "runner" /\ at' = j
                 /\ waits' = {RunnerTask(loopOf[runners[j]], runners[j])}
           /\ UNCHANGED asked
        \/ /\ loops = {}
           /\ open' = open \ {runners[k] : k \in i..Len(runners)}
           /\ stopper' = "tasks" /\ at' = 0
           /\ waits' = ExecutorTasks /\ RequestCancel(ExecutorTasks)

StopEnds(how) == stopper' = "idle" /\ at' = 0 /\ waits' = {} /\ outcome' = how

Stop ==
    /\ stopper = "idle"
    /\ StopFrom(1)
    /\ UNCHANGED <<listVars, status, soon, loopOf, inbox, got, emitterVars, outcome, cancels>>

\* stop() that goes on with the next runner when one has failed.
RunnerStoppedAnyhow ==
    /\ stopper = "runner" /\ Settled(waits)
    /\ loopOf' = [loopOf EXCEPT ![runners[at]] = 0]
    /\ StopFrom(at + 1)
    /\ UNCHANGED <<listVars, status, soon, inbox, got, emitterVars, outcome, cancels>>

\* The loop stop() awaits has ended: the next runner, or the loop's exception.
RunnerStopped ==
    /\ stopper = "runner" /\ Settled(waits)
    /\ LET r == runners[at] IN
       \/ /\ \A t \in waits : status[t] = "ok"
          /\ loopOf' = [loopOf EXCEPT ![r] = 0]
          /\ StopFrom(at + 1)
          /\ UNCHANGED outcome
       \/ /\ \E t \in waits : status[t] # "ok"
          /\ StopEnds("raised")
          /\ UNCHANGED <<asked, loopOf, open>>
    /\ UNCHANGED <<listVars, status, soon, inbox, got, emitterVars, cancels>>

\* Waiting for the runners only, not for the executor's tasks.
TasksNotAwaited ==
    /\ stopper = "tasks"
    /\ PS!UnsubscribeAll
    /\ runners' = <<>> /\ tasks' = 0
    /\ StopEnds("returned")
    /\ UNCHANGED <<lifecycle, starts, taskVars, runnerVars, born, cancels>>

\* The executor's tasks have ended: unsubscribe and forget everything.
TasksStopped ==
    /\ stopper = "tasks" /\ Settled(waits)
    /\ PS!UnsubscribeAll
    /\ runners' = <<>> /\ tasks' = 0
    /\ StopEnds("returned")
    /\ UNCHANGED <<lifecycle, starts, taskVars, runnerVars, born, cancels>>

\* stop() is cancelled: passed on to the loop it awaits, if there is one.
CancelStop ==
    /\ stopper # "idle" /\ cancels < MaxCancels[lifecycle]
    /\ cancels' = cancels + 1
    /\ \/ /\ stopper = "runner" /\ \E t \in waits : Live(t)
          /\ RequestCancel(waits)
          /\ UNCHANGED <<stopper, at, waits, outcome>>
       \/ /\ stopper = "tasks" \/ \A t \in waits : ~Live(t)
          /\ StopEnds("raised")
          /\ UNCHANGED asked
    /\ UNCHANGED <<listVars, status, soon, runnerVars, emitterVars>>

LoopStep(t) == Serve(t) \/ LoopEnds(t)
StopStep == RunnerStopped \/ TasksStopped

Next == \/ Start \/ TaskFirstStep
        \/ \E t \in Loop : LoopStep(t) \/ LoopBreaks(t)
        \/ \E t \in Task : TaskCancelled(t)
        \/ \E k \in Started : SchedulerFails(k) \/ CancelGather(k) \/ CronTick(k)
        \/ \E h \in Shared : Publish(h)
        \/ \E n \in Signal : CallRunner(n) \/ DropEmission(n)
        \/ Stop \/ StopStep \/ CancelStop

Spec == Init /\ [][Next]_vars

\* The event loop runs what is ready; a loop that is cancelled ends (no routine
\* swallows the cancellation and waits for ever).
Fairness == /\ WF_vars(TaskFirstStep) /\ WF_vars(StopStep)
            /\ \A t \in Loop : WF_vars(LoopStep(t))
            /\ \A t \in Task : WF_vars(TaskCancelled(t))

FairSpec == Spec /\ Fairness

-----------------------------------------------------------------------------
(* Properties.                                                             *)

TypeOK ==
    /\ lifecycle \in Lifecycles /\ starts \in 0..MaxStarts /\ tasks \in 0..MaxStarts
    /\ runners \in Seq(Runner)
    /\ TasksTypeOK
    /\ loopOf \in [Runner -> 0..MaxStarts] /\ open \subseteq Runner
    /\ inbox \in [Runner -> SUBSET Signal] /\ got \in [Runner -> SUBSET Signal]
    /\ subscriptions \subseteq Runner \X (Shared \cup Runner)
    /\ emitted \in 0..MaxSignals /\ born \in [Signal -> 0..MaxStarts]
    /\ owed \in [Signal -> SUBSET (Runner \X (Shared \cup Runner))]
    /\ stopper \in {"idle", "runner", "tasks"} /\ at \in Nat /\ waits \subseteq Task
    /\ outcome \in {"none", "returned", "raised"}
    /\ cancels \in 0..MaxCancels[lifecycle]

\* When stop() has returned, no loop and no scheduler is left running, no channel
\* is open and nobody is subscribed: whatever was published, had failed or had not
\* begun while the runners were stopped one after the other.
StopLeavesNothing ==
    lifecycle = "alternating" /\ outcome = "returned" =>
        /\ \A t \in Task : ~Live(t)
        /\ open = {} /\ subscriptions = {}

\* stop() returns normally only if every loop of the last start() ended well or
\* never began: it does not hide a routine's error, however often it is called.
StopTellsFailure ==
    lifecycle = "alternating" /\ outcome = "returned" =>
        \A t \in Loop : t[1] = starts => status[t] \in {"none", "ok", "dropped"}

\* stop() loses no signal a runner has accepted, except of a runner whose loop
\* never began, and of Queue runners, whose loop a routine can end.
StopDrains ==
    lifecycle = "alternating" /\ outcome = "returned" =>
        \A r \in Runner : inbox[r] # {} /\ r[2] \notin Queued =>
            \A k \in Started : status[RunnerTask(k, r)] \notin {"running", "ok"}

\* A loop that is alive is one that stop() will reach, or its channel is closed
\* already and it ends by itself; also when start() is called repeatedly and
\* after a stop() that raised.
NoLoopOutOfReach ==
    \A t \in Loop : Live(t) => RunnerOf(t) \in Range(runners) \/ RunnerOf(t) \notin open

\* A signal is accepted only by runners that existed when it was published; used
\* alternately, by those of the last start(): none crosses a restart, in either
\* direction, although its delivery may come after it.
NoCrossDelivery ==
    \A r \in Runner : \A s \in got[r] :
        r[1] <= born[s] /\ (lifecycle = "alternating" => r[1] = born[s])

\* stop() ends, in one way or the other.
StopCompletes == stopper # "idle" ~> stopper = "idle"
=============================================================================
