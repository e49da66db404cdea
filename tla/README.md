# livechain in TLA+

A model of the concurrent core of livechain (`src/livechain`): what runs when,
what is cancelled, what is lost and what is left behind. TLC checks the modules
on small instances; TLAPS proves the main theorems for every size.

## 1. The system

Everything runs on one asyncio event loop. Code between two suspension points
(`await` of something not finished) is atomic; between them any other task or
callback may run, and a cancellation may arrive. That is the grain of every
action here.

| component | state | operations | interacts with | what is hard | what makes it correct |
|---|---|---|---|---|---|
| Channel, `aio/channel.py` | `_queue`, `_gets`, `_puts`, `_closed` | send, recv (and the nowait forms), close | the tasks whose futures it holds | a woken task runs later; cancellation before and after the wakeup; close with waiters | a FIFO buffer within its limit; no waiter sleeps next to what it waits for; close releases everybody |
| cancel_and_wait, `aio/utils.py` | none | cancel tasks, wait for all | asyncio tasks and callbacks | cancellation takes time, may be swallowed; callback order | returns only when every task is done and its earlier callbacks have run |
| Signal runner, `graph/func/routine.py` | signal channel, loop task, per strategy the current, pending or running tasks | call, start, stop, handle_signal, cleanup | channel, cancel_and_wait, asyncio | superseding a routine, debounce timers, errors, cancellation at any point | at most one routine for Interrupt and Queue; order; no lost signal; nothing outlives the loop |
| Emitter, `graph/emitter.py` | `_subscribers`, `_default_subscribers`, `_callback_to_hash` | subscribe, emit, unsubscribe(_all) | callbacks, usually runners | callbacks chosen at emit, run later; the maps disagree | who is subscribed is called, who is not is not |
| Executor, `graph/executor.py` | `_runners`, `_executor_tasks`, subscriptions | start, stop, publish, trigger, mutate | runners, emitters, scheduler | stop fails halfway; start twice; publishing while stopping | stop leaves nothing running or subscribed; restart works |
| Cron, `graph/cron.py` | heap of (due, id), tick counts | next_tick, schedule | executor | late wakeups, growth of the intervals | never early, one pending tick per job, gaps within the maximum |
| Context and persisters, `graph/context.py`, `graph/persist` | the state, cached and checkpointed | get, set, mutate_state, emit of each kind | emitters | a rejected patch; a cancelled caller; conditions evaluated after later mutations | reactive signals chain old to new state |
| Operations, `graph/ops.py` | the Chan of each channel_stream | the calls a routine makes | context | one generator for all subscribers; a block left by an error | every chunk is delivered once; every iteration ends |
| Decorators, `graph/func/nodes.py` | none | declare routines, wrap steps | executor, LangGraph | - | what is declared is what is run |
| Types, config | none | build objects | - | - | - |
| Reminder, `examples/basic_workflow.py` with the events of `basic_voice_agent_v1.py` | `has_reminded` | on_speech_status_changed, on_remind_user | two runners, emitter, context | routines interrupted between looking, marking and speaking; events that overtake each other | one reminder for each silence, on the latest event only |

## 2. Modules

    abstract          implements it          uses it

    ChanSpec          Chan                   SignalRoutineRunner, Stream
    RunnerSpec        SignalRoutineRunner    Reminder (twice)
    PubSub            Emitter                Executor, Context, Stream, Reminder
    AsyncTasks        (asyncio)              SignalRoutineRunner, Executor
    Workflow          (pure)                 MCExecutor
                      Cron

A component is modelled in detail once and shown to implement a small abstract
module; whatever uses the component is built on the abstract one. So Reminder
has two runners and an emitter and still a small state space, and nothing it
assumes of them is only believed.

Every module `M` with runs has its `MCM` with the instances, and what is proved of
it is in `M_proofs`.
Operators that a module defines next to a modelled one and does not use (`SendOnce`,
`AnyEntry`, `StopFromWithoutClose` ...) are faulty versions of that one, kept to see that a property would notice the fault.

**ChanSpec** is the buffer of values: `Put`, `Take`, `Close`. Its state is
`_maxsize`, `_queue` and `_closed`.

**Chan** adds the futures. `fut[p]` is the future task p awaits (`pending`,
`result`, `closed` for ChanClosed set on it, `cancelled`); `gets` and `puts`
hold the tasks whose futures are in `_gets` and `_puts`, in order, with `Gone`
for a future a cancelled `recv` left there. A call is cut at its `await`:
`SendCall`/`RecvCall` run up to it, `SendResume`/`RecvResume` go on from it.
`Cancel` is `Task.cancel()`: a pending future is cancelled, otherwise the task
is `interrupted` and gets CancelledError although its future has a result.
`FirstPending`, `StillWaiting` and `Woken` are `_wakeup_next`.

**AsyncTasks** is the part of asyncio the runners rely on: tasks get their
first step in the order they were created (`soon`, the ready queue), a task
cancelled before it never runs its body (`dropped`), a cancelled body may take
its time and end in any way, and a done callback added first runs first
(`callbacks` are the runner's own that have not run). `Settled` is when
`cancel_and_wait` returns.

**SignalRoutineRunner** is one runner. A signal is its arrival number. The loop
is suspended in `recv()`, in the cancel-and-wait of `_handle_signal`
(`superseding`, with the signal `inHand`), in `await self._current_task` of Queue
(`awaiting`) or in `_handle_cleanup` (`cleanup`). `Receive` is everything from
the return of `recv()` to the next suspension, one disjunct for each strategy.
`current`, `pending` and `tracked` are `_current_task`, `_pending_task` and
`_tasks`/`_running_tasks`, by signal. `exit` says why the loop ended: `closed`
is the normal end, `aborted` a cleanup that was itself cancelled.

Abstractions of the runner, and why they are sound:

* The channel is ChanSpec with no limit. A runner has one receiver, its loop, and
  an unlimited channel has no waiting sender. `Receive` may lag behind a wakeup
  by any number of steps, as the resumption of the loop does.
* What a routine computes is left out. It may end well, by an error or by
  ChanClosed, at any moment; asked to end, it may obey or not.
* The request of a cancellation of the loop and the CancelledError it raises are
  one step. The request may come at any time, so the delivery may too.
* A loop that goes round without suspending could not be interleaved with other
  tasks at that point; the model allows it, which only adds behaviours.
* A call with a signal the schema rejects and a call after the close change no
  state (one logs, the other raises to its caller) and are not steps. A second
  `stop()` is left to the executor module.

**RunnerSpec** is what a publisher may rely on, in terms of accepted and taken
signals and the `result` of each: when a signal gets its routine under each
strategy, that only the signal taken last may get one late, whose routine is asked
to end, and why the runner ends. The attributes, the timers, the waits of the
loop and the callbacks are hidden. `taken`, `result` and `phase` of
SignalRoutineRunner are the refinement mapping; nearly every point of the loop is a
stutter or part of one abstract step, except that a signal's receipt and the
creation of its routine are two steps when a cancellation or a timer lies between.
It orders the creation of routines; that their bodies begin in that order too is
`BeginInOrder` of SignalRoutineRunner. A Queue runner whose routine fails may leave
signals behind, as in the code; that `stop()` then tells it is `StopTellsFailure` of
Executor, and that a normal end leaves none, unless a routine raised ChanClosed, is the
theorem `BacklogDrained`.

**PubSub** is a set of subscriptions and, for every emission, the deliveries it
owes to those subscribed when it was made. **Emitter** is the code: the sets by
hash, the set without a hash, the entries `hashOf` that `unsubscribe` relies on,
and the calls an emission has still to make, in any order, since
RunnableParallel gives none. `OneHash` says that callers subscribe a callback
under one hash at a time, as all of livechain does.

**Cron** is `CronJobScheduler.schedule` cut at its `yield` and its `sleep`. The heap is
a set of ticks, of which an earliest one is taken; equal times come in any
order, as the ids that decide are random. `clock` is `time.time()`: it goes forward
by any amount between any two steps, so executors may be slow and sleeps late.
`asyncio.sleep` uses the monotonic clock and may be early by `Skew`. `count` is
`_count`, which belongs to the expression and survives a restart. Exponents are
rational in the code, so Exp has the finite sequence of its `powers`, and raises
after the last as `exponent**self._count` does. A cancellation may also find it at its
`yield`: the executor, which does not await there, never leaves it at that point, another
user of the generator may.

**Executor** is `start()` and `stop()` with the tasks between them. A runner is named
by the `start()` that made it and its routine. `StopFrom(i)` is everything `stop()`
does between two suspensions: it closes channel after channel up to the first
runner that has a loop to wait for. `stopper` is where it waits: `runner` in
`runner.stop()`, `tasks` in the cancel-and-wait of `_executor_tasks`.
`lifecycle` is how callers use it: `alternating` (each `start()` after a `stop()`
that returned, as all examples and tests do) or `repeated`. Abstractions:

* Of a runner, its channel and its loop are left: a loop serves signals, ends
  when its channel is closed and drained, ends by a failing routine if its
  strategy is Queue, or is cancelled. SignalRoutineRunner has the rest.
* The task that runs `runner.start()` and the loop it creates are one task: the first
  only awaits the second. The request and the effect of a cancellation are apart.
* Loops, ticks and deliveries interleave more freely than on the event loop, where
  some of them do not suspend; that only adds behaviours.
* RunnerSpec is not used for the runners: the order of starting, closing and awaiting
  them needs their tasks, which RunnerSpec hides.
* The four emitters subscribed to are one PubSub, whose hashes are apart. Conditions
  of reactive routines only drop signals and are left to Context.
* `MayStart` keeps `start()` from overlapping a `stop()`; two `stop()` at once and a
  `stop()` called by a routine are not modelled.

**Workflow** is what the decorators declare and `Workflow.compile` and `start()` make
of it: the list of routines in the order of their runners. It has no state. MCExecutor
takes its instance from it, and `CompileAssumption` checks on every list of up to four
routines of the different types that none is lost and the order within a type is kept.

**Context** is `mutate_state` with the cache, the checkpoint and the reactive
runners behind their conditions. Reading, writing and emitting are one step, as
there is no `await` between them. The graph of the local persister is a library:
from its use, it writes the patch, validates at its node, and raises if the
result is invalid; that it then keeps or drops the written patch is left open.
`Cond(r, s)` is any function of the state; a condition that raises is left out.
Runners are stopped (`CloseRunner`), unsubscribed, and others started while
emissions are on their way.

**Stream** is one `channel_stream`: the routine inside its `async with` block
(`producer`), the Chan (a ChanSpec without limit), the generator, and the consumers to
which `executor.recv` gives it, all the same one. `generator` is where it stands:
`suspended` at a `yield` or its beginning, `receiving` in `recv()`, `finished`. What
Python does with a generator asked for a value while it runs (RuntimeError in the
second consumer), or after a cancellation went through it (it is finished), is
modelled from the language. `LeaveBlock` is the `finally`, however the block ends.
A consumer is called at most once, as the topic has one emission.

**Reminder** composes two runners (RunnerSpec, under Queue and Interrupt), an emitter
(PubSub) and a piece of state. A routine is cut at its awaits: `sleeping`,
`mutating` (the mark is made, `mutate_state` is awaited), `streaming` (`call_llm`).
`Voice` are the five handlers of the session, which publish one of three signals.
Deliveries may overtake each other, as the emitter promises no order, and any
routine that has been asked to may end at any step. The executor is running and is
not stopped, so the channels stay open (`closed <- ~TRUE`). The language model and
the speech are external: a call may fail and need not ever end. The reactive signals of
`mutate_state` have no subscriber in this workflow.

## 3. Runs

| run | checks | bounds |
|---|---|---|
| `runner` | every strategy implements RunnerSpec; routines begin in the order of their signals; one routine at a time, complete cleanup, callbacks; `stop()` ends, every signal is served | 3 signals, 2 cancellations, every outcome |
| `runner_exit` (violation) | a normal end of the loop means a closed channel | 2 signals |
| `chan` | refinement of ChanSpec, wakeups of both sides, close, no spurious failure, every wait ends; whatever is promised to receivers, as long as none is cancelled | 2 senders, 3 receivers, sizes 0 to 2, 1 cancellation, of any task or of senders only |
| `chan_lost` (violation) | receivers' wakeups when a recv may be cancelled | 2 senders, 2 receivers, 1 cancellation |
| `emitter` | refinement of PubSub: `unsubscribe` finds every subscription, each emission reaches those it was made for | 2 callbacks, 2 hashes and none, 2 emissions |
| `cron` | one tick pending per job, never early, no overtaking, due jobs tick | a job of each kind, clock to 6, 1 restart |
| `cron_overflow` (violation) | a limited job always has its next tick within the limit | 3 powers |
| `executor` | a `stop()` that returns has left nothing, told failures and drained the channels; no signal crosses a restart; `stop()` ends; no loop is out of reach, also when `start()` is repeated | a Queue cron routine and the root, 2 starts, 1 signal, 1 cancellation when alternating |
| `context` | reactive signals chain, watchers are up to date | 2 fields, 2 runners with different conditions, 3 accepted mutations, any rejected ones, 1 cancellation |
| `context_lost` (violation) | watchers are up to date although callers are cancelled | 1 mutation, 1 cancellation |
| `stream` | every chunk to one consumer and in order, an end means the whole stream, every iteration ends | 3 consumers, 3 chunks |
| `reminder` | at most one reminder per reset, only for the latest signal, marked in the end | 3 voice events, up to 6 events |

Three signals are enough for a routine that is superseded while it supersedes
another, and for a backlog behind a failing routine; two cancellations for one
that hits the wait of a handler (or is passed on by Queue to its routine) and one
that hits the cleanup. Three receivers give a woken, a waiting and an overtaking
one, two senders one that is woken and one that sleeps or overtakes it (and each
sends again). `MaxQueue` bounds the unlimited
channel only. `cancellable` separates the behaviours in which receivers may
be cancelled from those for which the code keeps its promises to receivers.

In `cron` the clock reaches the limit of every kind, several ticks of each and a
tick after the restart; the powers end, so the run also has a scheduler that
dies. In `executor` the first runner is one `stop()` may wait for, fail at or be
cancelled at, with one still to come behind it, which hears a topic and interrupts
as the others would; the second start shows what the first left behind, and
one signal (of the caller, or a cron tick) may be published before, during and
after each stop. In `stream` three consumers are one that waits, one that fails
beside it and one that comes late. In `reminder` three voice events are
enough for a reminder on its way, an event that supersedes it and one that resets
the state between its steps; six events leave room for the one that each of them leads
to. Three mutations make a watched value change, stay and change back.

`CHECK_DEADLOCK FALSE`: a runner comes to rest when its loop has ended, tasks may all
wait in an empty channel, a scheduler may be dead, and a workflow may be stopped
for good.

### Fairness

`runner`: weak fairness of the loop's own steps, of first steps, of timers
and callbacks and of the caller of `stop()`: the event loop runs what is ready,
and a sleep ends. Routines need not end by themselves. One that has been
cancelled does (`step` re-raises CancelledError, `nodes.py:53-55`; user code that
swallows it and waits on for ever is outside this assumption), and in Queue mode,
which waits for routines nobody cancels, they have to. No fairness is assumed of
callers and of cancellations. `chan`: weak fairness of every resumption, and
of nothing else: nobody has to send, receive or close. `cron`: of the scheduler's
steps, which includes that the executor comes back for the next job (its step has
no `await`); not of the clock. `executor`: of first steps, of each loop (it serves,
or ends), of tasks that were cancelled, and of `stop()`; not of anything published
and of no failure. `stream`: of the emission and of the consumers' steps; the
routine need not send nor end, and a consumer need not stay. `reminder`: of the
deliveries, of both runners and of the steps of the routines, whose sleep ends;
nobody need speak and the language model may take for ever.

### Findings

* `runner_exit`: `except ChanClosed` in `_routine_loop` (`routine.py:282`) also
  catches a ChanClosed raised by the routine Queue awaits. The loop ends as
  after `stop()`, silently, with its channel open and signals waiting in it.
* `chan_lost`: `recv` passes a wakeup on in an `except Exception` handler
  (`channel.py:110`), which CancelledError does not enter; `send` uses a bare
  `except`. A receiver may sleep with a value in the channel, and the cancelled
  future stays in `_gets`. `chan` shows what holds even so, and that all is well
  without the cancellation of receivers.
* `cron_overflow`: Exp computes `exponent**_count` before it limits it
  (`cron.py:64`). With exponent 2 the float overflows after 1024 ticks, counted
  over all restarts: the scheduler dies, and with it every cron job.
* `context_lost`: what `mutate_state` returns is the task that calls the reactive
  routines. Cancelling a caller that awaits it, as Interrupt does, drops the calls
  that have not begun, with the state changed: `README.md:70` says "called whenever
  state.has_started has changed". `context` shows that otherwise every watcher is
  up to date.

Seen while reading and without a run: a second `close()` of a bounded channel
raises InvalidStateError if a sender was waiting at the first (its future stays
in `_puts`); a send to a channel that is closed and full raises ChanFull, not
ChanClosed (`WaitsInsteadOfFailing` allows both once it is closed). A callback
subscribed under two hashes stays subscribed under the first after `unsubscribe`,
and a second `unsubscribe` raises KeyError (`emitter.py:51-55`; `emitter` with
`OneHash = FALSE` shows it). Once a loop has failed or was cancelled, its exception is
raised again by every later `stop()`, which never gets past it
(`executor.py:196-197`). A `stop()` that is called from a Queue routine waits for the
loop that waits for that routine, and a `start()` during a `stop()` is forgotten by it.
`get_state` hands out the cached object itself, so a
routine that modifies it in place changes the state without a signal. The README's
`executor.trigger_workflow()` lacks the argument the method requires. In the voice
agent `has_reminded` is set before the reminder is spoken, so that a reminder
that is interrupted (also by the event its own speech causes) counts as sent; and
two consumers of one `channel_stream` share its chunks between them, or the second
fails, according to which of them asks first.

## 4. Proofs

All for any values of the constants, from the assumptions named in the modules.

`SignalRoutineRunner_proofs`. The properties are not inductive: that Interrupt
creates its next task only when the last has ended depends on `waits` naming the
right task, on its having been created only once, and on no other being alive.
`RunnerInv` adds

* `InOrder`: what is in the channel are the last arrivals, in order, so the next
  one taken is new;
* `FreshTasks`: a signal not yet handed out has no task, tasks waiting for their
  first step are ready and listed once, so nothing is created twice or
  revived, and only a fired timer of Debounce has a routine;
* `Suspended`: which future the loop waits for in each kind of wait;
* `Attended`: every live task is `Owned`, i.e. reachable from the runner's
  attributes; during cleanup it is waited for and asked to end;
* `Callbacks`: done callbacks that have not run belong to tracked tasks, and
  cleanup waits for them.

One lemma for each action shows that it preserves `RunnerInv`; `MutualExclusion`,
`CleanupComplete`, `CallbackSafe` and `TypeCorrect` follow.

For the refinement, `TurnInv` adds `Turns`, which says for each strategy and place
of the loop which signals have had a routine and how the earlier ones ended (for
Queue at `recv()`: all taken ones, well), and `Drained`. With them each step of the
code is one of RunnerSpec or changes nothing it shows; `Refinement` concludes that
SignalRoutineRunner implements it under all four strategies, and `BacklogDrained`
that a Queue runner that ends at the end of its channel has served everything.

Two liveness properties of the runner have a safety half, which needs no fairness. `RestInv`
says who is in line for a first step, who has been asked to end, whom the loop waits for
and what Parallel and Debounce gave the signals taken. From it, `ServedAtRest`: a
loop back at an empty channel, with nobody in line, has begun a routine for every
signal, or a newer signal took its place, or its Debounce timer is running; and
`StopNeverStuck`: what the caller of `stop()` waits for is over, in line, or has been
asked to end (or is the routine of Queue). `EndExplained` is what remains true beside the
finding of `runner_exit`: a loop ends normally on an open channel, or fails, only under
Queue and because a routine raised ChanClosed, or an error. `BeginInOrder`, an action
property, says that the bodies of routines begin in the order of their signals under every
strategy. `LineInv` is its invariant: those in line stand in order, behind all that
began. That a routine is created for a later signal than all before it is taken from
the refinement, as RunnerSpec gives routines to the signal taken last only.

`Chan_proofs` proves `Refinement`, Chan implements ChanSpec, step by step: a send
is a `Put` or invisible, a recv is a `Take` or invisible; it needs only that the
queue holds values of senders. `NobodyLeftAsleep` needs that every pending future is
in `_gets` or `_puts`, where `close` finds it; `SendWaits` that a send fails only in
the step that sees the channel closed, as a woken sender looks again.
`NobodySleepsInVain` and `DrainedBeforeClosed` are about cardinalities: `WakeInv`
says that while a sender sleeps there are no more free places than woken senders, and
the same of receivers and values, as long as none of them is cancelled. A step adds a
place and wakes a sender, or uses up a wakeup and a place, or, cancelled, hands its
wakeup on; `Counting` gives the number of the woken after each, for which the tasks have
to be finitely many (`ChanAssumption`).

`Emitter_proofs`: `TypeCorrect` without a condition; `EntriesComplete` and, from it,
`Refinement` under `OneHash`. Unsubscribing removes what the entry points to, so the
step is PubSub's only if that is everything.

`Cron_proofs`: `OneEntryPerJob` needs to know when the executor holds a job
(`HandInv`), `NoEarlyTick` and `NoOvertaking` that a pending tick is as far from
the last one as its delay (`SpacingInv`); the lemmas on delays do the arithmetic of
the three kinds of expression. `RestInv` (it sleeps for the earliest tick; it is dead only
after an overflow) gives the safety half of `DueTicks`, `DueSeen`: a scheduler that
looks finds an earliest tick, and no tick that is due is slept through. That a set of ticks
of any size has an earliest one is proved by taking, of the sets of the moments before
each, one that is minimal under inclusion. `LimitUntilOverflow` complements the finding of
`cron_overflow`: a limited job has its next tick within its limit unless an overflow
ended the scheduler.

`Executor_proofs`: `IInv` says that the open channels and the subscriptions belong to
`_runners` (`OpenInv`, `SignalInv`), that `stop()` has closed what it has passed, and
that, used alternately, whatever is alive is among the tasks it will wait for
(`AliveInv`); `SoonInv` keeps tasks queued for their first step from being queued
twice, or a task that has ended would be revived. `ListInv` ties `_runners` to the
starts. `StopComplete`, `LoopsInReach` and `SignalsStay` follow.

That `stop()` tells failures needs more, or a loop that begins behind `stop()` could
fail unseen. `OrderInv`: loops begin in the order of `_runners`, so when `stop()`
meets one that has begun, those before it have begun too. `LoopOfInv`: `_routine_task`
is set from the first step of a loop until its good end has been seen, so a failed
loop is one `stop()` still awaits. From both, `BehindInv`: what `stop()` has passed
ended well, or never began and is not going to. `DrainInv`: a loop that ended well
left nothing in its channel. `FailuresTold` and `SignalsServed` follow.

`StuckInv` (who has not begun is in line; `stop()` waits for a loop whose channel it closed
or for tasks it asked to end) gives `StopNeverStuck`, the safety half of `StopCompletes`:
also when `start()` is repeated, `stop()` never waits for something that cannot end.

`Context_proofs`: `ChainInv` ties the state read to the last signal, and the cache
being empty to no signal yet, so that a rejected patch in the checkpoint is never
read. `WatchInv` gives each runner the number `k` of mutations made before it was
subscribed; between two states after `k` without a signal it has accepted or is
owed, what it watches has not changed (`Follows`). The statement is about all pairs of
states rather than the last one, since a delivery that the condition drops joins
two stretches; so no induction over the signals is needed. `HeardInv` says in
addition, signal by signal, what of those after `k` a runner has accepted or is owed. From
it, `CalledForEveryChange`: as long as no caller is cancelled (the finding of
`context_lost`), a runner to which nothing is owed has accepted exactly the signals that
changed what it watches since it was subscribed, in whatever order they came.

`Reminder_proofs`: the reminders cannot be counted inductively, as they begin after
`has_reminded` is set. `MarkInv` counts the marks instead: a mark is made in one
step with `has_reminded`, and a routine resets it at most once. `LastInv` takes from
RunnerSpec what Interrupt promises, that only the last signal that has a routine has
one alive, and from the routine that it goes past its first step only when asked to
remind; `LatestDecides` follows. Types are a matter of counting: there are as many
events as voice events and returned routines, and as many signals of a schema as events
of it were heard (`CountInv`). This also gives `BoundsSuffice`: the bounds of the
module refuse nothing that `MaxVoice` voice events can lead to. `RemindedAtRest` is the
safety half of `RemindedInTheEnd`: when nothing is under way and the last signal asks
to remind, the mark is set. A reset may come between the routine's look at the state and
the end; `ResetInv` says that then another signal is still `Coming`.

`Stream_proofs`: `CallInv` says that a consumer is called once and that one at most
waits, in whose hand the generator is. `ShareInv` states the sharing element by
element (everything taken has one owner, each owner has it in order), from which
`ChunksShared` gets the sets. `EndInv` gives the only two reasons for the generator to be
finished, so that `EndSeesAll` holds although an end reaches consumers that never
received anything. `SoleInv` says that what nobody shares has been given to one, and
`AloneSeesAll` that a consumer which is the only one to be called and whose loop ends
got the stream exactly as it was sent, and only after the block was left.

Model-checked only: `CompileAssumption` and all liveness, which is out of the prover's
reach. Of `SignalServed` and `StopCompletes` (runner), `StopCompletes` (executor),
`DueTicks` and `RemindedInTheEnd` the safety half is proved; that the system comes to
the state of rest they speak of, or leaves the wait, needs the fairness of section 3
and is TLC's. The
properties that only the proofs state (`ServedAtRest`, `StopNeverStuck`, `EndExplained`,
`DueSeen`, `LimitUntilOverflow`, `CalledForEveryChange`, `BoundsSuffice`,
`RemindedAtRest`, `AloneSeesAll`) are defined in the proof modules, next to their
theorems.

## 5. Not modelled, and what is left

* `start()` during a `stop()`, two `stop()` at once, and `stop()` called by a routine:
  nothing in the code guards against them and nothing in the docs promises anything.
* A callback under two hashes of one emitter, and callers that modify the cached
  state in place: see the findings; the executor does neither.
* A state schema with a required field: the first `mutate_state` reads it before it
  can be written, and raises.
* The checkpointer, the execution of a routine as a LangGraph entrypoint, and livekit's
  sessions are libraries; what the code relies on is stated where it is used.
* Types, constants and the building of configurations keep no state and make no
  decision. The checks of signatures by the decorators are left out too.
* `basic_agent.py` and `multi_agent_conversation.py` are chats of language models, in which
  each turn starts the next; they add no operation and no shared state to what the
  modules above have. The queue of streams in `basic_voice_agent_v0.py` depends on
  when livekit gives up a turn.

Worth adding: Executor over RunnerSpec, if RunnerSpec is given the tasks of its routines.
