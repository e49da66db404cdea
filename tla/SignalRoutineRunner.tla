------------------------ MODULE SignalRoutineRunner ------------------------
(***************************************************************************)
(* One SignalRoutineRunner of livechain/graph/func/routine.py: its signal  *)
(* channel, its loop task, the tasks its strategy creates, start() and     *)
(* stop().  A signal is known by its arrival number: what a routine does   *)
(* with the signal is left open.  A runner that is called with a signal    *)
(* its schema rejects, or after its channel is closed, changes no state    *)
(* (it logs, or raises ChanClosed to the caller), so neither is a step.    *)
(***************************************************************************)
EXTENDS Integers, Sequences, FiniteSets

CONSTANTS Strategies,  \* the strategies a runner may be created with
          Outcomes,    \* how the body of a routine may end when not cancelled
          MaxSignals,  \* bound: signals accepted by the channel
          MaxCancels   \* bound: cancellations of the loop's task

Mode == {"Interrupt", "Parallel", "Queue", "Debounce"}

ASSUME RunnerAssumption ==
    /\ Strategies \subseteq Mode
    /\ Outcomes \subseteq {"ok", "error", "chanclosed"}
    /\ MaxSignals \in Nat
    /\ MaxCancels \in Nat

Signal == 1..MaxSignals
None == 0

\* The task that runs the routine on signal n, and (Debounce) the task that
\* sleeps before it.
Routine(n) == <<"routine", n>>
Timer(n) == <<"timer", n>>
Future == {"routine", "timer"} \X Signal

VARIABLES strategy,           \* _strategy, fixed at construction
          accepted,           \* number of signals the channel has accepted
          queue, closed,      \* _signal_ch
          status, asked, soon, callbacks,   \* the asyncio tasks
          loop,               \* where _routine_loop is suspended
          inHand,             \* signal taken by _handle_signal, not yet given a task
          waits,              \* futures the loop is waiting for
          exit,               \* why the loop ended
          current,            \* _current_task of Interrupt and Queue, by signal
          pending,            \* _pending_task of Debounce, by signal
          tracked,            \* _tasks of Parallel, _running_tasks of Debounce
          stopper,            \* the caller of stop()
          cancels             \* cancellations so far

INSTANCE AsyncTasks WITH Task <- Future
Ch == INSTANCE ChanSpec WITH maxsize <- 0, Sizes <- {0}, Value <- Signal

taskVars == <<status, asked, soon, callbacks>>
chanVars == <<accepted, queue, closed>>
loopVars == <<loop, inHand, waits, exit>>
ownVars == <<current, pending, tracked>>
envVars == <<stopper, cancels>>
vars == <<strategy, chanVars, taskVars, loopVars, ownVars, envVars>>

Init == /\ strategy \in Strategies
        /\ accepted = 0 /\ queue = <<>> /\ closed = FALSE
        /\ TasksInit
        /\ loop = "unstarted" /\ inHand = None /\ waits = {} /\ exit = "none"
        /\ current = None /\ pending = None /\ tracked = {}
        /\ stopper = "idle" /\ cancels = 0

-----------------------------------------------------------------------------
(* Calls of the runner, and what the loop does between its awaits.         *)

\* runner(signal): the channel is unbounded, so send() never suspends.
Send == /\ accepted < MaxSignals
        /\ Ch!Put(accepted + 1)
        /\ accepted' = accepted + 1
        /\ UNCHANGED <<strategy, taskVars, loopVars, ownVars, envVars>>

\* The task that runs start() gets its first step and creates the loop.
Start == /\ loop = "unstarted"
         /\ loop' = "recv"
         /\ UNCHANGED <<strategy, chanVars, taskVars, inHand, waits, exit, ownVars, envVars>>

CancelAndWait(F) == RequestCancel(F) /\ waits' = F

\* A strategy gives the signal its task at once and goes back to recv().
Resume == loop' = "recv" /\ inHand' = None /\ waits' = {}

\* Interrupt that does not wait for the cancelled task to end.
InterruptWithoutWait(n) ==
    /\ strategy = "Interrupt"
    /\ Create(Routine(n)) /\ current' = n
    /\ asked' = asked \cup {t \in {Routine(current)} \cap Future : Live(t)}
    /\ Resume
    /\ UNCHANGED <<callbacks, pending, tracked>>

InterruptHandle(n) ==
    /\ strategy = "Interrupt"
    /\ \/ /\ current = None
          /\ Create(Routine(n)) /\ current' = n
          /\ Resume
          /\ UNCHANGED asked
       \/ /\ current # None
          /\ CancelAndWait({Routine(current)})
          /\ loop' = "superseding" /\ inHand' = n
          /\ UNCHANGED <<status, soon, current>>
    /\ UNCHANGED <<callbacks, pending, tracked>>

ParallelHandle(n) ==
    /\ strategy = "Parallel"
    /\ Create(Routine(n))
    /\ tracked' = tracked \cup {n}
    /\ callbacks' = callbacks \cup {Routine(n)}
    /\ Resume
    /\ UNCHANGED <<asked, current, pending>>

QueueHandle(n) ==
    /\ strategy = "Queue"
    /\ Create(Routine(n)) /\ current' = n
    /\ loop' = "awaiting" /\ inHand' = None /\ waits' = {Routine(n)}
    /\ UNCHANGED <<asked, callbacks, pending, tracked>>

\* Debounce that forgets to cancel the timer it replaces.
DebounceWithoutCancel(n) ==
    /\ strategy = "Debounce"
    /\ Create(Timer(n)) /\ pending' = n
    /\ Resume
    /\ UNCHANGED <<asked, callbacks, current, tracked>>

\* Debounce that keeps a running timer and drops the newer signal.
DebounceKeepsFirst(n) ==
    /\ strategy = "Debounce"
    /\ \/ pending = None /\ Create(Timer(n)) /\ pending' = n
       \/ pending # None /\ UNCHANGED <<status, soon, pending>>
    /\ Resume
    /\ UNCHANGED <<asked, callbacks, current, tracked>>

DebounceHandle(n) ==
    /\ strategy = "Debounce"
    /\ \/ /\ pending = None
          /\ Create(Timer(n)) /\ pending' = n
          /\ Resume
          /\ UNCHANGED asked
       \/ /\ pending # None
          /\ CancelAndWait({Timer(pending)})
          /\ loop' = "superseding" /\ inHand' = n
          /\ UNCHANGED <<status, soon, pending>>
    /\ UNCHANGED <<callbacks, current, tracked>>

\* The class create_runner chooses by the strategy has its own _handle_signal.
Handle(n) ==
    InterruptHandle(n) \/ ParallelHandle(n) \/ QueueHandle(n) \/ DebounceHandle(n)

\* recv() returns a signal and _handle_signal runs up to its first suspension.
Receive ==
    /\ loop = "recv"
    /\ \E n \in Signal : Ch!Take(n) /\ Handle(n)
    /\ UNCHANGED <<strategy, accepted, exit, envVars>>

\* The superseded task or timer has ended: the signal in hand gets its own.
Supersede ==
    /\ loop = "superseding"
    /\ Settled(waits)
    /\ \/ /\ strategy = "Interrupt"
          /\ Create(Routine(inHand)) /\ current' = inHand /\ UNCHANGED pending
       \/ /\ strategy = "Debounce"
          /\ Create(Timer(inHand)) /\ pending' = inHand /\ UNCHANGED current
    /\ Resume
    /\ UNCHANGED <<strategy, chanVars, asked, callbacks, exit, tracked, envVars>>

-----------------------------------------------------------------------------
(* The end of the loop.                                                    *)

\* Cleanup of Debounce that cancels the running tasks and not the timer.
OwnedWithoutPending ==
    {Routine(n) : n \in tracked \cup ({current} \ {None})}

\* Cleanup that does not leave out the attributes that are None.
OwnedWithNone == {Routine(n) : n \in tracked \cup {current}} \cup {Timer(pending)}

\* What _handle_cleanup of the runner's strategy cancels and waits for: each
\* strategy uses one of the attributes, Debounce two, and leaves the others
\* as they were created.
Owned == {Routine(n) : n \in tracked \cup ({current} \ {None})}
            \cup {Timer(n) : n \in {pending} \ {None}}

BeginCleanup(why) ==
    /\ CancelAndWait(Owned)
    /\ loop' = "cleanup" /\ inHand' = None /\ exit' = why
    /\ UNCHANGED <<status, soon, callbacks>>

\* recv() raises ChanClosed: the channel is closed and drained.
EndOfChannel ==
    /\ loop = "recv" /\ closed /\ queue = <<>>
    /\ BeginCleanup("closed")
    /\ UNCHANGED <<strategy, chanVars, ownVars, envVars>>

\* Queue: "await self._current_task" returns, or raises what the task raised;
\* ChanClosed raised by the routine ends the loop like a closed channel does.
AwaitRoutine ==
    /\ loop = "awaiting"
    /\ Settled(waits)
    /\ LET end == status[Routine(current)] IN
       \/ /\ end = "ok"
          /\ Resume
          /\ UNCHANGED <<taskVars, exit>>
       \/ /\ end # "ok"
          /\ BeginCleanup(CASE end = "error" -> "error"
                            [] end = "chanclosed" -> "closed"
                            [] OTHER -> "cancelled")
    /\ UNCHANGED <<strategy, chanVars, ownVars, envVars>>

FinishCleanup ==
    /\ loop = "cleanup"
    /\ Settled(waits)
    /\ loop' = "done" /\ waits' = {}
    /\ current' = None /\ pending' = None /\ tracked' = {}
    /\ UNCHANGED <<strategy, chanVars, taskVars, inHand, exit, envVars>>

\* The loop's task is cancelled (through start(), or through a stop() that is
\* itself cancelled), and CancelledError is raised where it is suspended.
CancelLoop ==
    /\ cancels < MaxCancels
    /\ cancels' = cancels + 1
    /\ \/ /\ loop = "unstarted"
          /\ loop' = "done" /\ exit' = "unstarted"
          /\ UNCHANGED <<taskVars, inHand, waits>>
       \/ /\ loop \in {"recv", "superseding"}
          /\ BeginCleanup("cancelled")
       \/ /\ loop = "awaiting"       \* passed on to the task awaited, if it can be
          /\ IF Live(Routine(current))
             THEN /\ RequestCancel({Routine(current)})
                  /\ UNCHANGED <<status, soon, callbacks, loopVars>>
             ELSE BeginCleanup("cancelled")
       \/ /\ loop = "cleanup" /\ waits # {}   \* the wait is abandoned, the tasks stay asked
          /\ loop' = "done" /\ waits' = {} /\ exit' = "aborted"
          /\ UNCHANGED <<taskVars, inHand>>
    /\ UNCHANGED <<strategy, chanVars, ownVars, stopper>>

-----------------------------------------------------------------------------
(* The tasks the strategies create, and the caller of stop().              *)

TaskFirstStep == FirstStep /\ UNCHANGED <<strategy, chanVars, loopVars, ownVars, envVars>>

RoutineEnd(n) ==
    /\ \E outcome \in Outcomes \cup {"cancelled"} : End(Routine(n), outcome)
    /\ UNCHANGED <<strategy, chanVars, loopVars, ownVars, envVars>>

\* _start_pending_task after its sleep: the routine's task is created.
TimerFire(n) ==
    /\ status[Timer(n)] = "running" /\ Timer(n) \notin asked
    /\ status' = [status EXCEPT ![Timer(n)] = "ok", ![Routine(n)] = "ready"]
    /\ soon' = Append(soon, Routine(n))
    /\ pending' = None
    /\ tracked' = tracked \cup {n}
    /\ callbacks' = callbacks \cup {Routine(n)}
    /\ UNCHANGED <<strategy, chanVars, asked, loopVars, current, envVars>>

TimerCancelled(n) ==
    /\ End(Timer(n), "cancelled")
    /\ UNCHANGED <<strategy, chanVars, loopVars, ownVars, envVars>>

\* _on_task_done of Parallel and Debounce.
OnTaskDone(n) ==
    /\ Routine(n) \in callbacks /\ ~Live(Routine(n))
    /\ callbacks' = callbacks \ {Routine(n)}
    /\ tracked' = tracked \ {n}
    /\ UNCHANGED <<strategy, chanVars, status, asked, soon, loopVars, current, pending, envVars>>

\* stop() that forgets to close the channel.
StopWithoutClose ==
    /\ stopper = "idle"
    /\ stopper' = IF loop = "unstarted" \/ exit = "unstarted" THEN "returned" ELSE "waiting"
    /\ UNCHANGED <<strategy, chanVars, taskVars, loopVars, ownVars, cancels>>

\* stop(): nothing to wait for when start() has not created the loop.
Stop == /\ stopper = "idle"
        /\ Ch!Close
        /\ stopper' = IF loop = "unstarted" \/ exit = "unstarted" THEN "returned" ELSE "waiting"
        /\ UNCHANGED <<strategy, accepted, taskVars, loopVars, ownVars, cancels>>

\* "await self._routine_task" returns, or raises what the loop raised.
StopReturn ==
    /\ stopper = "waiting" /\ loop = "done"
    /\ stopper' = IF exit = "closed" THEN "returned" ELSE "raised"
    /\ UNCHANGED <<strategy, chanVars, taskVars, loopVars, ownVars, cancels>>

LoopStep == Start \/ Receive \/ Supersede \/ AwaitRoutine \/ EndOfChannel \/ FinishCleanup

Next == \/ Send \/ LoopStep \/ CancelLoop \/ TaskFirstStep
        \/ \E n \in Signal : RoutineEnd(n) \/ TimerFire(n) \/ TimerCancelled(n) \/ OnTaskDone(n)
        \/ Stop \/ StopReturn

Spec == Init /\ [][Next]_vars

\* The event loop runs whatever is ready, and sleeps end.  A routine need not
\* end by itself, but one that is asked to does (step() re-raises
\* CancelledError); only Queue waits for routines nobody asked.
Fairness ==
    /\ WF_vars(LoopStep)
    /\ WF_vars(TaskFirstStep)
    /\ WF_vars(StopReturn)
    /\ \A n \in Signal :
          /\ WF_vars(TimerFire(n)) /\ WF_vars(TimerCancelled(n)) /\ WF_vars(OnTaskDone(n))
          /\ WF_vars(RoutineEnd(n) /\ (Routine(n) \in asked \/ strategy = "Queue"))

FairSpec == Spec /\ Fairness

-----------------------------------------------------------------------------
(* Properties.                                                             *)

TypeOK ==
    /\ strategy \in Strategies
    /\ accepted \in 0..MaxSignals /\ queue \in Seq(Signal) /\ closed \in BOOLEAN
    /\ TasksTypeOK
    /\ loop \in {"unstarted", "recv", "superseding", "awaiting", "cleanup", "done"}
    /\ inHand \in Signal \cup {None} /\ waits \subseteq Future
    /\ exit \in {"none", "closed", "error", "cancelled", "aborted", "unstarted"}
    /\ current \in Signal \cup {None} /\ pending \in Signal \cup {None}
    /\ tracked \subseteq Signal
    /\ stopper \in {"idle", "waiting", "returned", "raised"}
    /\ cancels \in 0..MaxCancels

\* Interrupt and Queue never have two routine tasks alive at once: the next
\* one is created only after the previous one has really ended, even when it
\* takes its time to react to the cancellation or swallows it.
OneRoutineAtATime ==
    strategy \in {"Interrupt", "Queue"} =>
        \A m, n \in Signal : Live(Routine(m)) /\ Live(Routine(n)) => m = n

\* When the loop has ended, no task or timer it created is left alive; if the
\* cleanup was cancelled while it waited for them, they have been cancelled too.
NothingUnattended ==
    loop = "done" => \A f \in Future : Live(f) => exit = "aborted" /\ f \in asked

\* _on_task_done always finds its task in the set it removes it from, so
\* set.remove never raises KeyError: cleanup clears the set only after the
\* callbacks of the tasks it waited for have run.
CallbackFindsTask == \A n \in Signal : Routine(n) \in callbacks => n \in tracked

\* Queue: when the loop ends because the channel was closed, the backlog has
\* been worked off, every accepted signal by a routine that ran to its end.
QueueDrainsBacklog ==
    strategy = "Queue" /\ exit = "closed" /\ (\A n \in Signal : status[Routine(n)] # "chanclosed")
        => \A n \in 1..accepted : status[Routine(n)] = "ok"

\* The loop takes a normal exit only because its own channel was closed.
NormalExitMeansClosed == exit = "closed" => closed

\* What is seen of the runner from outside.
taken == accepted - Len(queue)
result == [n \in Signal |-> IF Live(Routine(n)) THEN "alive" ELSE status[Routine(n)]]
phase == IF loop = "done" THEN "over" ELSE IF loop = "cleanup" THEN "ending" ELSE "serving"

\* Each strategy keeps its promise on which signals get a routine, in which order
\* and next to which others, and on how the runner ends.
RS == INSTANCE RunnerSpec WITH asked <- {n \in Signal : Routine(n) \in asked}
ImplementsRunnerSpec == RS!Spec

\* stop() does not wait for ever, although the routines it waits for may
\* never end by themselves (in Queue mode they have to).
StopCompletes == stopper = "waiting" ~> stopper \in {"returned", "raised"}

Started(n) == status[Routine(n)] \in {"running", "ok", "error", "chanclosed", "cancelled"}

\* The body of a routine begins only after the bodies of all earlier signals that ever
\* will, under every strategy: through bursts, the cancel-and-wait of Interrupt and
\* the timers of Debounce, create_task keeps the order in which the signals arrived.
BeginInOrder ==
    [][\A m, n \in Signal : Started(m)' /\ ~Started(m) /\ Started(n) => n < m]_vars

\* No accepted signal waits for ever: its routine begins, or the loop ends;
\* Interrupt and Debounce may skip it, but only for a newer one.
SignalServed ==
    \A n \in Signal :
        accepted >= n ~> \/ Started(n) \/ exit # "none"
                         \/ strategy \in {"Interrupt", "Debounce"} /\ accepted > n
=============================================================================
