-------------------------------- MODULE Cron --------------------------------
(***************************************************************************)
(* CronJobScheduler of livechain/graph/cron.py: the heap of pending ticks, *)
(* the wall clock it compares them with, and the three kinds of cron       *)
(* expression.  Time is a whole number that jumps forward by any amount,   *)
(* between any two steps.  A scheduler without jobs ends at once and has   *)
(* no steps.                                                               *)
(***************************************************************************)
EXTENDS Integers, Sequences, FiniteSets

CONSTANTS Job,        \* the cron jobs of the workflow
          NoJob,      \* what is no job
          Expr,       \* the cron expression of each job
          Skew,       \* how much too early asyncio.sleep may return, in wall time
          MaxClock,   \* bound: the clock
          MaxCancels  \* bound: cancellations of the scheduler's task

Seconds == Nat \ {0}
Interval == [kind : {"interval"}, seconds : Seconds]
Linear == [kind : {"linear"}, base : Nat, step : Seconds, max : Seconds]
\* powers: exponent ** 0, exponent ** 1, ... as long as they are floats; the
\* power after the last raises OverflowError.
Exp == [kind : {"exp"}, base : Seconds, powers : Seq(Seconds), max : Seconds]

ASSUME CronAssumption ==
    /\ Job # {} /\ NoJob \notin Job
    /\ \A j \in Job : Expr[j] \in Interval \/ Expr[j] \in Linear \/ Expr[j] \in Exp
    /\ Skew \in Nat
    /\ MaxClock \in Nat
    /\ MaxCancels \in Nat

VARIABLES clock,    \* time.time()
          count,    \* calls of next_tick, _count of Linear and Exp; lives with the
                    \* expression, not with the scheduler
          heap,     \* the pending ticks
          phase,    \* where schedule() is
          wake,     \* the tick it sleeps for
          hand,     \* the job it has yielded to the executor
          last,     \* history: when each job last ticked, or the schedule began
          cancels   \* cancellations so far

vars == <<clock, count, heap, phase, wake, hand, last, cancels>>

-----------------------------------------------------------------------------
(* The expressions.                                                        *)

Smaller(a, b) == IF a <= b THEN a ELSE b

\* Interval, and Linear and Exp before their limit.
Unlimited(j, n) ==
    LET e == Expr[j] IN
    IF e.kind = "interval" THEN e.seconds
    ELSE IF e.kind = "linear" THEN e.base + e.step * n
    ELSE e.base * e.powers[n + 1]

\* Linear with the sign of its step wrong.
DelayShrinking(j, n) ==
    LET e == Expr[j] IN
    IF e.kind = "interval" THEN Unlimited(j, n)
    ELSE IF e.kind = "linear" THEN Smaller(e.base - e.step * n, e.max)
    ELSE Smaller(Unlimited(j, n), e.max)

\* What next_tick adds to now() on its call number n, counted from 0.
Delay(j, n) == IF Expr[j].kind = "interval" THEN Unlimited(j, n)
               ELSE Smaller(Unlimited(j, n), Expr[j].max)

\* The power is taken before it is limited.
Raises(j) == Expr[j].kind = "exp" /\ count[j] >= Len(Expr[j].powers)

NextTick(j) == [due |-> clock + Delay(j, count[j]), job |-> j]

-----------------------------------------------------------------------------
(* schedule().                                                             *)

Init == /\ clock = 0
        /\ count = [j \in Job |-> 0]
        /\ heap = {}
        /\ phase = "idle" /\ wake = 0 /\ hand = NoJob
        /\ last = [j \in Job |-> 0]
        /\ cancels = 0

\* Everything up to the loop.  An expression that raises ends the task; those
\* before it in the dictionary have been counted.
Begin ==
    /\ phase = "idle"
    /\ \/ /\ \A j \in Job : ~Raises(j)
          /\ heap' = {NextTick(j) : j \in Job}
          /\ count' = [j \in Job |-> count[j] + 1]
          /\ last' = [j \in Job |-> clock]
          /\ phase' = "looking"
       \/ /\ \E j \in Job : Raises(j)
          /\ \E before \in SUBSET {j \in Job : ~Raises(j)} :
                count' = [j \in Job |-> IF j \in before THEN count[j] + 1 ELSE count[j]]
          /\ phase' = "dead"
          /\ UNCHANGED <<heap, last>>
    /\ UNCHANGED <<clock, wake, hand, cancels>>

\* A list that was never made a heap: its first entry is any of them.
AnyEntry(t) == t \in heap

\* cron_job_pq[0]; jobs due at the same time come in the order of their ids,
\* which is arbitrary.
Earliest(t) == t \in heap /\ \A u \in heap : t.due <= u.due

\* The check left to asyncio.sleep alone.
YieldAfterSleep ==
    /\ phase = "looking"
    /\ \E t \in heap :
          /\ Earliest(t) /\ t.due <= clock + Skew
          /\ heap' = heap \ {t}
          /\ hand' = t.job
          /\ last' = [last EXCEPT ![t.job] = clock]
    /\ phase' = "yielded"
    /\ UNCHANGED <<clock, count, wake, cancels>>

\* The job yielded and left in the heap.
YieldWithoutPop ==
    /\ phase = "looking"
    /\ \E t \in heap :
          /\ Earliest(t) /\ t.due <= clock
          /\ hand' = t.job
          /\ last' = [last EXCEPT ![t.job] = clock]
    /\ phase' = "yielded"
    /\ UNCHANGED <<clock, count, heap, wake, cancels>>

Yield ==
    /\ phase = "looking"
    /\ \E t \in heap :
          /\ Earliest(t) /\ t.due <= clock
          /\ heap' = heap \ {t}
          /\ hand' = t.job
          /\ last' = [last EXCEPT ![t.job] = clock]
    /\ phase' = "yielded"
    /\ UNCHANGED <<clock, count, wake, cancels>>

\* The executor asks for the next job: the one it had is scheduled again.
Push ==
    /\ phase = "yielded"
    /\ \/ /\ ~Raises(hand)
          /\ heap' = heap \cup {NextTick(hand)}
          /\ count' = [count EXCEPT ![hand] = @ + 1]
          /\ phase' = "looking"
       \/ /\ Raises(hand)
          /\ phase' = "dead"
          /\ UNCHANGED <<heap, count>>
    /\ hand' = NoJob
    /\ UNCHANGED <<clock, wake, last, cancels>>

\* Sleeping until everything is due.
SleepForAll ==
    /\ phase = "looking"
    /\ \A t \in heap : Earliest(t) => t.due > clock
    /\ wake' = (CHOOSE t \in heap : \A u \in heap : u.due <= t.due).due
    /\ phase' = "asleep"
    /\ UNCHANGED <<clock, count, heap, hand, last, cancels>>

Sleep ==
    /\ phase = "looking"
    /\ \E t \in heap : Earliest(t) /\ t.due > clock /\ wake' = t.due
    /\ phase' = "asleep"
    /\ UNCHANGED <<clock, count, heap, hand, last, cancels>>

\* asyncio.sleep measures another clock and returns late, or a little early.
WakeUp ==
    /\ phase = "asleep" /\ clock + Skew >= wake
    /\ phase' = "looking"
    /\ UNCHANGED <<clock, count, heap, wake, hand, last, cancels>>

\* The executor stops and its next start schedules the same expressions anew.  The
\* generator may be left at its yield too, though not by the executor, which
\* publishes there without an await.
Cancel ==
    /\ phase \in {"asleep", "yielded"} /\ cancels < MaxCancels
    /\ phase' = "idle" /\ heap' = {} /\ hand' = NoJob
    /\ cancels' = cancels + 1
    /\ UNCHANGED <<clock, count, wake, last>>

Advance ==
    /\ \E t \in clock + 1 .. MaxClock : clock' = t
    /\ UNCHANGED <<count, heap, phase, wake, hand, last, cancels>>

SchedulerStep == Yield \/ Push \/ Sleep \/ WakeUp

Next == Begin \/ SchedulerStep \/ Cancel \/ Advance

Spec == Init /\ [][Next]_vars

\* The event loop runs the scheduler when it is ready; nothing is assumed of the
\* clock.
FairSpec == Spec /\ WF_vars(SchedulerStep)

-----------------------------------------------------------------------------
(* Properties.                                                             *)

Tick == [due : Nat, job : Job]

TypeOK ==
    /\ clock \in Nat /\ wake \in Nat
    /\ count \in [Job -> Nat] /\ last \in [Job -> Nat]
    /\ heap \subseteq Tick
    /\ phase \in {"idle", "looking", "yielded", "asleep", "dead"}
    /\ hand \in Job \cup {NoJob}
    /\ cancels \in 0..MaxCancels

Pending(j) == {t \in heap : t.job = j}

\* While the scheduler lives every job has exactly one next tick, or is in
\* the executor's hand: none is lost and none is scheduled twice, whenever the
\* task is cancelled and begun again.
OneEntryPerJob ==
    phase \in {"looking", "yielded", "asleep"} =>
        \A j \in Job : IF hand = j THEN Pending(j) = {}
                       ELSE \E t \in heap : Pending(j) = {t}

\* A pending tick is never further away than the job's limit allows.
WithinMaximum ==
    \A t \in heap : Expr[t.job].kind # "interval" => t.due <= clock + Expr[t.job].max

Ticks(j) == hand # j /\ hand' = j

\* Two ticks of a job, and the beginning and the first tick, are never closer
\* than the delay the expression asked for: no tick is early, and a scheduler
\* that wakes up late does not make up for it by a burst.
NoEarlyTick ==
    [][\A j \in Job : Ticks(j) => clock >= last[j] + Delay(j, count[j] - 1)]_vars

\* A job that has become due is not overtaken twice by the same other job,
\* however long the executor takes over each of them.
NoOvertaking ==
    [][\A j \in Job : Ticks(j) => \A t \in heap : t.job # j => t.due >= last[j]]_vars

\* A job that is due ticks, unless the scheduler is cancelled or dies.
DueTicks ==
    \A j \in Job :
        (\E t \in Pending(j) : t.due <= clock) ~> hand = j \/ phase \in {"idle", "dead"}

\* A job with a limit (Linear or Exp) always has its next tick within it, as "max
\* interval between ticks in seconds" says.
NextTickWithinMaximum ==
    phase # "idle" =>
        \A j \in Job : Expr[j].kind # "interval" =>
            hand = j \/ \E t \in Pending(j) : t.due <= clock + Expr[j].max
=============================================================================
