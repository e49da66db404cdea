----------------------------- MODULE Cron_proofs -----------------------------
(***************************************************************************)
(* What Cron.tla promises, for every set of jobs and of expressions, every *)
(* bound and every behaviour of the clock.                                 *)
(***************************************************************************)
EXTENDS Cron, FiniteSetTheorems, TLAPS

-----------------------------------------------------------------------------
(* The inductive invariant.                                                *)

\* The executor holds a job exactly while schedule() is at its yield.
HandInv ==
    /\ hand \in Job <=> phase = "yielded"
    /\ phase = "idle" => heap = {}

\* A pending tick is as far from the last one as its delay demands; the delay is
\* the one of the latest call of next_tick.
SpacingInv ==
    /\ \A j \in Job : last[j] <= clock
    /\ \A t \in heap : /\ Delay(t.job, count[t.job] - 1) \in Nat
                       /\ t.due >= last[t.job] + Delay(t.job, count[t.job] - 1)

IInv == TypeOK /\ HandInv /\ OneEntryPerJob /\ WithinMaximum /\ SpacingInv

-----------------------------------------------------------------------------
(* The expressions.                                                        *)

\* A delay that does not raise is a natural number, and within the limit of the
\* expressions that have one.
LEMMA DelayBounds ==
    ASSUME NEW j \in Job, NEW n \in Nat,
           Expr[j].kind = "exp" => n < Len(Expr[j].powers)
    PROVE  /\ Delay(j, n) \in Nat
           /\ Expr[j].kind # "interval" => Delay(j, n) <= Expr[j].max /\ Expr[j].max \in Nat
<1>1. CASE Expr[j] \in Interval
    BY <1>1 DEF Delay, Unlimited, Interval, Seconds
<1>2. CASE Expr[j] \in Linear
    <2>1. Expr[j].base \in Nat /\ Expr[j].step \in Nat /\ Expr[j].max \in Nat
        BY <1>2 DEF Linear, Seconds
    <2>2. Expr[j].step * n \in Nat
        BY <2>1
    <2>3. Delay(j, n) = Smaller(Expr[j].base + Expr[j].step * n, Expr[j].max)
        BY <1>2 DEF Delay, Unlimited, Linear
    <2> QED BY <2>1, <2>2, <2>3 DEF Smaller
<1>3. CASE Expr[j] \in Exp
    <2>1. Expr[j].base \in Nat /\ Expr[j].powers \in Seq(Nat) /\ Expr[j].max \in Nat
        BY <1>3 DEF Exp, Seconds
    <2>2. Expr[j].kind = "exp"
        BY <1>3 DEF Exp
    <2>3. Expr[j].powers[n + 1] \in Nat
        BY <2>1, <2>2
    <2>4. Expr[j].base * Expr[j].powers[n + 1] \in Nat
        BY <2>1, <2>3
    <2>5. Delay(j, n) = Smaller(Expr[j].base * Expr[j].powers[n + 1], Expr[j].max)
        BY <2>2 DEF Delay, Unlimited
    <2> QED BY <2>1, <2>4, <2>5 DEF Smaller
<1> QED BY <1>1, <1>2, <1>3, CronAssumption

\* The tick that next_tick returns: later than now by its delay, and within the
\* limit.
LEMMA NextTickBounds ==
    ASSUME TypeOK, NEW j \in Job, ~Raises(j)
    PROVE  /\ NextTick(j) \in Tick
           /\ NextTick(j).job = j
           /\ Delay(j, count[j]) \in Nat
           /\ NextTick(j).due = clock + Delay(j, count[j])
           /\ Expr[j].kind # "interval" => NextTick(j).due <= clock + Expr[j].max
<1>1. count[j] \in Nat /\ clock \in Nat
    BY DEF TypeOK
<1>2. ~(Expr[j].kind = "exp" /\ count[j] >= Len(Expr[j].powers))
    BY DEF Raises
<1>3. Expr[j].kind = "exp" => Len(Expr[j].powers) \in Nat
    BY CronAssumption DEF Exp, Interval, Linear
<1>4. Expr[j].kind = "exp" => count[j] < Len(Expr[j].powers)
    BY <1>1, <1>2, <1>3
<1>5. /\ Delay(j, count[j]) \in Nat
      /\ Expr[j].kind # "interval" => Delay(j, count[j]) <= Expr[j].max /\ Expr[j].max \in Nat
    BY <1>1, <1>4, DelayBounds
<1>6. NextTick(j) = [due |-> clock + Delay(j, count[j]), job |-> j]
    BY DEF NextTick
<1>7. NextTick(j).job = j /\ NextTick(j).due = clock + Delay(j, count[j])
    BY <1>6
<1>8. NextTick(j) \in Tick
    BY <1>1, <1>5, <1>6 DEF Tick
<1> QED BY <1>1, <1>5, <1>7, <1>8

-----------------------------------------------------------------------------
(* The invariant is inductive: one lemma for each action that changes more *)
(* than the clock and the phase.                                           *)

LEMMA InitInv == Init => IInv
BY CronAssumption
   DEF Init, IInv, TypeOK, HandInv, OneEntryPerJob, WithinMaximum, SpacingInv, Pending, Tick

LEMMA BeginInv == ASSUME IInv, Begin PROVE IInv'
<1> USE CronAssumption
<1>1. /\ TypeOK
      /\ clock \in Nat /\ count \in [Job -> Nat]
      /\ phase = "idle" /\ heap = {} /\ hand = NoJob
    BY DEF IInv, TypeOK, HandInv, Begin
<1>2. clock' = clock /\ wake' = wake /\ hand' = hand /\ cancels' = cancels
    BY DEF Begin
<1>3. CASE /\ \A j \in Job : ~Raises(j)
           /\ heap' = {NextTick(j) : j \in Job}
           /\ count' = [j \in Job |-> count[j] + 1]
           /\ last' = [j \in Job |-> clock]
           /\ phase' = "looking"
    <2>1. \A j \in Job : /\ NextTick(j) \in Tick /\ NextTick(j).job = j
                         /\ Delay(j, count[j]) \in Nat
                         /\ NextTick(j).due = clock + Delay(j, count[j])
                         /\ Expr[j].kind # "interval" => NextTick(j).due <= clock + Expr[j].max
        BY <1>1, <1>3, NextTickBounds
    <2>2. TypeOK'
        BY <1>1, <1>2, <1>3, <2>1 DEF IInv, TypeOK
    <2>3. HandInv'
        BY <1>1, <1>2, <1>3 DEF HandInv
    <2>4. OneEntryPerJob'
        <3>1. \A j \in Job : Pending(j)' = {NextTick(j)} /\ NextTick(j) \in heap'
            BY <1>3, <2>1 DEF Pending
        <3> QED BY <1>1, <1>2, <3>1 DEF OneEntryPerJob
    <2>5. WithinMaximum'
        BY <1>2, <1>3, <2>1 DEF WithinMaximum
    <2>6. SpacingInv'
        <3>1. \A j \in Job : count'[j] - 1 = count[j] /\ last'[j] = clock
            BY <1>1, <1>3
        <3> QED BY <1>1, <1>2, <1>3, <2>1, <3>1 DEF SpacingInv
    <2> QED BY <2>2, <2>3, <2>4, <2>5, <2>6 DEF IInv
<1>4. CASE /\ \E before \in SUBSET {j \in Job : ~Raises(j)} :
                 count' = [j \in Job |-> IF j \in before THEN count[j] + 1 ELSE count[j]]
           /\ phase' = "dead"
           /\ UNCHANGED <<heap, last>>
    <2>1. count' \in [Job -> Nat]
        BY <1>1, <1>4
    <2>2. TypeOK'
        BY <1>1, <1>2, <1>4, <2>1 DEF TypeOK
    <2> QED BY <1>1, <1>2, <1>4, <2>2
            DEF IInv, HandInv, OneEntryPerJob, WithinMaximum, SpacingInv
<1> QED BY <1>3, <1>4 DEF Begin

LEMMA YieldInv == ASSUME IInv, Yield PROVE IInv'
<1> USE CronAssumption
<1>1. PICK t \in heap : /\ Earliest(t) /\ t.due <= clock
                        /\ heap' = heap \ {t}
                        /\ hand' = t.job
                        /\ last' = [last EXCEPT ![t.job] = clock]
    BY DEF Yield
<1>2. /\ phase = "looking" /\ phase' = "yielded"
      /\ UNCHANGED <<clock, count, wake, cancels>>
    BY DEF Yield
<1>3. /\ t \in Tick /\ t.job \in Job /\ hand = NoJob
      /\ clock \in Nat /\ last \in [Job -> Nat]
    BY <1>2 DEF IInv, TypeOK, HandInv, Tick
<1>4. TypeOK'
    BY <1>1, <1>2, <1>3 DEF IInv, TypeOK
<1>5. HandInv'
    BY <1>1, <1>2, <1>3 DEF HandInv
<1>6. \A j \in Job : \E u \in heap : Pending(j) = {u}
    BY <1>2, <1>3 DEF IInv, OneEntryPerJob
<1>7. OneEntryPerJob'
    <2>1. Pending(t.job)' = {}
        BY <1>1, <1>3, <1>6 DEF Pending
    <2>2. \A j \in Job \ {t.job} : Pending(j)' = Pending(j) /\ Pending(j) \subseteq heap'
        BY <1>1 DEF Pending
    <2> QED BY <1>1, <1>3, <1>6, <2>1, <2>2 DEF OneEntryPerJob
<1>8. WithinMaximum'
    BY <1>1, <1>2 DEF IInv, WithinMaximum
<1>9. \A u \in heap' : u.job # t.job /\ u.job \in Job
    BY <1>1, <1>3, <1>6 DEF Pending, IInv, TypeOK, Tick
<1>10. SpacingInv'
    BY <1>1, <1>2, <1>3, <1>9 DEF IInv, SpacingInv
<1> QED BY <1>4, <1>5, <1>7, <1>8, <1>10 DEF IInv

LEMMA PushInv == ASSUME IInv, Push PROVE IInv'
<1> USE CronAssumption
<1>1. /\ TypeOK /\ phase = "yielded" /\ hand \in Job
      /\ clock \in Nat /\ count \in [Job -> Nat]
    BY DEF IInv, TypeOK, HandInv, Push
<1>2. hand' = NoJob /\ UNCHANGED <<clock, wake, last, cancels>>
    BY DEF Push
<1>3. CASE /\ ~Raises(hand)
           /\ heap' = heap \cup {NextTick(hand)}
           /\ count' = [count EXCEPT ![hand] = @ + 1]
           /\ phase' = "looking"
    <2>1. /\ NextTick(hand) \in Tick /\ NextTick(hand).job = hand
          /\ Delay(hand, count[hand]) \in Nat
          /\ NextTick(hand).due = clock + Delay(hand, count[hand])
          /\ Expr[hand].kind # "interval" => NextTick(hand).due <= clock + Expr[hand].max
        BY <1>1, <1>3, NextTickBounds
    <2>2. TypeOK'
        BY <1>1, <1>2, <1>3, <2>1 DEF TypeOK
    <2>3. HandInv'
        BY <1>2, <1>3 DEF HandInv
    <2>4. /\ Pending(hand) = {}
          /\ \A j \in Job \ {hand} : \E u \in heap : Pending(j) = {u}
        BY <1>1 DEF IInv, OneEntryPerJob
    <2>5. OneEntryPerJob'
        <3>1. \A j \in Job : j = hand => Pending(j)' = {NextTick(hand)}
            BY <1>3, <2>1, <2>4 DEF Pending
        <3>2. NextTick(hand) \in heap'
            BY <1>3
        <3>3. \A j \in Job \ {hand} : Pending(j)' = Pending(j)
            BY <1>3, <2>1 DEF Pending
        <3>4. \A j \in Job \ {hand} : \E u \in heap' : Pending(j)' = {u}
            BY <1>3, <2>4, <3>3
        <3>5. hand' \notin Job
            BY <1>2
        <3> QED BY <3>1, <3>2, <3>4, <3>5 DEF OneEntryPerJob
    <2>6. WithinMaximum'
        BY <1>2, <1>3, <2>1 DEF IInv, WithinMaximum
    <2>7. \A u \in heap : u.job # hand /\ u.job \in Job
        BY <1>1, <2>4 DEF Pending, TypeOK, Tick
    <2>8. SpacingInv'
        <3>1. count'[hand] - 1 = count[hand] /\ \A j \in Job \ {hand} : count'[j] = count[j]
            BY <1>1, <1>3
        <3>2. last[hand] <= clock /\ last[hand] \in Nat
            BY <1>1 DEF IInv, SpacingInv, TypeOK
        <3>3. \A u \in heap : /\ Delay(u.job, count'[u.job] - 1) \in Nat
                              /\ u.due >= last[u.job] + Delay(u.job, count'[u.job] - 1)
            BY <2>7, <3>1 DEF IInv, SpacingInv
        <3>4. NextTick(hand).due >= last[hand] + Delay(hand, count[hand])
            BY <1>1, <2>1, <3>2
        <3>5. \A u \in heap' : /\ Delay(u.job, count'[u.job] - 1) \in Nat
                               /\ u.due >= last[u.job] + Delay(u.job, count'[u.job] - 1)
            BY <1>3, <2>1, <3>1, <3>3, <3>4
        <3> QED BY <1>2, <3>5 DEF IInv, SpacingInv
    <2> QED BY <2>2, <2>3, <2>5, <2>6, <2>8 DEF IInv
<1>4. CASE Raises(hand) /\ phase' = "dead" /\ UNCHANGED <<heap, count>>
    BY <1>1, <1>2, <1>4
       DEF IInv, TypeOK, HandInv, OneEntryPerJob, WithinMaximum, SpacingInv, Pending
<1> QED BY <1>3, <1>4 DEF Push

LEMMA NextInv == ASSUME IInv, [Next]_vars PROVE IInv'
<1> USE CronAssumption
<1>1. CASE Begin
    BY <1>1, BeginInv
<1>2. CASE Yield
    BY <1>2, YieldInv
<1>3. CASE Push
    BY <1>3, PushInv
<1>4. CASE Sleep
    BY <1>4 DEF Sleep, IInv, TypeOK, HandInv, OneEntryPerJob, WithinMaximum, SpacingInv, Pending, Tick
<1>5. CASE WakeUp
    BY <1>5 DEF WakeUp, IInv, TypeOK, HandInv, OneEntryPerJob, WithinMaximum, SpacingInv, Pending, Tick
<1>6. CASE Cancel
    BY <1>6 DEF Cancel, IInv, TypeOK, HandInv, OneEntryPerJob, WithinMaximum, SpacingInv
<1>7. CASE Advance
    <2>1. PICK now \in clock + 1 .. MaxClock : clock' = now
        BY <1>7 DEF Advance
    <2>2. clock \in Nat /\ clock' \in Nat /\ clock < clock'
        BY <2>1 DEF IInv, TypeOK
    <2>3. UNCHANGED <<count, heap, phase, wake, hand, last, cancels>>
        BY <1>7 DEF Advance
    <2>4. TypeOK' /\ HandInv' /\ OneEntryPerJob'
        BY <2>2, <2>3 DEF IInv, TypeOK, HandInv, OneEntryPerJob, Pending
    <2>5. WithinMaximum'
        <3>1. \A t \in heap : t.due \in Nat /\ t.job \in Job
            BY DEF IInv, TypeOK, Tick
        <3>2. \A j \in Job : Expr[j].kind # "interval" => Expr[j].max \in Nat
            BY DEF Interval, Linear, Exp, Seconds
        <3> QED BY <2>2, <2>3, <3>1, <3>2 DEF IInv, WithinMaximum
    <2>6. SpacingInv'
        BY <2>2, <2>3 DEF IInv, SpacingInv, TypeOK
    <2> QED BY <2>4, <2>5, <2>6 DEF IInv
<1>8. CASE UNCHANGED vars
    BY <1>8 DEF vars, IInv, TypeOK, HandInv, OneEntryPerJob, WithinMaximum, SpacingInv, Pending
<1> QED BY <1>1, <1>2, <1>3, <1>4, <1>5, <1>6, <1>7, <1>8 DEF Next, SchedulerStep

-----------------------------------------------------------------------------
(* The results.                                                            *)

\* The inductive invariant holds throughout.
THEOREM CronInvariant == Spec => []IInv
BY InitInv, NextInv, PTL DEF Spec

\* Every variable keeps its type, for expressions of any kind and length.
THEOREM TypeCorrect == Spec => []TypeOK
BY CronInvariant, PTL DEF IInv

\* Whatever ticks, sleeps and is cancelled, no job loses its next tick or gets a
\* second one.
THEOREM NoTickLost == Spec => []OneEntryPerJob
BY CronInvariant, PTL DEF IInv

\* No pending tick lies beyond the limit of its job.
THEOREM LimitKept == Spec => []WithinMaximum
BY CronInvariant, PTL DEF IInv

\* What a tick's step may rely on: it is the earliest pending one and due.
LEMMA TickStep ==
    ASSUME IInv, [Next]_vars, NEW j \in Job, Ticks(j)
    PROVE  \E t \in heap : t.job = j /\ Earliest(t) /\ t.due <= clock
<1>1. hand' = j /\ hand # j /\ NoJob # j
    BY CronAssumption DEF Ticks
<1>2. Yield
    BY <1>1 DEF Next, SchedulerStep, Begin, Push, Sleep, WakeUp, Cancel, Advance, vars
<1> QED BY <1>1, <1>2 DEF Yield

\* No tick comes before the delay its expression asked for has passed since the
\* last one, whatever asyncio.sleep and the clock do.
THEOREM TicksSpaced == Spec => NoEarlyTick
<1>1. ASSUME IInv, [Next]_vars, NEW j \in Job, Ticks(j)
      PROVE  clock >= last[j] + Delay(j, count[j] - 1)
    <2>1. PICK t \in heap : t.job = j /\ t.due <= clock
        BY <1>1, TickStep
    <2>2. /\ t.due \in Nat /\ clock \in Nat /\ last[j] \in Nat
          /\ Delay(j, count[j] - 1) \in Nat /\ t.due >= last[j] + Delay(j, count[j] - 1)
        BY <1>1, <2>1 DEF IInv, TypeOK, Tick, SpacingInv
    <2> QED BY <2>1, <2>2
<1>2. IInv /\ [Next]_vars => [\A j \in Job : Ticks(j) => clock >= last[j] + Delay(j, count[j] - 1)]_vars
    BY <1>1
<1> QED BY <1>2, CronInvariant, PTL DEF Spec, NoEarlyTick

\* A job that ticks leaves nothing behind it that was due before its last tick.
THEOREM TicksFair == Spec => NoOvertaking
<1>1. ASSUME IInv, [Next]_vars, NEW j \in Job, Ticks(j), NEW u \in heap
      PROVE  u.due >= last[j]
    <2>1. PICK t \in heap : t.job = j /\ Earliest(t)
        BY <1>1, TickStep
    <2>2. /\ t.due \in Nat /\ u.due \in Nat /\ last[j] \in Nat
          /\ Delay(j, count[j] - 1) \in Nat /\ t.due >= last[j] + Delay(j, count[j] - 1)
        BY <1>1, <2>1 DEF IInv, TypeOK, Tick, SpacingInv
    <2>3. t.due <= u.due
        BY <1>1, <2>1 DEF Earliest
    <2> QED BY <2>2, <2>3
<1>2. IInv /\ [Next]_vars =>
        [\A j \in Job : Ticks(j) => \A t \in heap : t.job # j => t.due >= last[j]]_vars
    BY <1>1
<1> QED BY <1>2, CronInvariant, PTL DEF Spec, NoOvertaking

-----------------------------------------------------------------------------
(* Due ticks and dead schedulers: what keeps a living scheduler from       *)
(* standing still, and what kills it.                                       *)

\* The scheduler sleeps for the earliest tick there is, and only an exponential
\* whose power is no float any more ends its task.
RestInv ==
    /\ phase = "asleep" => \E t \in heap : Earliest(t) /\ wake = t.due
    /\ phase = "dead" => \E j \in Job : Raises(j)

\* A scheduler that looks at its heap finds an earliest tick there, to yield or
\* to sleep for; a tick that is due is neither slept through nor overlooked.
\* This is what the fairness of DueTicks rests on, left to the steps alone.
DueSeen ==
    /\ phase = "looking" => \E u \in heap : Earliest(u)
    /\ \A t \in heap : t.due <= clock =>
          /\ phase = "looking" => \A u \in heap : Earliest(u) => u.due <= clock
          /\ phase = "asleep" => wake <= clock

\* A job with a limit has its next tick within it, or is in the executor's hand,
\* unless an overflow has ended the scheduler: the overflow that breaks
\* NextTickWithinMaximum is the only thing that does.
LimitUntilOverflow ==
    phase # "idle" =>
        \/ phase = "dead" /\ \E j \in Job : Raises(j)
        \/ \A j \in Job : Expr[j].kind # "interval" =>
              hand = j \/ \E t \in Pending(j) : t.due <= clock + Expr[j].max

\* Of any ticks at all one is the earliest, equal times or not.
LEMMA EarliestExists ==
    ASSUME heap \subseteq Tick, heap # {}
    PROVE  \E t \in heap : Earliest(t)
<1> DEFINE Before(t) == 0 .. t.due - 1
           All == {Before(t) : t \in heap}
<1>1. \A t \in heap : t.due \in Nat
    BY DEF Tick
<1>2. \A t \in heap : Before(t) \in FiniteSubsetsOf(Nat)
    <2> SUFFICES ASSUME NEW t \in heap
                 PROVE  Before(t) \in FiniteSubsetsOf(Nat)
        OBVIOUS
    <2>1. t.due \in Nat
        BY <1>1
    <2>2. IsFiniteSet(0 .. t.due - 1)
        BY <2>1, FS_Interval
    <2>3. 0 .. t.due - 1 \subseteq Nat
        BY <2>1
    <2> QED BY <2>2, <2>3 DEF FiniteSubsetsOf
<1>3. All \subseteq FiniteSubsetsOf(Nat) /\ All # {}
    BY <1>2
<1>4. IsWellFoundedOn(StrictSubsetOrdering(Nat), FiniteSubsetsOf(Nat))
    BY FS_StrictSubsetOrderingWellFounded
<1> HIDE DEF All
<1>5. \E b \in All : \A c \in All : ~(<<c, b>> \in StrictSubsetOrdering(Nat))
    BY <1>3, <1>4, WFMin
<1>6. PICK t \in heap : \A u \in heap : <<Before(u), Before(t)>> \notin StrictSubsetOrdering(Nat)
    BY <1>5 DEF All
<1>7. ASSUME NEW u \in heap, ~(t.due <= u.due)
      PROVE  FALSE
    <2>1. t.due \in Nat /\ u.due \in Nat /\ u.due < t.due
        BY <1>1, <1>7
    <2>2. Before(u) \in SUBSET Nat /\ Before(t) \in SUBSET Nat
        BY <2>1
    <2>3. Before(u) \subseteq Before(t)
        BY <2>1
    <2>4. u.due \in Before(t) /\ u.due \notin Before(u)
        BY <2>1
    <2>5. <<Before(u), Before(t)>> \in StrictSubsetOrdering(Nat)
        <3> HIDE DEF Before
        <3> QED BY <2>2, <2>3, <2>4 DEF StrictSubsetOrdering
    <2> QED BY <1>6, <2>5
<1> QED BY <1>7 DEF Earliest

LEMMA RestStep == ASSUME IInv, RestInv, [Next]_vars PROVE RestInv'
<1> USE CronAssumption
<1>1. CASE Begin
    <2>1. CASE phase' = "looking"
        BY <2>1 DEF RestInv
    <2>2. CASE /\ \E j \in Job : Raises(j)
               /\ \E before \in SUBSET {j \in Job : ~Raises(j)} :
                     count' = [j \in Job |-> IF j \in before THEN count[j] + 1 ELSE count[j]]
               /\ phase' = "dead"
        <3>1. PICK j \in Job : Raises(j)
            BY <2>2
        <3>2. count'[j] = count[j]
            BY <2>2, <3>1
        <3> QED BY <2>2, <3>1, <3>2 DEF RestInv, Raises
    <2> QED BY <1>1, <2>1, <2>2 DEF Begin
<1>2. CASE Yield
    BY <1>2 DEF Yield, RestInv
<1>3. CASE Push
    <2>1. hand \in Job
        BY <1>3 DEF IInv, HandInv, Push
    <2> QED BY <1>3, <2>1 DEF Push, RestInv, Raises
<1>4. CASE Sleep
    BY <1>4 DEF Sleep, RestInv, Earliest
<1>5. CASE WakeUp
    BY <1>5 DEF WakeUp, RestInv
<1>6. CASE Cancel
    BY <1>6 DEF Cancel, RestInv
<1>7. CASE Advance
    BY <1>7 DEF Advance, RestInv, Earliest, Raises
<1>8. CASE UNCHANGED vars
    BY <1>8 DEF vars, RestInv, Earliest, Raises
<1> QED BY <1>1, <1>2, <1>3, <1>4, <1>5, <1>6, <1>7, <1>8 DEF Next, SchedulerStep

\* The scheduler's sleep and its death are what RestInv says, throughout.
THEOREM RestInvariant == Spec => []RestInv
<1>1. Init => RestInv
    BY DEF Init, RestInv
<1> QED BY <1>1, RestStep, CronInvariant, PTL DEF Spec

\* No scheduler sleeps through a tick, or finds its heap without one to take.
THEOREM DueTicksSeen == Spec => []DueSeen
<1>1. ASSUME IInv, RestInv
      PROVE  DueSeen
    <2>1. /\ heap \subseteq Tick /\ clock \in Nat /\ wake \in Nat
          /\ \A t \in heap : t.due \in Nat
        BY <1>1 DEF IInv, TypeOK, Tick
    <2>2. ASSUME phase = "looking"
          PROVE  \E u \in heap : Earliest(u)
        <3>1. heap # {}
            BY <1>1, <2>2, CronAssumption DEF IInv, HandInv, OneEntryPerJob
        <3> QED BY <2>1, <3>1, EarliestExists
    <2>3. ASSUME NEW t \in heap, t.due <= clock, NEW u \in heap, Earliest(u)
          PROVE  u.due <= clock
        BY <2>1, <2>3 DEF Earliest
    <2>4. ASSUME NEW t \in heap, t.due <= clock, phase = "asleep"
          PROVE  wake <= clock
        BY <1>1, <2>3, <2>4 DEF RestInv
    <2> QED BY <2>2, <2>3, <2>4 DEF DueSeen
<1> QED BY <1>1, CronInvariant, RestInvariant, PTL

\* The limit of a job holds while the scheduler lives, and what ends its life is
\* an overflow.
THEOREM LimitEndsByOverflow == Spec => []LimitUntilOverflow
<1>1. ASSUME IInv, RestInv, phase # "idle", phase # "dead",
             NEW j \in Job, Expr[j].kind # "interval", hand # j
      PROVE  \E t \in Pending(j) : t.due <= clock + Expr[j].max
    <2>1. phase \in {"looking", "yielded", "asleep"}
        BY <1>1 DEF IInv, TypeOK
    <2>2. PICK t \in heap : Pending(j) = {t}
        BY <1>1, <2>1 DEF IInv, OneEntryPerJob
    <2>3. t.job = j
        BY <2>2 DEF Pending
    <2> QED BY <1>1, <2>2, <2>3 DEF IInv, WithinMaximum
<1>2. IInv /\ RestInv => LimitUntilOverflow
    BY <1>1 DEF LimitUntilOverflow, RestInv
<1> QED BY <1>2, CronInvariant, RestInvariant, PTL
=============================================================================
