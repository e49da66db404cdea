--------------------- MODULE SignalRoutineRunner_proofs ---------------------
(* Proofs about SignalRoutineRunner, for any number of signals.            *)
EXTENDS SignalRoutineRunner, TLAPS

-----------------------------------------------------------------------------
(* The names of the tasks, and what the steps shared by the actions do.    *)

\* Every task is the routine or the timer of exactly one signal.
LEMMA TaskNames ==
    /\ \A n \in Signal : Routine(n) \in Future /\ Timer(n) \in Future
    /\ \A f \in Future : \E n \in Signal : f = Routine(n) \/ f = Timer(n)
    /\ \A m, n : Routine(m) # Timer(n)
    /\ \A m, n : Routine(m) = Routine(n) => m = n
    /\ \A m, n : Timer(m) = Timer(n) => m = n
BY DEF Routine, Timer, Future

\* Arrival numbers: None is not one, and the next one is while there is room.
LEMMA Arrivals ==
    /\ None \notin Signal /\ Signal \subseteq Nat
    /\ \A k \in 0..MaxSignals : k < MaxSignals => k + 1 \in Signal /\ k + 1 \in 0..MaxSignals
BY RunnerAssumption DEF Signal, None

\* What cleanup cancels is always a set of tasks of this runner.
LEMMA OwnedTyped ==
    ASSUME TypeOK PROVE Owned \subseteq Future
BY TaskNames DEF Owned, TypeOK

-----------------------------------------------------------------------------

(* The inductive invariant.                                                *)

\* The signals the loop has received are the first ones that arrived; the
\* others are in the channel, in their order.
InOrder ==
    /\ taken >= 0
    /\ \A i \in DOMAIN queue : queue[i] = taken + i
    /\ inHand <= taken
    /\ loop = "unstarted" => taken = 0

\* What the loop waits for while it is suspended inside _handle_signal.
Suspended ==
    /\ loop # "superseding" => inHand = None
    /\ loop = "superseding" =>
          /\ inHand \in Signal
          /\ \/ strategy = "Interrupt" /\ current \in Signal /\ waits = {Routine(current)}
             \/ /\ strategy = "Debounce" /\ pending \in Signal /\ waits = {Timer(pending)}
                /\ Live(Timer(pending)) => Timer(pending) \in asked
    /\ loop = "awaiting" =>
          strategy = "Queue" /\ current \in Signal /\ waits = {Routine(current)}

\* A task is created once, when it is its signal's turn, and begins once.
FreshTasks ==
    /\ \A n \in Signal : n > taken \/ n = inHand =>
          status[Routine(n)] = "none" /\ status[Timer(n)] = "none"
    /\ \A i \in DOMAIN soon : status[soon[i]] = "ready"
    /\ \A i, j \in DOMAIN soon : soon[i] = soon[j] => i = j
    /\ \A n \in Signal :
          IF strategy = "Debounce"
          THEN status[Timer(n)] # "ok" => status[Routine(n)] = "none"
          ELSE status[Timer(n)] = "none"

\* The runner's attributes lead to every task alive, so its cleanup finds it.
Attended ==
    /\ \A f \in Future : Live(f) => f \in Owned
    /\ strategy \in {"Interrupt", "Queue"} => tracked = {}
    /\ strategy = "Queue" /\ loop = "recv" => \A n \in Signal : ~Live(Routine(n))
    /\ loop = "cleanup" => \A f \in Future : Live(f) => f \in waits /\ f \in asked
    /\ NothingUnattended

\* So does every done callback that has not run.
Callbacks ==
    /\ CallbackFindsTask
    /\ loop = "cleanup" => \A n \in Signal : Routine(n) \in callbacks => Routine(n) \in waits

RunnerInv == TypeOK /\ InOrder /\ Suspended /\ FreshTasks /\ Attended /\ Callbacks

-----------------------------------------------------------------------------
(* What the shared parts of the actions do to the tasks.                   *)

LEMMA CreateTyped ==
    ASSUME TypeOK, NEW t \in Future, Create(t)
    PROVE  status' \in [Future -> Status] /\ soon' \in Seq(Future)
BY DEF TypeOK, TasksTypeOK, Create, Status

LEMMA CreateEffect ==
    ASSUME TypeOK, NEW t \in Future, Create(t)
    PROVE  /\ status'[t] = "ready"
           /\ \A f \in Future : f # t => status'[f] = status[f]
           /\ \A f \in Future : Live(f)' <=> f = t \/ Live(f)
BY DEF TypeOK, TasksTypeOK, Create, Live

LEMMA CreateSoon ==
    ASSUME TypeOK, FreshTasks, NEW t \in Future, Create(t), status[t] = "none"
    PROVE  /\ \A i \in DOMAIN soon' : status'[soon'[i]] = "ready"
           /\ \A i, j \in DOMAIN soon' : soon'[i] = soon'[j] => i = j
<1>1. soon \in Seq(Future) /\ status \in [Future -> Status]
  BY DEF TypeOK, TasksTypeOK
<1>2. /\ \A i \in DOMAIN soon : status[soon[i]] = "ready" /\ soon[i] \in Future
      /\ \A i, j \in DOMAIN soon : soon[i] = soon[j] => i = j
  BY <1>1 DEF FreshTasks
<1>3. \A i \in DOMAIN soon : soon[i] # t
  BY <1>2
<1>4. soon' = Append(soon, t) /\ status' = [status EXCEPT ![t] = "ready"]
  BY DEF Create
<1>5. /\ DOMAIN soon' = DOMAIN soon \cup {Len(soon) + 1} /\ soon'[Len(soon) + 1] = t
      /\ \A i \in DOMAIN soon : soon'[i] = soon[i]
  BY <1>1, <1>4
<1> QED
  BY <1>1, <1>2, <1>3, <1>4, <1>5

LEMMA CancelEffect ==
    ASSUME TypeOK, NEW F, RequestCancel(F)
    PROVE  /\ asked' \subseteq Future /\ asked \subseteq asked'
           /\ \A f \in Future : f \in F /\ Live(f) => f \in asked'
BY DEF TypeOK, TasksTypeOK, RequestCancel

-----------------------------------------------------------------------------
(* Each action preserves the invariant.                                    *)

LEMMA InitEstablishes == Init => RunnerInv
<1> SUFFICES ASSUME Init PROVE RunnerInv
  OBVIOUS
<1>1. TasksTypeOK /\ (\A f \in Future : status[f] = "none")
  BY DEF Init, TasksInit, TasksTypeOK, Status
<1>2. TypeOK
  <2>1. accepted \in 0..MaxSignals /\ cancels \in 0..MaxCancels
    BY RunnerAssumption DEF Init
  <2>4. strategy \in Strategies /\ queue \in Seq(Signal)
    BY DEF Init
  <2>5. closed \in BOOLEAN
    BY DEF Init
  <2>2. /\ loop \in {"unstarted", "recv", "superseding", "awaiting", "cleanup", "done"}
        /\ exit \in {"none", "closed", "error", "cancelled", "aborted", "unstarted"}
        /\ stopper \in {"idle", "waiting", "returned", "raised"}
    BY DEF Init
  <2>3. /\ inHand \in Signal \cup {None} /\ current \in Signal \cup {None}
        /\ pending \in Signal \cup {None} /\ tracked \subseteq Signal /\ waits \subseteq Future
    BY DEF Init
  <2> QED
    BY <1>1, <2>1, <2>2, <2>3, <2>4, <2>5 DEF TypeOK
<1>3. InOrder
  <2>1. Len(queue) = 0 /\ DOMAIN queue = {} /\ accepted = 0 /\ inHand = 0
    BY DEF Init, None
  <2> QED
    BY <2>1 DEF InOrder, taken
<1>4. Suspended
  BY DEF Init, Suspended
<1>5. FreshTasks
  BY <1>1, TaskNames DEF Init, TasksInit, FreshTasks
<1>6. Attended
  BY <1>1, TaskNames DEF Init, Attended, NothingUnattended, Live
<1>7. Callbacks
  BY DEF Init, TasksInit, Callbacks, CallbackFindsTask
<1> QED
  BY <1>2, <1>3, <1>4, <1>5, <1>6, <1>7 DEF RunnerInv

LEMMA SendStep == ASSUME RunnerInv, Send PROVE RunnerInv'
<1> USE DEF RunnerInv, Send, Ch!Put, chanVars, taskVars, loopVars, ownVars, envVars
<1>1. /\ accepted + 1 \in Signal /\ accepted' = accepted + 1 /\ accepted' \in 0..MaxSignals
      /\ queue' = Append(queue, accepted + 1) /\ queue' \in Seq(Signal)
  BY Arrivals DEF TypeOK
<1>2. taken' = taken /\ accepted \in Nat /\ Len(queue) \in Nat
  BY <1>1 DEF taken, TypeOK
<1>3. TypeOK'
  BY <1>1 DEF TypeOK, TasksTypeOK
<1>4. InOrder'
  <2>1. /\ DOMAIN queue' = DOMAIN queue \cup {Len(queue) + 1}
        /\ queue'[Len(queue) + 1] = accepted + 1
        /\ \A i \in DOMAIN queue : queue'[i] = queue[i]
    BY <1>1 DEF TypeOK
  <2>2. \A i \in DOMAIN queue' : queue'[i] = taken + i
    BY <2>1, <1>2 DEF InOrder, taken
  <2> QED
    BY <1>2, <2>2 DEF InOrder
<1>5. Suspended'
  BY DEF Suspended, Live
<1>6. FreshTasks'
  BY <1>2 DEF FreshTasks
<1>7. Attended' /\ Callbacks'
  BY DEF Attended, Callbacks, Live, Owned, NothingUnattended, CallbackFindsTask
<1> QED
  BY <1>3, <1>4, <1>5, <1>6, <1>7

LEMMA StartStep == ASSUME RunnerInv, Start PROVE RunnerInv'
<1> USE DEF RunnerInv, Start, chanVars, taskVars, loopVars, ownVars, envVars
<1>1. taken' = taken /\ taken = 0 /\ \A n \in Signal : n > taken
  BY Arrivals, RunnerAssumption DEF taken, InOrder, Signal
<1>2. TypeOK' /\ InOrder' /\ Suspended' /\ FreshTasks'
  BY <1>1 DEF TypeOK, TasksTypeOK, InOrder, Suspended, FreshTasks
<1>3. \A n \in Signal : ~Live(Routine(n))
  BY <1>1 DEF FreshTasks, Live
<1>4. Attended' /\ Callbacks'
  BY <1>3 DEF Attended, Callbacks, Live, Owned, NothingUnattended, CallbackFindsTask
<1> QED
  BY <1>2, <1>4

-----------------------------------------------------------------------------
(* Receive, one lemma for each strategy.                                   *)

\* recv() takes the signal that arrived next, for which no task exists yet.
LEMMA TakeEffect ==
    ASSUME RunnerInv, NEW n \in Signal, Ch!Take(n), accepted' = accepted
    PROVE  /\ taken' = n /\ n > taken
           /\ queue' \in Seq(Signal) /\ closed' = closed
           /\ \A i \in DOMAIN queue' : queue'[i] = taken' + i
           /\ status[Routine(n)] = "none" /\ status[Timer(n)] = "none"
<1> USE DEF RunnerInv, TypeOK
<1>1. /\ Len(queue) >= 1 /\ n = queue[1] /\ queue' = Tail(queue) /\ closed' = closed
      /\ accepted \in Nat /\ Len(queue) \in Nat
  BY DEF Ch!Take
<1>2. queue' \in Seq(Signal) /\ Len(queue') = Len(queue) - 1
  BY <1>1
<1>3. \A i \in DOMAIN queue' : i + 1 \in DOMAIN queue /\ queue'[i] = queue[i + 1]
  BY <1>1
<1>4. n = taken + 1 /\ taken' = taken + 1 /\ taken \in Int
  <2>1. 1 \in DOMAIN queue /\ \A i \in DOMAIN queue : queue[i] = taken + i
    BY <1>1 DEF InOrder
  <2>2. taken \in Int /\ taken' = taken + 1
    BY <1>1, <1>2 DEF taken
  <2> QED
    BY <1>1, <2>1, <2>2
<1>5. \A i \in DOMAIN queue' : queue'[i] = taken' + i
  <2>1. \A i \in DOMAIN queue' : i \in Nat /\ queue'[i] = taken + (i + 1)
    BY <1>2, <1>3 DEF InOrder
  <2> QED
    BY <1>4, <2>1
<1>6. status[Routine(n)] = "none" /\ status[Timer(n)] = "none"
  BY <1>4 DEF FreshTasks
<1> QED
  BY <1>1, <1>2, <1>4, <1>5, <1>6

\* Interrupt and Queue: the only task that can be alive is the current one.
LEMMA OnlyCurrentAlive ==
    ASSUME RunnerInv, strategy \in {"Interrupt", "Queue"}, NEW f \in Future, Live(f)
    PROVE  current \in Signal /\ f = Routine(current)
<1>1. f \in Owned /\ tracked = {}
  BY DEF RunnerInv, Attended
<1>2. \A n \in Signal : f # Timer(n)
  BY DEF RunnerInv, FreshTasks, Live
<1> QED
  BY <1>1, <1>2 DEF Owned, RunnerInv, TypeOK

\* Where the loop is when it goes back to recv(), whatever the strategy.
LEMMA ResumeInv ==
    ASSUME RunnerInv, Resume, NEW n \in Signal, taken' = n,
           \A i \in DOMAIN queue' : queue'[i] = taken' + i
    PROVE  InOrder' /\ Suspended'
BY Arrivals DEF Resume, InOrder, Suspended, None

\* The tasks are still in order when the signal just taken gets one of its own.
LEMMA CreateFresh ==
    ASSUME RunnerInv, NEW n \in Signal, NEW t \in {Routine(n), Timer(n)}, Create(t),
           status[Routine(n)] = "none", status[Timer(n)] = "none",
           t = Timer(n) <=> strategy = "Debounce",
           strategy' = strategy, taken' >= n, taken' >= taken, inHand' = None, taken \in Int, taken' \in Int
    PROVE  FreshTasks'
<1> USE DEF RunnerInv
<1>1. t \in Future /\ (\A m \in Signal : m # n => t # Routine(m) /\ t # Timer(m))
  BY TaskNames
<1>2. \A f \in Future : f # t => status'[f] = status[f]
  BY <1>1, CreateEffect
<1>3. \A m \in Signal : m > taken' \/ m = inHand' => m > taken /\ m # n
  BY Arrivals
<1>4. \A m \in Signal : m > taken' \/ m = inHand' =>
          status'[Routine(m)] = "none" /\ status'[Timer(m)] = "none"
  BY <1>1, <1>2, <1>3, TaskNames DEF FreshTasks
<1>5. /\ \A i \in DOMAIN soon' : status'[soon'[i]] = "ready"
      /\ \A i, j \in DOMAIN soon' : soon'[i] = soon'[j] => i = j
  BY <1>1, CreateSoon
<1>6. \A m \in Signal : IF strategy = "Debounce"
                        THEN status'[Timer(m)] # "ok" => status'[Routine(m)] = "none"
                        ELSE status'[Timer(m)] = "none"
  <2> SUFFICES ASSUME NEW m \in Signal
               PROVE  IF strategy = "Debounce"
                      THEN status'[Timer(m)] # "ok" => status'[Routine(m)] = "none"
                      ELSE status'[Timer(m)] = "none"
    OBVIOUS
  <2>1. CASE m # n
    BY <2>1, <1>1, <1>2, TaskNames DEF FreshTasks
  <2>2. CASE m = n
    BY <2>2, <1>2, TaskNames
  <2> QED
    BY <2>1, <2>2
<1> QED
  BY <1>4, <1>5, <1>6 DEF FreshTasks

\* The signal waits in the loop's hand while the task it supersedes ends.
LEMMA SupersedingInv ==
    ASSUME RunnerInv, NEW n \in Signal, loop = "recv",
           taken' = n, n > taken, taken \in Int, queue' \in Seq(Signal), closed' = closed,
           \A i \in DOMAIN queue' : queue'[i] = taken' + i,
           status[Routine(n)] = "none", status[Timer(n)] = "none",
           UNCHANGED <<strategy, accepted, status, soon, callbacks, exit, ownVars, envVars>>,
           loop' = "superseding", inHand' = n, CancelAndWait(waits'),
           \/ strategy = "Interrupt" /\ current \in Signal /\ waits' = {Routine(current)}
           \/ strategy = "Debounce" /\ pending \in Signal /\ waits' = {Timer(pending)}
    PROVE  RunnerInv'
<1> USE DEF RunnerInv, ownVars, envVars
<1>1. asked' \subseteq Future /\ asked \subseteq asked'
      /\ \A f \in Future : f \in waits' /\ Live(f) => f \in asked'
  BY CancelEffect DEF CancelAndWait
<1>2. waits' \subseteq Future
  BY TaskNames
<1>3. TypeOK'
  BY <1>1, <1>2 DEF TypeOK, TasksTypeOK
<1>4. InOrder'
  BY Arrivals DEF InOrder
<1>5. Suspended'
  BY <1>1, TaskNames DEF Suspended, Live
<1>6. FreshTasks'
  <2>1. \A m \in Signal : m > taken' \/ m = inHand' => m > taken \/ m = n
    BY Arrivals
  <2> QED
    BY <2>1 DEF FreshTasks
<1>7. Attended' /\ Callbacks'
  BY DEF Attended, Callbacks, Live, Owned, NothingUnattended, CallbackFindsTask
<1> QED
  BY <1>3, <1>4, <1>5, <1>6, <1>7

LEMMA InterruptReceive ==
    ASSUME RunnerInv, NEW n \in Signal, loop = "recv", Ch!Take(n), InterruptHandle(n),
           UNCHANGED <<strategy, accepted, exit, envVars>>
    PROVE  RunnerInv'
<1> USE DEF RunnerInv
<1>1. /\ taken' = n /\ n > taken /\ queue' \in Seq(Signal) /\ closed' = closed
      /\ \A i \in DOMAIN queue' : queue'[i] = taken' + i
      /\ status[Routine(n)] = "none" /\ status[Timer(n)] = "none"
      /\ taken \in Int /\ n \in Nat
  BY TakeEffect, Arrivals DEF TypeOK, taken
<1>2. CASE current = None
  <2>1. /\ strategy = "Interrupt" /\ Create(Routine(n)) /\ current' = n /\ Resume
        /\ UNCHANGED <<asked, callbacks, pending, tracked>> /\ Routine(n) \in Future
    BY <1>2, TaskNames DEF InterruptHandle
  <2>2. TypeOK'
    BY <1>1, <2>1, CreateTyped DEF TypeOK, TasksTypeOK, Resume, envVars
  <2>3. InOrder' /\ Suspended'
    BY <1>1, <2>1, ResumeInv
  <2>4. FreshTasks'
    BY <1>1, <2>1, CreateFresh, TaskNames DEF Resume
  <2>5. \A f \in Future : Live(f)' => f = Routine(n)
    BY <2>1, <1>2, CreateEffect, OnlyCurrentAlive, Arrivals
  <2>6. Attended'
    BY <2>1, <2>5, Arrivals DEF Attended, Owned, NothingUnattended, Resume
  <2>7. Callbacks'
    BY <2>1 DEF Callbacks, CallbackFindsTask, Resume
  <2> QED
    BY <2>2, <2>3, <2>4, <2>6, <2>7
<1>3. CASE current # None
  <2>1. /\ strategy = "Interrupt" /\ current \in Signal /\ waits' = {Routine(current)}
        /\ CancelAndWait(waits') /\ loop' = "superseding" /\ inHand' = n
        /\ UNCHANGED <<status, soon, callbacks, ownVars>>
    BY <1>3 DEF InterruptHandle, CancelAndWait, TypeOK, ownVars
  <2> QED
    BY <1>1, <2>1, SupersedingInv
<1> QED
  BY <1>2, <1>3

LEMMA DebounceReceive ==
    ASSUME RunnerInv, NEW n \in Signal, loop = "recv", Ch!Take(n), DebounceHandle(n),
           UNCHANGED <<strategy, accepted, exit, envVars>>
    PROVE  RunnerInv'
<1> USE DEF RunnerInv
<1>1. /\ taken' = n /\ n > taken /\ queue' \in Seq(Signal) /\ closed' = closed
      /\ \A i \in DOMAIN queue' : queue'[i] = taken' + i
      /\ status[Routine(n)] = "none" /\ status[Timer(n)] = "none"
      /\ taken \in Int /\ n \in Nat
  BY TakeEffect, Arrivals DEF TypeOK, taken
<1>2. CASE pending = None
  <2>1. /\ strategy = "Debounce" /\ Create(Timer(n)) /\ pending' = n /\ Resume
        /\ UNCHANGED <<asked, callbacks, current, tracked>> /\ Timer(n) \in Future
    BY <1>2, TaskNames DEF DebounceHandle
  <2>2. TypeOK'
    BY <1>1, <2>1, CreateTyped DEF TypeOK, TasksTypeOK, Resume, envVars
  <2>3. InOrder' /\ Suspended'
    BY <1>1, <2>1, ResumeInv
  <2>4. FreshTasks'
    BY <1>1, <2>1, CreateFresh, TaskNames DEF Resume
  <2>5. \A f \in Future : Live(f)' => f = Timer(n) \/ f \in Owned
    BY <2>1, CreateEffect DEF Attended
  <2>6. Owned \subseteq Owned' /\ Timer(n) \in Owned'
    BY <1>2, <2>1, Arrivals DEF Owned
  <2>7. Attended'
    BY <2>1, <2>5, <2>6 DEF Attended, NothingUnattended, Resume
  <2>8. Callbacks'
    BY <2>1 DEF Callbacks, CallbackFindsTask, Resume
  <2> QED
    BY <2>2, <2>3, <2>4, <2>7, <2>8
<1>3. CASE pending # None
  <2>1. /\ strategy = "Debounce" /\ pending \in Signal /\ waits' = {Timer(pending)}
        /\ CancelAndWait(waits') /\ loop' = "superseding" /\ inHand' = n
        /\ UNCHANGED <<status, soon, callbacks, ownVars>>
    BY <1>3 DEF DebounceHandle, CancelAndWait, TypeOK, ownVars
  <2> QED
    BY <1>1, <2>1, SupersedingInv
<1> QED
  BY <1>2, <1>3

LEMMA ParallelReceive ==
    ASSUME RunnerInv, NEW n \in Signal, loop = "recv", Ch!Take(n), ParallelHandle(n),
           UNCHANGED <<strategy, accepted, exit, envVars>>
    PROVE  RunnerInv'
<1> USE DEF RunnerInv
<1>1. /\ taken' = n /\ n > taken /\ queue' \in Seq(Signal) /\ closed' = closed
      /\ \A i \in DOMAIN queue' : queue'[i] = taken' + i
      /\ status[Routine(n)] = "none" /\ status[Timer(n)] = "none"
      /\ taken \in Int /\ n \in Nat
  BY TakeEffect, Arrivals DEF TypeOK, taken
<1>2. /\ strategy = "Parallel" /\ Create(Routine(n)) /\ Resume
      /\ tracked' = tracked \cup {n} /\ callbacks' = callbacks \cup {Routine(n)}
      /\ UNCHANGED <<asked, current, pending>> /\ Routine(n) \in Future
  BY TaskNames DEF ParallelHandle
<1>3. TypeOK'
  BY <1>1, <1>2, CreateTyped DEF TypeOK, TasksTypeOK, Resume, envVars
<1>4. InOrder' /\ Suspended'
  BY <1>1, <1>2, ResumeInv
<1>5. FreshTasks'
  BY <1>1, <1>2, CreateFresh, TaskNames DEF Resume
<1>6. \A f \in Future : Live(f)' => f = Routine(n) \/ f \in Owned
  BY <1>2, CreateEffect DEF Attended
<1>7. Owned \subseteq Owned' /\ Routine(n) \in Owned'
  BY <1>2 DEF Owned
<1>8. Attended'
  BY <1>2, <1>6, <1>7 DEF Attended, NothingUnattended, Resume
<1>9. Callbacks'
  BY <1>2, TaskNames DEF Callbacks, CallbackFindsTask, Resume
<1> QED
  BY <1>3, <1>4, <1>5, <1>8, <1>9

LEMMA QueueReceive ==
    ASSUME RunnerInv, NEW n \in Signal, loop = "recv", Ch!Take(n), QueueHandle(n),
           UNCHANGED <<strategy, accepted, exit, envVars>>
    PROVE  RunnerInv'
<1> USE DEF RunnerInv
<1>1. /\ taken' = n /\ n > taken /\ queue' \in Seq(Signal) /\ closed' = closed
      /\ \A i \in DOMAIN queue' : queue'[i] = taken' + i
      /\ status[Routine(n)] = "none" /\ status[Timer(n)] = "none"
      /\ taken \in Int /\ n \in Nat
  BY TakeEffect, Arrivals DEF TypeOK, taken
<1>2. /\ strategy = "Queue" /\ Create(Routine(n)) /\ current' = n
      /\ loop' = "awaiting" /\ inHand' = None /\ waits' = {Routine(n)}
      /\ UNCHANGED <<asked, callbacks, pending, tracked>> /\ Routine(n) \in Future
  BY TaskNames DEF QueueHandle
<1>3. TypeOK'
  BY <1>1, <1>2, CreateTyped DEF TypeOK, TasksTypeOK, envVars
<1>4. InOrder' /\ Suspended'
  BY <1>1, <1>2 DEF InOrder, Suspended, None
<1>5. FreshTasks'
  BY <1>1, <1>2, CreateFresh, TaskNames
<1>6. \A f \in Future : ~Live(f)
  BY <1>2, OnlyCurrentAlive DEF Attended
<1>7. \A f \in Future : Live(f)' => f = Routine(n)
  BY <1>2, <1>6, CreateEffect
<1>8. Attended'
  BY <1>2, <1>7, Arrivals DEF Attended, Owned, NothingUnattended
<1>9. Callbacks'
  BY <1>2 DEF Callbacks, CallbackFindsTask
<1> QED
  BY <1>3, <1>4, <1>5, <1>8, <1>9

LEMMA ReceiveStep == ASSUME RunnerInv, Receive PROVE RunnerInv'
BY InterruptReceive, ParallelReceive, QueueReceive, DebounceReceive DEF Receive, Handle

LEMMA SupersedeStep == ASSUME RunnerInv, Supersede PROVE RunnerInv'
<1> USE DEF RunnerInv, chanVars, envVars
<1>1. /\ inHand \in Signal /\ inHand <= taken /\ taken' = taken /\ taken \in Int
      /\ status[Routine(inHand)] = "none" /\ status[Timer(inHand)] = "none"
      /\ \A i \in DOMAIN queue' : queue'[i] = taken' + i
      /\ Resume /\ UNCHANGED <<strategy, chanVars, asked, callbacks, exit, tracked, envVars>>
  BY DEF Supersede, InOrder, Suspended, FreshTasks, taken, TypeOK
<1>2. InOrder' /\ Suspended'
  BY <1>1, Arrivals DEF InOrder, Suspended, Resume, None
<1>3. Callbacks'
  BY <1>1 DEF Callbacks, CallbackFindsTask, Resume
<1>4. CASE strategy = "Interrupt"
  <2>1. /\ Create(Routine(inHand)) /\ current' = inHand /\ pending' = pending
        /\ Routine(inHand) \in Future /\ current \in Signal /\ ~Live(Routine(current))
    BY <1>1, <1>4, TaskNames DEF Supersede, Suspended, Settled
  <2>2. TypeOK'
    BY <1>1, <2>1, CreateTyped DEF TypeOK, TasksTypeOK, Resume
  <2>3. FreshTasks'
    BY <1>1, <1>4, <2>1, CreateFresh, TaskNames DEF Resume
  <2>4. \A f \in Future : Live(f)' => f = Routine(inHand)
    BY <1>4, <2>1, CreateEffect, OnlyCurrentAlive
  <2>5. Attended'
    BY <1>1, <1>4, <2>1, <2>4, Arrivals
       DEF Attended, Owned, NothingUnattended, Resume
  <2> QED
    BY <1>2, <1>3, <2>2, <2>3, <2>5
<1>5. CASE strategy = "Debounce"
  <2>1. /\ Create(Timer(inHand)) /\ pending' = inHand /\ current' = current
        /\ Timer(inHand) \in Future /\ pending \in Signal /\ ~Live(Timer(pending))
    BY <1>1, <1>5, TaskNames DEF Supersede, Suspended, Settled
  <2>2. TypeOK'
    BY <1>1, <2>1, CreateTyped DEF TypeOK, TasksTypeOK, Resume
  <2>3. FreshTasks'
    BY <1>1, <1>5, <2>1, CreateFresh, TaskNames DEF Resume
  <2>4. \A f \in Future : Live(f)' => f = Timer(inHand) \/ (f \in Owned /\ f # Timer(pending))
    BY <2>1, CreateEffect DEF Attended
  <2>5. \A f \in Owned : f # Timer(pending) => f \in Owned'
    BY <1>1, <2>1 DEF Owned
  <2>6. Timer(inHand) \in Owned'
    BY <1>1, <2>1, Arrivals DEF Owned
  <2>7. Attended'
    BY <1>1, <1>5, <2>4, <2>5, <2>6 DEF Attended, NothingUnattended, Resume
  <2> QED
    BY <1>2, <1>3, <2>2, <2>3, <2>7
<1> QED
  BY <1>4, <1>5 DEF Supersede

-----------------------------------------------------------------------------
(* The end of the loop.                                                    *)

\* The cleanup asks every task that is alive to end, and waits for it.
LEMMA BeginCleanupInv ==
    ASSUME RunnerInv, loop \in {"recv", "superseding", "awaiting"},
           NEW why \in {"closed", "error", "cancelled"}, BeginCleanup(why),
           UNCHANGED <<strategy, chanVars, ownVars, stopper>>, cancels' \in 0..MaxCancels
    PROVE  RunnerInv'
<1> USE DEF RunnerInv, chanVars, ownVars
<1>1. /\ waits' = Owned /\ loop' = "cleanup" /\ inHand' = None /\ exit' = why
      /\ UNCHANGED <<status, soon, callbacks>> /\ asked' \subseteq Future
      /\ \A f \in Future : f \in Owned /\ Live(f) => f \in asked'
  BY CancelEffect DEF BeginCleanup, CancelAndWait
<1>2. TypeOK'
  <2>1. Owned \subseteq Future
    BY OwnedTyped
  <2> QED
    BY <1>1, <2>1 DEF TypeOK, TasksTypeOK
<1>3. InOrder' /\ Suspended'
  BY <1>1 DEF InOrder, Suspended, taken, None
<1>4. FreshTasks'
  BY <1>1, Arrivals DEF FreshTasks, taken
<1>5. Attended'
  BY <1>1 DEF Attended, Owned, Live, NothingUnattended
<1>6. Callbacks'
  BY <1>1 DEF Callbacks, CallbackFindsTask, Owned
<1> QED
  BY <1>2, <1>3, <1>4, <1>5, <1>6

LEMMA EndOfChannelStep == ASSUME RunnerInv, EndOfChannel PROVE RunnerInv'
BY BeginCleanupInv DEF EndOfChannel, envVars, RunnerInv, TypeOK

LEMMA AwaitRoutineStep == ASSUME RunnerInv, AwaitRoutine PROVE RunnerInv'
<1> USE DEF RunnerInv
<1>1. /\ loop = "awaiting" /\ strategy = "Queue" /\ current \in Signal
      /\ ~Live(Routine(current)) /\ UNCHANGED <<strategy, chanVars, ownVars, envVars>>
  BY DEF AwaitRoutine, Suspended, Settled
<1>2. CASE Resume /\ UNCHANGED <<taskVars, exit>>
  <2> USE DEF chanVars, ownVars, envVars, taskVars, Resume
  <2>1. \A f \in Future : ~Live(f)
    BY <1>1, OnlyCurrentAlive
  <2>2. TypeOK'
    BY <1>1, <1>2 DEF TypeOK, TasksTypeOK
  <2>3. InOrder' /\ Suspended' /\ FreshTasks'
    BY <1>1, <1>2, Arrivals DEF InOrder, Suspended, FreshTasks, taken, None
  <2>4. Attended' /\ Callbacks'
    BY <1>1, <1>2, <2>1, TaskNames
       DEF Attended, Callbacks, Live, Owned, NothingUnattended, CallbackFindsTask
  <2> QED
    BY <2>2, <2>3, <2>4
<1>3. CASE \E why \in {"closed", "error", "cancelled"} : BeginCleanup(why)
  BY <1>1, <1>3, BeginCleanupInv DEF envVars, TypeOK
<1> QED
  BY <1>2, <1>3 DEF AwaitRoutine

LEMMA FinishCleanupStep == ASSUME RunnerInv, FinishCleanup PROVE RunnerInv'
<1> USE DEF RunnerInv, FinishCleanup, chanVars, taskVars, envVars
<1>1. \A f \in Future : ~Live(f)
  BY DEF Attended, Settled
<1>2. \A n \in Signal : Routine(n) \notin callbacks
  BY DEF Callbacks, Settled
<1>3. TypeOK'
  BY DEF TypeOK, TasksTypeOK
<1>4. InOrder' /\ Suspended' /\ FreshTasks'
  BY Arrivals DEF InOrder, Suspended, FreshTasks, taken, None
<1>5. Attended' /\ Callbacks'
  BY <1>1, <1>2 DEF Attended, Callbacks, Live, NothingUnattended, CallbackFindsTask
<1> QED
  BY <1>3, <1>4, <1>5

LEMMA CancelLoopStep == ASSUME RunnerInv, CancelLoop PROVE RunnerInv'
<1> USE DEF RunnerInv
<1>1. cancels' \in 0..MaxCancels /\ UNCHANGED <<strategy, chanVars, ownVars, stopper>>
  BY RunnerAssumption DEF CancelLoop, TypeOK
<1>2. CASE loop \in {"recv", "superseding", "awaiting"} /\ BeginCleanup("cancelled")
  BY <1>1, <1>2, BeginCleanupInv
<1>3. CASE /\ loop = "unstarted" /\ loop' = "done" /\ exit' = "unstarted"
           /\ UNCHANGED <<taskVars, inHand, waits>>
  <2> USE DEF chanVars, ownVars, taskVars
  <2>1. \A f \in Future : ~Live(f)
    BY <1>3, TaskNames, Arrivals DEF InOrder, FreshTasks, Live, Signal
  <2>2. TypeOK'
    BY <1>1, <1>3 DEF TypeOK, TasksTypeOK
  <2>3. InOrder' /\ Suspended' /\ FreshTasks'
    BY <1>1, <1>3 DEF InOrder, Suspended, FreshTasks, taken
  <2>4. Attended' /\ Callbacks'
    BY <1>1, <1>3, <2>1
       DEF Attended, Callbacks, Live, NothingUnattended, CallbackFindsTask
  <2> QED
    BY <2>2, <2>3, <2>4
<1>4. CASE /\ loop = "awaiting" /\ Live(Routine(current))
           /\ RequestCancel({Routine(current)}) /\ UNCHANGED <<status, soon, callbacks, loopVars>>
  <2> USE DEF chanVars, ownVars, loopVars
  <2>1. asked' \subseteq Future /\ asked \subseteq asked'
    BY <1>4, CancelEffect
  <2>2. TypeOK'
    BY <1>1, <1>4, <2>1 DEF TypeOK, TasksTypeOK
  <2>3. InOrder' /\ Suspended' /\ FreshTasks'
    BY <1>1, <1>4 DEF InOrder, Suspended, FreshTasks, taken
  <2>4. Attended' /\ Callbacks'
    BY <1>1, <1>4
       DEF Attended, Callbacks, Owned, Live, NothingUnattended, CallbackFindsTask
  <2> QED
    BY <2>2, <2>3, <2>4
<1>5. CASE /\ loop = "cleanup" /\ loop' = "done" /\ waits' = {} /\ exit' = "aborted"
           /\ UNCHANGED <<taskVars, inHand>>
  <2> USE DEF chanVars, ownVars, taskVars
  <2>1. TypeOK'
    BY <1>1, <1>5 DEF TypeOK, TasksTypeOK
  <2>2. InOrder' /\ Suspended' /\ FreshTasks'
    BY <1>1, <1>5 DEF InOrder, Suspended, FreshTasks, taken
  <2>3. Attended' /\ Callbacks'
    BY <1>1, <1>5
       DEF Attended, Callbacks, Owned, Live, NothingUnattended, CallbackFindsTask
  <2> QED
    BY <2>1, <2>2, <2>3
<1> QED
  BY <1>2, <1>3, <1>4, <1>5 DEF CancelLoop

-----------------------------------------------------------------------------
(* The tasks, and the caller of stop().                                    *)

\* A task that ends, or begins, comes alive nowhere else: what is alive was.
LEMMA OnlyTasksMove ==
    ASSUME RunnerInv, status' \in [Future -> Status], soon' \in Seq(Future), FreshTasks',
           UNCHANGED <<strategy, chanVars, loopVars, ownVars, envVars, asked, callbacks>>,
           \A f \in Future : Live(f)' => Live(f)
    PROVE  RunnerInv'
<1> USE DEF RunnerInv, chanVars, loopVars, ownVars, envVars
<1>1. TypeOK'
  BY DEF TypeOK, TasksTypeOK
<1>2. InOrder' /\ Suspended'
  BY TaskNames DEF InOrder, Suspended, taken
<1>3. Attended' /\ Callbacks'
  BY TaskNames DEF Attended, Callbacks, Owned, NothingUnattended, CallbackFindsTask
<1> QED
  BY <1>1, <1>2, <1>3

LEMMA FirstStepStep == ASSUME RunnerInv, TaskFirstStep PROVE RunnerInv'
<1> USE DEF RunnerInv, TaskFirstStep, FirstStep
<1>1. /\ soon \in Seq(Future) /\ soon # <<>> /\ status \in [Future -> Status]
      /\ \A i \in DOMAIN soon : status[soon[i]] = "ready"
      /\ \A i, j \in DOMAIN soon : soon[i] = soon[j] => i = j
  BY DEF TypeOK, TasksTypeOK, FreshTasks
<1>2. PICK f \in Future : f = Head(soon)
  BY <1>1
<1>3. /\ status[f] = "ready" /\ soon' = Tail(soon) /\ soon' \in Seq(Future)
      /\ \A i \in DOMAIN soon' : i + 1 \in DOMAIN soon /\ soon'[i] = soon[i + 1] /\ soon'[i] # f
  BY <1>1, <1>2
<1>4. /\ status' \in [Future -> Status] /\ status'[f] \in {"dropped", "running"}
      /\ \A g \in Future : g # f => status'[g] = status[g]
  BY <1>1, <1>2 DEF Status, Ended
<1>5. \A g \in Future : Live(g)' => Live(g)
  BY <1>3, <1>4 DEF Live
<1>6. FreshTasks'
  <2>1. \A i \in DOMAIN soon' : status'[soon'[i]] = "ready"
    BY <1>1, <1>3, <1>4
  <2>2. \A i, j \in DOMAIN soon' : soon'[i] = soon'[j] => i = j
    BY <1>1, <1>3
  <2>3. \A g \in Future : g = f \/ status'[g] = status[g]
    BY <1>4
  <2>4. \A n \in Signal : n > taken' \/ n = inHand' =>
            status'[Routine(n)] = "none" /\ status'[Timer(n)] = "none"
    BY <1>3, <2>3, TaskNames DEF FreshTasks, taken, chanVars, loopVars
  <2>5. \A n \in Signal : IF strategy = "Debounce"
                          THEN status'[Timer(n)] # "ok" => status'[Routine(n)] = "none"
                          ELSE status'[Timer(n)] = "none"
    BY <1>3, <1>4, TaskNames DEF FreshTasks
  <2> QED
    BY <2>1, <2>2, <2>4, <2>5 DEF FreshTasks
<1> QED
  BY <1>3, <1>4, <1>5, <1>6, OnlyTasksMove

LEMMA EndStep ==
    ASSUME RunnerInv, NEW n \in Signal, RoutineEnd(n) \/ TimerCancelled(n) PROVE RunnerInv'
<1> USE DEF RunnerInv
<1>1. PICK f \in {Routine(n), Timer(n)}, outcome \in Ended :
          End(f, outcome) /\ (f = Timer(n) => outcome = "cancelled")
  BY RunnerAssumption, TaskNames DEF RoutineEnd, TimerCancelled, Ended
<1>2. UNCHANGED <<strategy, chanVars, loopVars, ownVars, envVars, asked, callbacks, soon>>
  BY <1>1 DEF RoutineEnd, TimerCancelled, End
<1>3. /\ f \in Future /\ status[f] = "running" /\ status'[f] = outcome
      /\ status' \in [Future -> Status] /\ \A g \in Future : g # f => status'[g] = status[g]
  BY <1>1, TaskNames DEF End, TypeOK, TasksTypeOK, Status
<1>4. \A g \in Future : Live(g)' => Live(g)
  BY <1>3 DEF Live, Ended
<1>5. FreshTasks'
  <2>1. \A i \in DOMAIN soon : soon[i] \in Future /\ soon[i] # f
    BY <1>3 DEF FreshTasks, TypeOK, TasksTypeOK
  <2>2. \A m \in Signal : m > taken' \/ m = inHand' =>
            status'[Routine(m)] = "none" /\ status'[Timer(m)] = "none"
    BY <1>2, <1>3, TaskNames DEF FreshTasks, taken, chanVars, loopVars
  <2>3. \A m \in Signal : IF strategy = "Debounce"
                          THEN status'[Timer(m)] # "ok" => status'[Routine(m)] = "none"
                          ELSE status'[Timer(m)] = "none"
    BY <1>1, <1>3, TaskNames DEF FreshTasks
  <2> QED
    BY <1>2, <1>3, <2>1, <2>2, <2>3 DEF FreshTasks
<1> QED
  BY <1>2, <1>3, <1>4, <1>5, OnlyTasksMove DEF TypeOK, TasksTypeOK

LEMMA TimerFireStep == ASSUME RunnerInv, NEW n \in Signal, TimerFire(n) PROVE RunnerInv'
<1> USE DEF RunnerInv, TimerFire, chanVars, loopVars, envVars
<1>1. /\ Timer(n) \in Future /\ Routine(n) \in Future /\ Live(Timer(n)) /\ Timer(n) \notin asked
      /\ strategy = "Debounce" /\ status[Routine(n)] = "none" /\ pending = n
  BY TaskNames DEF Live, FreshTasks, Attended, Owned
<1>2. /\ status' \in [Future -> Status] /\ soon' \in Seq(Future)
      /\ status'[Timer(n)] = "ok" /\ status'[Routine(n)] = "ready"
      /\ \A f \in Future : f \notin {Timer(n), Routine(n)} => status'[f] = status[f]
  BY <1>1, TaskNames DEF TypeOK, TasksTypeOK, Status, Ended
<1>3. TypeOK'
  BY <1>1, <1>2 DEF TypeOK, TasksTypeOK
<1>4. InOrder'
  BY DEF InOrder, taken
<1>5. loop \notin {"superseding", "cleanup", "done"}
  BY <1>1 DEF Suspended, Attended, NothingUnattended
<1>6. Suspended'
  BY <1>1, <1>5 DEF Suspended
<1>7. FreshTasks'
  <2>1. \A i \in DOMAIN soon : soon[i] \in Future \ {Timer(n), Routine(n)}
    BY <1>1 DEF FreshTasks, TypeOK, TasksTypeOK
  <2>2. /\ DOMAIN soon' = DOMAIN soon \cup {Len(soon) + 1} /\ soon'[Len(soon) + 1] = Routine(n)
        /\ \A i \in DOMAIN soon : soon'[i] = soon[i]
    BY <1>1 DEF TypeOK, TasksTypeOK
  <2>3. /\ \A i \in DOMAIN soon' : status'[soon'[i]] = "ready"
        /\ \A i, j \in DOMAIN soon' : soon'[i] = soon'[j] => i = j
    BY <1>2, <2>1, <2>2 DEF FreshTasks
  <2>4. \A m \in Signal : m > taken' \/ m = inHand' =>
            status'[Routine(m)] = "none" /\ status'[Timer(m)] = "none"
    BY <1>1, <1>2, TaskNames DEF FreshTasks, taken, Live
  <2>5. \A m \in Signal : status'[Timer(m)] # "ok" => status'[Routine(m)] = "none"
    BY <1>1, <1>2, TaskNames DEF FreshTasks
  <2> QED
    BY <1>1, <2>3, <2>4, <2>5 DEF FreshTasks
<1>8. \A f \in Future : Live(f)' => f = Routine(n) \/ (Live(f) /\ f # Timer(n))
  BY <1>2 DEF Live
<1>9. Attended'
  <2>1. \A f \in Owned : f # Timer(n) => f \in Owned'
    BY <1>1 DEF Owned
  <2>2. Routine(n) \in Owned'
    BY DEF Owned
  <2> QED
    BY <1>1, <1>5, <1>8, <2>1, <2>2 DEF Attended, NothingUnattended
<1>10. Callbacks'
  BY <1>5, TaskNames DEF Callbacks, CallbackFindsTask
<1> QED
  BY <1>3, <1>4, <1>6, <1>7, <1>9, <1>10

LEMMA OnTaskDoneStep == ASSUME RunnerInv, NEW n \in Signal, OnTaskDone(n) PROVE RunnerInv'
<1> USE DEF RunnerInv, OnTaskDone, chanVars, loopVars, envVars
<1>1. TypeOK'
  BY DEF TypeOK, TasksTypeOK
<1>2. InOrder' /\ Suspended' /\ FreshTasks'
  BY DEF InOrder, Suspended, FreshTasks, taken, Live
<1>3. \A f \in Future : Live(f) /\ f \in Owned => f \in Owned'
  BY DEF Owned
<1>4. Attended'
  BY <1>3 DEF Attended, Live, NothingUnattended
<1>5. Callbacks'
  BY TaskNames DEF Callbacks, CallbackFindsTask
<1> QED
  BY <1>1, <1>2, <1>4, <1>5

LEMMA CallerStep == ASSUME RunnerInv, Stop \/ StopReturn \/ UNCHANGED vars PROVE RunnerInv'
<1> USE DEF RunnerInv, Stop, StopReturn, Ch!Close, vars, chanVars, taskVars, loopVars, ownVars, envVars
<1>1. /\ UNCHANGED <<strategy, accepted, queue, taskVars, loopVars, ownVars, cancels>>
      /\ closed' \in BOOLEAN /\ stopper' \in {"idle", "waiting", "returned", "raised"}
  BY DEF TypeOK
<1>2. TypeOK'
  BY <1>1 DEF TypeOK, TasksTypeOK
<1>3. InOrder' /\ Suspended' /\ FreshTasks'
  BY <1>1 DEF InOrder, Suspended, FreshTasks, taken, Live
<1>4. Attended' /\ Callbacks'
  BY <1>1 DEF Attended, Callbacks, Owned, Live, NothingUnattended, CallbackFindsTask
<1> QED
  BY <1>2, <1>3, <1>4

LEMMA NextStep == RunnerInv /\ [Next]_vars => RunnerInv'
BY SendStep, StartStep, ReceiveStep, SupersedeStep, AwaitRoutineStep, EndOfChannelStep,
   FinishCleanupStep, CancelLoopStep, FirstStepStep, EndStep, TimerFireStep, OnTaskDoneStep,
   CallerStep DEF Next, LoopStep

-----------------------------------------------------------------------------
(* The theorems, for any number of signals and of cancellations.           *)

\* The invariant of the runner that all the other theorems rest on.
THEOREM RunnerInvariant == Spec => []RunnerInv
BY InitEstablishes, NextStep, PTL DEF Spec

\* The variables always hold values of their types: an empty channel is not
\* read, and only tasks of this runner are created, cancelled and awaited.
THEOREM TypeCorrect == Spec => []TypeOK
<1>1. RunnerInv => TypeOK
  BY DEF RunnerInv
<1> QED
  BY <1>1, RunnerInvariant, PTL

\* Interrupt and Queue never run two routines at once, however the tasks
\* interleave and however long a cancelled routine takes to end.
THEOREM MutualExclusion == Spec => []OneRoutineAtATime
<1>1. RunnerInv => OneRoutineAtATime
  BY OnlyCurrentAlive, TaskNames DEF OneRoutineAtATime
<1> QED
  BY <1>1, RunnerInvariant, PTL

\* A loop that has ended left no task and no timer alive; if its cleanup was
\* cut short, whatever is left has been cancelled.
THEOREM CleanupComplete == Spec => []NothingUnattended
<1>1. RunnerInv => NothingUnattended
  BY DEF RunnerInv, Attended
<1> QED
  BY <1>1, RunnerInvariant, PTL

\* set.remove in _on_task_done never raises.
THEOREM CallbackSafe == Spec => []CallbackFindsTask
<1>1. RunnerInv => CallbackFindsTask
  BY DEF RunnerInv, Callbacks
<1> QED
  BY <1>1, RunnerInvariant, PTL

-----------------------------------------------------------------------------
(* SignalRoutineRunner implements RunnerSpec.  The proof needs to know     *)
(* whose turn it is, which RunnerInv leaves open.                          *)

\* Which signals have had their routine, by strategy and place of the loop.
Turns ==
    /\ loop \notin {"cleanup", "done"} => exit = "none"
    /\ loop = "unstarted" => current = None /\ pending = None
    /\ loop = "superseding" => inHand = taken
    /\ strategy = "Interrupt" /\ loop = "recv" => current = taken
    /\ strategy \in {"Interrupt", "Parallel"} /\ loop = "recv" /\ taken > 0 =>
          status[Routine(taken)] # "none"
    /\ strategy = "Queue" /\ loop = "recv" => \A n \in 1..taken : status[Routine(n)] = "ok"
    /\ strategy = "Queue" /\ loop = "awaiting" =>
          current = taken /\ \A n \in 1..(taken - 1) : status[Routine(n)] = "ok"
    /\ strategy = "Debounce" /\ loop = "recv" => pending \in {None, taken}

\* What a loop that has taken its normal exit has worked off.
Drained == exit = "closed" /\ strategy = "Queue" /\ (\A n \in Signal : status[Routine(n)] # "chanclosed")
              => closed /\ queue = <<>> /\ \A n \in 1..taken : status[Routine(n)] = "ok"

TurnInv == RunnerInv /\ Turns /\ Drained

-----------------------------------------------------------------------------
(* The runner as RunnerSpec sees it.                                       *)

askedRoutines == {n \in Signal : Routine(n) \in asked}

LEMMA TakenTyped ==
    ASSUME RunnerInv
    PROVE  /\ taken \in 0..MaxSignals /\ accepted \in 0..MaxSignals /\ taken <= accepted
           /\ 1..taken \subseteq Signal /\ (taken > 0 => taken \in Signal)
           /\ Len(queue) \in Nat /\ (queue = <<>> <=> taken = accepted)
<1>1. accepted \in 0..MaxSignals /\ queue \in Seq(Signal) /\ taken >= 0 /\ MaxSignals \in Nat
  BY RunnerAssumption DEF RunnerInv, TypeOK, InOrder
<1>2. Len(queue) \in Nat /\ taken = accepted - Len(queue) /\ (queue = <<>> <=> Len(queue) = 0)
  BY <1>1 DEF taken
<1> QED
  BY <1>1, <1>2 DEF Signal

LEMMA AliveIsLive ==
    ASSUME TypeOK
    PROVE  RS!Alive = {n \in Signal : Live(Routine(n))}
<1>1. \A n \in Signal : status[Routine(n)] # "alive"
  BY TaskNames DEF TypeOK, TasksTypeOK, Status, Ended
<1> QED
  BY <1>1 DEF RS!Alive, RS!Signal, Signal, result

\* Which steps of the tasks change the results, and how.
LEMMA ResultKept ==
    ASSUME \A n \in Signal : status'[Routine(n)] = status[Routine(n)]
    PROVE  result' = result /\ RS!Alive' = RS!Alive
BY DEF result, Live, RS!Alive, RS!Signal, Signal

LEMMA ResultOfTimer ==
    ASSUME TypeOK, NEW n \in Signal, Create(Timer(n))
    PROVE  \A m \in Signal : status'[Routine(m)] = status[Routine(m)]
BY TaskNames, CreateEffect

LEMMA ResultOfRoutine ==
    ASSUME TypeOK, NEW n \in Signal, status'[Routine(n)] = "ready",
           \A m \in Signal : m # n => status'[Routine(m)] = status[Routine(m)]
    PROVE  result' = [result EXCEPT ![n] = "alive"]
BY DEF result, Live

LEMMA ResultOfEnd ==
    ASSUME TypeOK, NEW n \in Signal, Live(Routine(n)), NEW end \in Ended,
           status'[Routine(n)] = end,
           \A m \in Signal : m # n => status'[Routine(m)] = status[Routine(m)]
    PROVE  result' = [result EXCEPT ![n] = end] /\ n \in RS!Alive
<1>1. end \notin {"ready", "running"}
  BY DEF Ended
<1>2. result' = [result EXCEPT ![n] = end]
  BY <1>1 DEF result, Live
<1> QED
  BY <1>2, AliveIsLive

\* Cancelling a set of tasks that holds every routine alive asks all of them.
LEMMA AskEverybody ==
    ASSUME TypeOK, NEW F, RequestCancel(F),
           \A n \in Signal : Live(Routine(n)) => Routine(n) \in F
    PROVE  askedRoutines' = askedRoutines \cup RS!Alive
BY AliveIsLive, TaskNames DEF askedRoutines, RequestCancel

-----------------------------------------------------------------------------
(* Each step is a step of RunnerSpec or a stutter.                         *)

specFrame == <<strategy, accepted, closed, taken, result, askedRoutines, phase, exit>>
Mapped == RS!Next \/ UNCHANGED specFrame
LEMMA SendMaps == ASSUME TurnInv, Send PROVE RS!Accept
<1>1. accepted \in Nat /\ Len(queue') = Len(queue) + 1 /\ accepted' = accepted + 1
  BY DEF TurnInv, RunnerInv, TypeOK, Send, Ch!Put
<1>2. taken' = taken
  BY <1>1, TakenTyped DEF TurnInv, taken
<1>3. result' = result
  BY ResultKept DEF Send, taskVars
<1> QED
  BY <1>1, <1>2, <1>3 DEF Send, Ch!Put, RS!Accept, phase, taskVars, loopVars

\* The signal received is the one after those taken so far.
LEMMA TakeMaps ==
    ASSUME TurnInv, NEW n \in Signal, loop = "recv", Ch!Take(n), accepted' = accepted
    PROVE  /\ taken' = taken + 1 /\ n = taken + 1 /\ taken < accepted
           /\ taken \in Nat /\ closed' = closed /\ phase = "serving"
           /\ status[Routine(n)] = "none" /\ status[Timer(n)] = "none"
<1>1. /\ taken' = n /\ n > taken /\ status[Routine(n)] = "none" /\ status[Timer(n)] = "none"
  BY TakeEffect DEF TurnInv
<1>2. Len(queue) \in Nat /\ Len(queue') = Len(queue) - 1 /\ accepted \in Nat /\ Len(queue) > 0
  BY DEF Ch!Take, TurnInv, RunnerInv, TypeOK
<1>3. taken' = taken + 1 /\ taken < accepted /\ taken \in Nat
  BY <1>2, TakenTyped DEF taken, TurnInv
<1> QED
  BY <1>1, <1>3 DEF Ch!Take, phase

LEMMA ReceiveMaps == ASSUME TurnInv, Receive PROVE RS!TakeAndBegin \/ RS!TakeAside
<1> USE DEF TurnInv, RunnerInv
<1>1. PICK n \in Signal : Ch!Take(n) /\ Handle(n)
  BY DEF Receive
<1>2. loop = "recv" /\ UNCHANGED <<strategy, accepted, exit>>
  BY DEF Receive
<1>3. RS!Take /\ n = taken + 1 /\ taken \in Nat /\ closed' = closed /\ phase = "serving"
      /\ status[Routine(n)] = "none" /\ status[Timer(n)] = "none"
  BY <1>1, <1>2, TakeMaps DEF RS!Take
<1>4. CASE \/ strategy = "Interrupt" /\ current = None
           \/ strategy \in {"Parallel", "Queue"}
  <2>1. Create(Routine(n)) /\ asked' = asked /\ loop' \in {"recv", "awaiting"}
    BY <1>1, <1>4 DEF Handle, InterruptHandle, ParallelHandle, QueueHandle, DebounceHandle, Resume
  <2>2. result' = [result EXCEPT ![taken + 1] = "alive"]
    BY <1>3, <2>1, CreateEffect, ResultOfRoutine, TaskNames
  <2>3. strategy = "Queue" => \A m \in 1..taken : result[m] = "ok"
    BY <1>2, TakenTyped DEF Turns, result, Live
  <2>4. strategy = "Interrupt" => taken = 0
    BY <1>2, <1>4 DEF Turns, None
  <2>5. phase' = phase
    BY <1>2, <2>1 DEF phase
  <2> QED
    BY <1>2, <1>3, <1>4, <2>1, <2>2, <2>3, <2>4, <2>5 DEF RS!TakeAndBegin, RS!Begin
<1>5. CASE strategy = "Interrupt" /\ current # None
  <2>1. RequestCancel({Routine(current)}) /\ UNCHANGED status /\ loop' = "superseding"
    BY <1>1, <1>5 DEF Handle, InterruptHandle, ParallelHandle, QueueHandle, DebounceHandle, CancelAndWait
  <2>2. askedRoutines' = askedRoutines \cup RS!Alive
    BY <1>5, <2>1, AskEverybody, OnlyCurrentAlive, TaskNames
  <2>3. result' = result /\ phase' = phase
    BY <1>2, <2>1, ResultKept DEF phase
  <2>4. taken > 0 /\ ~RS!Awaited
    BY <1>2, <1>5, <1>3, TakenTyped DEF Turns, RS!Awaited, result, None
  <2> QED
    BY <1>2, <1>3, <1>5, <2>2, <2>3, <2>4 DEF RS!TakeAside, RS!AskAll, askedRoutines
<1>6. CASE strategy = "Debounce"
  <2>1. /\ \/ asked' = asked /\ Create(Timer(n))
           \/ RequestCancel({Timer(pending)}) /\ UNCHANGED status
        /\ loop' \in {"recv", "superseding"}
    BY <1>1, <1>6
       DEF Handle, InterruptHandle, ParallelHandle, QueueHandle, DebounceHandle, CancelAndWait, Resume
  <2>2. askedRoutines' = askedRoutines
    BY <2>1, TaskNames DEF askedRoutines, RequestCancel
  <2>3. result' = result /\ phase' = phase
    BY <1>2, <2>1, ResultKept, ResultOfTimer DEF phase
  <2> QED
    BY <1>2, <1>3, <1>6, <2>2, <2>3 DEF RS!TakeAside, askedRoutines
<1> QED
  BY <1>4, <1>5, <1>6, RunnerAssumption DEF TypeOK, Mode

LEMMA SupersedeMaps == ASSUME TurnInv, Supersede PROVE RS!BeginAside \/ UNCHANGED specFrame
<1> USE DEF TurnInv, RunnerInv
<1>1. /\ loop = "superseding" /\ loop' = "recv" /\ inHand = taken /\ inHand \in Signal
      /\ status[Routine(inHand)] = "none"
      /\ UNCHANGED <<strategy, chanVars, asked, exit>>
  BY DEF Supersede, Resume, Turns, Suspended, FreshTasks
<1>2. UNCHANGED <<accepted, closed, taken, askedRoutines, phase>> /\ phase = "serving"
  BY <1>1 DEF chanVars, taken, phase, askedRoutines
<1>3. CASE strategy = "Interrupt"
  <2>1. Create(Routine(inHand)) /\ current \in Signal /\ ~Live(Routine(current))
    BY <1>1, <1>3, TaskNames DEF Supersede, Suspended, Settled
  <2>2. result' = [result EXCEPT ![taken] = "alive"]
    BY <1>1, <2>1, CreateEffect, ResultOfRoutine, TaskNames
  <2>3. RS!Alive = {}
    BY <1>3, <2>1, OnlyCurrentAlive, TaskNames, AliveIsLive
  <2>4. RS!Awaited
    BY <1>1, Arrivals DEF RS!Awaited, result, Live, Signal
  <2> QED
    BY <1>1, <1>2, <1>3, <2>2, <2>3, <2>4 DEF RS!BeginAside, RS!Begin, askedRoutines
<1>4. CASE strategy = "Debounce"
  <2>1. Create(Timer(inHand))
    BY <1>4 DEF Supersede
  <2>2. result' = result
    BY <1>1, <2>1, ResultOfTimer, ResultKept
  <2> QED
    BY <1>1, <1>2, <2>2 DEF specFrame
<1> QED
  BY <1>3, <1>4 DEF Supersede

LEMMA CleanupMaps ==
    ASSUME TurnInv, NEW why \in {"closed", "error", "cancelled"}, BeginCleanup(why),
           loop \in {"recv", "superseding", "awaiting"}, UNCHANGED <<strategy, chanVars>>
    PROVE  /\ phase = "serving" /\ phase' = "ending" /\ RS!AskAll /\ exit' = why
           /\ UNCHANGED <<strategy, accepted, closed, taken, result>>
<1>1. RequestCancel(Owned) /\ loop' = "cleanup" /\ exit' = why /\ UNCHANGED status
  BY DEF BeginCleanup, CancelAndWait
<1>2. \A n \in Signal : Live(Routine(n)) => Routine(n) \in Owned
  BY TaskNames DEF TurnInv, RunnerInv, Attended
<1>3. askedRoutines' = askedRoutines \cup RS!Alive
  BY <1>1, <1>2, AskEverybody DEF TurnInv, RunnerInv
<1> QED
  BY <1>1, <1>3, ResultKept DEF phase, chanVars, taken, RS!AskAll, askedRoutines

LEMMA EndOfChannelMaps == ASSUME TurnInv, EndOfChannel PROVE RS!Finish
<1>1. /\ loop = "recv" /\ closed /\ queue = <<>> /\ BeginCleanup("closed")
      /\ UNCHANGED <<strategy, chanVars>>
  BY DEF EndOfChannel
<1>2. /\ phase = "serving" /\ phase' = "ending" /\ RS!AskAll /\ exit' = "closed"
      /\ UNCHANGED <<strategy, accepted, closed, taken, result>>
  BY <1>1, CleanupMaps
<1>3. taken = accepted
  BY <1>1, TakenTyped DEF TurnInv
<1>4. strategy \in {"Interrupt", "Parallel"} => ~RS!Awaited
  BY <1>1, TakenTyped DEF TurnInv, Turns, RS!Awaited, result
<1>5. strategy = "Queue" => \A n \in 1..taken : result[n] = "ok"
  BY <1>1, TakenTyped DEF TurnInv, Turns, result, Live
<1> QED
  BY <1>1, <1>2, <1>3, <1>4, <1>5 DEF RS!Finish

LEMMA AwaitRoutineMaps == ASSUME TurnInv, AwaitRoutine PROVE RS!Finish \/ UNCHANGED specFrame
<1> USE DEF TurnInv, RunnerInv
<1>1. /\ loop = "awaiting" /\ strategy = "Queue" /\ current \in Signal /\ current = taken
      /\ ~Live(Routine(taken)) /\ UNCHANGED <<strategy, chanVars>>
      /\ result[taken] = status[Routine(taken)]
  BY DEF AwaitRoutine, Suspended, Settled, Turns, result
<1>2. CASE Resume /\ UNCHANGED <<taskVars, exit>>
  BY <1>1, <1>2, ResultKept DEF Resume, taskVars, chanVars, specFrame, taken, phase, askedRoutines
<1>3. CASE BeginCleanup("error") /\ status[Routine(current)] = "error"
  BY <1>1, <1>3, CleanupMaps, Arrivals DEF RS!Finish, Signal
<1>4. CASE BeginCleanup("closed") /\ status[Routine(current)] = "chanclosed"
  BY <1>1, <1>4, CleanupMaps, Arrivals DEF RS!Finish, Signal
<1>5. CASE BeginCleanup("cancelled")
  BY <1>1, <1>5, CleanupMaps DEF RS!Finish
<1> QED
  BY <1>2, <1>3, <1>4, <1>5 DEF AwaitRoutine

LEMMA CancelLoopMaps ==
    ASSUME TurnInv, CancelLoop PROVE RS!Finish \/ RS!Leave \/ RS!AskRoutine \/ UNCHANGED specFrame
<1> USE DEF TurnInv, RunnerInv
<1>1. UNCHANGED <<strategy, chanVars>>
  BY DEF CancelLoop
<1>2. CASE loop = "unstarted" /\ loop' = "done" /\ exit' = "unstarted" /\ UNCHANGED taskVars
  BY <1>1, <1>2, ResultKept DEF RS!Leave, phase, chanVars, taskVars, taken, InOrder
<1>3. CASE loop \in {"recv", "superseding", "awaiting"} /\ BeginCleanup("cancelled")
  BY <1>1, <1>3, CleanupMaps DEF RS!Finish
<1>4. CASE /\ loop = "awaiting" /\ RequestCancel({Routine(current)})
           /\ UNCHANGED <<status, soon, callbacks, loopVars>>
  <2>1. askedRoutines' = askedRoutines \cup RS!Alive
    BY <1>4, AskEverybody, OnlyCurrentAlive, TaskNames DEF Suspended
  <2> QED
    BY <1>1, <1>4, <2>1, ResultKept
       DEF RS!AskRoutine, RS!AskAll, askedRoutines, phase, chanVars, loopVars, taken, Suspended
<1>5. CASE loop = "cleanup" /\ loop' = "done" /\ exit' = "aborted" /\ UNCHANGED taskVars
  BY <1>1, <1>5, ResultKept DEF RS!Leave, phase, chanVars, taskVars, taken
<1> QED
  BY <1>2, <1>3, <1>4, <1>5 DEF CancelLoop
LEMMA TaskFirstStepMaps ==
    ASSUME TurnInv, TaskFirstStep
    PROVE  UNCHANGED specFrame \/ \E n \in Signal : RS!RoutineEnds(n)
<1> USE DEF TurnInv, RunnerInv
<1>1. soon \in Seq(Future) /\ soon # <<>> /\ status \in [Future -> Status]
  BY DEF TaskFirstStep, FirstStep, TypeOK, TasksTypeOK
<1>2. PICK f \in Future : f = Head(soon)
  BY <1>1
<1>3. /\ status[f] = "ready" /\ status'[f] = (IF f \in asked THEN "dropped" ELSE "running")
      /\ \A g \in Future : g # f => status'[g] = status[g]
  <2>1. f = soon[1] /\ 1 \in DOMAIN soon
    BY <1>1, <1>2
  <2> QED
    BY <1>1, <1>2, <2>1 DEF TaskFirstStep, FirstStep, FreshTasks
<1>4. UNCHANGED <<strategy, accepted, closed, taken, askedRoutines, phase, exit>>
  BY DEF TaskFirstStep, FirstStep, chanVars, loopVars, taken, phase, askedRoutines
<1>5. CASE \A n \in Signal : f # Routine(n)
  BY <1>3, <1>4, <1>5, ResultKept, TaskNames DEF specFrame
<1>6. ASSUME NEW n \in Signal, f = Routine(n), f \in asked
      PROVE  RS!RoutineEnds(n)
  <2>1. result' = [result EXCEPT ![n] = "dropped"] /\ n \in RS!Alive
    <3>1. Live(Routine(n)) /\ status'[Routine(n)] = "dropped" /\ "dropped" \in Ended
      BY <1>3, <1>6 DEF Live, Ended
    <3>2. \A m \in Signal : m # n => status'[Routine(m)] = status[Routine(m)]
      BY <1>3, <1>6, TaskNames
    <3> QED
      BY <3>1, <3>2, ResultOfEnd
  <2> QED
    BY <1>4, <1>6, <2>1 DEF RS!RoutineEnds, askedRoutines
<1>7. ASSUME NEW n \in Signal, f = Routine(n), f \notin asked
      PROVE  UNCHANGED specFrame
  BY <1>3, <1>4, <1>7, TaskNames DEF specFrame, result, Live
<1> QED
  BY <1>5, <1>6, <1>7

LEMMA RoutineEndMaps ==
    ASSUME TurnInv, NEW n \in Signal, RoutineEnd(n) PROVE RS!RoutineEnds(n)
<1> USE DEF TurnInv, RunnerInv
<1>1. PICK outcome \in Outcomes \cup {"cancelled"} : End(Routine(n), outcome)
  BY DEF RoutineEnd
<1>2. /\ UNCHANGED <<strategy, accepted, closed, taken, askedRoutines, phase, exit>>
      /\ outcome = "cancelled" => n \in askedRoutines
  BY <1>1 DEF RoutineEnd, End, chanVars, loopVars, taken, phase, askedRoutines
<1>3. outcome \in {"ok", "error", "chanclosed", "cancelled"}
  BY RunnerAssumption
<1>4. /\ status[Routine(n)] = "running" /\ status'[Routine(n)] = outcome
      /\ \A g \in Future : g # Routine(n) => status'[g] = status[g]
  BY <1>1, TaskNames DEF End, TypeOK, TasksTypeOK
<1>5. result' = [result EXCEPT ![n] = outcome] /\ n \in RS!Alive
  <2>1. Live(Routine(n)) /\ outcome \in Ended
    BY <1>3, <1>4 DEF Live, Ended
  <2>2. \A m \in Signal : m # n => status'[Routine(m)] = status[Routine(m)]
    BY <1>4, TaskNames
  <2> QED
    BY <1>4, <2>1, <2>2, ResultOfEnd
<1> QED
  BY <1>2, <1>3, <1>5 DEF RS!RoutineEnds, askedRoutines

LEMMA TimerFireMaps ==
    ASSUME TurnInv, NEW n \in Signal, TimerFire(n) PROVE RS!BeginAside
<1> USE DEF TurnInv, RunnerInv
<1>1. /\ Live(Timer(n)) /\ Timer(n) \notin asked /\ pending = n /\ strategy = "Debounce"
      /\ status[Routine(n)] = "none"
  BY TaskNames DEF TimerFire, Live, FreshTasks, Attended, Owned
<1>2. loop \in {"recv", "unstarted", "awaiting"} /\ phase = "serving"
  BY <1>1, TaskNames DEF Suspended, Attended, NothingUnattended, TypeOK, phase
<1>3. n = taken /\ taken > 0
  BY <1>1, <1>2, Arrivals DEF Turns, Suspended, Signal
<1>4. result' = [result EXCEPT ![n] = "alive"]
  <2>1. /\ status'[Routine(n)] = "ready"
        /\ \A m \in Signal : m # n => status'[Routine(m)] = status[Routine(m)]
    BY TaskNames DEF TimerFire, TypeOK, TasksTypeOK
  <2> QED
    BY <2>1, ResultOfRoutine
<1>5. RS!Awaited
  BY <1>1, <1>3 DEF RS!Awaited, result, Live
<1>6. UNCHANGED <<strategy, accepted, closed, taken, asked, phase, exit>>
  BY DEF TimerFire, chanVars, loopVars, taken, phase
<1> QED
  BY <1>1, <1>2, <1>3, <1>4, <1>5, <1>6 DEF RS!BeginAside, RS!Begin

\* Steps of the tasks that those who publish do not see.
LEMMA HiddenMaps ==
    ASSUME TurnInv, NEW n \in Signal, TimerCancelled(n) \/ OnTaskDone(n)
    PROVE  UNCHANGED specFrame
<1>1. UNCHANGED <<strategy, chanVars, asked, exit>> /\ phase' = phase
  BY DEF TimerCancelled, End, OnTaskDone, taskVars, loopVars, phase
<1>2. \A m \in Signal : status'[Routine(m)] = status[Routine(m)]
  BY TaskNames DEF TimerCancelled, End, OnTaskDone, taskVars, TurnInv, RunnerInv,
     TypeOK, TasksTypeOK
<1> QED
  BY <1>1, <1>2, ResultKept DEF specFrame, chanVars, taken, askedRoutines

LEMMA FinishCleanupMaps == ASSUME TurnInv, FinishCleanup PROVE RS!Leave
<1>1. RS!Alive = {}
  BY TaskNames, AliveIsLive DEF TurnInv, RunnerInv, Attended, FinishCleanup, Settled
<1> QED
  BY <1>1, ResultKept DEF FinishCleanup, RS!Leave, phase, chanVars, taskVars, taken

LEMMA StopMaps == ASSUME TurnInv, Stop PROVE RS!Close
BY ResultKept DEF Stop, Ch!Close, RS!Close, taskVars, loopVars, phase, taken

LEMMA StepMaps == ASSUME TurnInv, [Next]_vars PROVE Mapped
<1>1. CASE Next
  <2>1. CASE Send
    BY <2>1, SendMaps DEF Mapped, RS!Next
  <2>2. CASE Receive \/ Supersede \/ AwaitRoutine \/ EndOfChannel \/ FinishCleanup
    BY <2>2, ReceiveMaps, SupersedeMaps, AwaitRoutineMaps, EndOfChannelMaps, FinishCleanupMaps
       DEF Mapped, RS!Next
  <2>3. CASE CancelLoop
    BY <2>3, CancelLoopMaps DEF Mapped, RS!Next
  <2>4. CASE TaskFirstStep
    BY <2>4, TaskFirstStepMaps DEF Mapped, RS!Next, RS!Signal, Signal
  <2>5. ASSUME NEW n \in Signal, RoutineEnd(n) PROVE Mapped
    BY <2>5, RoutineEndMaps DEF Mapped, RS!Next, RS!Signal, Signal
  <2>6. ASSUME NEW n \in Signal, TimerFire(n) PROVE Mapped
    BY <2>6, TimerFireMaps DEF Mapped, RS!Next
  <2>7. ASSUME NEW n \in Signal, TimerCancelled(n) \/ OnTaskDone(n) PROVE Mapped
    BY <2>7, HiddenMaps DEF Mapped
  <2>8. CASE Start \/ StopReturn
    <3>1. UNCHANGED specFrame
      BY <2>8, ResultKept
         DEF Start, StopReturn, specFrame, chanVars, taskVars, loopVars, taken, askedRoutines, phase
    <3> QED
      BY <3>1 DEF Mapped
  <2>9. CASE Stop
    BY <2>9, StopMaps DEF Mapped, RS!Next
  <2> QED
    BY <1>1, <2>1, <2>2, <2>3, <2>4, <2>5, <2>6, <2>7, <2>8, <2>9 DEF Next, LoopStep
<1>2. CASE UNCHANGED vars
  BY <1>2, ResultKept DEF vars, Mapped, specFrame, chanVars, taskVars, loopVars, taken, askedRoutines, phase
<1> QED
  BY <1>1, <1>2
-----------------------------------------------------------------------------
(* TurnInv is an invariant.                                                *)

\* A routine that has been created stays created, one that has ended stays ended.
Lasting(t) == /\ status[t] # "none" => status'[t] # "none"
              /\ status[t] \in Ended => status'[t] = status[t]

LEMMA CreateLasting ==
    ASSUME TypeOK, NEW t \in Future, status[t] = "none", Create(t)
    PROVE  \A n \in Signal : Lasting(Routine(n))
BY CreateEffect, TaskNames DEF Lasting, Ended

LEMMA ReceiveLasting == ASSUME TurnInv, Receive PROVE \A n \in Signal : Lasting(Routine(n))
<1> USE DEF TurnInv, RunnerInv
<1>1. PICK n \in Signal : Ch!Take(n) /\ Handle(n)
  BY DEF Receive
<1>2. status[Routine(n)] = "none" /\ status[Timer(n)] = "none"
  BY <1>1, TakeEffect DEF Receive
<1>3. Create(Routine(n)) \/ Create(Timer(n)) \/ UNCHANGED status
  BY <1>1 DEF Handle, InterruptHandle, ParallelHandle, QueueHandle, DebounceHandle
<1> QED
  BY <1>2, <1>3, CreateLasting, TaskNames DEF Lasting

LEMMA SupersedeLasting == ASSUME TurnInv, Supersede PROVE \A n \in Signal : Lasting(Routine(n))
<1> USE DEF TurnInv, RunnerInv
<1>1. inHand \in Signal /\ status[Routine(inHand)] = "none" /\ status[Timer(inHand)] = "none"
  BY DEF Supersede, Suspended, FreshTasks
<1>2. Create(Routine(inHand)) \/ Create(Timer(inHand))
  BY DEF Supersede
<1> QED
  BY <1>1, <1>2, CreateLasting, TaskNames

LEMMA FirstStepLasting == ASSUME TurnInv, TaskFirstStep PROVE \A n \in Signal : Lasting(Routine(n))
<1> USE DEF TurnInv, RunnerInv
<1>1. soon \in Seq(Future) /\ soon # <<>> /\ status \in [Future -> Status]
  BY DEF TaskFirstStep, FirstStep, TypeOK, TasksTypeOK
<1>2. PICK f \in Future : f = soon[1] /\ f = Head(soon)
  BY <1>1
<1>3. status[f] = "ready"
  BY <1>1, <1>2 DEF FreshTasks
<1>4. status'[f] \in {"dropped", "running"} /\ \A g \in Future : g # f => status'[g] = status[g]
  BY <1>1, <1>2 DEF TaskFirstStep, FirstStep
<1> QED
  BY <1>3, <1>4, TaskNames DEF Lasting, Ended

LEMMA TasksLasting ==
    ASSUME TurnInv, NEW n \in Signal,
           RoutineEnd(n) \/ TimerFire(n) \/ TimerCancelled(n) \/ OnTaskDone(n)
    PROVE  \A m \in Signal : Lasting(Routine(m))
<1> USE DEF TurnInv, RunnerInv
<1>1. CASE RoutineEnd(n)
  <2>1. PICK outcome \in Outcomes \cup {"cancelled"} : End(Routine(n), outcome)
    BY <1>1 DEF RoutineEnd
  <2>2. outcome # "none" /\ status[Routine(n)] = "running"
    BY <2>1, RunnerAssumption DEF End
  <2>3. \A g \in Future : status'[g] = IF g = Routine(n) THEN outcome ELSE status[g]
    BY <2>1 DEF End, TypeOK, TasksTypeOK
  <2> QED
    BY <2>2, <2>3, TaskNames DEF Lasting, Ended
<1>2. CASE TimerFire(n)
  <2>1. status[Routine(n)] = "none"
    BY <1>2, TaskNames DEF TimerFire, FreshTasks, Attended, Owned, Live
  <2>2. \A m \in Signal : m # n => status'[Routine(m)] = status[Routine(m)]
    BY <1>2, TaskNames DEF TimerFire, TypeOK, TasksTypeOK
  <2> QED
    BY <2>1, <2>2 DEF Lasting, Ended
<1>3. CASE TimerCancelled(n) \/ OnTaskDone(n)
  BY <1>3, TaskNames DEF TimerCancelled, End, OnTaskDone, Lasting, TypeOK, TasksTypeOK
<1> QED
  BY <1>1, <1>2, <1>3

LEMMA AllLasting == ASSUME TurnInv, [Next]_vars PROVE \A n \in Signal : Lasting(Routine(n))
<1>1. CASE UNCHANGED status
  BY <1>1 DEF Lasting
<1>2. CASE Receive \/ Supersede \/ TaskFirstStep
  BY <1>2, ReceiveLasting, SupersedeLasting, FirstStepLasting
<1>3. CASE \E n \in Signal : RoutineEnd(n) \/ TimerFire(n) \/ TimerCancelled(n) \/ OnTaskDone(n)
  BY <1>3, TasksLasting
<1>4. CASE Send \/ Start \/ AwaitRoutine \/ EndOfChannel \/ FinishCleanup \/ Stop \/ StopReturn
           \/ CancelLoop
  <2>1. UNCHANGED status
    BY <1>4 DEF Send, Start, AwaitRoutine, EndOfChannel, FinishCleanup, Stop, StopReturn, CancelLoop,
       BeginCleanup, CancelAndWait, taskVars
  <2> QED
    BY <1>1, <2>1
<1> QED
  BY <1>1, <1>2, <1>3, <1>4 DEF Next, LoopStep, vars, taskVars

\* Steps that leave the loop where it is.
LEMMA TurnsKept ==
    ASSUME TurnInv, \A n \in Signal : Lasting(Routine(n)),
           UNCHANGED <<strategy, loop, inHand, taken, current, exit>>, pending' \in {pending, None}
    PROVE  Turns'
<1>1. 1..taken \subseteq Signal /\ 1..(taken - 1) \subseteq Signal /\ (taken > 0 => taken \in Signal)
  BY TakenTyped DEF TurnInv, Signal
<1> QED
  BY <1>1 DEF TurnInv, Turns, Lasting, Ended

\* Steps that end the loop's service.
LEMMA TurnsOver ==
    ASSUME loop' \in {"cleanup", "done"} PROVE Turns'
BY DEF Turns

LEMMA StartTurns == ASSUME TurnInv, Start PROVE Turns'
<1>1. taken = 0 /\ taken' = 0 /\ current' = 0 /\ pending' = 0 /\ strategy' = strategy
      /\ exit' = "none" /\ loop' = "recv" /\ status' = status
  BY DEF TurnInv, RunnerInv, InOrder, Turns, Start, taken, chanVars, ownVars, taskVars, None
<1>2. 1..0 = {}
  OBVIOUS
<1> QED
  BY <1>1, <1>2 DEF Turns

LEMMA ReceiveTurns == ASSUME TurnInv, Receive PROVE Turns'
<1> USE DEF TurnInv, RunnerInv
<1>1. PICK n \in Signal : Ch!Take(n) /\ Handle(n)
  BY DEF Receive
<1>2. loop = "recv" /\ UNCHANGED <<strategy, accepted, exit>> /\ exit = "none"
  BY DEF Receive, Turns
<1>3. n = taken + 1 /\ taken' = n /\ taken \in Nat
  BY <1>1, <1>2, TakeMaps
<1>4. ASSUME Create(Routine(n)) PROVE status'[Routine(n)] # "none"
  BY <1>4, CreateEffect, TaskNames
<1>5. \/ strategy = "Interrupt" /\ Create(Routine(n)) /\ current' = n /\ loop' = "recv"
      \/ strategy = "Parallel" /\ Create(Routine(n)) /\ loop' = "recv"
      \/ strategy = "Queue" /\ current' = n /\ loop' = "awaiting"
      \/ strategy = "Debounce" /\ pending' = n /\ loop' = "recv"
      \/ inHand' = n /\ loop' = "superseding"
  BY <1>1 DEF Handle, InterruptHandle, ParallelHandle, QueueHandle, DebounceHandle, Resume
<1>6. strategy = "Queue" => \A m \in 1..(taken' - 1) : status'[Routine(m)] = "ok"
  <2>1. taken' - 1 = taken /\ 1..taken \subseteq Signal
    BY <1>3, TakenTyped
  <2> QED
    BY <1>2, <2>1, ReceiveLasting DEF Turns, Lasting, Ended
<1> QED
  BY <1>2, <1>3, <1>4, <1>5, <1>6 DEF Turns

LEMMA SupersedeTurns == ASSUME TurnInv, Supersede PROVE Turns'
<1> USE DEF TurnInv, RunnerInv
<1>1. /\ loop = "superseding" /\ loop' = "recv" /\ inHand = taken /\ inHand \in Signal
      /\ UNCHANGED <<strategy, chanVars, exit>> /\ exit = "none"
  BY DEF Supersede, Resume, Turns, Suspended
<1>2. taken' = inHand
  BY <1>1 DEF taken, chanVars
<1>3. \/ strategy = "Interrupt" /\ Create(Routine(inHand)) /\ current' = inHand
      \/ strategy = "Debounce" /\ pending' = inHand
  BY DEF Supersede
<1>4. ASSUME Create(Routine(inHand)) PROVE status'[Routine(inHand)] # "none"
  BY <1>1, <1>4, CreateEffect, TaskNames
<1> QED
  BY <1>1, <1>2, <1>3, <1>4 DEF Turns

LEMMA AwaitRoutineTurns == ASSUME TurnInv, AwaitRoutine PROVE Turns'
<1> USE DEF TurnInv, RunnerInv
<1>1. /\ loop = "awaiting" /\ strategy = "Queue" /\ current \in Signal /\ current = taken
      /\ exit = "none" /\ \A n \in 1..(taken - 1) : status[Routine(n)] = "ok"
      /\ UNCHANGED <<strategy, accepted, queue>>
  BY DEF AwaitRoutine, Suspended, Turns, chanVars
<1>2. CASE status[Routine(current)] = "ok" /\ Resume /\ UNCHANGED <<taskVars, exit>>
  <2>1. taken' = taken /\ status' = status /\ loop' = "recv"
    BY <1>1, <1>2 DEF taken, taskVars, Resume
  <2>2. \A n \in 1..taken : n = taken \/ n \in 1..(taken - 1)
    BY TakenTyped
  <2> QED
    BY <1>1, <1>2, <2>1, <2>2 DEF Turns
<1>3. CASE loop' = "cleanup"
  BY <1>3, TurnsOver
<1> QED
  BY <1>2, <1>3 DEF AwaitRoutine, BeginCleanup

LEMMA CancelLoopTurns == ASSUME TurnInv, CancelLoop PROVE Turns'
<1>1. CASE loop' \in {"cleanup", "done"}
  BY <1>1, TurnsOver
<1>2. CASE UNCHANGED <<status, loopVars>>
  <2>1. UNCHANGED <<strategy, loop, inHand, taken, current, exit, pending>>
    BY <1>2 DEF CancelLoop, loopVars, chanVars, ownVars, taken
  <2> QED
    BY <1>2, <2>1, TurnsKept DEF Lasting
<1> QED
  BY <1>1, <1>2 DEF CancelLoop, BeginCleanup

LEMMA TurnsStep == ASSUME TurnInv, [Next]_vars PROVE Turns'
<1>1. \A n \in Signal : Lasting(Routine(n))
  BY AllLasting
<1>2. CASE Send
  BY <1>1, <1>2, SendMaps, TurnsKept DEF RS!Accept, Send, loopVars, ownVars
<1>3. CASE Start \/ Receive \/ Supersede \/ AwaitRoutine \/ CancelLoop
  BY <1>3, StartTurns, ReceiveTurns, SupersedeTurns, AwaitRoutineTurns, CancelLoopTurns
<1>4. CASE EndOfChannel \/ FinishCleanup
  BY <1>4, TurnsOver DEF EndOfChannel, BeginCleanup, FinishCleanup
<1>5. CASE TaskFirstStep \/ Stop \/ StopReturn \/ UNCHANGED vars
  BY <1>1, <1>5, TurnsKept
     DEF TaskFirstStep, Stop, Ch!Close, StopReturn, vars, chanVars, loopVars, ownVars, taken
<1>6. ASSUME NEW n \in Signal, RoutineEnd(n) \/ TimerFire(n) \/ TimerCancelled(n) \/ OnTaskDone(n)
      PROVE  Turns'
  BY <1>1, <1>6, TurnsKept
     DEF RoutineEnd, TimerFire, TimerCancelled, OnTaskDone, chanVars, loopVars, ownVars, taken
<1> QED
  BY <1>2, <1>3, <1>4, <1>5, <1>6 DEF Next, LoopStep
\* Nothing is taken, or accepted, after a normal exit.
LEMMA DrainedKept ==
    ASSUME TurnInv, strategy' = strategy, exit' = exit \/ exit' # "closed",
           \A n \in Signal : Lasting(Routine(n)),
           closed => closed' /\ accepted' = accepted, closed /\ exit = "closed" => queue' = queue
    PROVE  Drained'
<1> SUFFICES ASSUME exit' = "closed", strategy = "Queue",
                    \A n \in Signal : status'[Routine(n)] # "chanclosed"
             PROVE  closed' /\ queue' = <<>> /\ \A n \in 1..taken' : status'[Routine(n)] = "ok"
  BY DEF Drained
<1>1. exit = "closed" /\ \A n \in Signal : status[Routine(n)] # "chanclosed"
  BY DEF Lasting, Ended
<1>2. closed /\ queue = <<>> /\ \A n \in 1..taken : status[Routine(n)] = "ok"
  BY <1>1 DEF TurnInv, Drained
<1>3. closed' /\ queue' = <<>> /\ taken' = taken
  BY <1>1, <1>2 DEF taken
<1> QED
  BY <1>2, <1>3, TakenTyped DEF Lasting, Ended, TurnInv

LEMMA DrainedStep == ASSUME TurnInv, [Next]_vars PROVE Drained'
<1> USE DEF TurnInv
<1>1. \A n \in Signal : Lasting(Routine(n))
  BY AllLasting
<1>2. CASE EndOfChannel
  <2>1. loop = "recv" /\ closed /\ queue = <<>> /\ UNCHANGED <<strategy, accepted, closed, queue, status>>
    BY <1>2 DEF EndOfChannel, BeginCleanup, chanVars
  <2> QED
    BY <2>1 DEF Drained, Turns, taken
<1>3. CASE AwaitRoutine
  <2>1. loop = "awaiting" /\ current \in Signal /\ UNCHANGED <<strategy, accepted, closed, queue, status>>
    BY <1>3 DEF AwaitRoutine, BeginCleanup, taskVars, chanVars, RunnerInv, Suspended
  <2>2. exit' = exit \/ exit' # "closed" \/ status[Routine(current)] = "chanclosed"
    BY <1>3 DEF AwaitRoutine, BeginCleanup
  <2> QED
    BY <1>1, <2>1, <2>2, DrainedKept DEF Drained
<1>4. CASE Send \/ Stop \/ StopReturn \/ UNCHANGED vars \/ Start
  BY <1>1, <1>4, DrainedKept
     DEF Send, Stop, StopReturn, vars, Start, Ch!Put, Ch!Close, Turns, chanVars, loopVars, Drained
<1>5. CASE Receive \/ Supersede \/ FinishCleanup \/ CancelLoop \/ TaskFirstStep
  <2>1. strategy' = strategy /\ closed' = closed /\ accepted' = accepted
    BY <1>5 DEF Receive, Ch!Take, Supersede, FinishCleanup, CancelLoop, TaskFirstStep, chanVars
  <2>2. exit' = exit \/ exit' # "closed"
    BY <1>5 DEF Receive, Supersede, FinishCleanup, CancelLoop, BeginCleanup, TaskFirstStep, loopVars
  <2>3. closed /\ exit = "closed" => queue' = queue
    BY <1>5 DEF Receive, Supersede, FinishCleanup, CancelLoop, TaskFirstStep, chanVars, Turns
  <2> QED
    BY <1>1, <2>1, <2>2, <2>3, DrainedKept
<1>6. ASSUME NEW n \in Signal, RoutineEnd(n) \/ TimerFire(n) \/ TimerCancelled(n) \/ OnTaskDone(n)
      PROVE  Drained'
  BY <1>1, <1>6, DrainedKept
     DEF RoutineEnd, TimerFire, TimerCancelled, OnTaskDone, chanVars, loopVars
<1> QED
  BY <1>2, <1>3, <1>4, <1>5, <1>6 DEF Next, LoopStep

LEMMA InitTurns == Init => TurnInv
<1> SUFFICES ASSUME Init PROVE TurnInv
  OBVIOUS
<1>1. Turns /\ Drained
  BY DEF Init, Turns, Drained
<1> QED
  BY <1>1, InitEstablishes DEF TurnInv

LEMMA InitMaps == ASSUME Init PROVE RS!Init
<1>1. Len(queue) = 0 /\ accepted = 0 /\ phase = "serving" /\ askedRoutines = {}
  BY DEF Init, TasksInit, phase, askedRoutines
<1>3. taken = 0
  BY <1>1 DEF taken
<1>2. result = [n \in Signal |-> "none"]
  BY TaskNames DEF Init, TasksInit, result, Live
<1> QED
  BY <1>1, <1>2, <1>3 DEF Init, RS!Init, RS!Signal, Signal, askedRoutines

-----------------------------------------------------------------------------
(* The theorems, for any number of signals and of cancellations.           *)

\* The invariant that says, for each strategy and place of the loop, whose turn it is.
THEOREM TurnInvariant == Spec => []TurnInv
<1>1. TurnInv /\ [Next]_vars => TurnInv'
  BY NextStep, TurnsStep, DrainedStep DEF TurnInv
<1> QED
  BY <1>1, InitTurns, PTL DEF Spec

\* A Queue runner that takes its normal exit, and no routine of which raised
\* ChanClosed, has run every accepted signal to its end.
THEOREM BacklogDrained == Spec => []QueueDrainsBacklog
<1>1. TurnInv => QueueDrainsBacklog
  BY TakenTyped DEF TurnInv, Drained, QueueDrainsBacklog
<1> QED
  BY <1>1, TurnInvariant, PTL

\* The runner, with its attributes, timers, waits and cleanup, implements
\* RunnerSpec: which signals get a routine, when, next to which others, and how
\* the runner ends.
THEOREM Refinement == Spec => ImplementsRunnerSpec
<1>1. Init => RS!Init
  BY InitMaps
<1>2. TurnInv /\ [Next]_vars => [RS!Next]_(RS!specVars)
  BY StepMaps DEF Mapped, specFrame, RS!specVars, askedRoutines
<1> QED
  BY <1>1, <1>2, TurnInvariant, PTL DEF Spec, ImplementsRunnerSpec, RS!Spec

-----------------------------------------------------------------------------
(* What is left when nothing is under way: the safety half of SignalServed *)
(* and of StopCompletes, which needs no fairness.                          *)

\* When the loop is back at its channel, the channel is empty and no task waits
\* for its first step, no accepted signal has been forgotten: its routine has
\* begun, or a newer signal has taken its place (Interrupt and Debounce only), or
\* it is the last one and its Debounce timer is running.
ServedAtRest ==
    loop = "recv" /\ queue = <<>> /\ soon = <<>> =>
        \A n \in 1..accepted :
            \/ Started(n)
            \/ strategy \in {"Interrupt", "Debounce"} /\ n < accepted
            \/ strategy = "Debounce" /\ status[Timer(n)] = "running" /\ Timer(n) \notin asked

\* Whoever awaits stop() is not stuck: the channel is closed, the loop has begun, and
\* what the loop waits for is over, or in line for its first step, or has been asked
\* to end (or is the routine Queue waits for, which has to end by itself).
StopNeverStuck ==
    stopper = "waiting" =>
        /\ closed /\ loop # "unstarted" /\ exit # "unstarted"
        /\ \A f \in waits :
              \/ ~Live(f)
              \/ status[f] = "ready" /\ \E i \in DOMAIN soon : soon[i] = f
              \/ status[f] = "running" /\ (f \in asked \/ strategy = "Queue")

\* A task that has not begun is in line for its first step.
ReadyQueued == \A f \in Future : status[f] = "ready" => \E i \in DOMAIN soon : soon[i] = f

\* Who has been asked to end while the loop serves.
AskedInv ==
    /\ \A f \in Future : status[f] = "dropped" => f \in asked
    /\ \A f \in asked : status[f] # "none"
    /\ loop \in {"unstarted", "recv", "superseding"} =>
          \A n \in Signal : Routine(n) \in asked =>
              (strategy = "Interrupt" /\ n < taken) \/ strategy = "Queue"

\* Whom the loop waits for.
WaitInv ==
    /\ loop \in {"unstarted", "recv", "done"} => waits = {}
    /\ loop = "superseding" => \A f \in waits : status[f] # "none" /\ (Live(f) => f \in asked)

\* What Parallel and Debounce have given to the signals taken, while the loop serves.
ServedInv ==
    /\ strategy = "Parallel" /\ loop = "recv" =>
          \A n \in 1..taken : status[Routine(n)] # "none"
    /\ strategy = "Debounce" /\ loop = "recv" =>
          IF pending = None THEN taken > 0 => status[Routine(taken)] # "none"
          ELSE Live(Timer(pending)) /\ Timer(pending) \notin asked

\* Who waits for stop().
StopInv == stopper = "waiting" => closed /\ loop # "unstarted" /\ exit # "unstarted"

RestInv == ReadyQueued /\ AskedInv /\ WaitInv /\ ServedInv /\ StopInv

-----------------------------------------------------------------------------
(* What a step can do to the tasks.                                        *)

LEMMA TaskSteps ==
    ASSUME TurnInv, [Next]_vars
    PROVE  \/ UNCHANGED <<status, soon>>
           \/ \E t \in Future : Create(t) /\ status[t] = "none"
           \/ FirstStep
           \/ \E t \in Future, end \in Ended \ {"dropped"} : End(t, end)
           \/ \E n \in Signal : TimerFire(n)
<1> USE DEF TurnInv, RunnerInv
<1>1. CASE Receive
  <2>1. PICK n \in Signal : Ch!Take(n) /\ Handle(n)
    BY <1>1 DEF Receive
  <2>2. status[Routine(n)] = "none" /\ status[Timer(n)] = "none"
    BY <1>1, <2>1, TakeEffect DEF Receive
  <2>3. Create(Routine(n)) \/ Create(Timer(n)) \/ UNCHANGED <<status, soon>>
    BY <2>1 DEF Handle, InterruptHandle, ParallelHandle, QueueHandle, DebounceHandle
  <2> QED BY <2>2, <2>3, TaskNames
<1>2. CASE Supersede
  <2>1. inHand \in Signal /\ status[Routine(inHand)] = "none" /\ status[Timer(inHand)] = "none"
    BY <1>2 DEF Supersede, Suspended, FreshTasks
  <2>2. Create(Routine(inHand)) \/ Create(Timer(inHand))
    BY <1>2 DEF Supersede
  <2> QED BY <2>1, <2>2, TaskNames
<1>3. CASE \/ Send \/ Start \/ AwaitRoutine \/ EndOfChannel \/ FinishCleanup \/ CancelLoop
           \/ Stop \/ StopReturn \/ UNCHANGED vars
  BY <1>3 DEF Send, Start, AwaitRoutine, EndOfChannel, FinishCleanup, CancelLoop, Stop, StopReturn,
     BeginCleanup, taskVars, vars
<1>4. CASE TaskFirstStep
  BY <1>4 DEF TaskFirstStep
<1>5. ASSUME NEW n \in Signal, RoutineEnd(n) \/ TimerFire(n) \/ TimerCancelled(n) \/ OnTaskDone(n)
      PROVE  \/ UNCHANGED <<status, soon>>
             \/ \E t \in Future, end \in Ended \ {"dropped"} : End(t, end)
             \/ TimerFire(n)
  <2>1. Outcomes \cup {"cancelled"} \subseteq Ended \ {"dropped"}
    BY RunnerAssumption DEF Ended
  <2>2. CASE RoutineEnd(n)
    BY <2>1, <2>2, TaskNames DEF RoutineEnd
  <2>3. CASE TimerCancelled(n)
    BY <2>1, <2>3, TaskNames DEF TimerCancelled
  <2> QED BY <1>5, <2>2, <2>3 DEF OnTaskDone
<1> QED BY <1>1, <1>2, <1>3, <1>4, <1>5 DEF Next, LoopStep

\* A task just created stands at the end of the line.
LEMMA AppendQueued ==
    ASSUME TypeOK, ReadyQueued, NEW t \in Future, soon' = Append(soon, t),
           \A f \in Future : f # t /\ status'[f] = "ready" => status[f] = "ready"
    PROVE  ReadyQueued'
<1>1. soon \in Seq(Future) /\ Len(soon) \in Nat
  BY DEF TypeOK, TasksTypeOK
<1>2. /\ DOMAIN soon' = DOMAIN soon \cup {Len(soon) + 1} /\ soon'[Len(soon) + 1] = t
      /\ \A i \in DOMAIN soon : soon'[i] = soon[i]
  BY <1>1
<1>3. ASSUME NEW f \in Future, status'[f] = "ready" PROVE \E i \in DOMAIN soon' : soon'[i] = f
  <2>1. CASE f = t
    BY <1>2, <2>1
  <2>2. CASE f # t
    <3>1. PICK i \in DOMAIN soon : soon[i] = f
      BY <1>3, <2>2 DEF ReadyQueued
    <3> QED BY <1>2, <3>1
  <2> QED BY <2>1, <2>2
<1> QED BY <1>3 DEF ReadyQueued

LEMMA ReadyStep == ASSUME TurnInv, ReadyQueued, [Next]_vars PROVE ReadyQueued'
<1> USE DEF TurnInv, RunnerInv
<1>0. soon \in Seq(Future) /\ status \in [Future -> Status]
  BY DEF TypeOK, TasksTypeOK
<1>1. CASE UNCHANGED <<status, soon>>
  BY <1>1 DEF ReadyQueued
<1>2. ASSUME NEW t \in Future, Create(t) PROVE ReadyQueued'
  BY <1>2, CreateEffect, AppendQueued DEF Create
<1>3. CASE FirstStep
  <2>1. PICK h \in Future : h = soon[1] /\ h = Head(soon)
    BY <1>0, <1>3 DEF FirstStep
  <2>2. \A f \in Future : status'[f] = "ready" => f # h /\ status[f] = "ready"
    BY <1>0, <1>3, <2>1 DEF FirstStep
  <2>3. soon' = Tail(soon) /\ Len(soon) \in Nat /\ Len(soon) > 0 /\ DOMAIN soon = 1..Len(soon)
    BY <1>0, <1>3 DEF FirstStep
  <2>4. \A i \in DOMAIN soon : i # 1 => i - 1 \in DOMAIN soon' /\ soon'[i - 1] = soon[i]
    BY <1>0, <2>3
  <2>5. ASSUME NEW f \in Future, status'[f] = "ready" PROVE \E i \in DOMAIN soon' : soon'[i] = f
    <3>1. PICK i \in DOMAIN soon : soon[i] = f
      BY <2>2, <2>5 DEF ReadyQueued
    <3>2. i # 1
      BY <2>1, <2>2, <2>5, <3>1
    <3> QED BY <2>4, <3>1, <3>2
  <2> QED BY <2>5 DEF ReadyQueued
<1>4. ASSUME NEW t \in Future, NEW end \in Ended, End(t, end) PROVE ReadyQueued'
  <2>1. soon' = soon /\ \A f \in Future : status'[f] = "ready" => status[f] = "ready"
    BY <1>0, <1>4 DEF End, Ended
  <2> QED BY <2>1 DEF ReadyQueued
<1>5. ASSUME NEW n \in Signal, TimerFire(n) PROVE ReadyQueued'
  <2>1. soon' = Append(soon, Routine(n)) /\ Routine(n) \in Future
    BY <1>5, TaskNames DEF TimerFire
  <2>2. \A f \in Future : f # Routine(n) /\ status'[f] = "ready" => status[f] = "ready"
    BY <1>0, <1>5 DEF TimerFire
  <2> QED BY <2>1, <2>2, AppendQueued
<1> QED BY <1>1, <1>2, <1>3, <1>4, <1>5, TaskSteps

-----------------------------------------------------------------------------
(* Who has been asked.                                                     *)

\* cancel() takes effect on tasks that are alive only.
LEMMA AskSteps ==
    ASSUME TurnInv, [Next]_vars
    PROVE  /\ asked \subseteq asked'
           /\ \A f \in asked' : f \in asked \/ (f \in Future /\ Live(f) /\ status'[f] = status[f])
<1> USE DEF TurnInv, RunnerInv
<1>1. CASE asked' = asked
  BY <1>1
<1>2. ASSUME NEW F, RequestCancel(F), status' = status
      PROVE  /\ asked \subseteq asked'
             /\ \A f \in asked' : f \in asked \/ (f \in Future /\ Live(f) /\ status'[f] = status[f])
  BY <1>2 DEF RequestCancel
<1>3. CASE Receive
  <2>1. PICK n \in Signal : Handle(n)
    BY <1>3 DEF Receive
  <2>2. asked' = asked \/ (status' = status /\ \E F : RequestCancel(F))
    BY <2>1 DEF Handle, InterruptHandle, ParallelHandle, QueueHandle, DebounceHandle, CancelAndWait
  <2> QED BY <1>1, <1>2, <2>2
<1>4. CASE AwaitRoutine \/ EndOfChannel \/ CancelLoop
  <2>1. asked' = asked \/ (status' = status /\ \E F : RequestCancel(F))
    BY <1>4 DEF AwaitRoutine, EndOfChannel, CancelLoop, BeginCleanup, CancelAndWait, taskVars
  <2> QED BY <1>1, <1>2, <2>1
<1>5. CASE \/ Send \/ Start \/ Supersede \/ FinishCleanup \/ TaskFirstStep \/ Stop \/ StopReturn
           \/ UNCHANGED vars
           \/ \E n \in Signal : RoutineEnd(n) \/ TimerFire(n) \/ TimerCancelled(n) \/ OnTaskDone(n)
  <2>1. asked' = asked
    BY <1>5 DEF Send, Start, Supersede, FinishCleanup, TaskFirstStep, FirstStep, Stop, StopReturn,
       vars, RoutineEnd, TimerFire, TimerCancelled, End, OnTaskDone, taskVars
  <2> QED BY <1>1, <2>1
<1> QED BY <1>3, <1>4, <1>5 DEF Next, LoopStep

\* No task is uncreated or revived, and one becomes "dropped" only if it was asked.
LEMMA StatusSteps ==
    ASSUME TurnInv, [Next]_vars
    PROVE  \A f \in Future : /\ status[f] # "none" => status'[f] # "none" /\ (Live(f)' => Live(f))
                             /\ status'[f] = "dropped" => status[f] = "dropped" \/ f \in asked
<1> USE DEF TurnInv, RunnerInv
<1>0. soon \in Seq(Future) /\ status \in [Future -> Status]
  BY DEF TypeOK, TasksTypeOK
<1>1. ASSUME NEW t \in Future, Create(t), status[t] = "none", NEW f \in Future
      PROVE  /\ status[f] # "none" => status'[f] # "none" /\ (Live(f)' => Live(f))
             /\ status'[f] = "dropped" => status[f] = "dropped"
  BY <1>1, CreateEffect DEF Live
<1>2. ASSUME FirstStep, NEW f \in Future
      PROVE  /\ status[f] # "none" => status'[f] # "none" /\ (Live(f)' => Live(f))
             /\ status'[f] = "dropped" => status[f] = "dropped" \/ f \in asked
  <2>1. PICK h \in Future : h = soon[1] /\ h = Head(soon)
    BY <1>0, <1>2 DEF FirstStep
  <2>2. status[h] = "ready"
    BY <1>0, <1>2, <2>1 DEF FirstStep, FreshTasks
  <2> QED BY <1>0, <1>2, <2>1, <2>2 DEF FirstStep, Live
<1>3. ASSUME NEW t \in Future, NEW end \in Ended \ {"dropped"}, End(t, end), NEW f \in Future
      PROVE  /\ status[f] # "none" => status'[f] # "none" /\ (Live(f)' => Live(f))
             /\ status'[f] = "dropped" => status[f] = "dropped"
  BY <1>0, <1>3 DEF End, Ended, Live
<1>4. ASSUME NEW n \in Signal, TimerFire(n), NEW f \in Future
      PROVE  /\ status[f] # "none" => status'[f] # "none" /\ (Live(f)' => Live(f))
             /\ status'[f] = "dropped" => status[f] = "dropped"
  <2>1. status[Routine(n)] = "none"
    BY <1>4, TaskNames DEF TimerFire, FreshTasks
  <2> QED BY <1>0, <1>4, <2>1 DEF TimerFire, Live
<1>5. ASSUME UNCHANGED <<status, soon>>, NEW f \in Future
      PROVE  /\ status[f] # "none" => status'[f] # "none" /\ (Live(f)' => Live(f))
             /\ status'[f] = "dropped" => status[f] = "dropped"
  BY <1>5 DEF Live
<1> QED BY <1>1, <1>2, <1>3, <1>4, <1>5, TaskSteps

\* Steps of the loop's service that ask nobody.
LEMMA AskedKept ==
    ASSUME RunnerInv, AskedInv, strategy' = strategy, asked' = asked,
           loop \in {"unstarted", "recv", "superseding"}, taken' \in Int, taken' >= taken
    PROVE  \A n \in Signal : Routine(n) \in asked' =>
              (strategy' = "Interrupt" /\ n < taken') \/ strategy' = "Queue"
<1>1. taken \in Int /\ Signal \subseteq Nat
  BY Arrivals, TakenTyped
<1> QED BY <1>1 DEF AskedInv

\* Steps that leave the loop, its channel and the requests alone.
LEMMA QuietSteps ==
    ASSUME TurnInv, \/ Send \/ TaskFirstStep \/ Stop \/ StopReturn \/ UNCHANGED vars
                    \/ \E n \in Signal : RoutineEnd(n) \/ TimerFire(n) \/ TimerCancelled(n) \/ OnTaskDone(n)
    PROVE  UNCHANGED <<strategy, asked, taken, loop, waits, exit>>
<1>1. CASE Send
  <2>1. taken' = taken
    BY <1>1, SendMaps DEF RS!Accept
  <2> QED BY <1>1, <2>1 DEF Send, taskVars, loopVars
<1>2. CASE \/ TaskFirstStep \/ Stop \/ StopReturn \/ UNCHANGED vars
           \/ \E n \in Signal : RoutineEnd(n) \/ TimerFire(n) \/ TimerCancelled(n) \/ OnTaskDone(n)
  BY <1>2 DEF TaskFirstStep, FirstStep, Stop, Ch!Close, StopReturn, vars, RoutineEnd, TimerFire,
     TimerCancelled, End, OnTaskDone, taskVars, chanVars, loopVars, taken
<1> QED BY <1>1, <1>2

LEMMA ReceiveAsked ==
    ASSUME TurnInv, AskedInv, Receive
    PROVE  \A m \in Signal : Routine(m) \in asked' =>
              (strategy' = "Interrupt" /\ m < taken') \/ strategy' = "Queue"
<1> USE DEF TurnInv, RunnerInv
<1>1. PICK n \in Signal : Ch!Take(n) /\ Handle(n)
  BY DEF Receive
<1>2. loop = "recv" /\ UNCHANGED <<strategy, accepted>> /\ taken' = taken + 1 /\ taken \in Nat
  BY <1>1, TakeMaps DEF Receive
<1>3. CASE asked' = asked
  BY <1>2, <1>3, AskedKept
<1>4. CASE strategy = "Interrupt" /\ RequestCancel({Routine(current)})
  <2>1. ASSUME NEW m \in Signal, Routine(m) \in asked', Routine(m) \notin asked
        PROVE  m < taken'
    <3>1. Live(Routine(m))
      BY <1>4, <2>1 DEF RequestCancel
    <3>2. ~(m > taken) /\ m \in Nat
      BY <3>1, Arrivals DEF FreshTasks, Live
    <3> QED BY <1>2, <3>2
  <2>2. \A m \in Signal : Routine(m) \in asked => m < taken /\ m \in Nat
    BY <1>2, <1>4, Arrivals DEF AskedInv
  <2> QED BY <1>2, <1>4, <2>1, <2>2
<1>5. CASE strategy = "Debounce" /\ RequestCancel({Timer(pending)})
  <2>1. \A m \in Signal : Routine(m) \in asked' => Routine(m) \in asked
    BY <1>5, TaskNames DEF RequestCancel
  <2> QED BY <1>2, <1>5, <2>1 DEF AskedInv
<1> QED
  BY <1>1, <1>3, <1>4, <1>5
     DEF Handle, InterruptHandle, ParallelHandle, QueueHandle, DebounceHandle, CancelAndWait

LEMMA AskedStep == ASSUME TurnInv, AskedInv, [Next]_vars PROVE AskedInv'
<1> USE DEF TurnInv, RunnerInv
<1>0. status \in [Future -> Status] /\ asked \subseteq Future
  BY DEF TypeOK, TasksTypeOK
<1>1. \A f \in Future : status'[f] = "dropped" => f \in asked'
  BY AskSteps, StatusSteps DEF AskedInv
<1>2. \A f \in asked' : status'[f] # "none"
  BY <1>0, AskSteps, StatusSteps DEF AskedInv, Live
<1> DEFINE Serving == loop' \in {"unstarted", "recv", "superseding"} =>
               \A n \in Signal : Routine(n) \in asked' =>
                  (strategy' = "Interrupt" /\ n < taken') \/ strategy' = "Queue"
<1> SUFFICES Serving
  BY <1>1, <1>2 DEF AskedInv
<1>3. CASE Receive
  BY <1>3, ReceiveAsked
<1>4. CASE AwaitRoutine
  BY <1>4 DEF AwaitRoutine, Suspended, AskedInv
<1>5. CASE Start \/ Supersede
  <2>1. UNCHANGED <<strategy, asked, taken>> /\ loop \in {"unstarted", "superseding"}
    BY <1>5 DEF Start, Supersede, taskVars, chanVars, taken
  <2>2. taken' \in Int /\ taken' >= taken
    BY <2>1, TakenTyped
  <2> QED BY <2>1, <2>2, AskedKept
<1>6. CASE EndOfChannel \/ FinishCleanup \/ CancelLoop
  <2>1. loop' \in {"cleanup", "done", "awaiting"}
    BY <1>6 DEF EndOfChannel, FinishCleanup, CancelLoop, BeginCleanup, loopVars
  <2> QED BY <2>1
<1>7. CASE \/ Send \/ TaskFirstStep \/ Stop \/ StopReturn \/ UNCHANGED vars
           \/ \E n \in Signal : RoutineEnd(n) \/ TimerFire(n) \/ TimerCancelled(n) \/ OnTaskDone(n)
  BY <1>7, QuietSteps DEF AskedInv
<1> QED BY <1>3, <1>4, <1>5, <1>6, <1>7 DEF Next, LoopStep

-----------------------------------------------------------------------------
(* Whom the loop waits for, and who waits for stop().                      *)

\* The task that is superseded is one that has been created.
LEMMA ReceiveWaits ==
    ASSUME TurnInv, ServedInv, Receive, loop' = "superseding"
    PROVE  \A f \in waits' : status'[f] # "none" /\ (Live(f)' => f \in asked')
<1> USE DEF TurnInv, RunnerInv
<1>1. PICK n \in Signal : Handle(n)
  BY DEF Receive
<1>2. PICK f \in Future : waits' = {f} /\ RequestCancel({f}) /\ status' = status
          /\ \/ strategy = "Interrupt" /\ current # None /\ f = Routine(current)
             \/ strategy = "Debounce" /\ pending # None /\ f = Timer(pending)
  BY <1>1, TaskNames
     DEF Handle, InterruptHandle, ParallelHandle, QueueHandle, DebounceHandle, CancelAndWait, Resume, TypeOK
<1>3. status[f] # "none"
  <2>1. CASE strategy = "Interrupt"
    BY <1>2, <2>1, TakenTyped DEF Receive, Turns, None
  <2>2. CASE strategy = "Debounce"
    BY <1>2, <2>2 DEF Receive, ServedInv, Live
  <2> QED BY <1>2, <2>1, <2>2
<1>4. Live(f)' => f \in asked'
  BY <1>2 DEF RequestCancel, Live
<1> QED BY <1>2, <1>3, <1>4

LEMMA WaitStep == ASSUME TurnInv, WaitInv, ServedInv, [Next]_vars PROVE WaitInv'
<1> USE DEF TurnInv, RunnerInv
<1>1. CASE Receive
  <2>1. Resume \/ loop' \in {"awaiting", "superseding"}
    BY <1>1 DEF Receive, Handle, InterruptHandle, ParallelHandle, QueueHandle, DebounceHandle
  <2> QED BY <1>1, <2>1, ReceiveWaits DEF WaitInv, Resume
<1>2. CASE Start \/ Supersede \/ AwaitRoutine \/ EndOfChannel \/ FinishCleanup
  BY <1>2 DEF Start, Supersede, AwaitRoutine, EndOfChannel, FinishCleanup, BeginCleanup, Resume, WaitInv
<1>3. CASE CancelLoop
  BY <1>3 DEF CancelLoop, BeginCleanup, loopVars, WaitInv
<1>4. CASE \/ Send \/ TaskFirstStep \/ Stop \/ StopReturn \/ UNCHANGED vars
           \/ \E n \in Signal : RoutineEnd(n) \/ TimerFire(n) \/ TimerCancelled(n) \/ OnTaskDone(n)
  <2>1. UNCHANGED <<asked, loop, waits>> /\ waits \subseteq Future
    BY <1>4, QuietSteps DEF TypeOK
  <2> QED BY <2>1, StatusSteps DEF WaitInv
<1> QED BY <1>1, <1>2, <1>3, <1>4 DEF Next, LoopStep

LEMMA StopStep == ASSUME TurnInv, StopInv, [Next]_vars PROVE StopInv'
<1> USE DEF TurnInv
<1>1. CASE Stop
  BY <1>1 DEF Stop, Ch!Close, StopInv, loopVars
<1>2. CASE StopReturn
  BY <1>2 DEF StopReturn, StopInv
<1>3. CASE Receive \/ Supersede \/ AwaitRoutine \/ Start \/ EndOfChannel \/ FinishCleanup \/ CancelLoop
  <2>1. /\ UNCHANGED stopper /\ closed' = closed /\ loop' # "unstarted"
        /\ loop = "unstarted" \/ exit' \in {exit, "closed", "error", "cancelled", "aborted"}
    BY <1>3 DEF Receive, Ch!Take, Handle, InterruptHandle, ParallelHandle, QueueHandle, DebounceHandle,
       Supersede, AwaitRoutine, Start, EndOfChannel, FinishCleanup, CancelLoop, BeginCleanup, Resume,
       CancelAndWait, chanVars, loopVars, envVars
  <2> QED BY <2>1 DEF StopInv
<1>4. CASE Send
  BY <1>4 DEF Send, Ch!Put, StopInv, loopVars, envVars
<1>5. CASE \/ TaskFirstStep \/ UNCHANGED vars
           \/ \E n \in Signal : RoutineEnd(n) \/ TimerFire(n) \/ TimerCancelled(n) \/ OnTaskDone(n)
  BY <1>5 DEF TaskFirstStep, vars, RoutineEnd, TimerFire, TimerCancelled, OnTaskDone, StopInv,
     chanVars, loopVars, envVars
<1> QED BY <1>1, <1>2, <1>3, <1>4, <1>5 DEF Next, LoopStep

-----------------------------------------------------------------------------
(* What has been served.                                                   *)

LEMMA ReceiveServed == ASSUME TurnInv, AskedInv, ServedInv, Receive PROVE ServedInv'
<1> USE DEF TurnInv, RunnerInv
<1>1. PICK n \in Signal : Ch!Take(n) /\ Handle(n)
  BY DEF Receive
<1>2. /\ loop = "recv" /\ UNCHANGED strategy /\ taken' = taken + 1 /\ n = taken + 1 /\ taken \in Nat
      /\ status[Timer(n)] = "none"
  BY <1>1, TakeMaps DEF Receive
<1>3. CASE strategy = "Parallel"
  <2>1. Create(Routine(n)) /\ Routine(n) \in Future
    BY <1>1, <1>3, TaskNames DEF Handle, InterruptHandle, ParallelHandle, QueueHandle, DebounceHandle
  <2>2. ASSUME NEW m \in 1..taken' PROVE status'[Routine(m)] # "none"
    <3>1. CASE m = n
      BY <2>1, <3>1, CreateEffect
    <3>2. CASE m # n
      <4>1. m \in 1..taken /\ m \in Signal
        BY <1>2, <3>2, TakenTyped
      <4>2. status[Routine(m)] # "none"
        BY <1>2, <1>3, <4>1 DEF ServedInv
      <4> QED BY <2>1, <4>1, <4>2, CreateEffect, TaskNames
    <3> QED BY <3>1, <3>2
  <2> QED BY <1>2, <1>3, <2>2 DEF ServedInv
<1>4. CASE strategy = "Debounce" /\ loop' = "recv"
  <2>1. Create(Timer(n)) /\ pending' = n /\ asked' = asked /\ Timer(n) \in Future
    BY <1>1, <1>4, TaskNames DEF Handle, InterruptHandle, ParallelHandle, QueueHandle, DebounceHandle
  <2>2. Live(Timer(n))' /\ Timer(n) \notin asked'
    BY <1>2, <2>1, CreateEffect DEF AskedInv
  <2> QED BY <1>2, <1>4, <2>1, <2>2, Arrivals DEF ServedInv
<1> QED BY <1>2, <1>3, <1>4 DEF ServedInv

LEMMA SupersedeServed == ASSUME TurnInv, AskedInv, Supersede PROVE ServedInv'
<1> USE DEF TurnInv, RunnerInv
<1>1. UNCHANGED <<strategy, asked>> /\ inHand \in Signal /\ status[Timer(inHand)] = "none"
  BY DEF Supersede, Suspended, FreshTasks
<1>2. strategy # "Parallel"
  BY DEF Supersede
<1>3. CASE strategy = "Debounce"
  <2>1. Create(Timer(inHand)) /\ pending' = inHand /\ Timer(inHand) \in Future
    BY <1>1, <1>3, TaskNames DEF Supersede
  <2>2. status'[Timer(inHand)] = "ready" /\ Timer(inHand) \notin asked'
    BY <1>1, <2>1, CreateEffect DEF AskedInv
  <2> QED BY <1>1, <1>2, <1>3, <2>1, <2>2, Arrivals DEF ServedInv, Live
<1> QED BY <1>1, <1>2, <1>3 DEF ServedInv

\* The timer that is pending ends only by firing, and then its routine is created.
LEMMA QuietServed ==
    ASSUME TurnInv, AskedInv, ServedInv,
           \/ Send \/ TaskFirstStep \/ Stop \/ StopReturn \/ UNCHANGED vars
           \/ \E n \in Signal : RoutineEnd(n) \/ TimerFire(n) \/ TimerCancelled(n) \/ OnTaskDone(n)
    PROVE  ServedInv'
<1> USE DEF TurnInv, RunnerInv
<1>0. status \in [Future -> Status] /\ pending \in Signal \cup {None} /\ soon \in Seq(Future)
  BY DEF TypeOK, TasksTypeOK
<1>1. [Next]_vars /\ UNCHANGED <<strategy, asked, taken, loop>>
  BY QuietSteps DEF Next
<1>2. \A n \in Signal : status[Routine(n)] # "none" => status'[Routine(n)] # "none"
  BY <1>1, StatusSteps, TaskNames
<1>3. 1..taken \subseteq Signal /\ (taken > 0 => taken \in Signal)
  BY TakenTyped
<1>4. CASE strategy # "Debounce" \/ loop # "recv"
  BY <1>1, <1>2, <1>3, <1>4 DEF ServedInv
<1>5. CASE strategy = "Debounce" /\ loop = "recv" /\ \E n \in Signal : TimerFire(n)
  <2>1. PICK n \in Signal : TimerFire(n)
    BY <1>5
  <2>2. pending # None /\ pending = taken
    <3>1. Timer(n) \in Owned
      BY <2>1, TaskNames DEF TimerFire, Attended, Live
    <3>2. pending = n
      BY <3>1, TaskNames DEF Owned
    <3> QED BY <1>5, <3>2, Arrivals DEF Turns
  <2>3. n = taken
    BY <2>1, <2>2, TaskNames DEF TimerFire, Attended, Live, Owned
  <2>4. status'[Routine(n)] = "ready" /\ pending' = None
    BY <1>0, <2>1, TaskNames DEF TimerFire
  <2> QED BY <1>1, <1>5, <2>3, <2>4 DEF ServedInv
<1>6. CASE strategy = "Debounce" /\ loop = "recv" /\ ~\E n \in Signal : TimerFire(n)
  <2>1. pending' = pending
    BY <1>6 DEF Send, TaskFirstStep, Stop, StopReturn, vars, RoutineEnd, TimerCancelled, OnTaskDone, ownVars
  <2>2. CASE pending = None
    BY <1>1, <1>2, <1>3, <1>6, <2>1, <2>2 DEF ServedInv
  <2>3. CASE pending # None
    <3>1. Timer(pending) \in Future /\ Live(Timer(pending)) /\ Timer(pending) \notin asked
      BY <1>0, <1>6, <2>3, TaskNames DEF ServedInv
    <3>2. Live(Timer(pending))'
      <4>1. CASE TaskFirstStep
        BY <2>1, <1>0, <3>1, <4>1 DEF TaskFirstStep, FirstStep, Live
      <4>2. ASSUME NEW n \in Signal, RoutineEnd(n) PROVE Live(Timer(pending))'
        BY <2>1, <1>0, <3>1, <4>2, TaskNames DEF RoutineEnd, End, Live
      <4>3. ASSUME NEW n \in Signal, TimerCancelled(n) PROVE Live(Timer(pending))'
        BY <2>1, <1>0, <3>1, <4>3, TaskNames DEF TimerCancelled, End, Live
      <4>4. CASE Send \/ Stop \/ StopReturn \/ UNCHANGED vars \/ \E n \in Signal : OnTaskDone(n)
        BY <2>1, <3>1, <4>4 DEF Send, Stop, StopReturn, vars, OnTaskDone, taskVars, Live
      <4> QED BY <1>6, <4>1, <4>2, <4>3, <4>4
    <3> QED BY <1>1, <1>6, <2>1, <2>3, <3>1, <3>2 DEF ServedInv
  <2> QED BY <2>2, <2>3
<1> QED BY <1>4, <1>5, <1>6

LEMMA ServedStep == ASSUME TurnInv, AskedInv, ServedInv, [Next]_vars PROVE ServedInv'
<1> USE DEF TurnInv, RunnerInv
<1>1. CASE Receive \/ Supersede
  BY <1>1, ReceiveServed, SupersedeServed
<1>2. CASE Start
  <2>1. loop = "unstarted" /\ UNCHANGED <<accepted, queue, pending>>
    BY <1>2 DEF Start, chanVars, ownVars
  <2>2. taken' = 0 /\ pending' = None
    BY <2>1 DEF taken, InOrder, Turns
  <2>3. 1..0 = {} /\ ~(0 > 0)
    OBVIOUS
  <2> QED BY <2>2, <2>3 DEF ServedInv
<1>3. CASE AwaitRoutine
  <2>1. strategy' = "Queue"
    BY <1>3 DEF AwaitRoutine, Suspended
  <2> QED BY <2>1 DEF ServedInv
<1>4. CASE EndOfChannel \/ FinishCleanup \/ CancelLoop
  <2>1. loop' # "recv"
    BY <1>4 DEF EndOfChannel, FinishCleanup, CancelLoop, BeginCleanup, loopVars
  <2> QED BY <2>1 DEF ServedInv
<1>5. CASE \/ Send \/ TaskFirstStep \/ Stop \/ StopReturn \/ UNCHANGED vars
           \/ \E n \in Signal : RoutineEnd(n) \/ TimerFire(n) \/ TimerCancelled(n) \/ OnTaskDone(n)
  BY <1>5, QuietServed
<1> QED BY <1>1, <1>2, <1>3, <1>4, <1>5 DEF Next, LoopStep

-----------------------------------------------------------------------------
(* The theorems.                                                           *)

LEMMA InitRest == Init => RestInv
<1> SUFFICES ASSUME Init PROVE RestInv
  OBVIOUS
<1>1. ReadyQueued /\ AskedInv /\ WaitInv /\ StopInv /\ ServedInv
  BY DEF Init, TasksInit, ReadyQueued, AskedInv, WaitInv, StopInv, ServedInv
<1> QED BY <1>1 DEF RestInv

\* Who is in line, asked, waited for and served, as the two theorems below need it.
THEOREM RestInvariant == Spec => [](TurnInv /\ RestInv)
<1>1. RestInv /\ TurnInv /\ [Next]_vars => RestInv'
  BY ReadyStep, AskedStep, WaitStep, ServedStep, StopStep DEF RestInv
<1> QED BY <1>1, InitRest, TurnInvariant, PTL DEF Spec

\* A loop at rest has forgotten no signal, for any number of signals and however
\* its routines are interrupted and its timers replaced.
THEOREM RestServed == Spec => []ServedAtRest
<1>1. ASSUME TurnInv, RestInv PROVE ServedAtRest
  <2> USE <1>1 DEF TurnInv, RunnerInv, RestInv
  <2> SUFFICES ASSUME loop = "recv", queue = <<>>, soon = <<>>, NEW n \in 1..accepted
               PROVE  \/ Started(n)
                      \/ strategy \in {"Interrupt", "Debounce"} /\ n < accepted
                      \/ strategy = "Debounce" /\ status[Timer(n)] = "running" /\ Timer(n) \notin asked
    BY DEF ServedAtRest
  <2>1. taken = accepted /\ n \in Signal /\ accepted \in Nat
    BY TakenTyped
  <2>2. \A f \in Future : status[f] # "ready"
    BY DEF ReadyQueued
  <2>3. ASSUME status[Routine(n)] # "none", ~(strategy = "Interrupt" /\ n < accepted) PROVE Started(n)
    <3>1. strategy = "Queue" => status[Routine(n)] = "ok"
      BY <2>1 DEF Turns
    <3>2. status[Routine(n)] # "dropped"
      BY <2>1, <2>3, <3>1, TaskNames DEF AskedInv
    <3>3. status[Routine(n)] \in Status /\ status[Routine(n)] # "ready"
      BY <2>1, <2>2, TaskNames DEF TypeOK, TasksTypeOK
    <3> QED BY <2>3, <3>2, <3>3 DEF Started, Status, Ended
  <2>4. CASE n < accepted /\ strategy \in {"Interrupt", "Debounce"}
    BY <2>4
  <2>5. CASE strategy \in {"Parallel", "Queue"}
    BY <2>1, <2>3, <2>5 DEF ServedInv, Turns
  <2>6. CASE n = accepted /\ strategy = "Interrupt"
    BY <2>1, <2>3, <2>6, TakenTyped DEF Turns
  <2>7. CASE n = accepted /\ strategy = "Debounce"
    <3>1. CASE pending = None
      BY <2>1, <2>3, <2>7, <3>1 DEF ServedInv
    <3>2. CASE pending # None
      <4>1. pending = n /\ Live(Timer(n)) /\ Timer(n) \notin asked
        BY <2>1, <2>7, <3>2 DEF ServedInv, Turns
      <4> QED BY <2>1, <2>2, <2>7, <4>1, TaskNames DEF Live
    <3> QED BY <3>1, <3>2
  <2>8. strategy \in {"Interrupt", "Parallel", "Queue", "Debounce"} /\ (n < accepted \/ n = accepted)
    BY <2>1, RunnerAssumption DEF TypeOK, Mode
  <2> QED BY <2>4, <2>5, <2>6, <2>7, <2>8
<1> QED BY <1>1, RestInvariant, PTL

\* The caller of stop() never waits for something that cannot end, for any number
\* of signals and cancellations, of the loop as well as of its routines.
THEOREM StopAdvances == Spec => []StopNeverStuck
<1>1. ASSUME TurnInv, RestInv PROVE StopNeverStuck
  <2> USE <1>1 DEF TurnInv, RunnerInv, RestInv
  <2> SUFFICES ASSUME stopper = "waiting", NEW f \in waits, Live(f)
               PROVE  \/ status[f] = "ready" /\ \E i \in DOMAIN soon : soon[i] = f
                      \/ status[f] = "running" /\ (f \in asked \/ strategy = "Queue")
    BY DEF StopNeverStuck, StopInv
  <2>1. f \in Future /\ loop \notin {"unstarted", "recv", "done"}
    BY DEF WaitInv, TypeOK
  <2>2. f \in asked \/ strategy = "Queue"
    BY <2>1 DEF WaitInv, Attended, Suspended, TypeOK
  <2> QED BY <2>1, <2>2 DEF ReadyQueued, Live
<1> QED BY <1>1, RestInvariant, PTL

-----------------------------------------------------------------------------
(* Why a loop ended.                                                       *)

\* The loop takes its normal exit on an open channel, or fails, only in Queue and
\* because a routine did: raised ChanClosed, or another error.  What breaks
\* NormalExitMeansClosed is nothing else, and no routine's failure ends the loop
\* of another strategy.
EndExplained ==
    /\ exit = "closed" => \/ closed
                          \/ strategy = "Queue" /\ \E n \in Signal : status[Routine(n)] = "chanclosed"
    /\ exit = "error" => strategy = "Queue" /\ \E n \in Signal : status[Routine(n)] = "error"

\* How a task ended remains.
LEMMA EndsStay ==
    ASSUME TurnInv, [Next]_vars, NEW f \in Future, status[f] \in Ended
    PROVE  status'[f] = status[f]
<1> USE DEF TurnInv, RunnerInv
<1>0. soon \in Seq(Future) /\ status \in [Future -> Status]
  BY DEF TypeOK, TasksTypeOK
<1>1. ASSUME NEW t \in Future, Create(t), status[t] = "none" PROVE status'[f] = status[f]
  BY <1>1, CreateEffect DEF Ended
<1>2. ASSUME FirstStep PROVE status'[f] = status[f]
  <2>1. PICK h \in Future : h = soon[1] /\ h = Head(soon)
    BY <1>0, <1>2 DEF FirstStep
  <2>2. status[h] = "ready"
    BY <1>0, <1>2, <2>1 DEF FirstStep, FreshTasks
  <2> QED BY <1>0, <1>2, <2>1, <2>2 DEF FirstStep, Ended
<1>3. ASSUME NEW t \in Future, NEW end \in Ended \ {"dropped"}, End(t, end) PROVE status'[f] = status[f]
  BY <1>0, <1>3 DEF End, Ended
<1>4. ASSUME NEW n \in Signal, TimerFire(n) PROVE status'[f] = status[f]
  <2>1. status[Routine(n)] = "none"
    BY <1>4, TaskNames DEF TimerFire, FreshTasks
  <2> QED BY <1>0, <1>4, <2>1 DEF TimerFire, Ended
<1> QED BY <1>1, <1>2, <1>3, <1>4, TaskSteps

\* What an explanation rests on remains.
LEMMA ExplanationKept ==
    ASSUME TurnInv, EndExplained, [Next]_vars, strategy' = strategy, exit' = exit, closed => closed'
    PROVE  EndExplained'
<1>1. ASSUME NEW n \in Signal, NEW end \in {"chanclosed", "error"}, status[Routine(n)] = end
      PROVE  status'[Routine(n)] = end
  BY <1>1, EndsStay, TaskNames DEF Ended
<1> QED BY <1>1 DEF EndExplained

LEMMA ExplainedStep == ASSUME TurnInv, EndExplained, [Next]_vars PROVE EndExplained'
<1> USE DEF TurnInv, RunnerInv
<1>1. CASE \/ Send \/ Start \/ Receive \/ Supersede \/ FinishCleanup \/ TaskFirstStep \/ Stop \/ StopReturn
           \/ UNCHANGED vars
           \/ \E n \in Signal : RoutineEnd(n) \/ TimerFire(n) \/ TimerCancelled(n) \/ OnTaskDone(n)
  <2>1. strategy' = strategy /\ exit' = exit /\ (closed => closed')
    BY <1>1 DEF Send, Ch!Put, Ch!Take, Ch!Close, Start, Receive, Supersede, FinishCleanup, TaskFirstStep,
       Stop, StopReturn, vars, RoutineEnd, TimerFire, TimerCancelled, OnTaskDone, chanVars, loopVars
  <2> QED BY <2>1, ExplanationKept
<1>2. CASE EndOfChannel
  BY <1>2 DEF EndOfChannel, BeginCleanup, EndExplained, chanVars
<1>3. CASE AwaitRoutine
  <2>1. strategy = "Queue" /\ current \in Signal /\ UNCHANGED <<strategy, closed>>
    BY <1>3 DEF AwaitRoutine, Suspended, BeginCleanup, CancelAndWait, chanVars
  <2>2. CASE exit' = exit
    BY <2>1, <2>2, ExplanationKept
  <2>3. CASE exit' # exit
    <3>1. /\ exit' = "closed" => status'[Routine(current)] = "chanclosed"
          /\ exit' = "error" => status'[Routine(current)] = "error"
      BY <1>3, <2>3 DEF AwaitRoutine, BeginCleanup
    <3> QED BY <2>1, <2>3, <3>1 DEF EndExplained
  <2> QED BY <2>2, <2>3
<1>4. CASE CancelLoop
  <2>1. UNCHANGED <<strategy, closed>> /\ exit' \in {exit, "unstarted", "cancelled", "aborted"}
    BY <1>4 DEF CancelLoop, BeginCleanup, chanVars, loopVars
  <2>2. CASE exit' = exit
    BY <2>1, <2>2, ExplanationKept
  <2> QED BY <2>1, <2>2 DEF EndExplained
<1> QED BY <1>1, <1>2, <1>3, <1>4 DEF Next, LoopStep

\* Every exit of the loop has the reason that the code means it to have, but for a
\* ChanClosed raised by the routine that Queue awaits.
THEOREM ExitExplained == Spec => []EndExplained
<1>1. Init => EndExplained
  BY DEF Init, EndExplained
<1> QED BY <1>1, ExplainedStep, TurnInvariant, PTL DEF Spec

-----------------------------------------------------------------------------
(* The order in which routines begin.                                      *)

\* The routines in line stand in the order of their signals, behind all that began.
LineInv ==
    /\ \A i, j \in DOMAIN soon, m, n \in Signal :
          soon[i] = Routine(m) /\ soon[j] = Routine(n) /\ i < j => m < n
    /\ \A m, n \in Signal : status[Routine(m)] = "ready" /\ Started(n) => n < m

\* A routine is created for a later signal than all before it.
LEMMA CreatedLast ==
    ASSUME TurnInv, [Next]_vars, NEW n \in Signal,
           status[Routine(n)] = "none", status'[Routine(n)] \in {"ready", "running"},
           NEW m \in Signal, status[Routine(m)] # "none"
    PROVE  m < n
<1> USE DEF TurnInv, RunnerInv
<1>1. [RS!Next]_(RS!specVars)
  BY StepMaps DEF Mapped, specFrame, RS!specVars, askedRoutines
<1>2. result[n] = "none" /\ result'[n] = "alive" /\ result[m] # "none" /\ m # n
  BY DEF result, Live
<1>3. m <= taken /\ taken \in Int /\ Signal \subseteq Nat
  BY TakenTyped, Arrivals DEF FreshTasks
<1>4. RS!Signal = Signal
  BY DEF RS!Signal, Signal
<1>5. result \in [Signal -> {"alive"} \cup Status]
  <2>1. \A k \in Signal : status[Routine(k)] \in Status
    BY TaskNames DEF TypeOK, TasksTypeOK
  <2> QED BY <2>1 DEF result
<1>6. RS!TakeAndBegin \/ RS!BeginAside
  BY <1>1, <1>2, <1>4, <1>5
     DEF RS!Next, RS!Accept, RS!Close, RS!TakeAside, RS!AskRoutine, RS!RoutineEnds, RS!Finish, RS!Leave,
         RS!specVars
<1>7. n \in {taken, taken + 1}
  BY <1>2, <1>5, <1>6 DEF RS!TakeAndBegin, RS!BeginAside, RS!Begin
<1>8. n = taken => m # taken
  BY <1>2
<1> QED BY <1>3, <1>7, <1>8

LEMMA LineStep == ASSUME TurnInv, ReadyQueued, LineInv, [Next]_vars PROVE LineInv'
<1> USE DEF TurnInv, RunnerInv
<1>0. /\ soon \in Seq(Future) /\ Len(soon) \in Nat /\ status \in [Future -> Status]
      /\ Signal \subseteq Nat /\ \A i \in DOMAIN soon : status[soon[i]] = "ready"
  BY Arrivals DEF TypeOK, TasksTypeOK, FreshTasks
<1>1. CASE UNCHANGED <<status, soon>>
  BY <1>1 DEF LineInv, Started
\* A task at the end of the line, if it is a routine, belongs to the latest signal.
<1>2. ASSUME NEW t \in Future, soon' = Append(soon, t), status'[t] = "ready", status[t] = "none",
             \A n \in Signal : Routine(n) # t => status'[Routine(n)] = status[Routine(n)]
      PROVE  LineInv'
  <2>1. /\ DOMAIN soon' = DOMAIN soon \cup {Len(soon) + 1} /\ soon'[Len(soon) + 1] = t
        /\ \A i \in DOMAIN soon : soon'[i] = soon[i] /\ i <= Len(soon) /\ i \in Nat
    BY <1>0, <1>2
  <2>2. ASSUME NEW m \in Signal, NEW n \in Signal, t = Routine(n), status[Routine(m)] # "none"
        PROVE  m < n
    BY <1>2, <2>2, CreatedLast
  <2>3. ASSUME NEW i \in DOMAIN soon', NEW j \in DOMAIN soon', NEW m \in Signal, NEW n \in Signal,
               soon'[i] = Routine(m), soon'[j] = Routine(n), i < j
        PROVE  m < n
    <3>1. i \in DOMAIN soon
      BY <1>0, <2>1, <2>3
    <3>2. CASE j \in DOMAIN soon
      BY <2>1, <2>3, <3>1, <3>2 DEF LineInv
    <3>3. CASE j = Len(soon) + 1
      <4>1. status[Routine(m)] = "ready"
        BY <1>0, <2>1, <2>3, <3>1
      <4> QED BY <2>1, <2>2, <2>3, <3>3, <4>1
    <3> QED BY <2>1, <3>2, <3>3
  <2>4. ASSUME NEW m \in Signal, NEW n \in Signal, status'[Routine(m)] = "ready", Started(n)'
        PROVE  n < m
    <3>1. Routine(n) # t
      BY <1>2, <2>4 DEF Started
    <3>2. Started(n) /\ status[Routine(n)] # "none"
      BY <1>2, <2>4, <3>1 DEF Started
    <3>3. CASE Routine(m) = t
      BY <2>2, <3>2, <3>3
    <3>4. CASE Routine(m) # t
      BY <1>2, <2>4, <3>2, <3>4 DEF LineInv
    <3> QED BY <3>3, <3>4
  <2> QED BY <2>3, <2>4 DEF LineInv
<1>3. ASSUME NEW t \in Future, Create(t), status[t] = "none" PROVE LineInv'
  BY <1>2, <1>3, CreateEffect, TaskNames DEF Create
<1>4. CASE FirstStep
  <2>1. PICK h \in Future : h = soon[1] /\ h = Head(soon)
    BY <1>0, <1>4 DEF FirstStep
  <2>2. soon' = Tail(soon) /\ Len(soon) > 0 /\ DOMAIN soon = 1..Len(soon) /\ status[h] = "ready"
    BY <1>0, <1>4, <2>1 DEF FirstStep
  <2>3. \A i \in DOMAIN soon' : i \in Int /\ i + 1 \in DOMAIN soon /\ soon'[i] = soon[i + 1]
    BY <1>0, <2>2
  <2>4. \A f \in Future : f # h => status'[f] = status[f]
    BY <1>0, <1>4, <2>1 DEF FirstStep
  <2>5. status'[h] \in {"running", "dropped"}
    BY <1>0, <1>4, <2>1 DEF FirstStep
  <2>6. ASSUME NEW i \in DOMAIN soon', NEW j \in DOMAIN soon', NEW m \in Signal, NEW n \in Signal,
               soon'[i] = Routine(m), soon'[j] = Routine(n), i < j
        PROVE  m < n
    <3>1. i + 1 < j + 1
      BY <2>3, <2>6
    <3> QED BY <2>3, <2>6, <3>1 DEF LineInv
  <2>7. ASSUME NEW m \in Signal, NEW n \in Signal, status'[Routine(m)] = "ready", Started(n)'
        PROVE  n < m
    <3>1. Routine(m) # h /\ status[Routine(m)] = "ready"
      BY <2>4, <2>5, <2>7, TaskNames
    <3>2. CASE Routine(n) # h
      BY <2>4, <2>7, <3>1, <3>2, TaskNames DEF LineInv, Started
    <3>3. CASE Routine(n) = h
      <4>1. PICK i \in DOMAIN soon : soon[i] = Routine(m)
        BY <3>1, TaskNames DEF ReadyQueued
      <4>2. 1 \in DOMAIN soon /\ 1 < i
        BY <1>0, <2>1, <2>2, <3>1, <4>1
      <4> QED BY <2>1, <3>3, <4>1, <4>2 DEF LineInv
    <3> QED BY <3>2, <3>3
  <2> QED BY <2>6, <2>7 DEF LineInv
<1>5. ASSUME NEW t \in Future, NEW end \in Ended, End(t, end) PROVE LineInv'
  <2>1. soon' = soon /\ status[t] = "running" /\ status' = [status EXCEPT ![t] = end]
    BY <1>5 DEF End
  <2>2. \A n \in Signal : Started(n)' => Started(n)
    BY <1>0, <2>1, TaskNames DEF Started
  <2>3. \A n \in Signal : status'[Routine(n)] = "ready" => status[Routine(n)] = "ready"
    BY <1>0, <2>1, TaskNames DEF Ended
  <2> QED BY <2>1, <2>2, <2>3 DEF LineInv
<1>6. ASSUME NEW n \in Signal, TimerFire(n) PROVE LineInv'
  <2>1. soon' = Append(soon, Routine(n)) /\ status[Routine(n)] = "none"
    BY <1>6, TaskNames DEF TimerFire, FreshTasks
  <2>2. status'[Routine(n)] = "ready"
    BY <1>0, <1>6, TaskNames DEF TimerFire
  <2>3. \A m \in Signal : Routine(m) # Routine(n) => status'[Routine(m)] = status[Routine(m)]
    BY <1>0, <1>6, TaskNames DEF TimerFire
  <2> QED BY <1>2, <2>1, <2>2, <2>3, TaskNames
<1> QED BY <1>1, <1>3, <1>4, <1>5, <1>6, TaskSteps

\* Who begins was in line.
LEMMA BeginsFromLine ==
    ASSUME TurnInv, [Next]_vars, NEW m \in Signal, Started(m)', ~Started(m)
    PROVE  status[Routine(m)] = "ready"
<1> USE DEF TurnInv, RunnerInv
<1>0. soon \in Seq(Future) /\ status \in [Future -> Status] /\ Routine(m) \in Future
  BY TaskNames DEF TypeOK, TasksTypeOK
<1>1. ~(UNCHANGED <<status, soon>>)
  BY DEF Started
<1>2. ASSUME NEW t \in Future, Create(t) PROVE FALSE
  <2>1. CASE t = Routine(m)
    BY <1>2, <2>1, CreateEffect DEF Started
  <2>2. CASE t # Routine(m)
    BY <1>0, <1>2, <2>2, CreateEffect DEF Started
  <2> QED BY <2>1, <2>2
<1>3. CASE FirstStep
  <2>1. PICK h \in Future : h = soon[1] /\ h = Head(soon) /\ status[h] = "ready"
    BY <1>0, <1>3 DEF FirstStep, FreshTasks
  <2>2. \A f \in Future : f # h => status'[f] = status[f]
    BY <1>0, <1>3, <2>1 DEF FirstStep
  <2> QED BY <1>0, <2>1, <2>2 DEF Started
<1>4. ASSUME NEW t \in Future, NEW end \in Ended, End(t, end) PROVE FALSE
  <2>1. status[t] = "running" /\ \A f \in Future : f # t => status'[f] = status[f]
    BY <1>0, <1>4 DEF End
  <2> QED BY <1>0, <2>1 DEF Started
<1>5. ASSUME NEW n \in Signal, TimerFire(n) PROVE FALSE
  <2>1. \A f \in Future : f \notin {Timer(n), Routine(n)} => status'[f] = status[f]
    BY <1>0, <1>5 DEF TimerFire
  <2>2. status'[Routine(n)] = "ready"
    BY <1>0, <1>5, TaskNames DEF TimerFire
  <2> QED BY <1>0, <2>1, <2>2, TaskNames DEF Started
<1> QED BY <1>1, <1>2, <1>3, <1>4, <1>5, TaskSteps

THEOREM LineInvariant == Spec => []LineInv
<1>1. Init => LineInv
  <2> SUFFICES ASSUME Init PROVE LineInv
    OBVIOUS
  <2>1. soon = <<>> /\ \A n \in Signal : status[Routine(n)] = "none"
    BY TaskNames DEF Init, TasksInit
  <2> QED BY <2>1 DEF LineInv
<1>2. TurnInv /\ RestInv /\ LineInv /\ [Next]_vars => LineInv'
  BY LineStep DEF RestInv
<1> QED BY <1>1, <1>2, RestInvariant, PTL DEF Spec

\* Routines begin in the order of their signals, for any number of them and under
\* every strategy.
THEOREM OrderOfRoutines == Spec => BeginInOrder
<1>1. ASSUME TurnInv, LineInv, [Next]_vars, NEW m \in Signal, NEW n \in Signal,
             Started(m)', ~Started(m), Started(n)
      PROVE  n < m
  BY <1>1, BeginsFromLine DEF LineInv
<1>2. TurnInv /\ LineInv /\ [Next]_vars =>
        [\A m, n \in Signal : Started(m)' /\ ~Started(m) /\ Started(n) => n < m]_vars
  BY <1>1
<1> QED BY <1>2, RestInvariant, LineInvariant, PTL DEF Spec, BeginInOrder
=============================================================================
