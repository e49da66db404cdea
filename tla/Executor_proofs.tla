--------------------------- MODULE Executor_proofs ---------------------------
(***************************************************************************)
(* What Executor.tla promises, for any routines, any number of starts,     *)
(* signals and cancellations, and for both ways to use start().            *)
(***************************************************************************)
EXTENDS Executor, TLAPS

alternating == lifecycle = "alternating"

-----------------------------------------------------------------------------
(* The inductive invariant.                                                *)

\* _runners belong to starts that have been made, to the last one when start() and
\* stop() alternate; there are some exactly when there are tasks.
ListInv ==
    /\ \A r \in Range(runners) : r[1] <= starts /\ (alternating => r[1] = starts)
    /\ \A i, j \in DOMAIN runners : runners[i] = runners[j] => i = j
    /\ runners = <<>> <=> tasks = 0
    /\ tasks <= starts
    /\ outcome = "returned" => runners = <<>>

\* Only tasks that wait for their first step are queued, each of them once.
SoonInv ==
    /\ \A p \in DOMAIN soon : status[soon[p]] = "ready"
    /\ \A p, q \in DOMAIN soon : soon[p] = soon[q] => p = q
    /\ \A t \in Task : status[t] # "none" => t[1] <= starts

\* Open channels are those of _runners that stop() has not come to yet.
OpenInv ==
    /\ open \subseteq Range(runners)
    /\ stopper = "runner" => /\ at \in DOMAIN runners
                             /\ \A k \in 1..at : runners[k] \notin open
    /\ stopper = "tasks" => open = {}

\* What is alive is among _executor_tasks, and stop() waits for all of them.
AliveInv ==
    /\ alternating => \A t \in Task : Live(t) => t[1] = tasks
    /\ stopper = "tasks" => ExecutorTasks \subseteq waits

\* Subscribed are only runners of the list; a signal was never owed to a runner
\* that had not been there when it was published.
Meant(r, s) == s <= emitted /\ r[1] <= born[s] /\ (alternating => r[1] = born[s])

SignalInv ==
    /\ \A sub \in subscriptions : sub[1] \in Range(runners)
    /\ \A s \in Signal : \A sub \in owed[s] : Meant(sub[1], s)
    /\ \A r \in Runner : \A s \in got[r] : Meant(r, s)

IInv == TypeOK /\ ListInv /\ SoonInv /\ OpenInv /\ AliveInv /\ SignalInv

-----------------------------------------------------------------------------
(* Runners and tasks.                                                      *)

LEMMA TaskFacts ==
    /\ \A k \in Started, r \in Runner :
          RunnerTask(k, r) \in Loop /\ RunnerTask(k, r) \in Task /\ RunnerTask(k, r)[1] = k
    /\ \A k \in Started : SchedulerTask(k) \in Task /\ SchedulerTask(k)[1] = k
    /\ \A k \in Started, r, q \in Runner :
          /\ RunnerTask(k, r) # SchedulerTask(k)
          /\ RunnerTask(k, r) = RunnerTask(k, q) => r = q
    /\ \A t \in Task : t[1] \in Started
    /\ \A t \in Loop : RunnerOf(t) \in Runner /\ t \in Task
BY ExecutorAssumption
   DEF RunnerTask, SchedulerTask, RunnerOf, Loop, Task, Runner, Started

LEMMA NewRunnersFacts ==
    ASSUME NEW k \in Started
    PROVE  /\ NewRunners(k) \in Seq(Runner) /\ NewRunners(k) # <<>>
           /\ DOMAIN NewRunners(k) = 1..Len(NewRunners(k))
           /\ \A i \in DOMAIN NewRunners(k) : NewRunners(k)[i][1] = k
           /\ \A i, j \in DOMAIN NewRunners(k) : NewRunners(k)[i] = NewRunners(k)[j] => i = j
<1>1. Routines \in Seq(Routine) /\ Routines # <<>>
    BY ExecutorAssumption
<1>2. DOMAIN Routines = 1..Len(Routines) /\ Len(Routines) \in Nat
    BY <1>1
<1>3. \A i \in DOMAIN Routines : Routines[i] \in Routine
    BY <1>1
<1>4. \A i \in DOMAIN Routines : NewRunners(k)[i] = <<k, Routines[i]>> /\ NewRunners(k)[i] \in Runner
    BY <1>3 DEF NewRunners, Runner
<1>5. DOMAIN NewRunners(k) = 1..Len(Routines)
    BY <1>2 DEF NewRunners
<1>6. NewRunners(k) = [i \in 1..Len(Routines) |-> <<k, Routines[i]>>]
    BY <1>2 DEF NewRunners
<1>7. NewRunners(k) \in Seq(Runner) /\ Len(NewRunners(k)) = Len(Routines)
    BY <1>2, <1>4, <1>6
<1>8. Len(Routines) # 0
    BY <1>1
<1>9. NewRunners(k) # <<>>
    BY <1>7, <1>8
<1>10. \A i, j \in DOMAIN Routines : NewRunners(k)[i] = NewRunners(k)[j] => i = j
    BY <1>4, ExecutorAssumption
<1> QED BY <1>2, <1>4, <1>5, <1>7, <1>9, <1>10

LEMMA TasksForFacts ==
    ASSUME NEW k \in Started, NEW rs \in Seq(Runner),
           \A i, j \in DOMAIN rs : rs[i] = rs[j] => i = j
    PROVE  /\ TasksFor(k, rs) \in Seq(Task)
           /\ DOMAIN TasksFor(k, rs) = 1..(Len(rs) + 1)
           /\ TasksFor(k, rs)[1] = SchedulerTask(k)
           /\ \A i \in DOMAIN rs : TasksFor(k, rs)[i + 1] = RunnerTask(k, rs[i])
           /\ \A i \in DOMAIN TasksFor(k, rs) : TasksFor(k, rs)[i][1] = k
           /\ \A i, j \in DOMAIN TasksFor(k, rs) : TasksFor(k, rs)[i] = TasksFor(k, rs)[j] => i = j
<1> DEFINE loops == [i \in DOMAIN rs |-> RunnerTask(k, rs[i])]
           ts == TasksFor(k, rs)
<1>1. DOMAIN rs = 1..Len(rs) /\ Len(rs) \in Nat /\ \A i \in DOMAIN rs : rs[i] \in Runner
    OBVIOUS
<1>2. \A i \in 1..Len(rs) : loops[i] = RunnerTask(k, rs[i]) /\ loops[i] \in Task
    BY <1>1, TaskFacts
<1>3. loops = [i \in 1..Len(rs) |-> RunnerTask(k, rs[i])]
    BY <1>1
<1>4. loops \in Seq(Task) /\ Len(loops) = Len(rs)
    <2> HIDE DEF loops
    <2> QED BY <1>1, <1>2, <1>3
<1>5. <<SchedulerTask(k)>> \in Seq(Task) /\ Len(<<SchedulerTask(k)>>) = 1
    BY TaskFacts
<1>6. ts = <<SchedulerTask(k)>> \o loops
    BY DEF TasksFor
<1> HIDE DEF loops, ts
<1>7. ts \in Seq(Task) /\ Len(ts) = Len(rs) + 1 /\ DOMAIN ts = 1..(Len(rs) + 1)
    BY <1>1, <1>4, <1>5, <1>6
<1>8. ts[1] = SchedulerTask(k) /\ \A i \in 2..(Len(rs) + 1) : ts[i] = RunnerTask(k, rs[i - 1])
    BY <1>1, <1>2, <1>4, <1>5, <1>6
<1>9. \A i \in DOMAIN ts : ts[i][1] = k
    BY <1>1, <1>7, <1>8, TaskFacts
<1>10. \A i, j \in DOMAIN ts : ts[i] = ts[j] => i = j
    <2> SUFFICES ASSUME NEW i \in DOMAIN ts, NEW j \in DOMAIN ts, ts[i] = ts[j] PROVE i = j
        OBVIOUS
    <2>1. CASE i = 1 \/ j = 1
        BY <2>1, <1>1, <1>7, <1>8, TaskFacts
    <2>2. CASE i # 1 /\ j # 1
        <3>1. i - 1 \in DOMAIN rs /\ j - 1 \in DOMAIN rs /\ i \in Int /\ j \in Int
            BY <2>2, <1>1, <1>7
        <3>2. RunnerTask(k, rs[i - 1]) = RunnerTask(k, rs[j - 1])
            BY <2>2, <1>7, <1>8
        <3>3. rs[i - 1] = rs[j - 1]
            BY <3>1, <3>2, <1>1, TaskFacts
        <3>4. i - 1 = j - 1
            BY <3>1, <3>3
        <3> QED BY <3>1, <3>4
    <2> QED BY <2>1, <2>2
<1>11. \A i \in DOMAIN rs : ts[i + 1] = RunnerTask(k, rs[i])
    BY <1>1, <1>8
<1> QED BY <1>7, <1>8, <1>9, <1>10, <1>11 DEF ts

-----------------------------------------------------------------------------
(* The actions, each of which keeps the invariant.                         *)

LEMMA InitInv == Init => IInv
<1> USE ExecutorAssumption
<1> SUFFICES ASSUME Init PROVE IInv
    OBVIOUS
<1> USE DEF Init, TasksInit, PS!Init
<1>1. DOMAIN <<>> = {} /\ Range(<<>>) = {} /\ <<>> \in Seq(Runner) /\ <<>> \in Seq(Task)
    BY DEF Range
<1>2. TypeOK
    BY <1>1 DEF TypeOK, TasksTypeOK, Status
<1>3. ListInv
    BY <1>1 DEF ListInv
<1>4. SoonInv
    BY <1>1 DEF SoonInv
<1>5. OpenInv /\ AliveInv /\ SignalInv
    BY <1>1 DEF OpenInv, AliveInv, SignalInv, Live
<1> QED BY <1>2, <1>3, <1>4, <1>5 DEF IInv

\* start() finds nothing alive when it is used in turn with stop().
LEMMA StartInv == ASSUME IInv, Start PROVE IInv'
<1> USE ExecutorAssumption
<1> DEFINE k == starts + 1
           new == NewRunners(k)
           all == runners \o new
           ts == TasksFor(k, all)
<1>1. /\ starts < MaxStarts /\ stopper = "idle" /\ (alternating => runners = <<>>)
      /\ starts' = k /\ tasks' = k /\ runners' = all
      /\ open' = open \cup Range(new)
      /\ PS!SubscribeEach({<<r, HashOf(r)>> : r \in Range(new)})
      /\ CreateEach(ts)
      /\ outcome' = "none"
      /\ UNCHANGED <<lifecycle, asked, loopOf, inbox, got, born, stopper, at, waits, cancels>>
    BY DEF Start, MayStart, alternating
<1>2. /\ k \in Started /\ starts \in 0..MaxStarts
      /\ runners \in Seq(Runner) /\ soon \in Seq(Task) /\ status \in [Task -> Status]
    BY <1>1 DEF IInv, TypeOK, TasksTypeOK, Started
<1>3. /\ new \in Seq(Runner) /\ new # <<>>
      /\ DOMAIN new = 1..Len(new)
      /\ \A i \in DOMAIN new : new[i][1] = k
      /\ \A i, j \in DOMAIN new : new[i] = new[j] => i = j
    BY <1>2, NewRunnersFacts
<1> HIDE DEF new
<1>4. /\ all \in Seq(Runner) /\ Len(all) = Len(runners) + Len(new)
      /\ DOMAIN all = 1..Len(all) /\ Len(runners) \in Nat /\ Len(new) \in Nat \ {0}
      /\ DOMAIN runners = 1..Len(runners)
      /\ \A i \in DOMAIN runners : all[i] = runners[i]
      /\ \A i \in DOMAIN all \ DOMAIN runners : i - Len(runners) \in DOMAIN new /\ all[i] = new[i - Len(runners)]
      /\ \A i \in DOMAIN new : i + Len(runners) \in DOMAIN all /\ all[i + Len(runners)] = new[i]
    BY <1>2, <1>3
<1> HIDE DEF all
<1>5. \A i \in DOMAIN runners : runners[i] \in Runner /\ runners[i][1] <= starts
    BY <1>2 DEF IInv, ListInv, Range
<1>6. \A i, j \in DOMAIN all : all[i] = all[j] => i = j
    <2> SUFFICES ASSUME NEW i \in DOMAIN all, NEW j \in DOMAIN all, all[i] = all[j] PROVE i = j
        OBVIOUS
    <2>1. CASE i \in DOMAIN runners /\ j \in DOMAIN runners
        BY <2>1, <1>4 DEF IInv, ListInv
    <2>2. CASE i \notin DOMAIN runners /\ j \notin DOMAIN runners
        <3>1. i - Len(runners) = j - Len(runners)
            BY <2>2, <1>3, <1>4
        <3> QED BY <3>1, <1>4
    <2>3. starts \in Nat /\ ~(k <= starts)
        BY <1>2
    <2>4. \A m \in DOMAIN runners : all[m][1] <= starts
        BY <1>4, <1>5
    <2>5. \A m \in DOMAIN all \ DOMAIN runners : all[m][1] = k
        BY <1>3, <1>4
    <2>6. CASE i \in DOMAIN runners /\ j \notin DOMAIN runners
        <3>1. all[i][1] <= starts /\ all[j][1] = k
            BY <2>4, <2>5, <2>6
        <3>2. all[i][1] = all[j][1]
            OBVIOUS
        <3> QED BY <2>3, <3>1, <3>2
    <2>7. CASE i \notin DOMAIN runners /\ j \in DOMAIN runners
        <3>1. all[j][1] <= starts /\ all[i][1] = k
            BY <2>4, <2>5, <2>7
        <3>2. all[i][1] = all[j][1]
            OBVIOUS
        <3> QED BY <2>3, <3>1, <3>2
    <2> QED BY <2>1, <2>2, <2>6, <2>7
<1>7. Range(all) = Range(runners) \cup Range(new)
    <2>1. Range(runners) \cup Range(new) \subseteq Range(all)
        BY <1>4 DEF Range
    <2>2. Range(all) \subseteq Range(runners) \cup Range(new)
        BY <1>4 DEF Range
    <2> QED BY <2>1, <2>2
<1>8. Range(new) \subseteq Runner /\ \A r \in Range(new) : r[1] = k
    BY <1>3 DEF Range
<1>9. /\ ts \in Seq(Task)
      /\ \A i \in DOMAIN ts : ts[i][1] = k
      /\ \A i, j \in DOMAIN ts : ts[i] = ts[j] => i = j
    BY <1>2, <1>4, <1>6, TasksForFacts
<1> HIDE DEF ts
<1>10. /\ status' = [t \in Task |-> IF \E i \in DOMAIN ts : ts[i] = t THEN "ready" ELSE status[t]]
       /\ soon' = soon \o ts
    BY <1>1 DEF CreateEach
<1>11. /\ subscriptions' = subscriptions \cup {<<r, HashOf(r)>> : r \in Range(new)}
       /\ UNCHANGED <<emitted, owed>>
    BY <1>1 DEF PS!SubscribeEach
<1>12. \A r \in Range(new) : HashOf(r) \in Shared \cup Runner
    BY <1>8 DEF HashOf, Shared, Runner
<1>13. TypeOK'
    <2>1. TasksTypeOK'
        BY <1>1, <1>2, <1>9, <1>10 DEF IInv, TypeOK, TasksTypeOK, Status
    <2>2. open' \subseteq Runner /\ subscriptions' \subseteq Runner \X (Shared \cup Runner)
        BY <1>1, <1>8, <1>11, <1>12 DEF IInv, TypeOK
    <2>3. starts' \in 0..MaxStarts /\ tasks' \in 0..MaxStarts /\ runners' \in Seq(Runner)
        BY <1>1, <1>2, <1>4 DEF Started
    <2> QED BY <2>1, <2>2, <2>3, <1>1, <1>11 DEF IInv, TypeOK
<1>14. ListInv'
    <2>1. \A r \in Range(all) : r[1] <= k /\ (alternating => r[1] = k)
        <3>1. \A r \in Range(runners) : r[1] <= k
            BY <1>2, <1>5, <1>4 DEF Range, Runner, Started
        <3>2. alternating => Range(runners) = {}
            BY <1>1 DEF Range
        <3> QED BY <3>1, <3>2, <1>2, <1>7, <1>8 DEF Started
    <2>2. all # <<>> /\ k # 0 /\ k <= k
        BY <1>2, <1>4 DEF Started
    <2> QED BY <1>1, <1>6, <2>1, <2>2 DEF ListInv, alternating
<1>15. SoonInv'
    <2>1. \A t \in Task : t[1] = k => status[t] = "none"
        BY <1>2 DEF IInv, SoonInv, Started
    <2>2. /\ DOMAIN soon = 1..Len(soon) /\ DOMAIN ts = 1..Len(ts)
          /\ Len(soon) \in Nat /\ Len(ts) \in Nat
          /\ \A p \in DOMAIN soon : soon[p] \in Task /\ status[soon[p]] = "ready"
          /\ \A i \in DOMAIN ts : ts[i] \in Task
        BY <1>2, <1>9 DEF IInv, SoonInv
    <2>3. \A p \in DOMAIN soon, i \in DOMAIN ts : soon[p] # ts[i]
        BY <2>1, <2>2, <1>9
    <2>4. /\ DOMAIN soon' = 1..(Len(soon) + Len(ts))
          /\ \A p \in DOMAIN soon : soon'[p] = soon[p]
          /\ \A p \in DOMAIN soon' \ DOMAIN soon : p - Len(soon) \in DOMAIN ts /\ soon'[p] = ts[p - Len(soon)]
        BY <1>2, <1>9, <1>10, <2>2
    <2>5. \A p \in DOMAIN soon' : status'[soon'[p]] = "ready"
        BY <1>10, <2>2, <2>4
    <2>6. \A p, q \in DOMAIN soon' : soon'[p] = soon'[q] => p = q
        <3> SUFFICES ASSUME NEW p \in DOMAIN soon', NEW q \in DOMAIN soon', soon'[p] = soon'[q]
                     PROVE  p = q
            OBVIOUS
        <3>1. CASE p \in DOMAIN soon /\ q \in DOMAIN soon
            BY <3>1, <2>4 DEF IInv, SoonInv
        <3>2. CASE p \notin DOMAIN soon /\ q \notin DOMAIN soon
            <4>1. p - Len(soon) = q - Len(soon)
                BY <3>2, <2>4, <1>9
            <4> QED BY <4>1, <2>2, <2>4
        <3>3. CASE p \in DOMAIN soon /\ q \notin DOMAIN soon
            BY <3>3, <2>3, <2>4
        <3>4. CASE p \notin DOMAIN soon /\ q \in DOMAIN soon
            BY <3>4, <2>3, <2>4
        <3> QED BY <3>1, <3>2, <3>3, <3>4
    <2>7. \A t \in Task : status'[t] # "none" => t[1] <= starts'
        <3> SUFFICES ASSUME NEW t \in Task, status'[t] # "none" PROVE t[1] <= k
            BY <1>1
        <3>1. t[1] = k \/ status[t] # "none"
            BY <1>9, <1>10
        <3>2. status[t] # "none" => t[1] <= starts
            BY DEF IInv, SoonInv
        <3>3. t[1] \in Nat /\ k \in Nat /\ starts \in Nat
            BY <1>2, TaskFacts DEF Started
        <3> QED BY <3>1, <3>2, <3>3
    <2> QED BY <2>5, <2>6, <2>7 DEF SoonInv
<1>16. OpenInv'
    BY <1>1, <1>7 DEF IInv, OpenInv
<1>17. AliveInv'
    <2>1. alternating => tasks = 0
        BY <1>1 DEF IInv, ListInv
    <2>2. alternating => \A t \in Task : ~Live(t)
        <3>1. \A t \in Task : t[1] # 0
            BY TaskFacts DEF Started
        <3> QED BY <2>1, <3>1 DEF IInv, AliveInv
    <2>3. alternating => \A t \in Task : Live(t)' => t[1] = k
        BY <1>9, <1>10, <2>2 DEF Live
    <2> QED BY <1>1, <2>3 DEF AliveInv, alternating
<1>18. SignalInv'
    <2>1. \A sub \in subscriptions' : sub[1] \in Range(all)
        BY <1>7, <1>11 DEF IInv, SignalInv
    <2> QED BY <1>1, <1>11, <2>1 DEF IInv, SignalInv, Meant, alternating
<1> QED BY <1>13, <1>14, <1>15, <1>16, <1>17, <1>18 DEF IInv
\* The parts of the invariant that a step leaves alone.
LEMMA Frames ==
    ASSUME IInv
    PROVE  /\ UNCHANGED <<lifecycle, starts, runners, tasks, outcome>> => ListInv'
           /\ UNCHANGED <<status, soon, starts>> => SoonInv'
           /\ UNCHANGED <<open, runners, stopper, at>> => OpenInv'
           /\ UNCHANGED <<lifecycle, status, tasks, stopper, waits>> => AliveInv'
           /\ UNCHANGED <<lifecycle, subscriptions, runners, emitted, owed, born, got>> => SignalInv'
<1>1. UNCHANGED <<lifecycle, starts, runners, tasks, outcome>> => ListInv'
    BY DEF IInv, ListInv, alternating
<1>2. UNCHANGED <<status, soon, starts>> => SoonInv'
    BY DEF IInv, SoonInv
<1>3. UNCHANGED <<open, runners, stopper, at>> => OpenInv'
    BY DEF IInv, OpenInv
<1>4. UNCHANGED <<lifecycle, status, tasks, stopper, waits>> => AliveInv'
    BY DEF IInv, AliveInv, Live, ExecutorTasks, alternating
<1>5. UNCHANGED <<lifecycle, subscriptions, runners, emitted, owed, born, got>> => SignalInv'
    BY DEF IInv, SignalInv, Meant, alternating
<1> QED BY <1>1, <1>2, <1>3, <1>4, <1>5

\* A task's first step and its end revive nothing.
LEMMA TaskFirstStepInv == ASSUME IInv, TaskFirstStep PROVE IInv'
<1> USE ExecutorAssumption
<1>1. /\ FirstStep
      /\ loopOf' = LET t == Head(soon) IN
                   IF t \in Loop /\ t \notin asked THEN [loopOf EXCEPT ![RunnerOf(t)] = t[1]]
                   ELSE loopOf
      /\ UNCHANGED <<listVars, open, inbox, got, emitterVars, stopVars>>
    BY DEF TaskFirstStep
<1>2. soon \in Seq(Task) /\ status \in [Task -> Status] /\ loopOf \in [Runner -> 0..MaxStarts]
    BY DEF IInv, TypeOK, TasksTypeOK
<1>3. soon # <<>> /\ soon' = Tail(soon) /\ asked' = asked
    BY <1>1 DEF FirstStep
<1> DEFINE t == Head(soon)
<1>4. t = soon[1] /\ t \in Task /\ 1 \in DOMAIN soon
    BY <1>2, <1>3
<1>5. /\ Tail(soon) \in Seq(Task)
      /\ \A p \in DOMAIN Tail(soon) : p \in Nat \ {0} /\ p + 1 \in DOMAIN soon /\ Tail(soon)[p] = soon[p + 1]
    BY <1>2, <1>3
<1>6. status[t] = "ready"
    BY <1>4 DEF IInv, SoonInv
<1>7. \/ status' = [status EXCEPT ![t] = "dropped"]
      \/ status' = [status EXCEPT ![t] = "running"]
    BY <1>1 DEF FirstStep
<1>8. loopOf' \in [Runner -> 0..MaxStarts]
    <2>1. t \in Loop => RunnerOf(t) \in Runner /\ t[1] \in 0..MaxStarts
        BY TaskFacts DEF Started
    <2> QED BY <1>1, <1>2, <2>1
<1> HIDE DEF t
<1>9. TypeOK'
    <2>1. status' \in [Task -> Status]
        BY <1>2, <1>7 DEF Status, Ended
    <2>2. TasksTypeOK'
        BY <2>1, <1>3, <1>5 DEF IInv, TypeOK, TasksTypeOK
    <2> QED BY <1>1, <1>8, <2>2 DEF IInv, TypeOK, listVars, emitterVars, stopVars
<1>10. SoonInv'
    <2>1. \A p \in DOMAIN soon' : soon'[p] # t /\ status'[soon'[p]] = status[soon'[p]]
        <3> SUFFICES ASSUME NEW p \in DOMAIN soon' PROVE soon'[p] # t /\ status'[soon'[p]] = status[soon'[p]]
            OBVIOUS
        <3>1. p + 1 \in DOMAIN soon /\ soon'[p] = soon[p + 1] /\ p + 1 # 1
            BY <1>3, <1>5
        <3>2. soon[p + 1] # soon[1]
            BY <1>4, <3>1 DEF IInv, SoonInv
        <3> QED BY <1>2, <1>4, <1>7, <3>1, <3>2
    <2>2. \A p \in DOMAIN soon' : status'[soon'[p]] = "ready"
        BY <2>1, <1>3, <1>5 DEF IInv, SoonInv
    <2>3. \A p, q \in DOMAIN soon' : soon'[p] = soon'[q] => p = q
        <3> SUFFICES ASSUME NEW p \in DOMAIN soon', NEW q \in DOMAIN soon', soon'[p] = soon'[q] PROVE p = q
            OBVIOUS
        <3>1. p + 1 \in DOMAIN soon /\ q + 1 \in DOMAIN soon /\ soon[p + 1] = soon[q + 1] /\ p \in Nat /\ q \in Nat
            BY <1>3, <1>5
        <3>2. p + 1 = q + 1
            BY <3>1 DEF IInv, SoonInv
        <3> QED BY <3>1, <3>2
    <2>4. \A u \in Task : status'[u] # "none" => status[u] # "none"
        BY <1>2, <1>6, <1>7
    <2> QED BY <2>2, <2>3, <2>4, <1>1 DEF IInv, SoonInv, listVars
<1>11. AliveInv'
    <2>1. \A u \in Task : /\ Live(u)' => Live(u)
                          /\ status'[u] # "none" => status[u] # "none"
        BY <1>2, <1>6, <1>7 DEF Live
    <2> QED BY <2>1, <1>1 DEF IInv, AliveInv, ExecutorTasks, alternating, listVars, stopVars
<1> QED BY <1>1, <1>9, <1>10, <1>11, Frames DEF IInv, listVars, emitterVars, stopVars

LEMMA TaskEndsInv ==
    ASSUME IInv, NEW t \in Task, NEW end \in Ended, TaskEnds(t, end)
    PROVE  IInv'
<1>1. /\ status[t] = "running" /\ status' = [status EXCEPT ![t] = end]
      /\ UNCHANGED <<asked, soon>>
      /\ UNCHANGED <<listVars, runnerVars, emitterVars, stopVars>>
    BY DEF TaskEnds, End
<1>2. status \in [Task -> Status] /\ soon \in Seq(Task)
    BY DEF IInv, TypeOK, TasksTypeOK
<1>3. TypeOK'
    <2>1. status' \in [Task -> Status]
        BY <1>1, <1>2 DEF Status
    <2> QED BY <1>1, <2>1 DEF IInv, TypeOK, TasksTypeOK, listVars, runnerVars, emitterVars, stopVars
<1>4. \A u \in Task : /\ u # t => status'[u] = status[u]
                      /\ Live(u)' => Live(u)
                      /\ status'[u] # "none" => status[u] # "none"
    BY <1>1, <1>2 DEF Live, Ended
<1>5. SoonInv'
    <2>1. \A p \in DOMAIN soon : soon[p] # t /\ soon[p] \in Task
        BY <1>1, <1>2 DEF IInv, SoonInv
    <2> QED BY <1>1, <1>4, <2>1 DEF IInv, SoonInv, listVars
<1>6. AliveInv'
    BY <1>1, <1>4 DEF IInv, AliveInv, ExecutorTasks, alternating, listVars, stopVars
<1> QED BY <1>1, <1>3, <1>5, <1>6, Frames DEF IInv, listVars, runnerVars, emitterVars, stopVars

LEMMA ServeInv == ASSUME IInv, NEW t \in Loop, Serve(t) PROVE IInv'
<1>1. PICK s \in inbox[RunnerOf(t)] : inbox' = [inbox EXCEPT ![RunnerOf(t)] = @ \ {s}]
    BY DEF Serve
<1>2. UNCHANGED <<listVars, taskVars, loopOf, open, got, emitterVars, stopVars>>
    BY DEF Serve
<1>3. inbox' \in [Runner -> SUBSET Signal]
    BY <1>1, TaskFacts DEF IInv, TypeOK
<1>4. TypeOK'
    BY <1>2, <1>3 DEF IInv, TypeOK, TasksTypeOK, listVars, taskVars, emitterVars, stopVars
<1> QED BY <1>2, <1>4, Frames DEF IInv, listVars, taskVars, emitterVars, stopVars

LEMMA CancelGatherInv == ASSUME IInv, NEW k \in Started, CancelGather(k) PROVE IInv'
<1>1. /\ cancels < MaxCancels[lifecycle] /\ cancels' = cancels + 1
      /\ asked' \subseteq asked \cup Task
      /\ UNCHANGED <<listVars, status, soon, runnerVars, emitterVars, stopper, at, waits, outcome>>
    BY DEF CancelGather, RequestCancel
<1>2. cancels' \in 0..MaxCancels[lifecycle] /\ lifecycle' = lifecycle
    BY <1>1, ExecutorAssumption DEF IInv, TypeOK, listVars
<1>3. TypeOK'
    BY <1>1, <1>2 DEF IInv, TypeOK, TasksTypeOK, listVars, runnerVars, emitterVars
<1> QED BY <1>1, <1>3, Frames DEF IInv, listVars, runnerVars, emitterVars
\* A new signal is owed to runners of the list only.
LEMMA PublishInv == ASSUME IInv, NEW h, Publish(h) PROVE IInv'
<1> USE ExecutorAssumption
<1> DEFINE n == emitted + 1
           heard == {sub \in subscriptions : sub[2] \in {h, <<0, "every">>}}
<1>1. /\ n \in Signal /\ emitted' = n /\ owed' = [owed EXCEPT ![n] = heard]
      /\ subscriptions' = subscriptions
      /\ born' = [born EXCEPT ![n] = starts]
      /\ UNCHANGED <<listVars, taskVars, runnerVars, stopVars>>
    BY DEF Publish, PS!Emit
<1>2. /\ emitted \in Nat /\ starts \in 0..MaxStarts
      /\ born \in [Signal -> 0..MaxStarts] /\ runners \in Seq(Runner)
      /\ subscriptions \subseteq Runner \X (Shared \cup Runner)
      /\ owed \in [Signal -> SUBSET (Runner \X (Shared \cup Runner))]
      /\ got \in [Runner -> SUBSET Signal]
    BY DEF IInv, TypeOK
<1> HIDE DEF n, heard
<1>3. heard \subseteq subscriptions
    BY DEF heard
<1>4. TypeOK'
    <2>1. owed' \in [Signal -> SUBSET (Runner \X (Shared \cup Runner))]
        BY <1>1, <1>2, <1>3
    <2>2. born' \in [Signal -> 0..MaxStarts] /\ emitted' \in 0..MaxSignals
        BY <1>1, <1>2 DEF Signal
    <2> QED BY <1>1, <2>1, <2>2
            DEF IInv, TypeOK, TasksTypeOK, listVars, taskVars, runnerVars, stopVars
<1>5. SignalInv'
    <2>1. \A r \in Range(runners), s \in Signal : s = n => Meant(r, s)'
        <3>1. born'[n] = starts /\ n <= emitted'
            BY <1>1, <1>2 DEF n
        <3>2. \A r \in Range(runners) : r[1] <= starts /\ (alternating => r[1] = starts)
            BY DEF IInv, ListInv
        <3>3. lifecycle' = lifecycle
            BY <1>1 DEF listVars
        <3> QED BY <3>1, <3>2, <3>3 DEF Meant, alternating
    <2>2. \A r \in Runner, s \in Signal : s # n /\ Meant(r, s) => Meant(r, s)'
        BY <1>1, <1>2 DEF Meant, alternating, listVars, n, Signal
    <2>3. \A s \in Signal : \A sub \in owed'[s] : Meant(sub[1], s)'
        <3> SUFFICES ASSUME NEW s \in Signal, NEW sub \in owed'[s] PROVE Meant(sub[1], s)'
            OBVIOUS
        <3>1. CASE s = n
            <4>1. sub \in subscriptions
                BY <3>1, <1>1, <1>2, <1>3
            <4>2. sub[1] \in Range(runners)
                BY <4>1 DEF IInv, SignalInv
            <4> QED BY <3>1, <4>2, <2>1
        <3>2. CASE s # n
            <4>1. sub \in owed[s] /\ sub[1] \in Runner
                BY <3>2, <1>1, <1>2
            <4>2. Meant(sub[1], s)
                BY <4>1 DEF IInv, SignalInv
            <4> QED BY <3>2, <4>1, <4>2, <2>2
        <3> QED BY <3>1, <3>2
    <2>4. \A r \in Runner : \A s \in got[r] : s # n /\ s \in Signal /\ Meant(r, s)
        BY <1>2 DEF IInv, SignalInv, Meant, n, Signal
    <2>5. \A r \in Runner : \A s \in got'[r] : Meant(r, s)'
        BY <1>1, <2>2, <2>4 DEF runnerVars
    <2>6. \A sub \in subscriptions' : sub[1] \in Range(runners')
        BY <1>1 DEF IInv, SignalInv, listVars
    <2> QED BY <2>3, <2>5, <2>6 DEF SignalInv
<1> QED BY <1>1, <1>4, <1>5, Frames DEF IInv, listVars, taskVars, runnerVars, stopVars

LEMMA CallRunnerInv == ASSUME IInv, NEW n \in Signal, CallRunner(n) PROVE IInv'
<1>1. PICK sub \in owed[n] :
          /\ PS!Deliver(n, sub)
          /\ IF sub[1] \in open
             THEN /\ inbox' = [inbox EXCEPT ![sub[1]] = @ \cup {n}]
                  /\ got' = [got EXCEPT ![sub[1]] = @ \cup {n}]
             ELSE UNCHANGED <<inbox, got>>
    BY DEF CallRunner
<1>2. /\ owed' = [owed EXCEPT ![n] = @ \ {sub}] /\ UNCHANGED <<subscriptions, emitted>>
      /\ UNCHANGED <<listVars, taskVars, loopOf, open, born, stopVars>>
    BY <1>1 DEF CallRunner, PS!Deliver
<1>3. /\ owed \in [Signal -> SUBSET (Runner \X (Shared \cup Runner))]
      /\ got \in [Runner -> SUBSET Signal] /\ inbox \in [Runner -> SUBSET Signal]
    BY DEF IInv, TypeOK
<1>4. sub[1] \in Runner
    BY <1>1, <1>3
<1>5. /\ inbox' \in [Runner -> SUBSET Signal] /\ got' \in [Runner -> SUBSET Signal]
      /\ owed' \in [Signal -> SUBSET (Runner \X (Shared \cup Runner))]
    BY <1>1, <1>2, <1>3, <1>4
<1>6. TypeOK'
    BY <1>2, <1>5 DEF IInv, TypeOK, TasksTypeOK, listVars, taskVars, stopVars
<1>7. SignalInv'
    <2>1. Meant(sub[1], n)
        BY <1>1 DEF IInv, SignalInv
    <2>2. \A r \in Runner : \A s \in got'[r] : s \in got[r] \/ (r = sub[1] /\ s = n)
        BY <1>1, <1>3
    <2>3. \A r \in Runner : \A s \in got'[r] : Meant(r, s)
        BY <2>1, <2>2 DEF IInv, SignalInv
    <2>4. \A s \in Signal : owed'[s] \subseteq owed[s]
        BY <1>2, <1>3
    <2> QED BY <1>2, <2>3, <2>4 DEF IInv, SignalInv, Meant, alternating, listVars
<1> QED BY <1>2, <1>6, <1>7, Frames DEF IInv, listVars, taskVars, stopVars

LEMMA DropEmissionInv == ASSUME IInv, NEW n \in Signal, DropEmission(n) PROVE IInv'
<1>1. /\ owed' = [owed EXCEPT ![n] = {}] /\ UNCHANGED <<subscriptions, emitted>>
      /\ UNCHANGED <<listVars, taskVars, runnerVars, born, stopVars>>
    BY DEF DropEmission, PS!Drop
<1>2. TypeOK'
    BY <1>1 DEF IInv, TypeOK, TasksTypeOK, listVars, taskVars, runnerVars, stopVars
<1>3. SignalInv'
    <2>1. \A s \in Signal : owed'[s] \subseteq owed[s]
        BY <1>1 DEF IInv, TypeOK
    <2> QED BY <1>1, <2>1 DEF IInv, SignalInv, Meant, alternating, listVars, runnerVars
<1> QED BY <1>1, <1>2, <1>3, Frames DEF IInv, listVars, taskVars, runnerVars, stopVars

-----------------------------------------------------------------------------
(* stop().                                                                 *)

\* Between two suspension points stop() closes every channel up to the one whose
\* loop it then awaits, or all that are left.
LEMMA StopFromFacts ==
    ASSUME IInv, NEW i \in Nat \ {0}, i <= Len(runners) + 1,
           \A k \in 1..(i - 1) : runners[k] \notin open,
           StopFrom(i), UNCHANGED <<runners, tasks, status>>
    PROVE  /\ OpenInv'
           /\ stopper' \in {"runner", "tasks"} /\ at' \in Nat
           /\ waits' \subseteq Task /\ asked' \subseteq Task /\ open' \subseteq Runner
           /\ stopper' = "tasks" => ExecutorTasks' \subseteq waits'
<1> DEFINE loops == {j \in i..Len(runners) : loopOf[runners[j]] # 0}
<1>1. /\ runners \in Seq(Runner) /\ loopOf \in [Runner -> 0..MaxStarts]
      /\ open \subseteq Runner /\ asked \subseteq Task /\ open \subseteq Range(runners)
    BY DEF IInv, TypeOK, TasksTypeOK, OpenInv
<1>2. DOMAIN runners = 1..Len(runners) /\ Len(runners) \in Nat
    BY <1>1
<1>3. CASE /\ \E j \in loops :
                 /\ \A k \in loops : j <= k
                 /\ open' = open \ {runners[k] : k \in i..j}
                 /\ stopper' = "runner" /\ at' = j
                 /\ waits' = {RunnerTask(loopOf[runners[j]], runners[j])}
           /\ UNCHANGED asked
    <2>1. PICK j \in loops : /\ open' = open \ {runners[k] : k \in i..j}
                             /\ stopper' = "runner" /\ at' = j
                             /\ waits' = {RunnerTask(loopOf[runners[j]], runners[j])}
        BY <1>3
    <2>2. j \in i..Len(runners) /\ j \in DOMAIN runners /\ runners[j] \in Runner
        BY <1>1, <1>2
    <2>3. loopOf[runners[j]] \in Started
        BY <1>1, <2>2, ExecutorAssumption DEF Started
    <2>4. waits' \subseteq Task
        BY <2>1, <2>2, <2>3, TaskFacts
    <2>5. \A k \in 1..j : runners[k] \notin open'
        BY <2>1, <2>2
    <2>6. OpenInv'
        BY <1>1, <2>1, <2>2, <2>5 DEF OpenInv
    <2> QED BY <1>1, <1>3, <2>1, <2>2, <2>4, <2>6
<1>4. CASE /\ open' = open \ {runners[k] : k \in i..Len(runners)}
           /\ stopper' = "tasks" /\ at' = 0
           /\ waits' = ExecutorTasks /\ RequestCancel(ExecutorTasks)
    <2>1. open' = {}
        <3>1. \A k \in DOMAIN runners : runners[k] \notin open'
            BY <1>2, <1>4
        <3> QED BY <1>1, <1>4, <3>1 DEF Range
    <2>2. OpenInv'
        BY <1>4, <2>1 DEF OpenInv
    <2>3. ExecutorTasks' = ExecutorTasks /\ ExecutorTasks \subseteq Task
        BY DEF ExecutorTasks
    <2>4. asked' \subseteq Task
        BY <1>1, <1>4 DEF RequestCancel
    <2> QED BY <1>4, <2>1, <2>2, <2>3, <2>4
<1> QED BY <1>3, <1>4 DEF StopFrom

LEMMA StopInv == ASSUME IInv, Stop PROVE IInv'
<1>1. /\ StopFrom(1)
      /\ UNCHANGED <<listVars, status, soon, loopOf, inbox, got, emitterVars, outcome, cancels>>
    BY DEF Stop
<1>2. 1 <= Len(runners) + 1
    BY DEF IInv, TypeOK
<1>3. /\ OpenInv'
      /\ stopper' \in {"runner", "tasks"} /\ at' \in Nat
      /\ waits' \subseteq Task /\ asked' \subseteq Task /\ open' \subseteq Runner
      /\ stopper' = "tasks" => ExecutorTasks' \subseteq waits'
    BY <1>1, <1>2, StopFromFacts DEF listVars
<1>4. TypeOK'
    BY <1>1, <1>3 DEF IInv, TypeOK, TasksTypeOK, listVars, emitterVars
<1>5. AliveInv'
    BY <1>1, <1>3 DEF IInv, AliveInv, Live, alternating, listVars
<1> QED BY <1>1, <1>3, <1>4, <1>5, Frames DEF IInv, listVars, emitterVars

LEMMA RunnerStoppedInv == ASSUME IInv, RunnerStopped PROVE IInv'
<1>1. /\ stopper = "runner"
      /\ UNCHANGED <<listVars, status, soon, inbox, got, emitterVars, cancels>>
    BY DEF RunnerStopped
<1>2. CASE /\ loopOf' = [loopOf EXCEPT ![runners[at]] = 0]
           /\ StopFrom(at + 1)
           /\ UNCHANGED outcome
    <2>1. /\ at \in DOMAIN runners /\ runners \in Seq(Runner)
          /\ \A k \in 1..at : runners[k] \notin open
        BY <1>1 DEF IInv, TypeOK, OpenInv
    <2>2. at + 1 \in Nat \ {0} /\ at + 1 <= Len(runners) + 1 /\ (at + 1) - 1 = at
        BY <2>1
    <2>3. /\ OpenInv'
          /\ stopper' \in {"runner", "tasks"} /\ at' \in Nat
          /\ waits' \subseteq Task /\ asked' \subseteq Task /\ open' \subseteq Runner
          /\ stopper' = "tasks" => ExecutorTasks' \subseteq waits'
        BY <1>1, <1>2, <2>1, <2>2, StopFromFacts DEF listVars
    <2>4. loopOf' \in [Runner -> 0..MaxStarts]
        <3>1. 0 \in 0..MaxStarts /\ loopOf \in [Runner -> 0..MaxStarts]
            BY ExecutorAssumption DEF IInv, TypeOK
        <3> QED BY <1>2, <3>1
    <2>5. TypeOK'
        BY <1>1, <1>2, <2>3, <2>4 DEF IInv, TypeOK, TasksTypeOK, listVars, emitterVars
    <2>6. AliveInv'
        BY <1>1, <2>3 DEF IInv, AliveInv, Live, alternating, listVars
    <2> QED BY <1>1, <1>2, <2>3, <2>5, <2>6, Frames DEF IInv, listVars, emitterVars
<1>3. CASE StopEnds("raised") /\ UNCHANGED <<asked, loopOf, open>>
    <2>1. stopper' = "idle" /\ at' = 0 /\ waits' = {} /\ outcome' = "raised"
        BY <1>3 DEF StopEnds
    <2>2. TypeOK'
        BY <1>1, <1>3, <2>1 DEF IInv, TypeOK, TasksTypeOK, listVars, emitterVars
    <2>3. ListInv' /\ OpenInv' /\ AliveInv'
        BY <1>1, <1>3, <2>1 DEF IInv, ListInv, OpenInv, AliveInv, Live, alternating, listVars
    <2> QED BY <1>1, <2>2, <2>3, Frames DEF IInv, listVars, emitterVars
<1> QED BY <1>2, <1>3 DEF RunnerStopped

\* stop() forgets the runners when none of their tasks is alive.
LEMMA TasksStoppedInv == ASSUME IInv, TasksStopped PROVE IInv'
<1>1. /\ stopper = "tasks" /\ Settled(waits)
      /\ subscriptions' = {} /\ UNCHANGED <<emitted, owed>>
      /\ runners' = <<>> /\ tasks' = 0
      /\ stopper' = "idle" /\ at' = 0 /\ waits' = {} /\ outcome' = "returned"
      /\ UNCHANGED <<lifecycle, starts, taskVars, runnerVars, born, cancels>>
    BY DEF TasksStopped, StopEnds, PS!UnsubscribeAll
<1>2. <<>> \in Seq(Runner) /\ Range(<<>>) = {} /\ DOMAIN <<>> = {}
    BY DEF Range
<1>3. starts \in Nat
    BY ExecutorAssumption DEF IInv, TypeOK
<1>4. TypeOK'
    BY <1>1, <1>2, ExecutorAssumption DEF IInv, TypeOK, TasksTypeOK, taskVars, runnerVars
<1>5. ListInv'
    BY <1>1, <1>2, <1>3 DEF ListInv
<1>6. OpenInv'
    BY <1>1 DEF IInv, OpenInv, runnerVars
<1>7. AliveInv'
    <2>1. alternating => \A t \in Task : ~Live(t)
        <3> SUFFICES ASSUME alternating, NEW t \in Task, Live(t) PROVE FALSE
            OBVIOUS
        <3>1. t \in ExecutorTasks
            BY DEF IInv, AliveInv, ExecutorTasks, Live
        <3>2. t \in waits
            BY <1>1, <3>1 DEF IInv, AliveInv
        <3> QED BY <1>1, <3>2 DEF Settled
    <2> QED BY <1>1, <2>1 DEF AliveInv, Live, alternating, taskVars
<1>8. SignalInv'
    BY <1>1 DEF IInv, SignalInv, Meant, alternating, runnerVars
<1> QED BY <1>1, <1>4, <1>5, <1>6, <1>7, <1>8, Frames DEF IInv, taskVars

LEMMA CancelStopInv == ASSUME IInv, CancelStop PROVE IInv'
<1>1. /\ cancels < MaxCancels[lifecycle] /\ cancels' = cancels + 1
      /\ UNCHANGED <<listVars, status, soon, runnerVars, emitterVars>>
    BY DEF CancelStop
<1>2. cancels' \in 0..MaxCancels[lifecycle] /\ lifecycle' = lifecycle
    BY <1>1, ExecutorAssumption DEF IInv, TypeOK, listVars
<1>3. CASE RequestCancel(waits) /\ UNCHANGED <<stopper, at, waits, outcome>>
    <2>1. asked' \subseteq asked \cup Task
        BY <1>3 DEF RequestCancel
    <2>2. TypeOK'
        BY <1>1, <1>2, <1>3, <2>1 DEF IInv, TypeOK, TasksTypeOK, listVars, runnerVars, emitterVars
    <2> QED BY <1>1, <1>3, <2>2, Frames DEF IInv, listVars, runnerVars, emitterVars
<1>4. CASE StopEnds("raised") /\ UNCHANGED asked
    <2>1. stopper' = "idle" /\ at' = 0 /\ waits' = {} /\ outcome' = "raised"
        BY <1>4 DEF StopEnds
    <2>2. TypeOK'
        BY <1>1, <1>2, <1>4, <2>1 DEF IInv, TypeOK, TasksTypeOK, listVars, runnerVars, emitterVars
    <2>3. ListInv' /\ OpenInv' /\ AliveInv'
        BY <1>1, <2>1 DEF IInv, ListInv, OpenInv, AliveInv, Live, alternating, listVars, runnerVars
    <2> QED BY <1>1, <2>2, <2>3, Frames DEF IInv, listVars, runnerVars, emitterVars
<1> QED BY <1>3, <1>4 DEF CancelStop

LEMMA NextInv == ASSUME IInv, [Next]_vars PROVE IInv'
<1>1. CASE Start
    BY <1>1, StartInv
<1>2. CASE TaskFirstStep
    BY <1>2, TaskFirstStepInv
<1>3. ASSUME NEW t \in Loop, LoopStep(t) \/ LoopBreaks(t) PROVE IInv'
    BY <1>3, ServeInv, TaskEndsInv, TaskFacts DEF LoopStep, LoopEnds, LoopBreaks, Ended
<1>4. ASSUME NEW t \in Task, TaskCancelled(t) PROVE IInv'
    BY <1>4, TaskEndsInv DEF TaskCancelled, Ended
<1>5. ASSUME NEW k \in Started, SchedulerFails(k) PROVE IInv'
    BY <1>5, TaskEndsInv, TaskFacts DEF SchedulerFails, Ended
<1>6. ASSUME NEW k \in Started, CancelGather(k) PROVE IInv'
    BY <1>6, CancelGatherInv
<1>7. ASSUME NEW k \in Started, CronTick(k) PROVE IInv'
    BY <1>7, PublishInv DEF CronTick
<1>8. ASSUME NEW h \in Shared, Publish(h) PROVE IInv'
    BY <1>8, PublishInv
<1>9. ASSUME NEW n \in Signal, CallRunner(n) \/ DropEmission(n) PROVE IInv'
    BY <1>9, CallRunnerInv, DropEmissionInv
<1>10. CASE Stop
    BY <1>10, StopInv
<1>11. CASE StopStep
    BY <1>11, RunnerStoppedInv, TasksStoppedInv DEF StopStep
<1>12. CASE CancelStop
    BY <1>12, CancelStopInv
<1>13. CASE UNCHANGED vars
    <2>1. TypeOK'
        BY <1>13 DEF IInv, TypeOK, TasksTypeOK, vars, listVars, taskVars, runnerVars, emitterVars, stopVars
    <2> QED BY <1>13, <2>1, Frames DEF IInv, vars, listVars, taskVars, runnerVars, emitterVars, stopVars
<1> QED BY <1>1, <1>2, <1>3, <1>4, <1>5, <1>6, <1>7, <1>8, <1>9, <1>10, <1>11, <1>12, <1>13 DEF Next

-----------------------------------------------------------------------------
(* What stop() may have missed.                                            *)

\* The task of the loop of _runners[i], and one that stop() need not tell of.
LoopTask(i) == RunnerTask(tasks, runners[i])
NothingToTell(t) == status[t] \in {"none", "ok", "dropped"}

\* Loops begin in the order of _runners.
OrderInv ==
    alternating =>
        /\ \A i \in DOMAIN runners : status[LoopTask(i)] = "ready" =>
              \E p \in DOMAIN soon : soon[p] = LoopTask(i)
        /\ \A p, q \in DOMAIN soon, i, j \in DOMAIN runners :
              soon[p] = LoopTask(i) /\ soon[q] = LoopTask(j) /\ p < q => i < j
        /\ \A i, j \in DOMAIN runners :
              i < j /\ status[LoopTask(j)] # "ready" => status[LoopTask(i)] # "ready"

\* _routine_task is set from the loop's first step until its good end has been seen.
LoopOfInv ==
    /\ \A r \in Runner : r[1] > starts => loopOf[r] = 0
    /\ \A t \in Loop : status[t] # "none" => t[2] <= t[1]
    /\ alternating =>
          /\ tasks \in {0, starts}
          /\ \A i \in DOMAIN runners :
                /\ loopOf[runners[i]] \in {0, tasks}
                /\ loopOf[runners[i]] # 0 => status[LoopTask(i)] # "ready"
                /\ loopOf[runners[i]] = 0 => status[LoopTask(i)] = "ready" \/ NothingToTell(LoopTask(i))
          /\ \A t \in Loop : t[1] = tasks /\ status[t] # "none" => RunnerOf(t) \in Range(runners)

\* Behind stop() there is nothing to tell, and nothing that could begin.
BehindInv ==
    alternating =>
        /\ stopper = "runner" =>
              /\ loopOf[runners[at]] # 0
              /\ waits = {RunnerTask(loopOf[runners[at]], runners[at])}
              /\ \A i \in 1..(at - 1) : NothingToTell(LoopTask(i))
        /\ stopper = "tasks" =>
              \A i \in DOMAIN runners :
                 \/ NothingToTell(LoopTask(i))
                 \/ status[LoopTask(i)] = "ready" /\ LoopTask(i) \in asked
        /\ runners = <<>> => \A t \in Loop : t[1] = starts => NothingToTell(t)

\* A loop that ended well, unless its routine ended it, has left nothing.
DrainInv ==
    \A t \in Loop : status[t] = "ok" /\ t[3] \notin Queued =>
        RunnerOf(t) \notin open /\ inbox[RunnerOf(t)] = {}

TellInv == OrderInv /\ LoopOfInv /\ BehindInv /\ DrainInv

LEMMA LoopTasks ==
    ASSUME IInv, NEW i \in DOMAIN runners
    PROVE  /\ runners[i] \in Runner /\ runners[i] \in Range(runners) /\ tasks \in Started
           /\ LoopTask(i) \in Loop /\ LoopTask(i) \in Task /\ LoopTask(i)[1] = tasks
           /\ RunnerOf(LoopTask(i)) = runners[i]
           /\ \A t \in Loop : t[1] = tasks /\ RunnerOf(t) = runners[i] => t = LoopTask(i)
           /\ \A j \in DOMAIN runners : LoopTask(i) = LoopTask(j) => i = j
<1>1. runners[i] \in Runner /\ runners[i] \in Range(runners)
    BY DEF IInv, TypeOK, Range
<1>2. tasks \in Started
    <2>1. runners # <<>>
        OBVIOUS
    <2>2. tasks # 0 /\ tasks \in 0..MaxStarts
        BY <2>1 DEF IInv, ListInv, TypeOK
    <2> QED BY <2>2, ExecutorAssumption DEF Started
<1>3. LoopTask(i) \in Loop /\ LoopTask(i) \in Task /\ LoopTask(i)[1] = tasks
    BY <1>1, <1>2, TaskFacts DEF LoopTask
<1>4. \A k \in Started, r \in Runner : RunnerOf(RunnerTask(k, r)) = r
    BY DEF RunnerOf, RunnerTask, Runner
<1>5. \A t \in Loop : t[1] = tasks /\ RunnerOf(t) = runners[i] => t = LoopTask(i)
    <2> SUFFICES ASSUME NEW k \in Started, NEW r \in Runner, RunnerTask(k, r)[1] = tasks,
                        RunnerOf(RunnerTask(k, r)) = runners[i]
                 PROVE  RunnerTask(k, r) = LoopTask(i)
        BY DEF Loop
    <2> QED BY <1>4, TaskFacts DEF LoopTask
<1>6. \A j \in DOMAIN runners : LoopTask(i) = LoopTask(j) => i = j
    <2> SUFFICES ASSUME NEW j \in DOMAIN runners, LoopTask(i) = LoopTask(j) PROVE i = j
        OBVIOUS
    <2>1. runners[j] \in Runner
        BY DEF IInv, TypeOK
    <2>2. runners[i] = runners[j]
        BY <1>1, <1>2, <2>1, TaskFacts DEF LoopTask
    <2> QED BY <2>2 DEF IInv, ListInv
<1> QED BY <1>1, <1>2, <1>3, <1>4, <1>5, <1>6 DEF LoopTask

\* The parts of this invariant that a step leaves alone.
LEMMA TellFrames ==
    ASSUME TellInv
    PROVE  /\ UNCHANGED <<lifecycle, runners, tasks, status, soon>> => OrderInv'
           /\ UNCHANGED <<lifecycle, starts, runners, tasks, status, loopOf>> => LoopOfInv'
           /\ UNCHANGED <<lifecycle, starts, runners, tasks, status, loopOf, stopper, at, waits, outcome>>
              /\ asked \subseteq asked' => BehindInv'
           /\ UNCHANGED <<status, inbox>> /\ open' \subseteq open => DrainInv'
<1>1. UNCHANGED <<lifecycle, runners, tasks, status, soon>> => OrderInv'
    BY DEF TellInv, OrderInv, alternating, LoopTask
<1>2. UNCHANGED <<lifecycle, starts, runners, tasks, status, loopOf>> => LoopOfInv'
    BY DEF TellInv, LoopOfInv, alternating, LoopTask, NothingToTell
<1>3. UNCHANGED <<lifecycle, starts, runners, tasks, status, loopOf, stopper, at, waits, outcome>>
              /\ asked \subseteq asked' => BehindInv'
    BY DEF TellInv, BehindInv, alternating, LoopTask, NothingToTell
<1>4. UNCHANGED <<status, inbox>> /\ open' \subseteq open => DrainInv'
    BY DEF TellInv, DrainInv
<1> QED BY <1>1, <1>2, <1>3, <1>4

LEMMA InitTell == Init => TellInv
<1> SUFFICES ASSUME Init PROVE TellInv
    OBVIOUS
<1>1. /\ runners = <<>> /\ soon = <<>> /\ starts = 0 /\ stopper = "idle" /\ outcome = "none"
      /\ DOMAIN runners = {}
      /\ \A r \in Runner : loopOf[r] = 0
      /\ \A t \in Task : status[t] = "none"
    BY DEF Init, TasksInit
<1>2. \A t \in Loop : status[t] = "none"
    BY <1>1, TaskFacts
<1>3. tasks = 0 /\ OrderInv /\ DrainInv
    BY <1>1, <1>2 DEF Init, OrderInv, DrainInv
<1> QED BY <1>1, <1>2, <1>3 DEF TellInv, LoopOfInv, BehindInv, NothingToTell

\* When start() begins a new list nothing is queued, so the first steps come in
\* the order of the list.
LEMMA StartTells == ASSUME IInv, IInv', TellInv, Start PROVE TellInv'
<1> USE ExecutorAssumption
<1> DEFINE k == starts + 1
           all == runners \o NewRunners(k)
           ts == TasksFor(k, all)
<1>1. /\ stopper = "idle" /\ (alternating => runners = <<>>)
      /\ starts' = k /\ tasks' = k /\ runners' = all
      /\ open' = open \cup Range(NewRunners(k))
      /\ CreateEach(ts)
      /\ outcome' = "none"
      /\ starts < MaxStarts
      /\ UNCHANGED <<lifecycle, asked, loopOf, inbox, stopper, at, waits>>
    BY DEF Start, MayStart, alternating
<1>2. /\ k \in Started /\ starts \in 0..MaxStarts /\ all \in Seq(Runner)
      /\ \A i, j \in DOMAIN all : all[i] = all[j] => i = j
      /\ runners \in Seq(Runner) /\ soon \in Seq(Task) /\ status \in [Task -> Status]
    <2>1. starts \in 0..MaxStarts /\ runners \in Seq(Runner) /\ soon \in Seq(Task) /\ status \in [Task -> Status]
        BY DEF IInv, TypeOK, TasksTypeOK
    <2>2. runners' \in Seq(Runner) /\ \A i, j \in DOMAIN runners' : runners'[i] = runners'[j] => i = j
        BY DEF IInv, TypeOK, ListInv
    <2>3. k \in Started
        BY <1>1, <2>1 DEF Started
    <2> HIDE DEF all
    <2> QED BY <1>1, <2>1, <2>2, <2>3
<1>3. /\ ts \in Seq(Task) /\ DOMAIN ts = 1..(Len(all) + 1)
      /\ ts[1] = SchedulerTask(k) /\ \A i \in DOMAIN all : ts[i + 1] = RunnerTask(k, all[i])
      /\ \A i \in DOMAIN ts : ts[i][1] = k
      /\ \A i, j \in DOMAIN ts : ts[i] = ts[j] => i = j
    BY <1>2, TasksForFacts
<1>4. \A r \in Range(all) : r[1] <= k /\ (alternating => r[1] = k)
    <2>1. \A r \in Range(runners') : r[1] <= starts' /\ (alternating' => r[1] = starts')
        BY DEF IInv, ListInv
    <2> HIDE DEF all
    <2> QED BY <1>1, <2>1 DEF alternating
<1>5. \A r \in Range(NewRunners(k)) : r[1] = k
    BY <1>2, NewRunnersFacts DEF Range
<1> HIDE DEF all, ts
<1>6. /\ status' = [t \in Task |-> IF \E i \in DOMAIN ts : ts[i] = t THEN "ready" ELSE status[t]]
      /\ soon' = soon \o ts
    BY <1>1 DEF CreateEach
<1>7. \A t \in Task : t[1] = k => status[t] = "none"
    BY <1>2 DEF IInv, SoonInv, Started
<1>8. \A i \in DOMAIN runners' : /\ i + 1 \in DOMAIN ts /\ ts[i + 1] = LoopTask(i)'
                                 /\ LoopTask(i)' \in Task /\ status'[LoopTask(i)'] = "ready"
    <2> SUFFICES ASSUME NEW i \in DOMAIN all
                 PROVE  /\ i + 1 \in DOMAIN ts /\ ts[i + 1] = RunnerTask(k, all[i])
                        /\ RunnerTask(k, all[i]) \in Task /\ status'[RunnerTask(k, all[i])] = "ready"
        BY <1>1 DEF LoopTask
    <2>1. i + 1 \in DOMAIN ts /\ ts[i + 1] = RunnerTask(k, all[i])
        BY <1>2, <1>3
    <2> QED BY <1>2, <1>3, <1>6, <2>1
<1>9. OrderInv'
    <2> SUFFICES ASSUME alternating PROVE OrderInv'
        BY <1>1 DEF OrderInv, alternating
    <2>1. soon = <<>>
        <3>1. tasks = 0
            BY <1>1 DEF IInv, ListInv
        <3>2. \A t \in Task : ~Live(t)
            BY <3>1, TaskFacts DEF IInv, AliveInv, Started
        <3>3. DOMAIN soon = {}
            BY <1>2, <3>2 DEF IInv, SoonInv, Live
        <3> QED BY <1>2, <3>3
    <2>2. soon' = ts
        BY <1>3, <1>6, <2>1
    <2>3. \A i \in DOMAIN runners' : i \in Nat /\ i + 1 \in DOMAIN soon' /\ soon'[i + 1] = LoopTask(i)'
        BY <1>1, <1>2, <1>8, <2>2
    <2>4. \A p, q \in DOMAIN soon', i, j \in DOMAIN runners' :
             soon'[p] = LoopTask(i)' /\ soon'[q] = LoopTask(j)' /\ p < q => i < j
        <3> SUFFICES ASSUME NEW p \in DOMAIN soon', NEW q \in DOMAIN soon',
                            NEW i \in DOMAIN runners', NEW j \in DOMAIN runners',
                            soon'[p] = LoopTask(i)', soon'[q] = LoopTask(j)', p < q
                     PROVE  i < j
            OBVIOUS
        <3>1. p = i + 1 /\ q = j + 1
            BY <1>3, <2>2, <2>3
        <3> QED BY <2>3, <3>1
    <2> QED BY <1>8, <2>3, <2>4 DEF OrderInv
<1>10. LoopOfInv'
    <2>1. \A r \in Runner : r[1] > starts' => loopOf'[r] = 0
        BY <1>1, <1>2 DEF TellInv, LoopOfInv, Runner, Started
    <2>2. \A t \in Loop : status'[t] # "none" => status[t] # "none" \/ \E i \in DOMAIN ts : ts[i] = t
        BY <1>6, TaskFacts
    <2>3. \A t \in Loop : (\E i \in DOMAIN ts : ts[i] = t) =>
              t[1] = k /\ RunnerOf(t) \in Range(all)
        <3> SUFFICES ASSUME NEW t \in Loop, NEW i \in DOMAIN ts, ts[i] = t
                     PROVE  t[1] = k /\ RunnerOf(t) \in Range(all)
            OBVIOUS
        <3>1. i # 1
            <4> SUFFICES ASSUME i = 1 PROVE FALSE
                OBVIOUS
            <4>1. PICK m \in Started, r \in Runner : t = RunnerTask(m, r)
                BY DEF Loop
            <4>2. m = k
                BY <1>3, <4>1, TaskFacts
            <4> QED BY <1>3, <4>1, <4>2, TaskFacts
        <3>2. i - 1 \in DOMAIN all /\ t = RunnerTask(k, all[i - 1])
            <4>1. DOMAIN all = 1..Len(all) /\ Len(all) \in Nat /\ i \in 1..(Len(all) + 1)
                BY <1>2, <1>3
            <4>2. i - 1 \in DOMAIN all /\ (i - 1) + 1 = i
                BY <3>1, <4>1
            <4> QED BY <1>3, <4>2
        <3> QED BY <1>2, <1>3, <3>2 DEF RunnerOf, RunnerTask, Range, Runner
    <2>4. \A t \in Loop : status'[t] # "none" => t[2] <= t[1]
        <3>1. \A t \in Loop : RunnerOf(t) \in Range(all) => t[2] <= k
            BY <1>4 DEF RunnerOf
        <3> QED BY <2>2, <2>3, <3>1 DEF TellInv, LoopOfInv
    <2>5. alternating' => \A t \in Loop : t[1] = tasks' /\ status'[t] # "none" => RunnerOf(t) \in Range(runners')
        BY <1>1, <1>7, <2>2, <2>3, TaskFacts
    <2>6. alternating' => \A i \in DOMAIN runners' : loopOf'[runners'[i]] = 0
        <3>1. alternating' => \A r \in Range(all) : r[1] = k /\ r \in Runner
            BY <1>1, <1>2, <1>4 DEF Range, alternating
        <3>2. k > starts
            BY <1>2
        <3> QED BY <1>1, <3>1, <3>2 DEF TellInv, LoopOfInv, Range
    <2>7. tasks' = starts'
        BY <1>1
    <2> QED BY <1>8, <2>1, <2>4, <2>5, <2>6, <2>7 DEF LoopOfInv
<1>11. BehindInv'
    <2>1. all # <<>>
        <3>1. NewRunners(k) \in Seq(Runner) /\ NewRunners(k) # <<>>
            BY <1>2, NewRunnersFacts
        <3> QED BY <1>2, <3>1 DEF all
    <2> QED BY <1>1, <2>1 DEF BehindInv
<1>12. DrainInv'
    <2> SUFFICES ASSUME NEW t \in Loop, status'[t] = "ok", t[3] \notin Queued
                 PROVE  RunnerOf(t) \notin open' /\ inbox'[RunnerOf(t)] = {}
        BY DEF DrainInv
    <2>1. status[t] = "ok"
        BY <1>6, TaskFacts
    <2>2. t[2] <= t[1] /\ t[1] <= starts /\ t[1] \in Nat /\ t[2] \in Nat
        BY <2>1, TaskFacts DEF TellInv, LoopOfInv, IInv, SoonInv, Loop, RunnerTask, Started, Runner
    <2>3. RunnerOf(t) \notin Range(NewRunners(k))
        BY <1>2, <1>5, <2>2 DEF RunnerOf
    <2> QED BY <1>1, <2>1, <2>3 DEF TellInv, DrainInv
<1> QED BY <1>9, <1>10, <1>11, <1>12 DEF TellInv

\* The first of the loops that have not begun begins, and is known from then on, or
\* is dropped.
LEMMA TaskFirstStepTells == ASSUME IInv, TellInv, TaskFirstStep PROVE TellInv'
<1> DEFINE t == Head(soon)
<1>1. /\ soon # <<>> /\ soon' = Tail(soon)
      /\ status' = [status EXCEPT ![t] = IF t \in asked THEN "dropped" ELSE "running"]
      /\ loopOf' = IF t \in Loop /\ t \notin asked THEN [loopOf EXCEPT ![RunnerOf(t)] = t[1]]
                   ELSE loopOf
      /\ UNCHANGED <<lifecycle, starts, runners, tasks, asked, open, inbox, stopper, at, waits, outcome>>
    BY DEF TaskFirstStep, FirstStep, listVars, stopVars
<1>2. soon \in Seq(Task) /\ status \in [Task -> Status] /\ loopOf \in [Runner -> 0..MaxStarts]
    BY DEF IInv, TypeOK, TasksTypeOK
<1>3. t = soon[1] /\ t \in Task /\ 1 \in DOMAIN soon /\ status[t] = "ready"
    BY <1>1, <1>2 DEF IInv, SoonInv
<1>4. /\ \A p \in DOMAIN soon' : p \in Nat \ {0} /\ p + 1 \in DOMAIN soon /\ soon'[p] = soon[p + 1]
      /\ \A p \in DOMAIN soon : p \in Nat /\ (p = 1 \/ (p - 1 \in DOMAIN soon' /\ soon'[p - 1] = soon[p]))
    BY <1>1, <1>2
<1>5. alternating => t[1] = tasks
    BY <1>3 DEF IInv, AliveInv, Live
<1> HIDE DEF t
<1>6. \A u \in Task : u # t => status'[u] = status[u]
    BY <1>1, <1>2
<1>7. status'[t] = IF t \in asked THEN "dropped" ELSE "running"
    BY <1>1, <1>2, <1>3
<1>8. \A u \in Task : /\ status'[u] = "ready" => u # t /\ status[u] = "ready"
                      /\ status[u] # "ready" => status'[u] = status[u]
                      /\ NothingToTell(u) => NothingToTell(u)'
                      /\ status'[u] # "none" => status[u] # "none"
    BY <1>3, <1>6, <1>7 DEF NothingToTell
<1>9. \A i \in DOMAIN runners : LoopTask(i)' = LoopTask(i) /\ LoopTask(i) \in Task
    BY <1>1, LoopTasks DEF LoopTask
<1>10. OrderInv'
    <2> SUFFICES ASSUME alternating PROVE OrderInv'
        BY <1>1 DEF OrderInv, alternating
    <2>1. ASSUME NEW i \in DOMAIN runners, status'[LoopTask(i)] = "ready"
          PROVE  LoopTask(i) # t /\ \E p \in DOMAIN soon' : soon'[p] = LoopTask(i)
        <3>1. LoopTask(i) # t /\ status[LoopTask(i)] = "ready"
            BY <1>8, <1>9, <2>1
        <3>2. PICK p \in DOMAIN soon : soon[p] = LoopTask(i)
            BY <3>1 DEF TellInv, OrderInv
        <3> QED BY <1>3, <1>4, <3>1, <3>2
    <2>2. ASSUME NEW p \in DOMAIN soon', NEW q \in DOMAIN soon', NEW i \in DOMAIN runners, NEW j \in DOMAIN runners,
                 soon'[p] = LoopTask(i), soon'[q] = LoopTask(j), p < q
          PROVE  i < j
        <3>1. p + 1 \in DOMAIN soon /\ q + 1 \in DOMAIN soon /\ p + 1 < q + 1
              /\ soon[p + 1] = LoopTask(i) /\ soon[q + 1] = LoopTask(j)
            BY <1>4, <2>2
        <3> QED BY <3>1 DEF TellInv, OrderInv
    <2>3. ASSUME NEW i \in DOMAIN runners, NEW j \in DOMAIN runners, i < j,
                 status'[LoopTask(j)] # "ready"
          PROVE  status'[LoopTask(i)] # "ready"
        <3>1. CASE status[LoopTask(j)] # "ready"
            <4>1. status[LoopTask(i)] # "ready"
                BY <2>3, <3>1 DEF TellInv, OrderInv
            <4> QED BY <4>1, <1>8, <1>9
        <3>2. CASE status[LoopTask(j)] = "ready"
            <4> SUFFICES ASSUME status'[LoopTask(i)] = "ready" PROVE FALSE
                OBVIOUS
            <4>1. LoopTask(j) = t
                BY <1>6, <1>9, <2>3, <3>2
            <4>2. LoopTask(i) # t /\ status[LoopTask(i)] = "ready"
                BY <1>8, <1>9
            <4>3. PICK p \in DOMAIN soon : soon[p] = LoopTask(i)
                BY <4>2 DEF TellInv, OrderInv
            <4>4. 1 < p
                BY <1>2, <1>3, <1>4, <4>2, <4>3
            <4>5. j < i
                BY <1>3, <4>1, <4>3, <4>4 DEF TellInv, OrderInv
            <4>6. i \in Nat /\ j \in Nat
                BY DEF IInv, TypeOK
            <4> QED BY <2>3, <4>5, <4>6
        <3> QED BY <3>1, <3>2
    <2> QED BY <1>1, <1>9, <2>1, <2>2, <2>3 DEF OrderInv
<1>11. LoopOfInv'
    <2>1. \A r \in Runner : r[1] > starts' => loopOf'[r] = 0
        <3> SUFFICES ASSUME NEW r \in Runner, r[1] > starts PROVE loopOf'[r] = 0
            BY <1>1
        <3>1. t \in Loop => t[2] <= t[1] /\ t[1] <= starts /\ t[1] \in Nat /\ t[2] \in Nat
            BY <1>3 DEF TellInv, LoopOfInv, IInv, SoonInv, Loop, RunnerTask, Started, Runner
        <3>2. r[1] \in Nat /\ starts \in Nat
            BY ExecutorAssumption DEF IInv, TypeOK, Runner, Started
        <3>3. t \in Loop => RunnerOf(t) # r
            BY <3>1, <3>2 DEF RunnerOf
        <3>4. loopOf[r] = 0
            BY DEF TellInv, LoopOfInv
        <3> QED BY <1>1, <1>2, <3>3, <3>4
    <2>2. \A u \in Loop : status'[u] # "none" => u[2] <= u[1]
        BY <1>8, TaskFacts DEF TellInv, LoopOfInv
    <2>3. ASSUME alternating, NEW i \in DOMAIN runners
          PROVE  /\ loopOf'[runners[i]] \in {0, tasks}
                 /\ loopOf'[runners[i]] # 0 => status'[LoopTask(i)] # "ready"
                 /\ loopOf'[runners[i]] = 0 => status'[LoopTask(i)] = "ready" \/ NothingToTell(LoopTask(i))'
        <3>1. /\ loopOf[runners[i]] \in {0, tasks}
              /\ loopOf[runners[i]] # 0 => status[LoopTask(i)] # "ready"
              /\ loopOf[runners[i]] = 0 => status[LoopTask(i)] = "ready" \/ NothingToTell(LoopTask(i))
            BY <2>3 DEF TellInv, LoopOfInv
        <3>2. runners[i] \in Runner /\ LoopTask(i) \in Loop /\ LoopTask(i) \in Task
              /\ RunnerOf(LoopTask(i)) = runners[i]
              /\ (t \in Loop /\ RunnerOf(t) = runners[i] => t = LoopTask(i))
            BY <1>5, <2>3, LoopTasks
        <3>3. CASE t = LoopTask(i)
            <4>1. CASE t \in asked
                BY <1>1, <1>7, <1>9, <3>1, <3>3, <4>1 DEF NothingToTell
            <4>2. CASE t \notin asked
                <5>1. loopOf'[runners[i]] = tasks
                    BY <1>1, <1>2, <1>5, <2>3, <3>2, <3>3, <4>2
                <5>2. tasks # 0
                    BY <2>3, LoopTasks DEF Started
                <5> QED BY <1>7, <3>3, <4>2, <5>1, <5>2
            <4> QED BY <4>1, <4>2
        <3>4. CASE t # LoopTask(i)
            <4>1. loopOf'[runners[i]] = loopOf[runners[i]]
                BY <1>1, <1>2, <3>2, <3>4
            <4>2. status'[LoopTask(i)] = status[LoopTask(i)]
                BY <1>6, <3>2, <3>4
            <4> QED BY <1>9, <3>1, <4>1, <4>2 DEF NothingToTell
        <3> QED BY <3>3, <3>4
    <2>4. alternating => \A u \in Loop : u[1] = tasks /\ status'[u] # "none" => RunnerOf(u) \in Range(runners)
        BY <1>8, TaskFacts DEF TellInv, LoopOfInv
    <2>5. alternating => tasks \in {0, starts}
        BY DEF TellInv, LoopOfInv
    <2> QED BY <1>1, <1>9, <2>1, <2>2, <2>3, <2>4, <2>5 DEF LoopOfInv, alternating, NothingToTell
<1>12. BehindInv'
    <2> SUFFICES ASSUME alternating PROVE BehindInv'
        BY <1>1 DEF BehindInv, alternating
    <2>1. ASSUME stopper = "runner"
          PROVE  /\ loopOf'[runners[at]] # 0
                 /\ waits = {RunnerTask(loopOf'[runners[at]], runners[at])}
                 /\ \A i \in 1..(at - 1) : NothingToTell(LoopTask(i))'
        <3>1. at \in DOMAIN runners /\ \A i \in 1..(at - 1) : i \in DOMAIN runners
            BY <2>1 DEF IInv, OpenInv, TypeOK
        <3>2. loopOf[runners[at]] # 0 /\ waits = {RunnerTask(loopOf[runners[at]], runners[at])}
            BY <2>1 DEF TellInv, BehindInv
        <3>3. t # LoopTask(at)
            BY <1>3, <3>1, <3>2 DEF TellInv, LoopOfInv
        <3>4. loopOf'[runners[at]] = loopOf[runners[at]]
            <4>1. t \in Loop => RunnerOf(t) # runners[at]
                BY <1>5, <3>1, <3>3, LoopTasks
            <4>2. runners[at] \in Runner
                BY <3>1, LoopTasks
            <4> QED BY <1>1, <1>2, <4>1, <4>2
        <3>5. \A i \in 1..(at - 1) : NothingToTell(LoopTask(i))
            BY <2>1 DEF TellInv, BehindInv
        <3>6. \A i \in 1..(at - 1) : NothingToTell(LoopTask(i))'
            BY <1>8, <1>9, <3>1, <3>5 DEF NothingToTell
        <3> QED BY <3>2, <3>4, <3>6
    <2>2. ASSUME stopper = "tasks", NEW i \in DOMAIN runners
          PROVE  NothingToTell(LoopTask(i))' \/ (status'[LoopTask(i)] = "ready" /\ LoopTask(i) \in asked)
        <3>1. CASE NothingToTell(LoopTask(i))
            BY <1>8, <1>9, <3>1 DEF NothingToTell
        <3>2. CASE status[LoopTask(i)] = "ready" /\ LoopTask(i) \in asked
            BY <1>6, <1>7, <1>9, <3>2 DEF NothingToTell
        <3> QED BY <2>2, <3>1, <3>2 DEF TellInv, BehindInv
    <2>3. runners = <<>> => \A u \in Loop : u[1] = starts => NothingToTell(u)'
        BY <1>8, TaskFacts DEF TellInv, BehindInv
    <2> QED BY <1>1, <1>9, <2>1, <2>2, <2>3 DEF BehindInv, NothingToTell
<1>13. DrainInv'
    <2>1. \A u \in Loop : status'[u] = "ok" => status[u] = "ok"
        BY <1>6, <1>7, TaskFacts
    <2> QED BY <1>1, <2>1 DEF TellInv, DrainInv
<1> QED BY <1>10, <1>11, <1>12, <1>13 DEF TellInv

\* A task that ends was running, so stop() was not past it.
LEMMA TaskEndsTells ==
    ASSUME IInv, TellInv, NEW t \in Task, NEW end \in Ended, TaskEnds(t, end),
           t \in Loop /\ end = "ok" /\ t[3] \notin Queued => RunnerOf(t) \notin open /\ inbox[RunnerOf(t)] = {}
    PROVE  TellInv'
<1>1. /\ status[t] = "running" /\ status' = [status EXCEPT ![t] = end]
      /\ UNCHANGED <<lifecycle, starts, runners, tasks, asked, soon, loopOf, open, inbox,
                     stopper, at, waits, outcome>>
    BY DEF TaskEnds, End, listVars, runnerVars, stopVars
<1>2. status \in [Task -> Status]
    BY DEF IInv, TypeOK, TasksTypeOK
<1>3. /\ \A u \in Task : u # t => status'[u] = status[u]
      /\ status'[t] = end /\ end \notin {"none", "ready", "running"}
    BY <1>1, <1>2 DEF Ended
<1>4. \A u \in Task : /\ status'[u] = "ready" <=> status[u] = "ready"
                      /\ NothingToTell(u) => NothingToTell(u)'
                      /\ status'[u] # "none" => status[u] # "none"
    BY <1>1, <1>3 DEF NothingToTell
<1>5. ~NothingToTell(t) /\ status[t] # "ready"
    BY <1>1 DEF NothingToTell
<1>6. \A i \in DOMAIN runners : LoopTask(i)' = LoopTask(i) /\ LoopTask(i) \in Task
    BY <1>1, LoopTasks DEF LoopTask
<1>7. OrderInv'
    BY <1>1, <1>4, <1>6 DEF TellInv, OrderInv, alternating
<1>8. LoopOfInv'
    <2>1. \A u \in Loop : status'[u] # "none" => status[u] # "none"
        BY <1>4, TaskFacts
    <2>2. alternating => \A i \in DOMAIN runners : loopOf[runners[i]] = 0 => LoopTask(i) # t
        BY <1>1, <1>5 DEF TellInv, LoopOfInv
    <2>3. alternating => \A i \in DOMAIN runners :
              loopOf[runners[i]] = 0 => status'[LoopTask(i)] = "ready" \/ NothingToTell(LoopTask(i))'
        BY <1>1, <1>4, <1>6, <2>2 DEF TellInv, LoopOfInv, NothingToTell
    <2> QED BY <1>1, <1>4, <1>6, <2>1, <2>3 DEF TellInv, LoopOfInv, alternating, NothingToTell
<1>9. BehindInv'
    <2>1. stopper = "runner" => \A i \in 1..(at - 1) : i \in DOMAIN runners
        BY DEF IInv, OpenInv, TypeOK
    <2>2. \A i \in DOMAIN runners : NothingToTell(LoopTask(i)) => NothingToTell(LoopTask(i))'
        BY <1>4, <1>6 DEF NothingToTell
    <2>3. \A u \in Loop : NothingToTell(u) => NothingToTell(u)'
        BY <1>4, TaskFacts
    <2> QED BY <1>1, <1>4, <1>6, <2>1, <2>2, <2>3 DEF TellInv, BehindInv, alternating
<1>10. DrainInv'
    BY <1>1, <1>3, TaskFacts DEF TellInv, DrainInv
<1> QED BY <1>7, <1>8, <1>9, <1>10 DEF TellInv

LEMMA ServeTells == ASSUME IInv, TellInv, NEW t \in Loop, Serve(t) PROVE TellInv'
<1>1. PICK s \in inbox[RunnerOf(t)] : inbox' = [inbox EXCEPT ![RunnerOf(t)] = @ \ {s}]
    BY DEF Serve
<1>2. UNCHANGED <<listVars, taskVars, loopOf, open, stopVars>>
    BY DEF Serve
<1>3. DrainInv'
    <2>1. \A r \in Runner : inbox'[r] \subseteq inbox[r]
        BY <1>1 DEF IInv, TypeOK
    <2> QED BY <1>2, <2>1, TaskFacts DEF TellInv, DrainInv, taskVars
<1> QED BY <1>2, <1>3, TellFrames DEF TellInv, listVars, taskVars, stopVars

\* Only an open channel takes a signal.
LEMMA CallRunnerTells == ASSUME IInv, TellInv, NEW n \in Signal, CallRunner(n) PROVE TellInv'
<1>1. UNCHANGED <<listVars, taskVars, loopOf, open, stopVars>>
    BY DEF CallRunner
<1>2. \A r \in Runner : r \notin open => inbox'[r] = inbox[r]
    BY DEF CallRunner, IInv, TypeOK
<1>3. DrainInv'
    BY <1>1, <1>2, TaskFacts DEF TellInv, DrainInv, taskVars
<1> QED BY <1>1, <1>3, TellFrames DEF TellInv, listVars, taskVars, stopVars

LEMMA CancelGatherTells == ASSUME TellInv, NEW k \in Started, CancelGather(k) PROVE TellInv'
<1>1. /\ asked \subseteq asked'
      /\ UNCHANGED <<listVars, status, soon, runnerVars, stopper, at, waits, outcome>>
    BY DEF CancelGather, RequestCancel
<1> QED BY <1>1, TellFrames DEF TellInv, listVars, runnerVars

\* stop() passes runners whose loop has ended well, and others only if none of
\* those that come after has begun: then their tasks are cancelled unbegun.
LEMMA StopFromTells ==
    ASSUME IInv, OrderInv, LoopOfInv, alternating, NEW i \in Nat \ {0},
           \A k \in 1..(i - 1) : k \in DOMAIN runners => NothingToTell(LoopTask(k)),
           StopFrom(i)
    PROVE  \/ /\ stopper' = "runner" /\ at' \in DOMAIN runners /\ at' >= i /\ loopOf[runners[at']] # 0
              /\ waits' = {RunnerTask(loopOf[runners[at']], runners[at'])}
              /\ \A k \in 1..(at' - 1) : NothingToTell(LoopTask(k))
              /\ UNCHANGED asked /\ open' \subseteq open
           \/ /\ stopper' = "tasks"
              /\ \A k \in DOMAIN runners :
                    \/ NothingToTell(LoopTask(k))
                    \/ status[LoopTask(k)] = "ready" /\ LoopTask(k) \in asked'
              /\ asked \subseteq asked' /\ open' \subseteq open
<1> DEFINE loops == {j \in i..Len(runners) : loopOf[runners[j]] # 0}
<1>1. DOMAIN runners = 1..Len(runners) /\ Len(runners) \in Nat
    BY DEF IInv, TypeOK
<1>2. \A k \in DOMAIN runners : k >= i /\ k \notin loops =>
          status[LoopTask(k)] = "ready" \/ NothingToTell(LoopTask(k))
    BY <1>1 DEF LoopOfInv
<1>3. ASSUME NEW j \in loops, \A k \in loops : j <= k
      PROVE  \A k \in 1..(j - 1) : NothingToTell(LoopTask(k))
    <2> SUFFICES ASSUME NEW k \in 1..(j - 1) PROVE NothingToTell(LoopTask(k))
        OBVIOUS
    <2>1. k \in DOMAIN runners /\ j \in DOMAIN runners /\ k < j /\ loopOf[runners[j]] # 0
        BY <1>1
    <2>2. CASE k <= i - 1
        BY <2>1, <2>2
    <2>3. CASE k >= i
        <3>1. k \notin loops
            BY <1>3, <2>1, <1>1
        <3>2. status[LoopTask(j)] # "ready"
            BY <2>1 DEF LoopOfInv
        <3>3. status[LoopTask(k)] # "ready"
            BY <2>1, <3>2 DEF OrderInv
        <3> HIDE DEF loops
        <3> QED BY <1>2, <2>1, <2>3, <3>1, <3>3
    <2> QED BY <2>2, <2>3, <1>1
<1>4. CASE /\ \E j \in loops :
                 /\ \A k \in loops : j <= k
                 /\ open' = open \ {runners[k] : k \in i..j}
                 /\ stopper' = "runner" /\ at' = j
                 /\ waits' = {RunnerTask(loopOf[runners[j]], runners[j])}
           /\ UNCHANGED asked
    <2>1. PICK j \in loops : /\ \A k \in loops : j <= k
                             /\ open' = open \ {runners[k] : k \in i..j}
                             /\ stopper' = "runner" /\ at' = j
                             /\ waits' = {RunnerTask(loopOf[runners[j]], runners[j])}
        BY <1>4
    <2>2. \A k \in 1..(j - 1) : NothingToTell(LoopTask(k))
        BY <1>3, <2>1
    <2>3. j \in DOMAIN runners /\ j >= i /\ loopOf[runners[j]] # 0
        BY <1>1
    <2> HIDE DEF loops
    <2> QED BY <1>4, <2>1, <2>2, <2>3
<1>5. CASE /\ loops = {}
           /\ open' = open \ {runners[k] : k \in i..Len(runners)}
           /\ stopper' = "tasks" /\ RequestCancel(ExecutorTasks)
    <2>1. ASSUME NEW k \in DOMAIN runners
          PROVE  \/ NothingToTell(LoopTask(k))
                 \/ status[LoopTask(k)] = "ready" /\ LoopTask(k) \in asked'
        <3>1. status[LoopTask(k)] = "ready" \/ NothingToTell(LoopTask(k))
            BY <1>1, <1>2, <1>5
        <3>2. status[LoopTask(k)] = "ready" => LoopTask(k) \in asked'
            BY <1>5, LoopTasks DEF RequestCancel, ExecutorTasks, Live
        <3> QED BY <3>1, <3>2
    <2> HIDE DEF loops
    <2> QED BY <1>5, <2>1 DEF RequestCancel
<1> QED BY <1>4, <1>5 DEF StopFrom

LEMMA StopTells == ASSUME IInv, TellInv, Stop PROVE TellInv'
<1>1. /\ StopFrom(1) /\ UNCHANGED <<listVars, status, soon, loopOf, inbox, outcome>>
    BY DEF Stop
<1>2. open' \subseteq open
    BY <1>1 DEF StopFrom
<1>3. BehindInv'
    <2> SUFFICES ASSUME alternating PROVE BehindInv'
        BY <1>1 DEF BehindInv, alternating, listVars
    <2> DEFINE Passed ==
           \/ /\ stopper' = "runner" /\ at' \in DOMAIN runners /\ loopOf[runners[at']] # 0
              /\ waits' = {RunnerTask(loopOf[runners[at']], runners[at'])}
              /\ \A k \in 1..(at' - 1) : NothingToTell(LoopTask(k))
           \/ /\ stopper' = "tasks"
              /\ \A k \in DOMAIN runners :
                    \/ NothingToTell(LoopTask(k))
                    \/ status[LoopTask(k)] = "ready" /\ LoopTask(k) \in asked'
    <2>1. Passed
        BY <1>1, StopFromTells DEF TellInv
    <2>2. runners = <<>> => \A t \in Loop : t[1] = starts => NothingToTell(t)
        BY DEF TellInv, BehindInv
    <2> QED BY <1>1, <2>1, <2>2 DEF BehindInv, LoopTask, NothingToTell, listVars
<1> QED BY <1>1, <1>2, <1>3, TellFrames DEF TellInv, listVars

\* stop() goes on only when the loop it awaited ended well.
LEMMA RunnerStoppedTells == ASSUME IInv, TellInv, RunnerStopped PROVE TellInv'
<1>1. /\ stopper = "runner" /\ UNCHANGED <<listVars, status, soon, inbox>>
    BY DEF RunnerStopped
<1>2. at \in DOMAIN runners /\ DOMAIN runners = 1..Len(runners) /\ Len(runners) \in Nat
      /\ loopOf \in [Runner -> 0..MaxStarts] /\ runners[at] \in Runner
    BY <1>1, LoopTasks DEF IInv, OpenInv, TypeOK
<1>3. CASE /\ \A t \in waits : status[t] = "ok"
           /\ loopOf' = [loopOf EXCEPT ![runners[at]] = 0]
           /\ StopFrom(at + 1)
           /\ UNCHANGED outcome
    <2>1. open' \subseteq open
        BY <1>3 DEF StopFrom
    <2>2. alternating => status[LoopTask(at)] = "ok"
        BY <1>1, <1>2, <1>3 DEF TellInv, BehindInv, LoopOfInv, LoopTask
    <2>3. \A i \in DOMAIN runners : runners[i] \in Runner /\ (i # at => loopOf'[runners[i]] = loopOf[runners[i]])
        BY <1>2, <1>3, LoopTasks DEF IInv, ListInv
    <2>4. LoopOfInv'
        <3>1. \A r \in Runner : loopOf'[r] \in {loopOf[r], 0}
            BY <1>2, <1>3
        <3>2. loopOf'[runners[at]] = 0
            BY <1>2, <1>3
        <3>3. alternating => \A i \in DOMAIN runners :
                /\ loopOf'[runners[i]] \in {0, tasks}
                /\ loopOf'[runners[i]] # 0 => status[LoopTask(i)] # "ready"
                /\ loopOf'[runners[i]] = 0 => status[LoopTask(i)] = "ready" \/ NothingToTell(LoopTask(i))
            BY <2>2, <2>3, <3>2 DEF TellInv, LoopOfInv, NothingToTell
        <3> QED BY <1>1, <3>1, <3>3 DEF TellInv, LoopOfInv, alternating, LoopTask, NothingToTell, listVars
    <2>5. BehindInv'
        <3> SUFFICES ASSUME alternating PROVE BehindInv'
            BY <1>1 DEF BehindInv, alternating, listVars
        <3> DEFINE Passed ==
               \/ /\ stopper' = "runner" /\ at' \in DOMAIN runners /\ at' >= at + 1 /\ loopOf[runners[at']] # 0
                  /\ waits' = {RunnerTask(loopOf[runners[at']], runners[at'])}
                  /\ \A k \in 1..(at' - 1) : NothingToTell(LoopTask(k))
               \/ /\ stopper' = "tasks"
                  /\ \A k \in DOMAIN runners :
                        \/ NothingToTell(LoopTask(k))
                        \/ status[LoopTask(k)] = "ready" /\ LoopTask(k) \in asked'
        <3>1. \A k \in 1..((at + 1) - 1) : NothingToTell(LoopTask(k))
            <4>1. \A k \in 1..(at - 1) : NothingToTell(LoopTask(k))
                BY <1>1 DEF TellInv, BehindInv
            <4>2. NothingToTell(LoopTask(at))
                BY <2>2 DEF NothingToTell
            <4>3. \A k \in 1..((at + 1) - 1) : k = at \/ k \in 1..(at - 1)
                BY <1>2
            <4> QED BY <4>1, <4>2, <4>3
        <3>2. at + 1 \in Nat \ {0}
            BY <1>2
        <3>3. Passed
            BY <1>3, <3>1, <3>2, StopFromTells DEF TellInv
        <3>4. stopper' = "runner" => at' \in DOMAIN runners /\ loopOf'[runners[at']] = loopOf[runners[at']]
            BY <1>2, <2>3, <3>3
        <3>5. runners = <<>> => \A t \in Loop : t[1] = starts => NothingToTell(t)
            BY DEF TellInv, BehindInv
        <3> QED BY <1>1, <1>3, <3>3, <3>4, <3>5 DEF BehindInv, LoopTask, NothingToTell, listVars
    <2> QED BY <1>1, <2>1, <2>4, <2>5, TellFrames DEF TellInv, listVars
<1>4. CASE StopEnds("raised") /\ UNCHANGED <<asked, loopOf, open>>
    <2>1. BehindInv'
        BY <1>1, <1>4 DEF TellInv, BehindInv, StopEnds, alternating, NothingToTell, listVars
    <2> QED BY <1>1, <1>4, <2>1, TellFrames DEF TellInv, listVars
<1> QED BY <1>3, <1>4 DEF RunnerStopped

\* When stop() returns, what had not begun was dropped.
LEMMA TasksStoppedTells == ASSUME IInv, TellInv, TasksStopped PROVE TellInv'
<1>1. /\ stopper = "tasks" /\ Settled(waits)
      /\ runners' = <<>> /\ tasks' = 0
      /\ stopper' = "idle" /\ outcome' = "returned"
      /\ UNCHANGED <<lifecycle, starts, taskVars, runnerVars>>
    BY DEF TasksStopped, StopEnds
<1>2. DOMAIN runners' = {}
    BY <1>1
<1>3. OrderInv'
    BY <1>2 DEF OrderInv
<1>4. LoopOfInv'
    <2>1. \A t \in Loop : t[1] # 0
        BY TaskFacts DEF Started
    <2> QED BY <1>1, <1>2, <2>1 DEF TellInv, LoopOfInv, taskVars, runnerVars
<1>5. BehindInv'
    <2> SUFFICES ASSUME alternating, NEW t \in Loop, t[1] = starts PROVE NothingToTell(t)
        BY <1>1 DEF BehindInv, alternating, NothingToTell, taskVars
    <2> SUFFICES ASSUME status[t] # "none" PROVE NothingToTell(t)
        BY DEF NothingToTell
    <2>1. CASE t[1] = tasks
        <3>1. PICK i \in DOMAIN runners : RunnerOf(t) = runners[i]
            BY <2>1 DEF TellInv, LoopOfInv, Range
        <3>2. t = LoopTask(i) /\ t \in Task
            BY <2>1, <3>1, LoopTasks
        <3>3. t \in waits
            BY <1>1, <2>1, <3>2 DEF IInv, AliveInv, ExecutorTasks
        <3>4. status[t] # "ready"
            BY <1>1, <3>3 DEF Settled, Live
        <3> QED BY <1>1, <3>2, <3>4 DEF TellInv, BehindInv
    <2>2. CASE t[1] # tasks
        <3>1. tasks = 0
            BY <2>2 DEF TellInv, LoopOfInv
        <3> QED BY <3>1 DEF TellInv, BehindInv, IInv, ListInv
    <2> QED BY <2>1, <2>2
<1>6. DrainInv'
    BY <1>1 DEF TellInv, DrainInv, taskVars, runnerVars
<1> QED BY <1>3, <1>4, <1>5, <1>6 DEF TellInv

LEMMA CancelStopTells == ASSUME TellInv, CancelStop PROVE TellInv'
<1>1. UNCHANGED <<listVars, status, soon, runnerVars>> /\ asked \subseteq asked'
    BY DEF CancelStop, RequestCancel
<1>2. CASE UNCHANGED <<stopper, at, waits, outcome>>
    BY <1>1, <1>2, TellFrames DEF TellInv, listVars, runnerVars
<1>3. CASE StopEnds("raised")
    <2>1. BehindInv'
        BY <1>1, <1>3 DEF TellInv, BehindInv, StopEnds, alternating, NothingToTell, listVars
    <2> QED BY <1>1, <2>1, TellFrames DEF TellInv, listVars, runnerVars
<1> QED BY <1>2, <1>3 DEF CancelStop

LEMMA NextTells == ASSUME IInv, IInv', TellInv, [Next]_vars PROVE TellInv'
<1>1. ASSUME NEW t \in Loop, LoopStep(t) \/ LoopBreaks(t) PROVE TellInv'
    <2>1. CASE Serve(t)
        BY <2>1, ServeTells
    <2>2. CASE LoopEnds(t)
        BY <2>2, TaskEndsTells, TaskFacts DEF LoopEnds, Ended
    <2>3. CASE LoopBreaks(t)
        BY <2>3, TaskEndsTells, TaskFacts DEF LoopBreaks, Ended
    <2> QED BY <1>1, <2>1, <2>2, <2>3 DEF LoopStep
<1>2. ASSUME NEW t \in Task, TaskCancelled(t) PROVE TellInv'
    BY <1>2, TaskEndsTells DEF TaskCancelled, Ended
<1>3. ASSUME NEW k \in Started, SchedulerFails(k) PROVE TellInv'
    BY <1>3, TaskEndsTells, TaskFacts DEF SchedulerFails, Ended
<1>4. ASSUME NEW h, Publish(h) PROVE TellInv'
    BY <1>4, TellFrames DEF TellInv, Publish, listVars, taskVars, runnerVars, stopVars
<1>5. ASSUME NEW k \in Started, CronTick(k) PROVE TellInv'
    BY <1>5, <1>4 DEF CronTick
<1>6. ASSUME NEW n \in Signal, DropEmission(n) PROVE TellInv'
    BY <1>6, TellFrames DEF TellInv, DropEmission, listVars, taskVars, runnerVars, stopVars
<1>7. CASE UNCHANGED vars
    BY <1>7, TellFrames DEF TellInv, vars, listVars, taskVars, runnerVars, stopVars
<1> QED BY <1>1, <1>2, <1>3, <1>4, <1>5, <1>6, <1>7, StartTells, TaskFirstStepTells, CancelGatherTells,
           CallRunnerTells, StopTells, RunnerStoppedTells, TasksStoppedTells, CancelStopTells
        DEF Next, StopStep


-----------------------------------------------------------------------------
(* The results.                                                            *)

\* The inductive invariant holds throughout.
THEOREM ExecutorInvariant == Spec => []IInv
BY InitInv, NextInv, PTL DEF Spec

\* Every variable of the executor keeps its type.
THEOREM TypeCorrect == Spec => []TypeOK
BY ExecutorInvariant, PTL DEF IInv

\* Once stop() has returned nothing of the workflow is alive, open or subscribed,
\* for any number of routines and whatever failed or was cancelled on the way.
THEOREM StopComplete == Spec => []StopLeavesNothing
<1>1. IInv => StopLeavesNothing
    <2> SUFFICES ASSUME IInv, alternating, outcome = "returned"
                 PROVE  /\ \A t \in Task : ~Live(t)
                        /\ open = {} /\ subscriptions = {}
        BY DEF StopLeavesNothing, alternating
    <2>1. runners = <<>> /\ tasks = 0 /\ Range(runners) = {}
        BY DEF IInv, ListInv, Range
    <2>2. \A t \in Task : ~Live(t)
        BY <2>1, TaskFacts DEF IInv, AliveInv, Started
    <2> QED BY <2>1, <2>2 DEF IInv, OpenInv, SignalInv
<1> QED BY <1>1, ExecutorInvariant, PTL

\* No loop escapes stop(), however start() and stop() are mixed and whatever stop()
\* raised: a loop whose runner is forgotten has a closed channel.
THEOREM LoopsInReach == Spec => []NoLoopOutOfReach
<1>1. IInv => NoLoopOutOfReach
    BY DEF IInv, OpenInv, NoLoopOutOfReach
<1> QED BY <1>1, ExecutorInvariant, PTL

\* No signal reaches a runner made after it was published, nor, when start() and
\* stop() alternate, one made before the last start().
THEOREM SignalsStay == Spec => []NoCrossDelivery
<1>1. IInv => NoCrossDelivery
    BY DEF IInv, SignalInv, Meant, NoCrossDelivery, alternating
<1> QED BY <1>1, ExecutorInvariant, PTL

LEMMA TellInvariant == Spec => []TellInv
BY InitTell, NextTells, ExecutorInvariant, PTL DEF Spec

\* stop() that returns has hidden no failed loop, whatever was cancelled, repeated
\* or had not begun.
THEOREM FailuresTold == Spec => []StopTellsFailure
<1>1. IInv /\ TellInv => StopTellsFailure
    BY DEF IInv, ListInv, TellInv, BehindInv, StopTellsFailure, alternating, NothingToTell
<1> QED BY <1>1, ExecutorInvariant, TellInvariant, PTL

\* A signal accepted is served before stop() returns, unless the loop never began
\* or its own routine ended it.
THEOREM SignalsServed == Spec => []StopDrains
<1>1. IInv /\ TellInv /\ StopLeavesNothing => StopDrains
    <2> SUFFICES ASSUME IInv, TellInv, StopLeavesNothing, alternating, outcome = "returned",
                        NEW r \in Runner, inbox[r] # {}, r[2] \notin Queued, NEW k \in Started
                 PROVE  status[RunnerTask(k, r)] \notin {"running", "ok"}
        BY DEF StopDrains, alternating
    <2>1. /\ RunnerTask(k, r) \in Loop /\ RunnerTask(k, r) \in Task
          /\ RunnerOf(RunnerTask(k, r)) = r /\ RunnerTask(k, r)[3] = r[2]
        BY TaskFacts DEF RunnerOf, RunnerTask, Runner
    <2>2. status[RunnerTask(k, r)] # "running"
        BY <2>1 DEF StopLeavesNothing, alternating, Live
    <2>3. status[RunnerTask(k, r)] # "ok"
        BY <2>1 DEF TellInv, DrainInv
    <2> QED BY <2>2, <2>3
<1> QED BY <1>1, ExecutorInvariant, TellInvariant, StopComplete, PTL

-----------------------------------------------------------------------------
(* stop() never waits for something that cannot end: the safety half of    *)
(* StopCompletes, which needs no fairness.                                 *)

\* Whatever stop() waits for is over, or in line for its first step, or is running
\* and has been asked to end or is a loop whose channel is closed; however start()
\* is used, and whatever fails or is cancelled meanwhile.
StopNeverStuck ==
    stopper # "idle" =>
        \A t \in waits :
            \/ ~Live(t)
            \/ status[t] = "ready" /\ \E p \in DOMAIN soon : soon[p] = t
            \/ status[t] = "running" /\ (t \in asked \/ (t \in Loop /\ RunnerOf(t) \notin open))

\* A task that has not begun is in line for its first step.
QueuedInv == \A t \in Task : status[t] = "ready" => \E p \in DOMAIN soon : soon[p] = t

\* stop() waits for one loop of the runner it has come to, whose channel it has closed,
\* or for tasks it has asked to end.
WaitsInv ==
    /\ stopper = "runner" => \A t \in waits : t \in Loop /\ RunnerOf(t) = runners[at]
    /\ stopper = "tasks" => \A t \in waits : status[t] # "none" /\ (Live(t) => t \in asked)

StuckInv == QueuedInv /\ WaitsInv

\* Tasks are put in line when they are created, revived by nothing, and stay in line
\* until their first step.
LEMMA StartQueues == ASSUME IInv, QueuedInv, Start PROVE QueuedInv'
<1> DEFINE k == starts + 1
           all == runners \o NewRunners(k)
           ts == TasksFor(k, all)
<1>1. /\ soon' = soon \o ts
      /\ status' = [t \in Task |-> IF \E i \in DOMAIN ts : ts[i] = t THEN "ready" ELSE status[t]]
    BY DEF Start, CreateEach
<1>2. k \in Started
    BY ExecutorAssumption DEF Start, IInv, TypeOK, Started
<1>3. /\ soon \in Seq(Task) /\ runners \in Seq(Runner) /\ Len(soon) \in Nat
      /\ NewRunners(k) \in Seq(Runner)
    BY <1>2, NewRunnersFacts DEF IInv, TypeOK, TasksTypeOK
<1>4. all \in Seq(Runner)
    BY <1>3
<1>5. ts \in Seq(Task)
    <2>1. \A i, j \in DOMAIN all : all[i] = all[j] => i = j
        <3>1. /\ DOMAIN all = 1..(Len(runners) + Len(NewRunners(k)))
              /\ \A i \in 1..Len(runners) : all[i] = runners[i]
              /\ \A i \in DOMAIN all : i > Len(runners) =>
                    i - Len(runners) \in DOMAIN NewRunners(k) /\ all[i] = NewRunners(k)[i - Len(runners)]
              /\ Len(runners) \in Nat /\ DOMAIN runners = 1..Len(runners)
            BY <1>3
        <3>2. \A i \in 1..Len(runners) : all[i][1] <= starts
            BY <3>1 DEF IInv, ListInv, Range
        <3>3. \A i \in DOMAIN all : i > Len(runners) => all[i][1] = k
            BY <1>2, <3>1, NewRunnersFacts
        <3>4. starts \in Nat /\ k > starts
            BY ExecutorAssumption DEF IInv, TypeOK
        <3> SUFFICES ASSUME NEW i \in DOMAIN all, NEW j \in DOMAIN all, all[i] = all[j] PROVE i = j
            OBVIOUS
        <3>5. i \in Nat /\ j \in Nat /\ i >= 1 /\ j >= 1
            BY <3>1
        <3>6. CASE i <= Len(runners) /\ j <= Len(runners)
            BY <3>1, <3>5, <3>6 DEF IInv, ListInv
        <3>7. CASE i > Len(runners) /\ j > Len(runners)
            <4>1. i - Len(runners) = j - Len(runners)
                BY <1>2, <3>1, <3>7, NewRunnersFacts
            <4> QED BY <3>1, <3>5, <4>1
        <3>8. CASE (i <= Len(runners)) # (j <= Len(runners))
            BY <3>1, <3>2, <3>3, <3>4, <3>5, <3>8
        <3> QED BY <3>1, <3>5, <3>6, <3>7, <3>8
    <2> QED BY <1>2, <1>4, <2>1, TasksForFacts
<1> HIDE DEF k, all, ts
<1>6. /\ DOMAIN soon' = 1..(Len(soon) + Len(ts)) /\ Len(ts) \in Nat
      /\ \A p \in DOMAIN soon : p \in DOMAIN soon' /\ soon'[p] = soon[p]
      /\ \A i \in DOMAIN ts : Len(soon) + i \in DOMAIN soon' /\ soon'[Len(soon) + i] = ts[i]
    BY <1>1, <1>3, <1>5
<1>7. ASSUME NEW t \in Task, status'[t] = "ready" PROVE \E p \in DOMAIN soon' : soon'[p] = t
    <2>1. CASE \E i \in DOMAIN ts : ts[i] = t
        BY <1>6, <2>1
    <2>2. CASE ~\E i \in DOMAIN ts : ts[i] = t
        <3>1. status[t] = "ready"
            BY <1>1, <1>7, <2>2
        <3> QED BY <1>6, <3>1 DEF QueuedInv
    <2> QED BY <2>1, <2>2
<1> QED BY <1>7 DEF QueuedInv

\* The first step takes the oldest task out of the line, and revives nothing.
LEMMA FirstStepQueues ==
    ASSUME IInv, QueuedInv, FirstStep
    PROVE  QueuedInv' /\ \A t \in Task : status[t] # "none" => status'[t] # "none" /\ (Live(t)' => Live(t))
<1>1. soon \in Seq(Task) /\ status \in [Task -> Status] /\ soon # <<>> /\ soon' = Tail(soon)
    BY DEF IInv, TypeOK, TasksTypeOK, FirstStep
<1>2. PICK h \in Task : h = soon[1] /\ h = Head(soon)
    BY <1>1
<1>3. status[h] = "ready"
    BY <1>1, <1>2 DEF IInv, SoonInv
<1>4. /\ status'[h] \in {"dropped", "running"}
      /\ \A t \in Task : t # h => status'[t] = status[t]
    BY <1>1, <1>2 DEF FirstStep
<1>5. \A p \in DOMAIN soon : p # 1 => p - 1 \in DOMAIN soon' /\ soon'[p - 1] = soon[p]
    BY <1>1
<1>6. ASSUME NEW t \in Task, status'[t] = "ready" PROVE \E p \in DOMAIN soon' : soon'[p] = t
    <2>1. t # h /\ status[t] = "ready"
        BY <1>4, <1>6
    <2>2. PICK p \in DOMAIN soon : soon[p] = t
        BY <2>1 DEF QueuedInv
    <2> QED BY <1>2, <1>5, <2>1, <2>2
<1> QED BY <1>3, <1>4, <1>6 DEF QueuedInv, Live

LEMMA EndQueues ==
    ASSUME IInv, QueuedInv, NEW u \in Task, NEW end \in Ended, TaskEnds(u, end)
    PROVE  QueuedInv' /\ \A t \in Task : status[t] # "none" => status'[t] # "none" /\ (Live(t)' => Live(t))
<1>1. /\ status[u] = "running" /\ soon' = soon /\ end \notin {"none", "ready", "running"}
      /\ \A t \in Task : status'[t] = IF t = u THEN end ELSE status[t]
    BY DEF TaskEnds, End, Ended, IInv, TypeOK, TasksTypeOK
<1> QED BY <1>1 DEF QueuedInv, Live

\* The task of the loop that stop() awaits is one of its runner.
LEMMA StopFromWaits ==
    ASSUME IInv, NEW i \in Nat \ {0}, StopFrom(i), UNCHANGED <<runners, tasks, status>>
    PROVE  WaitsInv'
<1>1. runners \in Seq(Runner) /\ loopOf \in [Runner -> 0..MaxStarts] /\ MaxStarts \in Nat
    BY ExecutorAssumption DEF IInv, TypeOK
<1>2. CASE stopper' = "runner" /\ \E j \in {j \in i..Len(runners) : loopOf[runners[j]] # 0} :
              at' = j /\ waits' = {RunnerTask(loopOf[runners[j]], runners[j])}
    <2>1. PICK j \in i..Len(runners) :
              loopOf[runners[j]] # 0 /\ at' = j /\ waits' = {RunnerTask(loopOf[runners[j]], runners[j])}
        BY <1>2
    <2>2. j \in DOMAIN runners /\ runners[j] \in Runner
        BY <1>1, <2>1
    <2>3. loopOf[runners[j]] \in Started
        BY <1>1, <2>1, <2>2 DEF Started
    <2>4. RunnerOf(RunnerTask(loopOf[runners[j]], runners[j])) = runners[j]
        BY <2>2 DEF RunnerOf, RunnerTask, Runner
    <2> QED BY <1>2, <2>1, <2>2, <2>3, <2>4, TaskFacts DEF WaitsInv
<1>3. CASE stopper' = "tasks" /\ waits' = ExecutorTasks /\ RequestCancel(ExecutorTasks)
    BY <1>3 DEF WaitsInv, ExecutorTasks, RequestCancel, Live
<1> QED BY <1>2, <1>3 DEF StopFrom

\* Steps that leave stop() where it is.
LEMMA WaitsKept ==
    ASSUME IInv, WaitsInv, UNCHANGED <<runners, stopper, at, waits>>, asked \subseteq asked',
           \A t \in Task : status[t] # "none" => status'[t] # "none" /\ (Live(t)' => Live(t))
    PROVE  WaitsInv'
<1>1. waits \subseteq Task
    BY DEF IInv, TypeOK
<1> QED BY <1>1 DEF WaitsInv

LEMMA StuckStep == ASSUME IInv, StuckInv, [Next]_vars PROVE StuckInv'
<1> USE DEF StuckInv
<1>1. CASE Start
    <2>1. stopper' = "idle"
        BY <1>1 DEF Start, MayStart
    <2> QED BY <1>1, <2>1, StartQueues DEF WaitsInv
<1>2. CASE TaskFirstStep
    <2>1. FirstStep /\ UNCHANGED <<runners, stopper, at, waits, asked>>
        BY <1>2 DEF TaskFirstStep, FirstStep, listVars, stopVars
    <2> QED BY <2>1, FirstStepQueues, WaitsKept
<1>3. ASSUME NEW t \in Task, NEW end \in Ended, TaskEnds(t, end) PROVE StuckInv'
    <2>1. UNCHANGED <<runners, stopper, at, waits, asked>>
        BY <1>3 DEF TaskEnds, End, listVars, stopVars
    <2> QED BY <1>3, <2>1, EndQueues, WaitsKept
<1>4. CASE Stop
    <2>1. StopFrom(1) /\ UNCHANGED <<runners, tasks, status, soon>>
        BY <1>4 DEF Stop, listVars
    <2> QED BY <2>1, StopFromWaits DEF QueuedInv
<1>5. CASE RunnerStopped
    <2>1. UNCHANGED <<runners, tasks, status, soon>> /\ at \in Nat
        BY <1>5 DEF RunnerStopped, listVars, IInv, TypeOK
    <2>2. StopFrom(at + 1) \/ stopper' = "idle"
        BY <1>5 DEF RunnerStopped, StopEnds
    <2> QED BY <2>1, <2>2, StopFromWaits DEF QueuedInv, WaitsInv
<1>6. CASE TasksStopped
    BY <1>6 DEF TasksStopped, StopEnds, QueuedInv, WaitsInv, taskVars
<1>7. CASE CancelStop
    <2>1. UNCHANGED <<runners, status, soon>>
        BY <1>7 DEF CancelStop, listVars
    <2>2. \/ stopper' = "idle"
          \/ asked \subseteq asked' /\ UNCHANGED <<stopper, at, waits>>
        BY <1>7 DEF CancelStop, StopEnds, RequestCancel
    <2>3. \A t \in Task : Live(t)' <=> Live(t)
        BY <2>1 DEF Live
    <2> QED BY <2>1, <2>2, <2>3, WaitsKept DEF QueuedInv, WaitsInv
<1>8. ASSUME UNCHANGED <<runners, status, soon, stopper, at, waits>>, asked \subseteq asked' PROVE StuckInv'
    BY <1>8, WaitsKept DEF QueuedInv, Live
<1>9. ASSUME NEW k \in Started, CancelGather(k) PROVE StuckInv'
    BY <1>8, <1>9 DEF CancelGather, RequestCancel, listVars
<1>10. ASSUME NEW h, Publish(h) PROVE StuckInv'
    BY <1>8, <1>10 DEF Publish, listVars, taskVars, stopVars
<1>11. ASSUME NEW n \in Signal, CallRunner(n) \/ DropEmission(n) PROVE StuckInv'
    BY <1>8, <1>11 DEF CallRunner, DropEmission, listVars, taskVars, stopVars
<1>12. ASSUME NEW t \in Loop, Serve(t) PROVE StuckInv'
    BY <1>8, <1>12 DEF Serve, listVars, taskVars, stopVars
<1>13. CASE UNCHANGED vars
    BY <1>8, <1>13 DEF vars, listVars, taskVars, stopVars
<1>14. ASSUME NEW t \in Loop, LoopStep(t) \/ LoopBreaks(t) PROVE StuckInv'
    BY <1>3, <1>12, <1>14, TaskFacts DEF LoopStep, LoopEnds, LoopBreaks, Ended
<1>15. ASSUME NEW t \in Task, TaskCancelled(t) PROVE StuckInv'
    BY <1>3, <1>15 DEF TaskCancelled, Ended
<1>16. ASSUME NEW k \in Started, SchedulerFails(k) \/ CronTick(k) PROVE StuckInv'
    BY <1>3, <1>10, <1>16, TaskFacts DEF SchedulerFails, CronTick, Ended
<1> QED BY <1>1, <1>2, <1>4, <1>5, <1>6, <1>7, <1>9, <1>10, <1>11, <1>13, <1>14, <1>15, <1>16
        DEF Next, StopStep

\* Nobody waits for stop() in vain, for any routines, starts, failures and
\* cancellations, also when start() has been repeated.
THEOREM StopAdvances == Spec => []StopNeverStuck
<1>1. Init => StuckInv
    BY DEF Init, TasksInit, StuckInv, QueuedInv, WaitsInv
<1>2. IInv /\ StuckInv => StopNeverStuck
    <2> SUFFICES ASSUME IInv, StuckInv, stopper # "idle", NEW t \in waits, Live(t)
                 PROVE  \/ status[t] = "ready" /\ \E p \in DOMAIN soon : soon[p] = t
                        \/ status[t] = "running" /\ (t \in asked \/ (t \in Loop /\ RunnerOf(t) \notin open))
        BY DEF StopNeverStuck
    <2>1. t \in Task /\ stopper \in {"runner", "tasks"} /\ at \in Nat
        BY DEF IInv, TypeOK
    <2>2. stopper = "runner" => t \in Loop /\ RunnerOf(t) \notin open
        BY <2>1 DEF IInv, OpenInv, StuckInv, WaitsInv, TypeOK
    <2>3. stopper = "tasks" => t \in asked
        BY DEF StuckInv, WaitsInv
    <2> QED BY <2>1, <2>2, <2>3 DEF StuckInv, QueuedInv, Live
<1>3. IInv /\ StuckInv /\ [Next]_vars => StuckInv'
    BY StuckStep
<1> QED BY <1>1, <1>2, <1>3, ExecutorInvariant, PTL DEF Spec
=============================================================================
