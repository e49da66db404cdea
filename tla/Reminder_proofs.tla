-------------------------- MODULE Reminder_proofs --------------------------
(***************************************************************************)
(* Proofs about Reminder, for any number of voice events: there is at most *)
(* one reminder for each time the user has spoken, and a reminder is begun *)
(* by the last routine only.                                               *)
(***************************************************************************)
EXTENDS Reminder, FiniteSetTheorems, TLAPS

Step == {"start", "sleeping", "mutating", "streaming"}

\* The routines that have marked the state, whatever became of their reminder.
Marked == {n \in Emission : remindAt[n] \in {"mutating", "streaming"}}

Shape ==
    /\ remindAt \in [Emission -> Step]
    /\ speechAt \in [1..MaxVoice -> {"start", "mutating"}]
    /\ hasReminded \in BOOLEAN /\ resets \subseteq 1..MaxVoice

Credit == Cardinality(resets) + (IF hasReminded THEN 1 ELSE 0)

\* The marks are counted rather than the reminders: a mark is made together with
\* has_reminded, and a routine that resets it does so once.
MarkInv ==
    /\ Shape
    /\ reminded \subseteq Marked
    /\ \A n \in resets : speechAt[n] # "start"
    /\ Cardinality(Marked) <= Credit

\* Signals are taken in order, only the last that has a routine has one alive, and
\* a routine is past its first step only if its event asks for a reminder.
LastInv ==
    /\ remindAt \in [Emission -> Step]
    /\ remindTaken \in Nat /\ remindSignals \in Seq(BOOLEAN) /\ remindTaken <= Len(remindSignals)
    /\ remindResult \in [Emission -> {"none", "alive", "ok", "error", "cancelled"}]
    /\ \A n \in Emission : n > remindTaken => remindResult[n] = "none"
    /\ \A n \in Emission : remindResult[n] = "alive" =>
          \A m \in Emission : m > n => remindResult[m] = "none"
    /\ \A n \in Emission : remindAt[n] # "start" => n <= Len(remindSignals) /\ remindSignals[n]

-----------------------------------------------------------------------------
(* How the steps that matter change what the invariants are about.         *)

LEMMA Bounds == 2 * MaxVoice \in Nat /\ MaxVoice \in Nat
BY ReminderAssumption

LEMMA SetsFinite ==
    ASSUME Shape
    PROVE  /\ IsFiniteSet(Marked) /\ Cardinality(Marked) \in Nat
           /\ IsFiniteSet(resets) /\ Cardinality(resets) \in Nat
<1>1. IsFiniteSet(Emission) /\ IsFiniteSet(1..MaxVoice)
  BY FS_Interval, Bounds DEF Emission
<1>2. IsFiniteSet(Marked)
  BY <1>1, FS_Subset DEF Marked
<1>3. IsFiniteSet(resets)
  BY <1>1, FS_Subset DEF Shape
<1> QED BY <1>2, <1>3, FS_CardinalityType

LEMMA MovesOne ==
    ASSUME remindAt \in [Emission -> Step], NEW n \in Emission,
           NEW from \in Step, NEW to \in Step, RemindMoves(n, from, to)
    PROVE  /\ remindAt[n] = from /\ remindAt' \in [Emission -> Step] /\ remindAt'[n] = to
           /\ \A m \in Emission : m # n => remindAt'[m] = remindAt[m]
BY DEF RemindMoves

LEMMA MarkedKept ==
    ASSUME MarkInv, UNCHANGED <<remindAt, speechAt, stateVars>>
    PROVE  MarkInv'
BY DEF MarkInv, Shape, Credit, Marked, stateVars

LEMMA SpeechKeepsMarks ==
    ASSUME MarkInv, NEW n \in 1..MaxVoice, SpeechStep(n)
    PROVE  MarkInv'
<1>1. CASE /\ speechAt[n] = "start" /\ hasReminded' = FALSE /\ resets' = resets \cup {n}
           /\ speechAt' = [speechAt EXCEPT ![n] = "mutating"]
           /\ UNCHANGED <<remindAt, reminded>>
  <2>1. n \notin resets
    BY <1>1 DEF MarkInv
  <2>2. Cardinality(resets') = Cardinality(resets) + 1
    BY <1>1, <2>1, SetsFinite, FS_AddElement DEF MarkInv
  <2>3. Marked' = Marked
    BY <1>1 DEF Marked
  <2>4. Cardinality(Marked') <= Credit'
    BY <1>1, <2>2, <2>3, SetsFinite DEF MarkInv, Credit
  <2>5. Shape' /\ \A m \in resets' : speechAt'[m] # "start"
    BY <1>1 DEF MarkInv, Shape
  <2> QED BY <1>1, <2>3, <2>4, <2>5 DEF MarkInv
<1>2. CASE UNCHANGED <<remindAt, speechAt, stateVars>>
  BY <1>2, MarkedKept
<1> QED BY <1>1, <1>2 DEF SpeechStep, SpeechReturns, remindVars, stateVars

LEMMA RemindKeepsMarks ==
    ASSUME MarkInv, NEW n \in Emission, RemindStep(n)
    PROVE  MarkInv'
<1> USE DEF Step
<1>1. UNCHANGED <<speechAt, resets>>
  BY DEF RemindStep, speechVars
<1>2. CASE RemindMoves(n, "start", "sleeping") /\ UNCHANGED <<hasReminded, reminded>>
  <2>1. Marked' = Marked /\ remindAt' \in [Emission -> Step]
    BY <1>2, MovesOne DEF MarkInv, Shape, Marked
  <2> QED BY <1>1, <1>2, <2>1 DEF MarkInv, Shape, Credit
<1>3. CASE /\ ~hasReminded /\ hasReminded' = TRUE /\ RemindMoves(n, "sleeping", "mutating")
           /\ UNCHANGED reminded
  <2>1. n \notin Marked /\ Marked' = Marked \cup {n} /\ remindAt' \in [Emission -> Step]
    BY <1>3, MovesOne DEF MarkInv, Shape, Marked
  <2>2. Cardinality(Marked') = Cardinality(Marked) + 1
    BY <2>1, SetsFinite, FS_AddElement DEF MarkInv
  <2>3. Cardinality(Marked') <= Credit'
    BY <1>1, <1>3, <2>2, SetsFinite DEF MarkInv, Credit
  <2> QED BY <1>1, <1>3, <2>1, <2>3 DEF MarkInv, Shape
<1>4. CASE /\ RemindMoves(n, "mutating", "streaming") /\ reminded' = reminded \cup {n}
           /\ UNCHANGED hasReminded
  <2>1. n \in Marked /\ Marked' = Marked /\ remindAt' \in [Emission -> Step]
    BY <1>4, MovesOne DEF MarkInv, Shape, Marked
  <2> QED BY <1>1, <1>4, <2>1 DEF MarkInv, Shape, Credit
<1>5. CASE UNCHANGED <<remindAt, hasReminded, reminded>>
  BY <1>1, <1>5, MarkedKept DEF stateVars
<1> QED
  BY <1>2, <1>3, <1>4, <1>5
     DEF RemindStep, RemindBegins, Wake, CallLlm, RemindCancelled, RemindEnds

\* The marks are never more than the resets and the mark that stands.
THEOREM MarksCounted == Spec => []MarkInv
<1>1. Init => MarkInv
  <2> SUFFICES ASSUME Init PROVE MarkInv
    OBVIOUS
  <2>1. Shape /\ Marked = {} /\ resets = {} /\ reminded = {} /\ hasReminded = FALSE
    BY DEF Init, Shape, Marked, Step
  <2> QED BY <2>1, FS_EmptySet DEF MarkInv, Credit
<1>2. MarkInv /\ [Next]_vars => MarkInv'
  <2> SUFFICES ASSUME MarkInv, [Next]_vars PROVE MarkInv'
    OBVIOUS
  <2>1. CASE Voice
    BY <2>1, MarkedKept DEF Voice, speechVars, remindVars
  <2>2. CASE SpeechRunner
    BY <2>2, MarkedKept DEF SpeechRunner, remindVars
  <2>3. CASE RemindRunner
    BY <2>3, MarkedKept DEF RemindRunner, speechVars
  <2>4. ASSUME NEW n \in Emission, Deliver(n) PROVE MarkInv'
    <3>1. UNCHANGED <<remindAt, speechAt, stateVars>>
      BY <2>4 DEF Deliver, speechVars, remindVars
    <3> QED BY <3>1, MarkedKept
  <2>5. ASSUME NEW n \in Emission, LlmEnds(n) PROVE MarkInv'
    BY <2>5, MarkedKept DEF LlmEnds, StreamEnds, RemindEnds, speechVars
  <2>6. CASE UNCHANGED vars
    BY <2>6, MarkedKept DEF vars, speechVars, remindVars
  <2> QED BY <2>1, <2>2, <2>3, <2>4, <2>5, <2>6, SpeechKeepsMarks, RemindKeepsMarks DEF Next
<1> QED BY <1>1, <1>2, PTL DEF Spec

\* For any number of voice events: at most one reminder, and one more for each reset,
\* however the two routines are interleaved, interrupted and delayed.
THEOREM OneReminder == Spec => []OneReminderPerReset
<1>1. MarkInv => OneReminderPerReset
  <2> SUFFICES ASSUME MarkInv PROVE OneReminderPerReset
    OBVIOUS
  <2>1. Cardinality(reminded) <= Cardinality(Marked) /\ Cardinality(reminded) \in Nat
    BY SetsFinite, FS_Subset, FS_CardinalityType DEF MarkInv
  <2> QED BY <2>1, SetsFinite DEF MarkInv, Credit, OneReminderPerReset
<1> QED BY <1>1, MarksCounted, PTL

-----------------------------------------------------------------------------
(* The last routine.                                                       *)

LEMMA LastKept ==
    ASSUME LastInv, UNCHANGED remindVars
    PROVE  LastInv'
BY DEF LastInv, remindVars

LEMMA DeliverKeepsLast ==
    ASSUME LastInv, NEW n \in Emission, Deliver(n), events[n].flag \in BOOLEAN
    PROVE  LastInv'
<1>1. CASE UNCHANGED remindVars
  BY <1>1, LastKept
<1>2. CASE /\ remindSignals' = Append(remindSignals, events[n].flag)
           /\ UNCHANGED <<remindTaken, remindResult, remindAsked, remindAt>>
  <2>1. /\ remindSignals' \in Seq(BOOLEAN) /\ Len(remindSignals') = Len(remindSignals) + 1
        /\ \A m \in 1..Len(remindSignals) : remindSignals'[m] = remindSignals[m]
    BY <1>2 DEF LastInv
  <2>2. \A m \in Emission : remindAt[m] # "start" => m <= Len(remindSignals') /\ remindSignals'[m]
    BY <2>1, Bounds DEF LastInv, Emission
  <2>3. UNCHANGED remindAt /\ UNCHANGED remindTaken /\ UNCHANGED remindResult
    BY <1>2
  <2>4. remindTaken <= Len(remindSignals') /\ remindSignals' \in Seq(BOOLEAN)
    BY <2>1 DEF LastInv
  <2>5. \A m \in Emission : remindAt'[m] # "start" => m <= Len(remindSignals') /\ remindSignals'[m]
    BY <2>2, <2>3
  <2> QED BY <2>3, <2>4, <2>5, Zenon DEF LastInv
<1>3. \/ UNCHANGED remindVars
      \/ /\ remindSignals' = Append(remindSignals, events[n].flag)
         /\ Reminding!Accept /\ UNCHANGED remindAt
  BY DEF Deliver
<1>4. Reminding!Accept => UNCHANGED <<remindTaken, remindResult, remindAsked>>
  BY DEF Reminding!Accept
<1>5. CASE /\ remindSignals' = Append(remindSignals, events[n].flag)
           /\ Reminding!Accept /\ UNCHANGED remindAt
  <2>1. UNCHANGED <<remindTaken, remindResult, remindAsked, remindAt>>
    BY <1>4, <1>5
  <2> QED BY <1>2, <1>5, <2>1
<1> QED BY <1>1, <1>3, <1>5

LEMMA RunnerKeepsLast ==
    ASSUME LastInv, RemindRunner
    PROVE  LastInv'
<1>1. UNCHANGED <<remindSignals, remindAt>> /\ Emission = Reminding!Signal
  BY DEF RemindRunner, Emission, Reminding!Signal
<1>2. CASE Reminding!TakeAndBegin
  <2>1. remindTaken = 0 /\ remindTaken' = 1 /\ remindTaken < Len(remindSignals)
        /\ remindResult' = [remindResult EXCEPT ![1] = "alive"]
    BY <1>2 DEF Reminding!TakeAndBegin, Reminding!Take, Reminding!Begin, LastInv
  <2>2. \A n \in Emission : n > 0 /\ remindResult[n] = "none"
    BY <2>1, Bounds DEF LastInv, Emission
  <2>3. remindResult' \in [Emission -> {"none", "alive", "ok", "error", "cancelled"}]
    BY <2>1 DEF LastInv
  <2>4. \A n \in Emission : n # 1 => remindResult'[n] = "none"
    BY <2>1, <2>2 DEF LastInv
  <2>5. /\ \A n \in Emission : n > 1 => remindResult'[n] = "none"
        /\ \A n \in Emission : remindResult'[n] = "alive" => n = 1
    BY <2>4, Bounds DEF Emission
  <2> QED BY <1>1, <2>1, <2>3, <2>5 DEF LastInv
<1>3. CASE Reminding!TakeAside
  <2>1. /\ remindTaken < Len(remindSignals) /\ remindTaken' = remindTaken + 1
        /\ UNCHANGED remindResult
    BY <1>3 DEF Reminding!TakeAside, Reminding!Take
  <2> QED BY <1>1, <2>1, Bounds DEF LastInv, Emission
<1>4. CASE Reminding!BeginAside
  <2>1. /\ Reminding!Alive = {} /\ remindTaken > 0 /\ remindResult[remindTaken] = "none"
        /\ UNCHANGED remindTaken
        /\ remindResult' = [remindResult EXCEPT ![remindTaken] = "alive"]
    BY <1>4 DEF Reminding!BeginAside, Reminding!Awaited, Reminding!Begin
  <2>2. \A n \in Emission : remindResult[n] # "alive"
    BY <1>1, <2>1 DEF Reminding!Alive
  <2>3. remindResult' \in [Emission -> {"none", "alive", "ok", "error", "cancelled"}]
    BY <2>1 DEF LastInv
  <2>4. \A n \in Emission : n > remindTaken => remindResult'[n] = "none"
    BY <2>1, Bounds DEF LastInv, Emission
  <2>5. \A n \in Emission : remindResult'[n] = "alive" => n = remindTaken
    BY <2>1, <2>2 DEF LastInv
  <2> QED BY <1>1, <2>1, <2>3, <2>4, <2>5 DEF LastInv
<1> QED BY <1>2, <1>3, <1>4 DEF RemindRunner

LEMMA EndsKeepLast ==
    ASSUME LastInv, NEW n \in Emission, NEW how \in {"ok", "error", "cancelled"}, RemindEnds(n, how)
    PROVE  LastInv'
<1>1. /\ UNCHANGED <<remindSignals, remindAt, remindTaken>>
      /\ \E h : remindResult' = [remindResult EXCEPT ![n] = h]
      /\ remindResult'[n] = how /\ remindResult[n] = "alive"
  BY DEF RemindEnds, Reminding!RoutineEnds, Reminding!Alive
<1>2. remindResult' = [remindResult EXCEPT ![n] = how]
  BY <1>1 DEF LastInv
<1>3. n <= remindTaken
  BY <1>1, Bounds DEF LastInv, Emission
<1>4. /\ remindResult' \in [Emission -> {"none", "alive", "ok", "error", "cancelled"}]
      /\ \A m \in Emission : m > remindTaken => remindResult'[m] = "none"
  BY <1>2, <1>3, Bounds DEF LastInv, Emission
<1>5. \A m \in Emission : remindResult'[m] = "alive" => remindResult[m] = "alive" /\ m # n
  BY <1>2 DEF LastInv
<1>6. \A m \in Emission : remindResult[m] = "none" => remindResult'[m] = "none"
  BY <1>1, <1>2 DEF LastInv
<1> QED BY <1>1, <1>4, <1>5, <1>6 DEF LastInv

LEMMA MovesKeepLast ==
    ASSUME LastInv, NEW n \in Emission, NEW from \in Step, NEW to \in Step, RemindMoves(n, from, to),
           from = "start" => remindSignals[n]
    PROVE  LastInv'
<1>1. UNCHANGED <<remindSignals, remindTaken, remindResult>> /\ remindResult[n] = "alive"
  BY DEF RemindMoves, Reminding!Alive
<1>2. n <= Len(remindSignals)
  BY <1>1, Bounds DEF LastInv, Emission
<1>3. remindSignals[n]
  BY MovesOne DEF LastInv
<1> QED BY <1>1, <1>2, <1>3, MovesOne DEF LastInv

LEMMA StepKeepsLast ==
    ASSUME LastInv, NEW n \in Emission, RemindStep(n)
    PROVE  LastInv'
<1> USE DEF Step
<1>1. CASE RemindBegins(n)
  BY <1>1, EndsKeepLast, MovesKeepLast DEF RemindBegins
<1>2. CASE Wake(n)
  BY <1>2, EndsKeepLast, MovesKeepLast DEF Wake
<1>3. CASE CallLlm(n)
  BY <1>3, EndsKeepLast, MovesKeepLast DEF CallLlm
<1>4. CASE RemindCancelled(n)
  BY <1>4, EndsKeepLast DEF RemindCancelled
<1> QED BY <1>1, <1>2, <1>3, <1>4 DEF RemindStep

\* Every event published is one, which is all that is needed of them here.
EventsInv == /\ events \in Seq(Event)
             /\ owed = [n \in Emission |-> owed[n]]
             /\ \A n \in Emission : owed[n] # {} => n <= Len(events)

LEMMA EventsStay == Spec => []EventsInv
<1>1. Init => EventsInv
  <2> SUFFICES ASSUME Init PROVE EventsInv
    OBVIOUS
  <2>1. events = <<>> /\ owed = [n \in Emission |-> {}]
    BY DEF Init
  <2>2. \A n \in Emission : owed[n] = {}
    BY <2>1
  <2>3. owed = [n \in Emission |-> owed[n]]
    BY <2>1
  <2>4. events \in Seq(Event)
    BY <2>1
  <2> QED BY <2>2, <2>3, <2>4 DEF EventsInv
<1>2. EventsInv /\ [Next]_vars => EventsInv'
  <2> SUFFICES ASSUME EventsInv, [Next]_vars PROVE EventsInv'
    OBVIOUS
  <2>1. ASSUME NEW schema \in {Create, Remind}, NEW flag \in BOOLEAN, Publish(schema, flag)
        PROVE  EventsInv'
    <3>1. /\ events' \in Seq(Event) /\ Len(events') = Len(events) + 1
      BY <2>1 DEF Publish, EventsInv, Event
    <3>2. PICK S : owed' = [owed EXCEPT ![Len(events) + 1] = S]
      BY <2>1 DEF Publish, PS!Emit
    <3>3. \A n \in Emission : owed'[n] # {} => n = Len(events) + 1 \/ owed[n] # {}
      BY <3>2 DEF EventsInv
    <3>4. owed' = [n \in Emission |-> owed'[n]]
      BY <3>2 DEF EventsInv
    <3>5. \A n \in Emission : owed'[n] # {} => n <= Len(events) + 1
      BY <3>1, <3>3, Bounds DEF EventsInv, Emission
    <3>6. \A n \in Emission : owed'[n] # {} => n <= Len(events')
      BY <3>1, <3>5
    <3> QED BY <3>1, <3>4, <3>6, Zenon DEF EventsInv
  <2>2. CASE UNCHANGED <<events, owed>>
    BY <2>2 DEF EventsInv
  <2>3. CASE Voice
    <3>1. PICK e \in VoiceSignals : Publish(e.schema, e.flag)
      BY <2>3 DEF Voice
    <3>2. e.schema \in {Create, Remind}
      BY DEF VoiceSignals
    <3>3. e.flag = TRUE \/ e.flag = FALSE
      <4>1. CASE e = [schema |-> Create, flag |-> FALSE]
        BY <4>1
      <4>2. CASE e = [schema |-> Create, flag |-> TRUE]
        BY <4>2
      <4>3. CASE e = [schema |-> Remind, flag |-> FALSE]
        BY <4>3
      <4> QED BY <4>1, <4>2, <4>3 DEF VoiceSignals
    <3>4. e.flag \in BOOLEAN
      BY <3>3
    <3>5. \A schema \in {Create, Remind} : \A flag \in BOOLEAN :
             Publish(schema, flag) => EventsInv'
      BY <2>1
    <3>6. Publish(e.schema, e.flag)
      BY <3>1
    <3> QED BY <3>2, <3>4, <3>5, <3>6, Zenon
  <2>4. ASSUME NEW n \in Emission, Deliver(n) PROVE EventsInv'
    <3>1. UNCHANGED events /\ \A m \in Emission : owed'[m] # {} => owed[m] # {}
      <4>1. PICK s \in owed[n] : owed' = [owed EXCEPT ![n] = @ \ {s}]
        BY <2>4 DEF Deliver, PS!Deliver
      <4> QED BY <2>4, <4>1 DEF Deliver, EventsInv
    <3>2. owed' = [m \in Emission |-> owed'[m]]
      <4>1. PICK s \in owed[n] : owed' = [owed EXCEPT ![n] = @ \ {s}]
        BY <2>4 DEF Deliver, PS!Deliver
      <4> QED BY <4>1 DEF EventsInv
    <3> QED BY <3>1, <3>2 DEF EventsInv
  <2>5. ASSUME NEW n \in 1..MaxVoice, SpeechStep(n) PROVE EventsInv'
    BY <2>1, <2>2, <2>5 DEF SpeechStep
  <2>6. CASE SpeechRunner \/ RemindRunner
    BY <2>2, <2>6 DEF SpeechRunner, RemindRunner
  <2>7. ASSUME NEW n \in Emission, RemindStep(n) \/ LlmEnds(n) PROVE EventsInv'
    BY <2>2, <2>7 DEF RemindStep, LlmEnds
  <2>8. CASE UNCHANGED vars
    BY <2>2, <2>8 DEF vars
  <2> QED BY <2>3, <2>4, <2>5, <2>6, <2>7, <2>8 DEF Next
<1> QED BY <1>1, <1>2, PTL DEF Spec

LEMMA LastStays == Spec => []LastInv
<1>1. Init => LastInv
  <2> SUFFICES ASSUME Init PROVE LastInv
    OBVIOUS
  <2>1. remindAt = [n \in Emission |-> "start"] /\ remindSignals = <<>> /\ remindTaken = 0
        /\ remindResult = [n \in Emission |-> "none"]
    BY DEF Init, Reminding!Init, Emission, Reminding!Signal
  <2>2. remindSignals \in Seq(BOOLEAN) /\ Len(remindSignals) = 0
    BY <2>1
  <2> QED BY <2>1, <2>2 DEF LastInv, Step
<1>2. EventsInv /\ LastInv /\ [Next]_vars => LastInv'
  <2> SUFFICES ASSUME EventsInv, LastInv, [Next]_vars PROVE LastInv'
    OBVIOUS
  <2>1. CASE Voice \/ SpeechRunner
    BY <2>1, LastKept DEF Voice, SpeechRunner
  <2>2. ASSUME NEW n \in 1..MaxVoice, SpeechStep(n) PROVE LastInv'
    BY <2>2, LastKept DEF SpeechStep
  <2>3. ASSUME NEW n \in Emission, Deliver(n) PROVE LastInv'
    <3>1. n <= Len(events)
      BY <2>3 DEF Deliver, PS!Deliver, EventsInv
    <3>2. events[n] \in Event
      BY <3>1, Bounds DEF EventsInv, Emission
    <3>3. events[n].flag \in BOOLEAN
      BY <3>2 DEF Event
    <3> QED BY <2>3, <3>3, DeliverKeepsLast
  <2>4. ASSUME NEW n \in Emission, LlmEnds(n) PROVE LastInv'
    BY <2>4, EndsKeepLast DEF LlmEnds, StreamEnds
  <2>5. CASE UNCHANGED vars
    BY <2>5, LastKept DEF vars
  <2> QED BY <2>1, <2>2, <2>3, <2>4, <2>5, RunnerKeepsLast, StepKeepsLast DEF Next
<1> QED BY <1>1, <1>2, EventsStay, PTL DEF Spec

\* A reminder is begun by the routine of the last signal that has one, and only if that
\* signal asks for it: what an earlier event led to cannot come through late.
THEOREM LastRoutineReminds == Spec => LatestDecides
<1> DEFINE Latest == \A n \in reminded' \ reminded :
                        remindSignals[n] /\ \A m \in Emission : remindResult[m] # "none" => m <= n
<1>1. LastInv /\ [Next]_vars => Latest
  <2> SUFFICES ASSUME LastInv, [Next]_vars, NEW k \in reminded' \ reminded
               PROVE  remindSignals[k] /\ \A m \in Emission : remindResult[m] # "none" => m <= k
    OBVIOUS
  <2>1. PICK n \in Emission : RemindStep(n) /\ CallLlm(n)
    <3>1. reminded' # reminded
      OBVIOUS
    <3>2. ~UNCHANGED stateVars
      BY <3>1 DEF stateVars
    <3> QED
      BY <3>1, <3>2 DEF Next, vars, stateVars, Voice, SpeechRunner, RemindRunner, Deliver, SpeechStep,
                        RemindStep, LlmEnds
  <2>2. RemindMoves(n, "mutating", "streaming") /\ k = n
    BY <2>1 DEF CallLlm
  <2>3. remindResult[n] = "alive" /\ remindAt[n] = "mutating"
    BY <2>2 DEF RemindMoves, Reminding!Alive
  <2> QED BY <2>2, <2>3, Bounds DEF LastInv, Emission
<1>2. LastInv /\ [Next]_vars => [Latest]_vars
  BY <1>1
<1> QED BY <1>2, LastStays, PTL DEF Spec, LatestDecides

-----------------------------------------------------------------------------
(* Types, and the counting behind them: no more is heard than was          *)
(* published, and what routines publish is bounded by what they hear.      *)

Returned == {n \in 1..MaxVoice : speechResult[n] = "ok"}
Published(schema) == {n \in 1..Len(events) : events[n].schema = schema}
Heard(schema) == {n \in Published(schema) : owed[n] = {}}

SpeechInv ==
    /\ speechSignals \in Seq(BOOLEAN) /\ speechTaken \in Nat /\ speechTaken <= Len(speechSignals)
    /\ speechResult \in [1..MaxVoice -> {"none", "alive", "ok"}]
    /\ \A n \in 1..MaxVoice : n > speechTaken => speechResult[n] = "none"

\* on_remind_user: only superseded routines are asked to end, none moves too early.
RemindInv ==
    /\ remindAsked \subseteq 1..(remindTaken - 1) /\ remindAsked \subseteq Emission
    /\ reminded \subseteq Emission
    /\ \A n \in Emission : remindResult[n] = "none" => remindAt[n] = "start"

\* An event is owed to the routine of its schema, or has been heard by it.
CountInv ==
    /\ voice \in 0..MaxVoice /\ Len(events) = voice + Cardinality(Returned)
    /\ Len(events) <= 2 * MaxVoice
    /\ Cardinality(Published(Create)) <= voice
    /\ Len(speechSignals) = Cardinality(Heard(Create))
    /\ Len(remindSignals) = Cardinality(Heard(Remind))
    /\ \A n \in 1..Len(events) : owed[n] \subseteq {<<events[n].schema, events[n].schema>>}

Known == Shape /\ EventsInv /\ LastInv

LEMMA Schemas == Create # Remind /\ Create # "every event" /\ Remind # "every event"
BY DEF Create, Remind

LEMMA EventsFinite ==
    ASSUME EventsInv, NEW schema \in {Create, Remind}
    PROVE  /\ IsFiniteSet(Published(schema)) /\ Cardinality(Published(schema)) \in Nat
           /\ IsFiniteSet(Heard(schema)) /\ Cardinality(Heard(schema)) \in Nat
           /\ Cardinality(Heard(schema)) <= Cardinality(Published(schema))
           /\ Cardinality(Published(schema)) <= Len(events) /\ Len(events) \in Nat
<1>1. Len(events) \in Nat /\ IsFiniteSet(1..Len(events)) /\ Cardinality(1..Len(events)) = Len(events)
  <2>1. Len(events) \in Nat
    BY DEF EventsInv
  <2> QED BY <2>1, FS_Interval
<1>2. Published(schema) \subseteq 1..Len(events) /\ Heard(schema) \subseteq Published(schema)
  BY DEF Published, Heard
<1>3. IsFiniteSet(Published(schema)) /\ Cardinality(Published(schema)) <= Cardinality(1..Len(events))
  BY <1>1, <1>2, FS_Subset
<1>4. IsFiniteSet(Heard(schema)) /\ Cardinality(Heard(schema)) <= Cardinality(Published(schema))
  BY <1>2, <1>3, FS_Subset
<1> QED BY <1>1, <1>3, <1>4, FS_CardinalityType

LEMMA ReturnedFinite ==
    IsFiniteSet(Returned) /\ Cardinality(Returned) \in Nat
<1>1. IsFiniteSet(1..MaxVoice)
  BY FS_Interval, Bounds
<1> QED BY <1>1, FS_Subset, FS_CardinalityType DEF Returned

\* What publishing an event does to what is owed and to the counts.
LEMMA PublishCounts ==
    ASSUME EventsInv, NEW schema \in {Create, Remind}, NEW flag \in BOOLEAN, Publish(schema, flag),
           \A n \in 1..Len(events) : owed[n] \subseteq {<<events[n].schema, events[n].schema>>}
    PROVE  /\ events' \in Seq(Event) /\ Len(events') = Len(events) + 1 /\ Len(events') \in Emission
           /\ \A n \in 1..Len(events) : events'[n] = events[n] /\ owed'[n] = owed[n]
           /\ \A n \in Emission : owed[n] \subseteq owed'[n]
           /\ events'[Len(events) + 1].schema = schema
           /\ owed'[Len(events) + 1] = {<<schema, schema>>}
           /\ \A h \in {Create, Remind} : Heard(h)' = Heard(h)
           /\ Published(schema)' = Published(schema) \cup {Len(events) + 1}
           /\ Len(events) + 1 \notin Published(schema)
           /\ \A h \in {Create, Remind} : h # schema => Published(h)' = Published(h)
<1> DEFINE k == Len(events) + 1
           S == {s \in {<<Create, Create>>, <<Remind, Remind>>} : s[2] \in {schema, "every event"}}
<1>1. /\ Len(events) \in Nat /\ k \in Emission /\ owed' = [owed EXCEPT ![k] = S]
      /\ events' = Append(events, [schema |-> schema, flag |-> flag])
  <2>1. Len(events) \in Nat
    BY DEF EventsInv
  <2>2. k \in Emission /\ owed' = [owed EXCEPT ![k] = S]
    BY DEF Publish, PS!Emit
  <2> QED BY <2>1, <2>2 DEF Publish
<1>2. /\ events' \in Seq(Event) /\ Len(events') = k
      /\ \A n \in 1..Len(events) : events'[n] = events[n]
      /\ events'[k] = [schema |-> schema, flag |-> flag]
  <2>1. [schema |-> schema, flag |-> flag] \in Event /\ events \in Seq(Event)
    BY DEF EventsInv, Event
  <2> HIDE DEF S
  <2> QED BY <1>1, <2>1
<1>3. S = {<<schema, schema>>}
  <2>1. <<Create, Create>>[2] = Create /\ <<Remind, Remind>>[2] = Remind
    OBVIOUS
  <2>2. \A s : s \in S <=> s \in {<<Create, Create>>, <<Remind, Remind>>} /\ s[2] \in {schema, "every event"}
    OBVIOUS
  <2> HIDE DEF S
  <2>3. \A s : s \in S <=> s = <<schema, schema>>
    BY <2>1, <2>2, Schemas
  <2> QED BY <2>3
<1>4. \A n \in Emission : owed'[n] = IF n = k THEN S ELSE owed[n]
  BY <1>1 DEF EventsInv
<1>5. owed[k] = {} /\ k \notin 1..Len(events)
  <2>1. Len(events) \in Nat /\ k \in Emission
    BY <1>1
  <2>2. k \notin 1..Len(events) /\ ~(k <= Len(events))
    BY <2>1
  <2> HIDE DEF k
  <2> QED BY <2>1, <2>2 DEF EventsInv
<1>6. 1..Len(events) \subseteq Emission /\ 1..Len(events') = (1..Len(events)) \cup {k}
  <2>1. Len(events) \in Nat /\ Len(events') = Len(events) + 1 /\ Len(events) + 1 \in 1..(2 * MaxVoice)
    BY <1>1, <1>2 DEF Emission
  <2> QED BY <2>1, Bounds DEF Emission
<1>7. \A n \in 1..Len(events) : owed'[n] = owed[n]
  BY <1>4, <1>5, <1>6
<1>8. owed'[k] # {} /\ owed'[k] = {<<schema, schema>>}
  BY <1>1, <1>3, <1>4
<1>9. events'[k].schema = schema
  BY <1>2
<1> HIDE DEF S, k
<1>10. \A h \in {Create, Remind} : Heard(h)' = Heard(h)
  BY <1>2, <1>5, <1>6, <1>7, <1>8 DEF Heard, Published
<1>11. /\ Published(schema)' = Published(schema) \cup {k} /\ k \notin Published(schema)
       /\ \A h \in {Create, Remind} : h # schema => Published(h)' = Published(h)
  BY <1>2, <1>5, <1>6, <1>9 DEF Published
<1>12. \A n \in Emission : owed[n] \subseteq owed'[n]
  BY <1>4, <1>5
<1> QED BY <1>1, <1>2, <1>7, <1>8, <1>9, <1>10, <1>11, <1>12 DEF k

LEMMA SpeechTyped ==
    ASSUME SpeechInv, EventsInv, [Next]_vars
    PROVE  SpeechInv'
<1>1. CASE UNCHANGED speechVars
  BY <1>1 DEF SpeechInv, speechVars
<1>2. CASE SpeechRunner
  <2>1. /\ speechTaken < Len(speechSignals) /\ speechTaken' = speechTaken + 1 /\ UNCHANGED speechSignals
        /\ speechResult' = [speechResult EXCEPT ![speechTaken + 1] = "alive"]
    BY <1>2 DEF SpeechRunner, Speech!TakeAndBegin, Speech!Take, Speech!Begin
  <2>2. \A n \in 1..MaxVoice : n > speechTaken + 1 => n > speechTaken /\ n # speechTaken + 1
    BY Bounds DEF SpeechInv
  <2>3. /\ speechResult' \in [1..MaxVoice -> {"none", "alive", "ok"}]
        /\ \A n \in 1..MaxVoice : n > speechTaken + 1 => speechResult'[n] = "none"
    BY <2>1, <2>2 DEF SpeechInv
  <2>4. speechTaken' \in Nat /\ speechTaken' <= Len(speechSignals')
    BY <2>1 DEF SpeechInv
  <2> QED BY <2>1, <2>3, <2>4 DEF SpeechInv
<1>3. ASSUME NEW n \in 1..MaxVoice, SpeechStep(n) PROVE SpeechInv'
  <2>1. /\ UNCHANGED <<speechSignals, speechTaken>> /\ speechResult[n] = "alive"
        /\ \/ UNCHANGED speechResult
           \/ /\ \E h : speechResult' = [speechResult EXCEPT ![n] = h]
              /\ speechResult'[n] = "ok"
    BY <1>3 DEF SpeechStep, SpeechReturns, Speech!RoutineEnds, Speech!Alive
  <2>2. \/ UNCHANGED speechResult
        \/ speechResult' = [speechResult EXCEPT ![n] = "ok"]
    BY <2>1 DEF SpeechInv
  <2> QED BY <2>1, <2>2 DEF SpeechInv
<1>4. ASSUME NEW n \in Emission, Deliver(n) PROVE SpeechInv'
  <2>1. n <= Len(events)
    BY <1>4 DEF Deliver, PS!Deliver, EventsInv
  <2>2. events[n].flag \in BOOLEAN
    <3>1. events[n] \in Event
      BY <2>1, Bounds DEF EventsInv, Emission
    <3> QED BY <3>1 DEF Event
  <2>3. CASE UNCHANGED speechVars
    BY <1>1, <2>3
  <2>4. CASE speechSignals' = Append(speechSignals, events[n].flag) /\ Speech!Accept
    <3>1. UNCHANGED <<speechTaken, speechResult>>
      BY <2>4 DEF Speech!Accept
    <3>2. speechSignals' \in Seq(BOOLEAN) /\ Len(speechSignals') = Len(speechSignals) + 1
      BY <2>2, <2>4 DEF SpeechInv
    <3> QED BY <3>1, <3>2 DEF SpeechInv
  <2> QED BY <1>4, <2>3, <2>4 DEF Deliver
<1> QED
  BY <1>1, <1>2, <1>3, <1>4
     DEF Next, vars, Voice, RemindRunner, RemindStep, LlmEnds

LEMMA RemindTyped ==
    ASSUME Known, RemindInv, [Next]_vars
    PROVE  RemindInv'
<1> USE DEF Known
<1>1. CASE UNCHANGED <<remindTaken, remindResult, remindAsked, remindAt, reminded>>
  BY <1>1 DEF RemindInv
<1>2. CASE RemindRunner
  <2>1. /\ UNCHANGED <<remindSignals, remindAt, reminded>> /\ Emission = Reminding!Signal
    BY <1>2 DEF RemindRunner, Emission, Reminding!Signal, stateVars
  <2>2. \A n \in Reminding!Alive : n \in Emission /\ n \in 1..remindTaken
    BY <2>1, Bounds DEF LastInv, Reminding!Alive, Emission
  <2>3. CASE Reminding!TakeAndBegin
    <3>1. remindTaken' = remindTaken + 1 /\ UNCHANGED remindAsked
          /\ remindResult' = [remindResult EXCEPT ![remindTaken + 1] = "alive"]
      BY <2>3 DEF Reminding!TakeAndBegin, Reminding!Take, Reminding!Begin
    <3>2. \A n \in Emission : remindResult'[n] = "none" => remindResult[n] = "none"
      BY <3>1 DEF LastInv
    <3>3. 1..(remindTaken - 1) \subseteq 1..(remindTaken' - 1)
      BY <3>1 DEF LastInv
    <3> QED BY <2>1, <3>1, <3>2, <3>3 DEF RemindInv
  <2>4. CASE Reminding!TakeAside
    <3>1. /\ remindTaken' = remindTaken + 1 /\ UNCHANGED remindResult
          /\ remindAsked' = remindAsked \cup Reminding!Alive
      BY <2>4 DEF Reminding!TakeAside, Reminding!Take, Reminding!AskAll
    <3>2. 1..(remindTaken - 1) \subseteq 1..(remindTaken' - 1) /\ remindTaken' - 1 = remindTaken
      BY <3>1 DEF LastInv
    <3> QED BY <2>1, <2>2, <3>1, <3>2 DEF RemindInv
  <2>5. CASE Reminding!BeginAside
    <3>1. /\ UNCHANGED <<remindTaken, remindAsked>>
          /\ remindResult' = [remindResult EXCEPT ![remindTaken] = "alive"]
      BY <2>5 DEF Reminding!BeginAside, Reminding!Begin
    <3>2. \A n \in Emission : remindResult'[n] = "none" => remindResult[n] = "none"
      BY <3>1 DEF LastInv
    <3> QED BY <2>1, <3>1, <3>2 DEF RemindInv
  <2> QED BY <1>2, <2>3, <2>4, <2>5 DEF RemindRunner
<1>3. ASSUME NEW n \in Emission, NEW how \in {"ok", "error", "cancelled"}, RemindEnds(n, how),
             UNCHANGED reminded
      PROVE  RemindInv'
  <2>1. /\ UNCHANGED <<remindAt, remindTaken, remindAsked>>
        /\ \E h : remindResult' = [remindResult EXCEPT ![n] = h]
        /\ remindResult'[n] = how
    BY <1>3 DEF RemindEnds, Reminding!RoutineEnds
  <2>2. \A m \in Emission : remindResult'[m] = "none" => remindResult[m] = "none"
    BY <2>1 DEF LastInv
  <2> QED BY <1>3, <2>1, <2>2 DEF RemindInv
<1>4. ASSUME NEW n \in Emission, NEW from \in Step, NEW to \in Step, RemindMoves(n, from, to),
             reminded' \subseteq reminded \cup {n}
      PROVE  RemindInv'
  <2>1. UNCHANGED <<remindTaken, remindResult, remindAsked>> /\ remindResult[n] = "alive"
    BY <1>4 DEF RemindMoves, Reminding!Alive
  <2> QED BY <1>4, <2>1, MovesOne DEF RemindInv, LastInv
<1>5. ASSUME NEW n \in Emission, RemindStep(n) PROVE RemindInv'
  <2>1. CASE CallLlm(n)
    BY <1>3, <1>4, <2>1 DEF CallLlm, Step
  <2>2. CASE UNCHANGED reminded /\ (RemindBegins(n) \/ Wake(n) \/ RemindCancelled(n))
    BY <1>3, <1>4, <2>2 DEF RemindBegins, Wake, RemindCancelled, Step
  <2> QED BY <1>5, <2>1, <2>2 DEF RemindStep
<1>6. ASSUME NEW n \in Emission, LlmEnds(n) PROVE RemindInv'
  BY <1>3, <1>6 DEF LlmEnds, StreamEnds, stateVars
<1>7. ASSUME NEW n \in Emission, Deliver(n) PROVE RemindInv'
  BY <1>1, <1>7 DEF Deliver, Reminding!Accept, remindVars, stateVars
<1>8. ASSUME NEW n \in 1..MaxVoice, SpeechStep(n) PROVE RemindInv'
  BY <1>1, <1>8 DEF SpeechStep, remindVars, stateVars
<1> QED
  BY <1>1, <1>2, <1>5, <1>6, <1>7, <1>8
     DEF Next, vars, Voice, SpeechRunner, remindVars, stateVars

LEMMA CountKept ==
    ASSUME CountInv, UNCHANGED <<events, owed, voice, speechSignals, speechResult, remindSignals>>
    PROVE  CountInv'
BY DEF CountInv, Returned, Published, Heard

\* An event that nobody publishes for on_speech_status_changed but the session.
LEMMA PublishKeepsCount ==
    ASSUME EventsInv, CountInv, NEW schema \in {Create, Remind}, NEW flag \in BOOLEAN,
           Publish(schema, flag), UNCHANGED <<speechSignals, remindSignals>>,
           \/ voice' = voice + 1 /\ voice < MaxVoice /\ UNCHANGED speechResult
           \/ /\ schema = Remind /\ UNCHANGED voice
              /\ Cardinality(Returned') = Cardinality(Returned) + 1
    PROVE  CountInv'
<1>1. \A n \in 1..Len(events) : owed[n] \subseteq {<<events[n].schema, events[n].schema>>}
  BY DEF CountInv
<1>2. /\ Len(events') = Len(events) + 1 /\ Len(events) \in Nat /\ Len(events') \in Emission
      /\ \A n \in 1..Len(events) : events'[n] = events[n] /\ owed'[n] = owed[n]
      /\ events'[Len(events) + 1].schema = schema
      /\ owed'[Len(events) + 1] = {<<schema, schema>>}
      /\ \A h \in {Create, Remind} : Heard(h)' = Heard(h)
      /\ Published(schema)' = Published(schema) \cup {Len(events) + 1}
      /\ Len(events) + 1 \notin Published(schema)
      /\ \A h \in {Create, Remind} : h # schema => Published(h)' = Published(h)
  <2>1. Len(events) \in Nat
    BY DEF EventsInv
  <2> QED BY <1>1, <2>1, PublishCounts
<1>3. \A n \in 1..Len(events') : owed'[n] \subseteq {<<events'[n].schema, events'[n].schema>>}
  <2>1. ASSUME NEW n \in 1..Len(events')
        PROVE  n \in 1..Len(events) \/ n = Len(events) + 1
    BY <1>2, <2>1
  <2> QED BY <1>1, <1>2, <2>1
<1>4. /\ voice' \in 0..MaxVoice
      /\ Len(events') = voice' + Cardinality(Returned')
      /\ Len(events') <= 2 * MaxVoice
  <2>1. voice \in 0..MaxVoice /\ Len(events) = voice + Cardinality(Returned)
    BY DEF CountInv
  <2>2. UNCHANGED speechResult => Returned' = Returned
    BY DEF Returned
  <2> QED BY <1>2, <2>1, <2>2, ReturnedFinite, Bounds DEF Emission
<1>5. Cardinality(Published(Create)') <= voice'
  <2>1. Cardinality(Published(Create)) <= voice /\ Cardinality(Published(Create)) \in Nat /\ voice \in Nat
        /\ IsFiniteSet(Published(Create))
    BY EventsFinite DEF CountInv
  <2>2. CASE schema = Create
    <3>1. Cardinality(Published(Create)') = Cardinality(Published(Create)) + 1
      BY <1>2, <2>1, <2>2, FS_AddElement
    <3>2. voice' = voice + 1
      BY <2>2, Schemas
    <3> QED BY <2>1, <3>1, <3>2
  <2>3. CASE schema = Remind
    <3>1. Published(Create)' = Published(Create)
      BY <1>2, <2>3, Schemas DEF Published
    <3>2. voice' \in Nat /\ voice' >= voice
      BY <2>1
    <3> QED BY <2>1, <3>1, <3>2
  <2> QED BY <2>2, <2>3
<1>6. /\ Len(speechSignals') = Cardinality(Heard(Create)')
      /\ Len(remindSignals') = Cardinality(Heard(Remind)')
  BY <1>2 DEF CountInv
<1> QED BY <1>3, <1>4, <1>5, <1>6 DEF CountInv

LEMMA DeliverKeepsCount ==
    ASSUME EventsInv, SpeechInv, LastInv, CountInv, NEW n \in Emission, Deliver(n)
    PROVE  CountInv'
<1>1. PICK s \in owed[n] :
          /\ owed' = [owed EXCEPT ![n] = @ \ {s}]
          /\ \/ /\ s[1] = Create /\ speechSignals' = Append(speechSignals, events[n].flag)
                /\ Speech!Accept /\ UNCHANGED remindVars
             \/ /\ s[1] = Remind /\ remindSignals' = Append(remindSignals, events[n].flag)
                /\ Reminding!Accept /\ UNCHANGED speechVars
  BY DEF Deliver, PS!Deliver
<1> DEFINE h == events[n].schema
<1>2. n \in 1..Len(events) /\ Len(events) \in Nat /\ UNCHANGED <<events, voice>>
  <2>1. n <= Len(events) /\ Len(events) \in Nat
    BY DEF Deliver, PS!Deliver, EventsInv
  <2> QED BY <2>1, Bounds DEF Emission, Deliver
<1>3. s = <<h, h>> /\ owed[n] = {s} /\ h \in {Create, Remind}
  <2>1. owed[n] \subseteq {<<h, h>>}
    BY <1>2 DEF CountInv
  <2>2. events[n] \in Event
    BY <1>2 DEF EventsInv
  <2> QED BY <2>1, <2>2 DEF Event
<1>4. owed'[n] = {} /\ \A m \in Emission : m # n => owed'[m] = owed[m]
  BY <1>1, <1>3 DEF EventsInv
<1>5. 1..Len(events) \subseteq Emission
  <2>1. Len(events) <= 2 * MaxVoice
    BY DEF CountInv
  <2> QED BY <1>2, <2>1, Bounds DEF Emission
<1>6. Published(Create)' = Published(Create) /\ Published(Remind)' = Published(Remind)
  BY <1>2 DEF Published
<1>7. /\ Heard(h)' = Heard(h) \cup {n} /\ n \notin Heard(h)
      /\ \A g \in {Create, Remind} : g # h => Heard(g)' = Heard(g)
  BY <1>2, <1>3, <1>4, <1>5, <1>6 DEF Heard, Published
<1>8. Cardinality(Heard(h)') = Cardinality(Heard(h)) + 1
  BY <1>3, <1>7, EventsFinite, FS_AddElement
<1>9. UNCHANGED speechResult
  BY <1>1 DEF Speech!Accept, speechVars
<1>10. Returned' = Returned
  BY <1>9 DEF Returned
<1>11. \A m \in 1..Len(events) : owed'[m] \subseteq {<<events[m].schema, events[m].schema>>}
  BY <1>4, <1>5 DEF CountInv
<1>12. CASE h = Create
  <2>1. speechSignals' = Append(speechSignals, events[n].flag) /\ UNCHANGED remindSignals
    BY <1>1, <1>3, <1>12, Schemas DEF remindVars
  <2>2. Len(speechSignals') = Len(speechSignals) + 1
    BY <2>1 DEF SpeechInv
  <2>3. Cardinality(Heard(Create)') = Len(speechSignals') /\ Cardinality(Heard(Remind)') = Len(remindSignals')
    <3>1. Heard(Remind)' = Heard(Remind)
      BY <1>7, <1>12, Schemas DEF Heard, Published
    <3>2. Cardinality(Heard(Create)') = Cardinality(Heard(Create)) + 1
      BY <1>2, <1>8, <1>12 DEF Heard, Published
    <3> QED BY <2>1, <2>2, <3>1, <3>2 DEF CountInv
  <2> QED BY <1>2, <1>6, <1>10, <1>11, <2>3 DEF CountInv
<1>13. CASE h = Remind
  <2>1. remindSignals' = Append(remindSignals, events[n].flag) /\ UNCHANGED speechSignals
    BY <1>1, <1>3, <1>13, Schemas DEF speechVars
  <2>2. Len(remindSignals') = Len(remindSignals) + 1
    BY <2>1 DEF LastInv
  <2>3. Cardinality(Heard(Create)') = Len(speechSignals') /\ Cardinality(Heard(Remind)') = Len(remindSignals')
    <3>1. Heard(Create)' = Heard(Create)
      BY <1>7, <1>13, Schemas DEF Heard, Published
    <3>2. Cardinality(Heard(Remind)') = Cardinality(Heard(Remind)) + 1
      BY <1>2, <1>8, <1>13 DEF Heard, Published
    <3> QED BY <2>1, <2>2, <3>1, <3>2 DEF CountInv
  <2> QED BY <1>2, <1>6, <1>10, <1>11, <2>3 DEF CountInv
<1> QED BY <1>3, <1>12, <1>13

LEMMA CountStep ==
    ASSUME EventsInv, SpeechInv, LastInv, CountInv, [Next]_vars
    PROVE  CountInv'
<1>1. CASE Voice
  <2>1. PICK e \in VoiceSignals : Publish(e.schema, e.flag)
    BY <1>1 DEF Voice
  <2>2. /\ e.schema \in {Create, Remind} /\ (e.flag = TRUE \/ e.flag = FALSE)
        /\ voice' = voice + 1 /\ voice < MaxVoice
        /\ UNCHANGED <<speechSignals, remindSignals, speechResult>>
    <3>1. e.schema \in {Create, Remind}
      BY DEF VoiceSignals
    <3>2. CASE e = [schema |-> Create, flag |-> FALSE]
      BY <1>1, <3>1, <3>2 DEF Voice, speechVars, remindVars
    <3>3. CASE e = [schema |-> Create, flag |-> TRUE]
      BY <1>1, <3>1, <3>3 DEF Voice, speechVars, remindVars
    <3>4. CASE e = [schema |-> Remind, flag |-> FALSE]
      BY <1>1, <3>1, <3>4 DEF Voice, speechVars, remindVars
    <3> QED BY <3>2, <3>3, <3>4 DEF VoiceSignals
  <2>3. e.flag \in BOOLEAN
    BY <2>2
  <2>4. \A schema \in {Create, Remind}, flag \in BOOLEAN : Publish(schema, flag) => CountInv'
    BY <2>2, PublishKeepsCount
  <2> QED BY <2>1, <2>2, <2>3, <2>4, Zenon
<1>2. CASE SpeechRunner
  <2>1. /\ speechResult' = [speechResult EXCEPT ![speechTaken + 1] = "alive"]
        /\ UNCHANGED <<events, owed, voice, speechSignals, remindSignals>>
    BY <1>2 DEF SpeechRunner, Speech!TakeAndBegin, Speech!Begin, remindVars
  <2>2. \A n \in 1..MaxVoice : n = speechTaken + 1 => speechResult[n] = "none"
    BY Bounds DEF SpeechInv
  <2>3. Returned' = Returned
    BY <2>1, <2>2 DEF SpeechInv, Returned
  <2>4. /\ Published(Create)' = Published(Create)
        /\ Heard(Create)' = Heard(Create) /\ Heard(Remind)' = Heard(Remind)
    BY <2>1 DEF Published, Heard
  <2> QED BY <2>1, <2>3, <2>4 DEF CountInv
<1>3. ASSUME NEW n \in 1..MaxVoice, SpeechStep(n) PROVE CountInv'
  <2>1. UNCHANGED <<voice, speechSignals, remindSignals>> /\ speechResult[n] = "alive"
    BY <1>3 DEF SpeechStep, SpeechReturns, Speech!RoutineEnds, Speech!Alive, remindVars
  <2>2. CASE UNCHANGED <<events, owed, speechResult>>
    BY <2>1, <2>2, CountKept
  <2>3. CASE Publish(Remind, TRUE) /\ SpeechReturns(n)
    <3>1. /\ \E how : speechResult' = [speechResult EXCEPT ![n] = how]
          /\ speechResult'[n] = "ok"
      BY <2>3 DEF SpeechReturns, Speech!RoutineEnds
    <3>2. Returned' = Returned \cup {n} /\ n \notin Returned
      BY <2>1, <3>1 DEF SpeechInv, Returned
    <3>3. Cardinality(Returned') = Cardinality(Returned) + 1
      BY <3>2, ReturnedFinite, FS_AddElement
    <3> QED BY <2>1, <2>3, <3>3, PublishKeepsCount
  <2> QED BY <1>3, <2>2, <2>3 DEF SpeechStep
<1>4. CASE RemindRunner \/ \E n \in Emission : RemindStep(n) \/ LlmEnds(n)
  <2>1. UNCHANGED remindSignals
    BY <1>4 DEF RemindRunner, RemindStep, LlmEnds, RemindBegins, Wake, CallLlm, RemindCancelled,
                StreamEnds, RemindMoves, RemindEnds
  <2> QED BY <1>4, <2>1, CountKept DEF RemindRunner, RemindStep, LlmEnds, speechVars
<1>5. CASE UNCHANGED vars
  BY <1>5, CountKept DEF vars, speechVars, remindVars
<1> QED BY <1>1, <1>2, <1>3, <1>4, <1>5, DeliverKeepsCount DEF Next

LEMMA CountsStay == Spec => [](Known /\ SpeechInv /\ RemindInv /\ CountInv)
<1>1. Init => SpeechInv /\ RemindInv /\ CountInv
  <2> SUFFICES ASSUME Init PROVE SpeechInv /\ RemindInv /\ CountInv
    OBVIOUS
  <2>1. /\ events = <<>> /\ voice = 0 /\ speechSignals = <<>> /\ speechTaken = 0
        /\ speechResult = [n \in 1..MaxVoice |-> "none"]
        /\ remindSignals = <<>> /\ remindTaken = 0 /\ remindAsked = {} /\ reminded = {}
        /\ remindAt = [n \in Emission |-> "start"]
    BY DEF Init, Speech!Init, Reminding!Init, Speech!Signal
  <2>2. SpeechInv /\ RemindInv
    BY <2>1 DEF SpeechInv, RemindInv
  <2>3. Returned = {} /\ Published(Create) = {} /\ Heard(Create) = {} /\ Heard(Remind) = {}
    BY <2>1 DEF Returned, Published, Heard
  <2>4. Cardinality({}) = 0 /\ Len(<<>>) = 0
    BY FS_EmptySet
  <2> QED BY <2>1, <2>2, <2>3, <2>4, Bounds DEF CountInv
<1>2. Known /\ SpeechInv /\ RemindInv /\ CountInv /\ [Next]_vars
        => SpeechInv' /\ RemindInv' /\ CountInv'
  BY SpeechTyped, RemindTyped, CountStep DEF Known
<1>3. Spec => []Known
  <2>1. MarkInv => Shape
    BY DEF MarkInv
  <2> QED BY <2>1, MarksCounted, EventsStay, LastStays, PTL DEF Known
<1> QED BY <1>1, <1>2, <1>3, PTL DEF Spec

LEMMA SpeechBounded ==
    ASSUME SpeechInv, EventsInv, CountInv
    PROVE  /\ speechTaken \in Nat /\ Len(speechSignals) \in Nat
           /\ speechTaken <= Len(speechSignals) /\ Len(speechSignals) <= Cardinality(Published(Create))
           /\ Cardinality(Published(Create)) <= voice
           /\ speechTaken <= voice /\ voice <= MaxVoice
           /\ voice \in Nat /\ Returned \subseteq 1..speechTaken
<1>1. /\ Len(speechSignals) = Cardinality(Heard(Create)) /\ Cardinality(Published(Create)) <= voice
      /\ Cardinality(Heard(Create)) <= Cardinality(Published(Create))
      /\ Cardinality(Heard(Create)) \in Nat /\ Cardinality(Published(Create)) \in Nat
      /\ voice \in Nat /\ voice <= MaxVoice
  BY EventsFinite, Bounds DEF CountInv
<1>2. Returned \subseteq 1..speechTaken
  BY Bounds DEF SpeechInv, Returned
<1>3. speechTaken \in Nat /\ speechTaken <= Len(speechSignals)
  BY DEF SpeechInv
<1> QED BY <1>1, <1>2, <1>3, Bounds

\* Type correctness, for any number of voice events; with it, that no more signals are
\* accepted than events were published.
THEOREM TypeCorrect == Spec => []TypeOK
<1>1. Known /\ SpeechInv /\ RemindInv /\ CountInv => TypeOK
  <2> SUFFICES ASSUME Known, SpeechInv, RemindInv, CountInv PROVE TypeOK
    OBVIOUS
  <2> USE DEF Known
  <2>1. /\ events \in Seq(Event) /\ Len(events) \in Emission \cup {0} /\ voice \in 0..MaxVoice
    BY Bounds DEF EventsInv, CountInv, Emission
  <2>2. owed \in [Emission -> SUBSET {<<Create, Create>>, <<Remind, Remind>>}]
    <3>1. ASSUME NEW n \in Emission
          PROVE  owed[n] \subseteq {<<Create, Create>>, <<Remind, Remind>>}
      <4>1. CASE n <= Len(events)
        <5>1. n \in 1..Len(events) /\ events[n] \in Event
          BY <2>1, <4>1, Bounds DEF Emission
        <5>2. owed[n] \subseteq {<<events[n].schema, events[n].schema>>}
          BY <5>1 DEF CountInv
        <5> QED BY <5>1, <5>2 DEF Event
      <4>2. CASE ~(n <= Len(events))
        BY <4>2 DEF EventsInv
      <4> QED BY <4>1, <4>2
    <3>2. owed = [n \in Emission |-> owed[n]]
      BY DEF EventsInv
    <3> QED BY <3>1, <3>2
  <2>3. Len(speechSignals) + Len(remindSignals) <= Len(events)
    <3>1. /\ IsFiniteSet(Heard(Create)) /\ IsFiniteSet(Heard(Remind))
          /\ Cardinality(Heard(Create)) \in Nat /\ Cardinality(Heard(Remind)) \in Nat
      BY EventsFinite
    <3>2. Heard(Create) \cap Heard(Remind) = {}
      BY Schemas DEF Heard, Published
    <3>3. Cardinality(Heard(Create) \cup Heard(Remind)) = Cardinality(Heard(Create)) + Cardinality(Heard(Remind))
      <4>1. Cardinality(Heard(Create) \cap Heard(Remind)) = 0
        BY <3>2, FS_EmptySet
      <4>2. Cardinality(Heard(Create) \cup Heard(Remind))
              = Cardinality(Heard(Create)) + Cardinality(Heard(Remind)) - Cardinality(Heard(Create) \cap Heard(Remind))
        BY <3>1, FS_Union
      <4> QED BY <3>1, <4>1, <4>2
    <3>4. Len(events) \in Nat /\ IsFiniteSet(1..Len(events)) /\ Cardinality(1..Len(events)) = Len(events)
      <4>1. Len(events) \in Nat
        BY <2>1
      <4> QED BY <4>1, FS_Interval
    <3>5. Heard(Create) \cup Heard(Remind) \subseteq 1..Len(events)
      BY DEF Heard, Published
    <3>6. Cardinality(Heard(Create) \cup Heard(Remind)) <= Len(events)
      BY <3>4, <3>5, FS_Subset
    <3> QED BY <3>3, <3>6 DEF CountInv
  <2>4. /\ speechSignals \in Seq(BOOLEAN) /\ remindSignals \in Seq(BOOLEAN)
        /\ speechTaken \in 0..Len(speechSignals) /\ remindTaken \in 0..Len(remindSignals)
    BY DEF SpeechInv, LastInv
  <2>5. /\ \A n \in Emission : remindResult[n] = "none" => remindAt[n] = "start"
        /\ remindAsked \subseteq Emission /\ hasReminded \in BOOLEAN
        /\ resets \subseteq 1..MaxVoice /\ reminded \subseteq Emission
    BY DEF RemindInv, Shape
  <2> QED BY <2>1, <2>2, <2>3, <2>4, <2>5 DEF TypeOK
<1> QED BY <1>1, CountsStay, PTL

\* No bound is in anybody's way: a routine may always publish and a delivery always be
\* accepted, so that what is shown of MaxVoice voice events is shown of all they lead to.
BoundsSuffice ==
    /\ voice < MaxVoice \/ Speech!Alive # {} => Len(events) < 2 * MaxVoice
    /\ \A n \in Emission :
          /\ <<Create, Create>> \in owed[n] => Len(speechSignals) < MaxVoice
          /\ <<Remind, Remind>> \in owed[n] => Len(remindSignals) < 2 * MaxVoice

THEOREM NothingRefused == Spec => []BoundsSuffice
<1>1. Known /\ SpeechInv /\ RemindInv /\ CountInv => BoundsSuffice
  <2> SUFFICES ASSUME Known, SpeechInv, RemindInv, CountInv PROVE BoundsSuffice
    OBVIOUS
  <2> USE DEF Known
  <2>1. /\ Len(events) = voice + Cardinality(Returned) /\ Len(events) \in Nat
        /\ Cardinality(Returned) \in Nat
    BY ReturnedFinite DEF CountInv, EventsInv
  <2>2. IsFiniteSet(1..speechTaken) /\ Cardinality(1..speechTaken) = speechTaken
    BY SpeechBounded, FS_Interval
  <2>3. ASSUME voice < MaxVoice PROVE Len(events) < 2 * MaxVoice
    <3>1. Cardinality(Returned) <= speechTaken
      BY <2>2, SpeechBounded, FS_Subset
    <3> QED BY <2>1, <2>3, <3>1, SpeechBounded, Bounds
  <2>4. ASSUME Speech!Alive # {} PROVE Len(events) < 2 * MaxVoice
    <3>1. PICK k \in 1..MaxVoice : speechResult[k] = "alive"
      BY <2>4 DEF Speech!Alive, Speech!Signal
    <3>2. k \in 1..speechTaken /\ Returned \subseteq (1..speechTaken) \ {k}
      BY <3>1, SpeechBounded, Bounds DEF SpeechInv, Returned
    <3>3. Cardinality((1..speechTaken) \ {k}) = speechTaken - 1 /\ IsFiniteSet((1..speechTaken) \ {k})
      BY <2>2, <3>2, FS_RemoveElement
    <3>4. Cardinality(Returned) <= speechTaken - 1
      <4> DEFINE Others == (1..speechTaken) \ {k}
      <4>1. Returned \subseteq Others /\ Cardinality(Others) = speechTaken - 1 /\ IsFiniteSet(Others)
        BY <3>2, <3>3
      <4> HIDE DEF Others
      <4>2. Cardinality(Returned) <= Cardinality(Others)
        BY <4>1, FS_Subset
      <4> QED BY <4>1, <4>2
    <3> QED BY <2>1, <3>4, SpeechBounded, Bounds
  <2>5. ASSUME NEW n \in Emission, NEW h \in {Create, Remind}, <<h, h>> \in owed[n]
        PROVE  Cardinality(Heard(h)) < Cardinality(Published(h))
    <3>1. n \in 1..Len(events)
      BY <2>1, <2>5, Bounds DEF EventsInv, Emission
    <3>2. n \in Published(h)
      <4>1. <<h, h>> = <<events[n].schema, events[n].schema>>
        BY <2>5, <3>1 DEF CountInv
      <4>2. h = events[n].schema
        BY <4>1
      <4> QED BY <3>1, <4>2 DEF Published
    <3>3. Heard(h) \subseteq Published(h) \ {n}
      BY <2>5 DEF Heard
    <3>4. /\ IsFiniteSet(Published(h) \ {n})
          /\ Cardinality(Published(h) \ {n}) = Cardinality(Published(h)) - 1
      BY <3>2, EventsFinite, FS_RemoveElement
    <3>5. Cardinality(Heard(h)) <= Cardinality(Published(h)) - 1
      BY <3>3, <3>4, FS_Subset
    <3> QED BY <3>5, EventsFinite
  <2>6. ASSUME NEW n \in Emission
        PROVE  /\ <<Create, Create>> \in owed[n] => Len(speechSignals) < MaxVoice
               /\ <<Remind, Remind>> \in owed[n] => Len(remindSignals) < 2 * MaxVoice
    <3>1. /\ Len(speechSignals) = Cardinality(Heard(Create)) /\ Len(remindSignals) = Cardinality(Heard(Remind))
          /\ Len(events) <= 2 * MaxVoice
      BY DEF CountInv
    <3>2. /\ Cardinality(Heard(Create)) \in Nat /\ Cardinality(Heard(Remind)) \in Nat
          /\ Cardinality(Published(Create)) \in Nat /\ Cardinality(Published(Remind)) \in Nat
          /\ Cardinality(Published(Remind)) <= Len(events)
      BY EventsFinite
    <3>3. /\ <<Create, Create>> \in owed[n] => Cardinality(Heard(Create)) < Cardinality(Published(Create))
          /\ <<Remind, Remind>> \in owed[n] => Cardinality(Heard(Remind)) < Cardinality(Published(Remind))
      BY <2>5
    <3> QED BY <2>1, <3>1, <3>2, <3>3, SpeechBounded, Bounds
  <2> QED BY <2>3, <2>4, <2>6 DEF BoundsSuffice
<1> QED BY <1>1, CountsStay, PTL

-----------------------------------------------------------------------------
(* What is left when nothing is under way: the state and the last signal   *)
(* agree, however resets and routines were interleaved.                    *)

\* Every event has been heard, every signal taken, and every routine has ended.
AtRest ==
    /\ \A n \in Emission : owed[n] = {}
    /\ speechTaken = Len(speechSignals) /\ Speech!Alive = {}
    /\ remindTaken = Len(remindSignals) /\ Reminding!Alive = {} /\ ~Reminding!Awaited

RemindedAtRest ==
    AtRest /\ remindSignals # <<>> /\ remindSignals[Len(remindSignals)] => hasReminded

\* Another signal for on_remind_user is under way, or has no routine yet.
Coming ==
    \/ \E n \in Emission : <<Remind, Remind>> \in owed[n]
    \/ \E n \in Speech!Alive : speechAt[n] = "mutating"
    \/ remindTaken < Len(remindSignals)
    \/ Reminding!Awaited

\* The routine of the signal taken last was to remind, and has looked at the state.
Looked == /\ remindTaken > 0 /\ remindSignals[remindTaken]
          /\ \/ remindAt[remindTaken] \in {"mutating", "streaming"}
             \/ remindResult[remindTaken] \notin {"none", "alive"}

\* A reset made after that look is made good by another signal.
ResetInv == Looked /\ ~hasReminded => Coming

LEMMA ResetKept ==
    ASSUME ResetInv, Coming => Coming', UNCHANGED <<remindVars, hasReminded>>
    PROVE  ResetInv'
BY DEF ResetInv, Looked, remindVars

LEMMA PublishComing ==
    ASSUME EventsInv, CountInv, NEW schema \in {Create, Remind}, NEW flag \in BOOLEAN,
           Publish(schema, flag)
    PROVE  /\ \A n \in Emission : owed[n] \subseteq owed'[n]
           /\ schema = Remind => \E n \in Emission : <<Remind, Remind>> \in owed'[n]
<1>1. /\ Len(events') \in Emission /\ Len(events') = Len(events) + 1
      /\ \A n \in Emission : owed[n] \subseteq owed'[n]
      /\ owed'[Len(events) + 1] = {<<schema, schema>>}
  BY PublishCounts DEF CountInv
<1> QED BY <1>1

LEMMA SpeechKeepsReset ==
    ASSUME Known, CountInv, ResetInv, NEW n \in 1..MaxVoice, SpeechStep(n)
    PROVE  ResetInv'
<1>1. UNCHANGED remindVars /\ speechResult[n] = "alive" /\ Speech!Signal = 1..MaxVoice
  BY DEF SpeechStep, Speech!Alive, Speech!Signal
<1>2. CASE speechAt' = [speechAt EXCEPT ![n] = "mutating"] /\ UNCHANGED speechResult
  <2>1. speechAt'[n] = "mutating" /\ n \in Speech!Alive'
    BY <1>1, <1>2 DEF Known, Shape, Speech!Alive
  <2>2. Coming'
    BY <2>1 DEF Coming
  <2> QED BY <2>2 DEF ResetInv
<1>3. CASE Publish(Remind, TRUE)
  <2>1. Coming'
    BY <1>3, PublishComing DEF Known, Coming
  <2> QED BY <2>1 DEF ResetInv
<1> QED BY <1>2, <1>3 DEF SpeechStep

LEMMA DeliverKeepsReset ==
    ASSUME Known, ResetInv, NEW n \in Emission, Deliver(n)
    PROVE  ResetInv'
<1>1. PICK s \in owed[n] :
          /\ owed' = [owed EXCEPT ![n] = @ \ {s}]
          /\ \/ s[1] = Create /\ Speech!Accept /\ UNCHANGED <<speechAt, remindVars>>
             \/ /\ remindSignals' = Append(remindSignals, events[n].flag)
                /\ Reminding!Accept
  BY DEF Deliver, PS!Deliver
<1>2. CASE s[1] = Create /\ Speech!Accept /\ UNCHANGED <<speechAt, remindVars>>
  <2>1. s # <<Remind, Remind>>
    <3>1. <<Remind, Remind>>[1] = Remind
      OBVIOUS
    <3>2. s[1] = Create /\ Create # Remind
      BY <1>2, Schemas
    <3> QED BY <3>1, <3>2
  <2>2. \A m \in Emission : <<Remind, Remind>> \in owed[m] => <<Remind, Remind>> \in owed'[m]
    BY <1>1, <2>1 DEF Known, EventsInv
  <2>3. UNCHANGED speechResult
    BY <1>2 DEF Speech!Accept
  <2>4. Speech!Alive' = Speech!Alive /\ Reminding!Awaited' = Reminding!Awaited
    BY <1>2, <2>3 DEF Speech!Alive, Reminding!Awaited, remindVars
  <2>5. UNCHANGED hasReminded
    BY DEF Deliver, stateVars
  <2> QED BY <1>2, <2>2, <2>4, <2>5, ResetKept DEF Coming, remindVars
<1>3. CASE remindSignals' = Append(remindSignals, events[n].flag) /\ Reminding!Accept
  <2>1. Len(remindSignals') = Len(remindSignals) + 1 /\ UNCHANGED remindTaken
    BY <1>3 DEF Known, LastInv, Reminding!Accept
  <2>2. remindTaken' < Len(remindSignals')
    BY <2>1 DEF Known, LastInv
  <2> QED BY <2>2 DEF ResetInv, Coming
<1> QED BY <1>1, <1>2, <1>3

LEMMA RemindBounded ==
    ASSUME Known, CountInv
    PROVE  /\ remindTaken \in Nat /\ Len(remindSignals) \in Nat
           /\ remindTaken <= Len(remindSignals) /\ Len(remindSignals) <= 2 * MaxVoice
           /\ \A n \in 1..Len(remindSignals) : n \in Emission
<1>1. /\ Len(remindSignals) = Cardinality(Heard(Remind)) /\ Len(events) <= 2 * MaxVoice
      /\ Cardinality(Heard(Remind)) <= Cardinality(Published(Remind))
      /\ Cardinality(Published(Remind)) <= Len(events)
      /\ Cardinality(Heard(Remind)) \in Nat /\ Cardinality(Published(Remind)) \in Nat
      /\ Len(events) \in Nat
  BY EventsFinite DEF Known, CountInv
<1>2. remindTaken \in Nat /\ remindTaken <= Len(remindSignals)
  BY DEF Known, LastInv
<1> QED BY <1>1, <1>2, Bounds DEF Emission

\* A signal that is taken has no routine yet, or one that has not begun.
LEMMA RunnerKeepsReset ==
    ASSUME Known, RemindInv, CountInv, ResetInv, RemindRunner
    PROVE  ResetInv'
<1> USE DEF Known
<1>1. /\ UNCHANGED <<remindSignals, remindAt>>
      /\ remindResult \in [Emission -> {"none", "alive", "ok", "error", "cancelled"}]
      /\ \A n \in Emission : remindResult[n] = "none" => remindAt[n] = "start"
      /\ \A n \in Emission : n > remindTaken => remindResult[n] = "none"
  BY DEF RemindRunner, LastInv, RemindInv
<1>2. CASE Reminding!TakeAside
  <2>1. /\ remindTaken' = remindTaken + 1 /\ remindTaken < Len(remindSignals)
        /\ UNCHANGED remindResult
    BY <1>2 DEF Reminding!TakeAside, Reminding!Take
  <2>2. remindTaken + 1 \in Emission /\ remindTaken' > 0 /\ remindTaken' > remindTaken
    BY <2>1, RemindBounded
  <2>3. Reminding!Awaited'
    BY <1>1, <2>1, <2>2 DEF Reminding!Awaited
  <2> QED BY <2>3 DEF ResetInv, Coming
<1>3. ASSUME NEW k \in Emission, remindTaken' = k, remindResult[k] = "none",
             remindResult' = [remindResult EXCEPT ![k] = "alive"]
      PROVE  ResetInv'
  <2>1. remindAt'[k] = "start" /\ remindResult'[k] = "alive"
    BY <1>1, <1>3
  <2>2. ~Looked'
    BY <1>3, <2>1 DEF Looked
  <2> QED BY <2>2 DEF ResetInv
<1>4. CASE Reminding!TakeAndBegin
  <2>1. /\ remindTaken' = remindTaken + 1 /\ remindTaken < Len(remindSignals)
        /\ remindResult' = [remindResult EXCEPT ![remindTaken + 1] = "alive"]
    BY <1>4 DEF Reminding!TakeAndBegin, Reminding!Take, Reminding!Begin
  <2>2. remindTaken + 1 \in Emission /\ remindTaken + 1 > remindTaken
    BY <2>1, RemindBounded
  <2> QED BY <1>1, <1>3, <2>1, <2>2
<1>5. CASE Reminding!BeginAside
  <2>1. /\ UNCHANGED remindTaken /\ remindTaken > 0 /\ remindResult[remindTaken] = "none"
        /\ remindResult' = [remindResult EXCEPT ![remindTaken] = "alive"]
    BY <1>5 DEF Reminding!BeginAside, Reminding!Begin, Reminding!Awaited
  <2>2. remindTaken \in Emission
    BY <2>1, RemindBounded
  <2> QED BY <1>3, <2>1, <2>2
<1> QED BY <1>2, <1>4, <1>5 DEF RemindRunner

\* A routine that is alive after a later signal was taken leaves that one awaited.
LEMMA EarlierMeansAwaited ==
    ASSUME Known, CountInv, NEW n \in Emission, remindResult[n] = "alive"
    PROVE  n = remindTaken \/ (n < remindTaken /\ Reminding!Awaited)
<1>1. n <= remindTaken /\ n > 0 /\ n \in Nat /\ remindTaken \in Nat
  BY RemindBounded, Bounds DEF Known, LastInv, Emission
<1>2. CASE n < remindTaken
  <2>1. remindTaken \in Emission
    BY <1>1, <1>2, RemindBounded
  <2>2. remindResult[remindTaken] = "none" /\ remindTaken > 0
    BY <1>1, <1>2, <2>1 DEF Known, LastInv
  <2> QED BY <1>2, <2>2 DEF Reminding!Awaited
<1> QED BY <1>1, <1>2

\* What stays as it is while a routine of on_remind_user takes a step.
LEMMA ComingKept ==
    ASSUME UNCHANGED <<owed, speechVars, remindSignals, remindTaken>>,
           Reminding!Awaited => Reminding!Awaited'
    PROVE  Coming => Coming'
BY DEF Coming, speechVars, Speech!Alive

LEMMA RoutineKeepsReset ==
    ASSUME Known, RemindInv, CountInv, ResetInv, NEW n \in Emission, RemindStep(n) \/ LlmEnds(n)
    PROVE  ResetInv'
<1> USE DEF Known
<1>1. UNCHANGED <<owed, speechVars, remindSignals, remindTaken, remindAsked>> /\ remindResult[n] = "alive"
  BY DEF RemindStep, LlmEnds, StreamEnds, RemindBegins, Wake, CallLlm, RemindCancelled, RemindMoves,
         RemindEnds, Reminding!RoutineEnds, Reminding!Alive
<1>2. \A m \in Emission : m # n => remindResult'[m] = remindResult[m] /\ remindAt'[m] = remindAt[m]
  BY DEF RemindStep, LlmEnds, StreamEnds, RemindBegins, Wake, CallLlm, RemindCancelled, RemindMoves,
         RemindEnds, Reminding!RoutineEnds, LastInv
<1>3. CASE n # remindTaken
  <2>1. Reminding!Awaited /\ remindTaken \in Emission
    BY <1>1, <1>3, EarlierMeansAwaited, RemindBounded DEF Reminding!Awaited
  <2>2. Reminding!Awaited'
    BY <1>1, <1>2, <1>3, <2>1 DEF Reminding!Awaited
  <2> QED BY <2>2 DEF ResetInv, Coming
<1>4. CASE n = remindTaken
  <2>1. ~Reminding!Awaited
    BY <1>1, <1>4 DEF Reminding!Awaited
  <2>2. Coming => Coming'
    BY <1>1, <2>1, ComingKept
  <2>3. CASE Looked /\ UNCHANGED hasReminded
    BY <2>2, <2>3 DEF ResetInv
  <2>4. CASE hasReminded'
    BY <2>4 DEF ResetInv
  <2>5. CASE ~remindSignals[n]
    BY <1>1, <1>4, <2>5 DEF ResetInv, Looked
  <2>6. CASE RemindMoves(n, "start", "sleeping")
    <3>1. remindAt'[n] = "sleeping" /\ remindResult'[n] = "alive"
      BY <1>1, <2>6, MovesOne DEF LastInv, Step, RemindMoves
    <3> QED BY <1>1, <1>4, <3>1 DEF ResetInv, Looked
  <2>7. ~RemindCancelled(n)
    <3>1. n \notin remindAsked
      BY <1>4, RemindBounded DEF RemindInv
    <3>2. ASSUME RemindEnds(n, "cancelled") PROVE FALSE
      <4>1. PICK how \in {"ok", "error", "chanclosed"} :
               remindResult' = [remindResult EXCEPT ![n] = how]
        BY <3>1, <3>2 DEF RemindEnds, Reminding!RoutineEnds
      <4>2. remindResult'[n] = "cancelled"
        BY <3>2 DEF RemindEnds
      <4> QED BY <4>1, <4>2 DEF LastInv
    <3> QED BY <3>2 DEF RemindCancelled
  <2>8. ASSUME remindAt[n] \in {"mutating", "streaming"} PROVE Looked
    <3>1. remindSignals[n] /\ n > 0
      BY <2>8, Bounds DEF LastInv, Emission
    <3> QED BY <1>4, <2>8, <3>1 DEF Looked
  <2>9. CASE RemindStep(n)
    <3>1. CASE RemindBegins(n)
      BY <2>5, <2>6, <3>1 DEF RemindBegins
    <3>2. CASE Wake(n)
      BY <2>4, <3>2 DEF Wake
    <3>3. CASE CallLlm(n) /\ UNCHANGED hasReminded
      BY <2>3, <2>8, <3>3 DEF CallLlm, RemindMoves
    <3> QED BY <2>7, <2>9, <3>1, <3>2, <3>3 DEF RemindStep
  <2>10. CASE LlmEnds(n)
    BY <2>3, <2>8, <2>10 DEF LlmEnds, StreamEnds, stateVars
  <2> QED BY <2>9, <2>10
<1> QED BY <1>3, <1>4

\* For any number of voice events: when nothing is under way and the last event that
\* on_remind_user heard asks it to remind, the reminder is marked as sent.  It is why
\* RemindedInTheEnd holds once everything under way has come to its end.
THEOREM RestAgrees == Spec => []RemindedAtRest
<1>1. Init => ResetInv
  BY DEF Init, Reminding!Init, ResetInv, Looked
<1>2. Known /\ SpeechInv /\ RemindInv /\ CountInv /\ ResetInv /\ [Next]_vars => ResetInv'
  <2> SUFFICES ASSUME Known, RemindInv, CountInv, ResetInv, [Next]_vars PROVE ResetInv'
    OBVIOUS
  <2>1. CASE Voice
    <3>1. PICK e \in VoiceSignals : Publish(e.schema, e.flag)
      BY <2>1 DEF Voice
    <3>2. e.schema \in {Create, Remind} /\ e.flag \in BOOLEAN
      <4>1. e.flag = TRUE \/ e.flag = FALSE
        <5>1. CASE e = [schema |-> Create, flag |-> FALSE]
          BY <5>1
        <5>2. CASE e = [schema |-> Create, flag |-> TRUE]
          BY <5>2
        <5>3. CASE e = [schema |-> Remind, flag |-> FALSE]
          BY <5>3
        <5> QED BY <5>1, <5>2, <5>3 DEF VoiceSignals
      <4>2. e.schema \in {Create, Remind}
        BY DEF VoiceSignals
      <4> QED BY <4>1, <4>2
    <3>3. \A schema \in {Create, Remind}, flag \in BOOLEAN : Publish(schema, flag) =>
             \A n \in Emission : owed[n] \subseteq owed'[n]
      BY PublishComing DEF Known
    <3>4. \A n \in Emission : owed[n] \subseteq owed'[n]
      BY <3>1, <3>2, <3>3, Zenon
    <3>5. UNCHANGED <<speechVars, remindVars, hasReminded>>
      BY <2>1 DEF Voice, stateVars
    <3> QED BY <3>4, <3>5, ResetKept DEF Coming, speechVars, remindVars, Speech!Alive, Reminding!Awaited
  <2>2. CASE SpeechRunner
    <3>1. UNCHANGED <<owed, speechAt, remindVars, hasReminded>>
      BY <2>2 DEF SpeechRunner, stateVars
    <3>2. \A n \in Speech!Alive : n \in Speech!Alive'
      BY <2>2 DEF SpeechRunner, Speech!TakeAndBegin, Speech!Begin, Speech!Alive
    <3> QED BY <3>1, <3>2, ResetKept DEF Coming, remindVars, Reminding!Awaited
  <2>3. ASSUME NEW n \in Emission, RemindStep(n) \/ LlmEnds(n) PROVE ResetInv'
    BY <2>3, RoutineKeepsReset
  <2>4. CASE UNCHANGED vars
    BY <2>4 DEF vars, speechVars, remindVars, stateVars, ResetInv, Looked, Coming, Speech!Alive,
                Reminding!Awaited
  <2> QED
    BY <2>1, <2>2, <2>3, <2>4, RunnerKeepsReset, DeliverKeepsReset, SpeechKeepsReset DEF Next
<1>3. Known /\ CountInv /\ ResetInv => RemindedAtRest
  <2> SUFFICES ASSUME Known, CountInv, ResetInv, AtRest, remindSignals # <<>>,
                      remindSignals[Len(remindSignals)]
               PROVE  hasReminded
    BY DEF RemindedAtRest
  <2>1. remindTaken = Len(remindSignals) /\ remindTaken > 0 /\ remindTaken \in Emission
    BY RemindBounded DEF AtRest, Known, LastInv
  <2>2. remindResult[remindTaken] \notin {"none", "alive"}
    BY <2>1 DEF AtRest, Reminding!Awaited, Reminding!Alive, Reminding!Signal, Emission
  <2>3. Looked
    BY <2>1, <2>2 DEF Looked
  <2>4. ~Coming
    BY <2>1, RemindBounded DEF AtRest, Coming
  <2> QED BY <2>3, <2>4 DEF ResetInv
<1> QED BY <1>1, <1>2, <1>3, CountsStay, PTL DEF Spec
=============================================================================
