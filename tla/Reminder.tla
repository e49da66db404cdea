------------------------------ MODULE Reminder ------------------------------
(***************************************************************************)
(* The reminder of examples/basic_workflow.py, driven by the voice events  *)
(* of examples/basic_voice_agent_v1.py: a Queue routine that hears         *)
(* CreateReminderEvent and publishes RemindUserEvent, an Interrupt routine *)
(* that hears RemindUserEvent, waits and reminds, and the state they       *)
(* share.  Their runners are RunnerSpecs and their emitter is a PubSub,    *)
(* the two modules that the code of livechain is shown to implement, so    *)
(* that deliveries may overtake each other.  The executor is running.      *)
(***************************************************************************)
EXTENDS Integers, Sequences, FiniteSets

CONSTANT MaxVoice  \* bound: voice events

ASSUME ReminderAssumption == MaxVoice \in Nat

VARIABLES events,         \* all events published: a schema and its Boolean field
          voice,          \* how many of them are voice events
          owed,           \* the deliveries that are under way
          speechSignals, speechTaken, speechResult,  \* the runner of on_speech_status_changed
          speechAt,       \* where its routines are
          remindSignals, remindTaken, remindResult, remindAsked,  \* that of on_remind_user
          remindAt,
          hasReminded,    \* AgentState.has_reminded
          resets,         \* history: the routines that have reset it
          reminded        \* history: the routines that have opened reminder_stream

speechVars == <<speechSignals, speechTaken, speechResult, speechAt>>
remindVars == <<remindSignals, remindTaken, remindResult, remindAsked, remindAt>>
stateVars == <<hasReminded, resets, reminded>>
vars == <<events, voice, owed, speechVars, remindVars, stateVars>>

Emission == 1..(2 * MaxVoice)  \* each voice event may lead to another event
Create == "CreateReminderEvent"
Remind == "RemindUserEvent"
Event == [schema : {Create, Remind}, flag : BOOLEAN]

PS == INSTANCE PubSub WITH Callback <- {Create, Remind}, Hash <- {Create, Remind},
                           Default <- "every event", emitted <- Len(events),
                           subscriptions <- {<<Create, Create>>, <<Remind, Remind>>}

\* Nobody stops the executor: the channels stay open and the runners serve.
Speech == INSTANCE RunnerSpec WITH
    Strategies <- {"Queue"}, MaxSignals <- MaxVoice, strategy <- "Queue",
    accepted <- Len(speechSignals), closed <- ~TRUE, taken <- speechTaken,
    result <- speechResult, asked <- {}, phase <- "serving", exit <- "none"

Reminding == INSTANCE RunnerSpec WITH
    Strategies <- {"Interrupt"}, MaxSignals <- 2 * MaxVoice, strategy <- "Interrupt",
    accepted <- Len(remindSignals), closed <- ~TRUE, taken <- remindTaken,
    result <- remindResult, asked <- remindAsked, phase <- "serving", exit <- "none"

Init == /\ events = <<>> /\ voice = 0 /\ owed = [n \in Emission |-> {}]
        /\ speechSignals = <<>> /\ Speech!Init /\ speechAt = [n \in 1..MaxVoice |-> "start"]
        /\ remindSignals = <<>> /\ Reminding!Init /\ remindAt = [n \in Emission |-> "start"]
        /\ hasReminded = FALSE /\ resets = {} /\ reminded = {}

-----------------------------------------------------------------------------
(* Events.                                                                 *)

Publish(schema, flag) ==
    /\ events' = Append(events, [schema |-> schema, flag |-> flag])
    /\ PS!Emit(schema)

\* The signals that the session's handlers publish, by the event they handle.
VoiceSignals == {[schema |-> Create, flag |-> FALSE],  \* agent_stopped_speaking and the like
                 [schema |-> Create, flag |-> TRUE],   \* user_stopped_speaking
                 [schema |-> Remind, flag |-> FALSE]}  \* the agent or the user starts to speak

Voice == /\ voice < MaxVoice /\ voice' = voice + 1
         /\ \E e \in VoiceSignals : Publish(e.schema, e.flag)
         /\ UNCHANGED <<speechVars, remindVars, stateVars>>

Deliver(n) ==
    /\ UNCHANGED events
    /\ \E s \in owed[n] :
          /\ PS!Deliver(n, s)
          /\ \/ /\ s[1] = Create
                /\ speechSignals' = Append(speechSignals, events[n].flag)
                /\ Speech!Accept
                /\ UNCHANGED <<speechAt, remindVars>>
             \/ /\ s[1] = Remind
                /\ remindSignals' = Append(remindSignals, events[n].flag)
                /\ Reminding!Accept
                /\ UNCHANGED <<remindAt, speechVars>>
    /\ UNCHANGED <<voice, stateVars>>

-----------------------------------------------------------------------------
(* on_speech_status_changed.                                               *)

SpeechRunner == /\ UNCHANGED speechSignals /\ Speech!TakeAndBegin
                /\ UNCHANGED <<events, voice, owed, speechAt, remindVars, stateVars>>

SpeechReturns(n) == /\ UNCHANGED <<speechSignals, speechAt>>
                    /\ Speech!RoutineEnds(n) /\ speechResult'[n] = "ok"

\* The event published before the state is reset.
SpeechPublishesFirst(n) ==
    /\ n \in Speech!Alive
    /\ \/ /\ speechAt[n] = "start" /\ Publish(Remind, TRUE)
          /\ IF speechSignals[n] THEN /\ speechAt' = [speechAt EXCEPT ![n] = "mutating"]
                                      /\ UNCHANGED <<speechSignals, speechTaken, speechResult>>
                                 ELSE SpeechReturns(n)
          /\ UNCHANGED stateVars
       \/ /\ speechAt[n] = "mutating" /\ SpeechReturns(n)
          /\ hasReminded' = FALSE /\ resets' = resets \cup {n}
          /\ UNCHANGED <<events, owed, reminded>>
    /\ UNCHANGED <<voice, remindVars>>

\* A reset is made at once, and awaited; then the event is published without waiting.
SpeechStep(n) ==
    /\ n \in Speech!Alive
    /\ \/ /\ speechAt[n] = "start" /\ speechSignals[n]
          /\ hasReminded' = FALSE /\ resets' = resets \cup {n}
          /\ speechAt' = [speechAt EXCEPT ![n] = "mutating"]
          /\ UNCHANGED <<events, owed, speechSignals, speechTaken, speechResult, reminded>>
       \/ /\ speechAt[n] = "mutating" \/ ~speechSignals[n]
          /\ Publish(Remind, TRUE) /\ SpeechReturns(n)
          /\ UNCHANGED stateVars
    /\ UNCHANGED <<voice, remindVars>>

-----------------------------------------------------------------------------
(* on_remind_user.                                                         *)

\* The next signal is taken, and the routine of the one before asked to end and
\* awaited.
RemindRunner ==
    /\ UNCHANGED remindSignals
    /\ Reminding!TakeAndBegin \/ Reminding!TakeAside \/ Reminding!BeginAside
    /\ UNCHANGED <<events, voice, owed, speechVars, remindAt, stateVars>>

RemindMoves(n, from, to) ==
    /\ n \in Reminding!Alive /\ remindAt[n] = from
    /\ remindAt' = [remindAt EXCEPT ![n] = to]
    /\ UNCHANGED <<remindSignals, remindTaken, remindResult, remindAsked>>

RemindEnds(n, how) == /\ UNCHANGED <<remindSignals, remindAt>>
                      /\ Reminding!RoutineEnds(n) /\ remindResult'[n] = how

\* A reminder that the state is not told of.
WakeWithoutMark(n) ==
    /\ \/ /\ ~hasReminded /\ RemindMoves(n, "sleeping", "mutating")
       \/ hasReminded /\ remindAt[n] = "sleeping" /\ RemindEnds(n, "ok")
    /\ UNCHANGED hasReminded

\* After its sleep the routine looks at the state, and marks it in the same step.
Wake(n) == \/ /\ ~hasReminded /\ hasReminded' = TRUE
              /\ RemindMoves(n, "sleeping", "mutating")
           \/ /\ hasReminded /\ UNCHANGED hasReminded
              /\ remindAt[n] = "sleeping" /\ RemindEnds(n, "ok")

\* call_llm opens its stream, unless it fails before.
CallLlm(n) == \/ /\ RemindMoves(n, "mutating", "streaming")
                 /\ reminded' = reminded \cup {n}
              \/ /\ remindAt[n] = "mutating" /\ RemindEnds(n, "error")
                 /\ UNCHANGED reminded

StreamEnds(n) == remindAt[n] = "streaming" /\ \E how \in {"ok", "error"} : RemindEnds(n, how)

\* An event that only cancels ends here, the others sleep.
RemindBegins(n) == \/ remindSignals[n] /\ RemindMoves(n, "start", "sleeping")
                   \/ ~remindSignals[n] /\ RemindEnds(n, "ok")

RemindCancelled(n) == RemindEnds(n, "cancelled")

RemindStep(n) ==
    /\ n \in Reminding!Alive
    /\ \/ RemindBegins(n) /\ UNCHANGED <<hasReminded, reminded>>
       \/ Wake(n) /\ UNCHANGED reminded
       \/ CallLlm(n) /\ UNCHANGED hasReminded
       \/ RemindCancelled(n) /\ UNCHANGED <<hasReminded, reminded>>
    /\ UNCHANGED <<events, voice, owed, speechVars, resets>>

LlmEnds(n) == /\ StreamEnds(n)
              /\ UNCHANGED <<events, voice, owed, speechVars, stateVars>>

Next == \/ Voice \/ SpeechRunner \/ RemindRunner
        \/ \E n \in Emission : Deliver(n) \/ RemindStep(n) \/ LlmEnds(n)
        \/ \E n \in 1..MaxVoice : SpeechStep(n)

Spec == Init /\ [][Next]_vars

\* The event loop is fair to deliveries, runners and routines; the language model may
\* take for ever, and nobody has to speak.
FairSpec == /\ Spec
            /\ WF_vars(SpeechRunner) /\ WF_vars(RemindRunner)
            /\ \A n \in Emission : WF_vars(Deliver(n)) /\ WF_vars(RemindStep(n))
            /\ \A n \in 1..MaxVoice : WF_vars(SpeechStep(n))

-----------------------------------------------------------------------------
(* Properties.                                                             *)

\* Every accepted signal is an event published, and no routine is past its first step
\* before it begins.
TypeOK ==
    /\ events \in Seq(Event) /\ Len(events) \in Emission \cup {0} /\ voice \in 0..MaxVoice
    /\ owed \in [Emission -> SUBSET {<<Create, Create>>, <<Remind, Remind>>}]
    /\ speechSignals \in Seq(BOOLEAN) /\ remindSignals \in Seq(BOOLEAN)
    /\ Len(speechSignals) + Len(remindSignals) <= Len(events)
    /\ speechTaken \in 0..Len(speechSignals) /\ remindTaken \in 0..Len(remindSignals)
    /\ \A n \in Emission : remindResult[n] = "none" => remindAt[n] = "start"
    /\ remindAsked \subseteq Emission /\ hasReminded \in BOOLEAN
    /\ resets \subseteq 1..MaxVoice /\ reminded \subseteq Emission

\* "if reminder has already been sent, do not send again": however the routines are
\* interrupted, there is at most one reminder, and one more for every time the user
\* has spoken; none that the state does not remember.
OneReminderPerReset ==
    Cardinality(reminded) <= Cardinality(resets) + (IF hasReminded THEN 1 ELSE 0)

\* A reminder is only begun by the routine of the last signal that has one: once an
\* event that cancels has its routine, no earlier one comes through.
LatestDecides ==
    [][\A n \in reminded' \ reminded :
          remindSignals[n] /\ \A m \in Emission : remindResult[m] # "none" => m <= n]_vars

\* When nobody speaks any more and the last event on_remind_user has heard asks it to
\* remind, the reminder is marked as sent in the end: a reset is always followed by a
\* signal that sees it.
RemindedInTheEnd ==
    <>[](remindSignals # <<>> /\ remindSignals[Len(remindSignals)] => hasReminded)
=============================================================================
