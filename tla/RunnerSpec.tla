----------------------------- MODULE RunnerSpec -----------------------------
(***************************************************************************)
(* What a signal routine runner (livechain/graph/func/routine.py) promises *)
(* those who publish signals, with its attributes, timers and waits        *)
(* hidden: which signals are given a routine, in which order, how many     *)
(* routines are alive, who is asked to end, and why the runner ends.       *)
(* SignalRoutineRunner.tla is shown to implement this module.              *)
(***************************************************************************)
EXTENDS Integers

CONSTANTS Strategies, MaxSignals

VARIABLES strategy,
          accepted, closed,  \* signals accepted, and whether more may be
          taken,             \* signals taken up, the oldest first
          result,            \* of each signal, "none" before it has a routine
          asked,             \* signals whose routine has been asked to end
          phase, exit        \* "serving", "ending" or "over", and why

specVars == <<strategy, accepted, closed, taken, result, asked, phase, exit>>

Signal == 1..MaxSignals
Alive == {n \in Signal : result[n] = "alive"}

\* The signal taken last has no routine yet.
Awaited == taken > 0 /\ result[taken] = "none"

Init == /\ strategy \in Strategies
        /\ accepted = 0 /\ closed = FALSE
        /\ taken = 0 /\ result = [n \in Signal |-> "none"] /\ asked = {}
        /\ phase = "serving" /\ exit = "none"

Accept == /\ accepted < MaxSignals /\ ~closed
          /\ accepted' = accepted + 1
          /\ UNCHANGED <<strategy, closed, taken, result, asked, phase, exit>>

Close == closed' = TRUE /\ UNCHANGED <<strategy, accepted, taken, result, asked, phase, exit>>

Take == phase = "serving" /\ taken < accepted /\ taken' = taken + 1
Begin(n) == result' = [result EXCEPT ![n] = "alive"]
AskAll == asked' = asked \cup Alive

\* A signal gets its routine as soon as it is taken: always under Parallel, after
\* every earlier routine has ended well under Queue, and under Interrupt when it
\* is the first.
TakeAndBegin ==
    /\ Take /\ Begin(taken + 1)
    /\ \/ strategy = "Parallel"
       \/ strategy = "Queue" /\ \A n \in 1..taken : result[n] = "ok"
       \/ strategy = "Interrupt" /\ taken = 0
    /\ UNCHANGED <<strategy, accepted, closed, asked, phase, exit>>

\* A signal is taken before its routine may begin: Interrupt asks the routine of
\* the previous one to end, Debounce replaces a signal that was still waiting.
TakeAside ==
    /\ Take
    /\ \/ strategy = "Interrupt" /\ taken > 0 /\ ~Awaited /\ AskAll
       \/ strategy = "Debounce" /\ UNCHANGED asked
    /\ UNCHANGED <<strategy, accepted, closed, result, phase, exit>>

\* A routine that begins while the previous one reacts to its cancellation.
BeginAsideAtOnce ==
    /\ phase = "serving" /\ Awaited /\ Begin(taken)
    /\ strategy \in {"Interrupt", "Debounce"}
    /\ UNCHANGED <<strategy, accepted, closed, taken, asked, phase, exit>>

\* Only the signal taken last may get a routine later; Interrupt waits for the
\* previous routine to end.
BeginAside ==
    /\ phase = "serving" /\ Awaited /\ Begin(taken)
    /\ strategy \in {"Interrupt", "Debounce"} /\ (strategy = "Interrupt" => Alive = {})
    /\ UNCHANGED <<strategy, accepted, closed, taken, asked, phase, exit>>

\* A runner that is cancelled may have to pass it on to the routine it awaits.
AskRoutine == /\ phase = "serving" /\ strategy = "Queue" /\ AskAll
              /\ UNCHANGED <<strategy, accepted, closed, taken, result, phase, exit>>

RoutineEnds(n) ==
    /\ n \in Alive
    /\ \E how \in {"ok", "error", "chanclosed"}
                     \cup (IF n \in asked THEN {"cancelled", "dropped"} ELSE {}) :
          result' = [result EXCEPT ![n] = how]
    /\ UNCHANGED <<strategy, accepted, closed, taken, asked, phase, exit>>

\* The runner ends, and asks every routine to: at the end of a channel that is
\* closed and drained, when Queue meets a routine that fails or raises ChanClosed,
\* or because it is cancelled.
Finish ==
    /\ phase = "serving" /\ phase' = "ending" /\ AskAll
    /\ \/ /\ exit' = "closed" /\ closed /\ taken = accepted
          /\ strategy \in {"Interrupt", "Parallel"} => ~Awaited
          /\ strategy = "Queue" => \A n \in 1..taken : result[n] = "ok"
       \/ exit' = "closed" /\ strategy = "Queue" /\ taken > 0 /\ result[taken] = "chanclosed"
       \/ exit' = "error" /\ strategy = "Queue" /\ taken > 0 /\ result[taken] = "error"
       \/ exit' = "cancelled"
    /\ UNCHANGED <<strategy, accepted, closed, taken, result>>

\* The runner is gone, and with it every routine, unless it is cancelled again
\* while it waits for them, or was cancelled before it began.
Leave ==
    /\ phase' = "over"
    /\ \/ phase = "ending" /\ Alive = {} /\ UNCHANGED exit
       \/ phase = "ending" /\ exit' = "aborted"
       \/ phase = "serving" /\ taken = 0 /\ exit' = "unstarted"
    /\ UNCHANGED <<strategy, accepted, closed, taken, result, asked>>

Next == \/ Accept \/ Close \/ TakeAndBegin \/ TakeAside \/ BeginAside \/ AskRoutine
        \/ \E n \in Signal : RoutineEnds(n)
        \/ Finish \/ Leave

Spec == Init /\ [][Next]_specVars
=============================================================================
