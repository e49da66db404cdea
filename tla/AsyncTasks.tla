----------------------------- MODULE AsyncTasks -----------------------------
(***************************************************************************)
(* asyncio tasks as the runners use them, and cancel_and_wait of           *)
(* livechain/aio/utils.py.  One event loop runs every task, so a step here *)
(* is the code between two suspension points.                              *)
(***************************************************************************)
EXTENDS Integers, Sequences

CONSTANT Task        \* the tasks that may ever be created

VARIABLES status,    \* where each task is in its life
          asked,     \* the tasks on which cancel() took effect
          soon,      \* call_soon order of the created tasks' first steps
          callbacks  \* tasks whose own done callback has not run yet

\* "chanclosed": the body raised ChanClosed; "dropped": cancelled before its
\* first step, so the body never ran; "cancelled": cancelled after it.
Ended == {"ok", "error", "chanclosed", "cancelled", "dropped"}
Status == {"none", "ready", "running"} \cup Ended

Live(t) == status[t] \in {"ready", "running"}

TasksInit == /\ status = [t \in Task |-> "none"]
             /\ asked = {}
             /\ soon = <<>>
             /\ callbacks = {}

\* asyncio.create_task: the first step is queued behind those queued before.
Create(t) == /\ status' = [status EXCEPT ![t] = "ready"]
             /\ soon' = Append(soon, t)

\* create_task for each of a sequence of coroutines, in that order.
CreateEach(ts) == /\ status' = [t \in Task |-> IF \E i \in DOMAIN ts : ts[i] = t THEN "ready" ELSE status[t]]
                  /\ soon' = soon \o ts

\* Task.cancel() on every task of F; on a finished task it does nothing.
RequestCancel(F) == asked' = asked \cup {t \in Task : t \in F /\ Live(t)}

\* cancel_and_wait that returns without waiting for its futures.
SettledAtOnce(F) == TRUE

\* cancel_and_wait(*F) may return: each future is done, and the callback that
\* releases its waiter has run after the done callback added before it.
Settled(F) == \A t \in F : ~Live(t) /\ t \notin callbacks

\* The loop gives the oldest created task its first step; a task cancelled
\* while it was still queued ends there.
FirstStep ==
    /\ soon # <<>>
    /\ soon' = Tail(soon)
    /\ status' = [status EXCEPT ![Head(soon)] =
                     IF Head(soon) \in asked THEN "dropped" ELSE "running"]
    /\ UNCHANGED <<asked, callbacks>>

\* The body of t ends.  Once asked, it may end by CancelledError, or swallow
\* it and end in its own way.
End(t, outcome) ==
    /\ status[t] = "running"
    /\ outcome = "cancelled" => t \in asked
    /\ status' = [status EXCEPT ![t] = outcome]
    /\ UNCHANGED <<asked, soon, callbacks>>

TasksTypeOK == /\ status \in [Task -> Status]
               /\ asked \subseteq Task
               /\ soon \in Seq(Task)
               /\ callbacks \subseteq Task
=============================================================================
