-------------------------------- MODULE Chan --------------------------------
(***************************************************************************)
(* livechain/aio/channel.py: the bounded channel with its two queues of    *)
(* waiting futures.  A call of send or recv is cut where it awaits its     *)
(* future: SendCall and RecvCall run it up to there, SendResume and        *)
(* RecvResume continue it when the event loop gets back to its task.       *)
(* Between the two, any other call may run: what a woken task finds is not *)
(* what it was woken for.                                                  *)
(***************************************************************************)
EXTENDS Integers, SequencesExt, FiniteSets

CONSTANTS Sender, Receiver,   \* the tasks that call send and recv
          Regimes,            \* sets of tasks whose waiting calls may be cancelled
          Sizes,              \* the maxsize arguments, 0 for no limit
          Gone,               \* in _gets: the future of a recv that was cancelled
          MaxQueue,           \* bound: length of an unlimited channel
          MaxCancels          \* bound: calls cancelled

ASSUME ChanAssumption ==
    /\ Sender \cap Receiver = {}
    /\ IsFiniteSet(Sender) /\ IsFiniteSet(Receiver)
    /\ Regimes \subseteq SUBSET (Sender \cup Receiver)
    /\ Sizes \subseteq Nat
    /\ Gone \notin Sender \cup Receiver
    /\ MaxQueue \in Nat /\ MaxCancels \in Nat

Process == Sender \cup Receiver

VARIABLES maxsize,      \* _maxsize
          cancellable,  \* fixed: tasks whose waiting calls may be cancelled
          queue,        \* _queue; a value is named after the task that sent it
          closed,       \* _closed, and _close_ev, which is set with it
          gets, puts,   \* the futures of waiting receivers and senders, by task
          fut,          \* the future each task awaits: "none" outside a wait
          interrupted,  \* tasks cancelled after their future was done
          raised,       \* what the last call of each task raised
          cancels

vars == <<maxsize, cancellable, queue, closed, gets, puts, fut, interrupted, raised, cancels>>

\* A limit that lets one value too many in.
FullTooLate == maxsize > 0 /\ Len(queue) > maxsize

Full == maxsize > 0 /\ Len(queue) >= maxsize

Init == /\ maxsize \in Sizes /\ cancellable \in Regimes
        /\ queue = <<>> /\ closed = FALSE
        /\ gets = <<>> /\ puts = <<>>
        /\ fut = [p \in Process |-> "none"]
        /\ interrupted = {}
        /\ raised = [p \in Process |-> "none"]
        /\ cancels = 0

-----------------------------------------------------------------------------
(* _wakeup_next: finished futures are dropped off the front, the first one *)
(* still pending gets a result and leaves too.                             *)

FirstPending(waiters, f) ==
    SelectInSeq(waiters, LAMBDA p : p # Gone /\ f[p] = "pending")

StillWaiting(waiters, f) ==
    LET i == FirstPending(waiters, f)
    IN  IF i = 0 THEN <<>> ELSE SubSeq(waiters, i + 1, Len(waiters))

Woken(waiters, f) ==
    LET i == FirstPending(waiters, f)
    IN  IF i = 0 THEN f ELSE [f EXCEPT ![waiters[i]] = "result"]

\* Task p awaits nothing: its call returns, or raises "what".
Back(p) == [fut EXCEPT ![p] = "none"]
Ends(p, what) == raised' = [raised EXCEPT ![p] = what]
Fails(p, what) == Ends(p, what) /\ fut' = Back(p) /\ UNCHANGED <<queue, gets, puts>>

-----------------------------------------------------------------------------
(* send                                                                    *)

\* Storing a value that wakes a receiver only if the channel was empty.
StoreQuietly(p) ==
    /\ queue' = Append(queue, p)
    /\ IF queue = <<>>
       THEN gets' = StillWaiting(gets, Back(p)) /\ fut' = Woken(gets, Back(p))
       ELSE gets' = gets /\ fut' = Back(p)
    /\ Ends(p, "none")
    /\ UNCHANGED puts

Store(p) == /\ queue' = Append(queue, p)
            /\ gets' = StillWaiting(gets, Back(p)) /\ fut' = Woken(gets, Back(p))
            /\ Ends(p, "none")
            /\ UNCHANGED puts

SendNowait(p) == \/ Full /\ Fails(p, "full")
                 \/ ~Full /\ closed /\ Fails(p, "closed")
                 \/ ~Full /\ ~closed /\ Store(p)

AwaitRoom(p) == /\ puts' = Append(puts, p) /\ fut' = [fut EXCEPT ![p] = "pending"]
                /\ UNCHANGED <<queue, gets, raised>>

\* send that does not look again after its wait: "if" in place of "while".
SendOnce(p) == \/ Full /\ ~closed /\ fut[p] = "none" /\ AwaitRoom(p)
               \/ ~(Full /\ ~closed /\ fut[p] = "none") /\ SendNowait(p)

\* send from the test of its while loop on.
SendLoop(p) == \/ Full /\ ~closed /\ AwaitRoom(p)
               \/ ~(Full /\ ~closed) /\ SendNowait(p)

\* The cancelled sender leaves without waking another one in its place.
SendForgetsOthers(p) ==
    /\ puts' = RemoveFirst(puts, p) /\ fut' = Back(p)
    /\ Ends(p, "cancelled")
    /\ UNCHANGED <<queue, gets>>

\* The cancelled sender leaves its future in _puts, as recv does in _gets.
SendLeavesFuture(p) ==
    /\ puts' = ReplaceAll(puts, p, Gone) /\ fut' = Back(p)
    /\ Ends(p, "cancelled")
    /\ UNCHANGED <<queue, gets>>

\* The bare except of send: its future leaves _puts, and a wakeup it had
\* already been given goes to the next sender.
SendCancelled(p) ==
    LET others == RemoveFirst(puts, p)
        passOn == ~Full /\ fut[p] # "cancelled" IN
    /\ puts' = IF passOn THEN StillWaiting(others, Back(p)) ELSE others
    /\ fut' = IF passOn THEN Woken(others, Back(p)) ELSE Back(p)
    /\ Ends(p, "cancelled")
    /\ UNCHANGED <<queue, gets>>

SendCall(p) == /\ fut[p] = "none"
               /\ maxsize = 0 => Len(queue) < MaxQueue
               /\ SendLoop(p)
               /\ UNCHANGED <<maxsize, cancellable, closed, interrupted, cancels>>

Interrupted(p) == fut[p] = "cancelled" \/ p \in interrupted

SendResume(p) ==
    /\ \/ fut[p] = "result" /\ ~Interrupted(p) /\ SendLoop(p)
       \/ fut[p] = "closed" /\ ~Interrupted(p) /\ Fails(p, "closed")
       \/ Interrupted(p) /\ SendCancelled(p)
    /\ interrupted' = interrupted \ {p}
    /\ UNCHANGED <<maxsize, cancellable, closed, cancels>>

-----------------------------------------------------------------------------
(* recv                                                                    *)

TakeFirst(p) == /\ queue' = Tail(queue)
                /\ puts' = StillWaiting(puts, Back(p)) /\ fut' = Woken(puts, Back(p))
                /\ Ends(p, "none")
                /\ UNCHANGED gets

AwaitValue(p) == /\ gets' = Append(gets, p) /\ fut' = [fut EXCEPT ![p] = "pending"]
                 /\ UNCHANGED <<queue, puts, raised>>

\* recv that gives up once the channel is closed, whatever is left in it.
RecvIgnoresBacklog(p) == \/ queue = <<>> /\ ~closed /\ AwaitValue(p)
                         \/ closed /\ Fails(p, "closed")
                         \/ queue # <<>> /\ ~closed /\ TakeFirst(p)

\* recv from the test of its while loop on; recv_nowait cannot find the
\* channel empty and open there.
RecvLoop(p) == \/ queue = <<>> /\ ~closed /\ AwaitValue(p)
               \/ queue = <<>> /\ closed /\ Fails(p, "closed")
               \/ queue # <<>> /\ TakeFirst(p)

\* "except Exception" does not see CancelledError: the future stays in _gets
\* if it is still there, and a wakeup it had been given is not passed on.
RecvCancelled(p) ==
    /\ gets' = ReplaceAll(gets, p, Gone) /\ fut' = Back(p)
    /\ Ends(p, "cancelled")
    /\ UNCHANGED <<queue, puts>>

RecvCall(p) == /\ fut[p] = "none"
               /\ RecvLoop(p)
               /\ UNCHANGED <<maxsize, cancellable, closed, interrupted, cancels>>

RecvResume(p) ==
    /\ \/ fut[p] = "result" /\ ~Interrupted(p) /\ RecvLoop(p)
       \/ fut[p] = "closed" /\ ~Interrupted(p) /\ Fails(p, "closed")
       \/ Interrupted(p) /\ RecvCancelled(p)
    /\ interrupted' = interrupted \ {p}
    /\ UNCHANGED <<maxsize, cancellable, closed, cancels>>

-----------------------------------------------------------------------------
(* Task.cancel() of a waiting call, and close                              *)

\* It cancels the future awaited, or, when that one is already done, raises
\* CancelledError as soon as the task runs again.
Cancel(p) ==
    /\ p \in cancellable /\ cancels < MaxCancels
    /\ fut[p] \in {"pending", "result", "closed"} /\ p \notin interrupted
    /\ \/ /\ fut[p] = "pending"
          /\ fut' = [fut EXCEPT ![p] = "cancelled"] /\ UNCHANGED interrupted
       \/ /\ fut[p] # "pending"
          /\ interrupted' = interrupted \cup {p} /\ UNCHANGED fut
    /\ cancels' = cancels + 1
    /\ UNCHANGED <<maxsize, cancellable, queue, closed, gets, puts, raised>>

\* close that forgets the waiting senders.
CloseForgetsSenders ==
    /\ closed' = TRUE
    /\ fut' = [p \in Process |-> IF p \in Receiver /\ fut[p] = "pending"
                                 THEN "closed" ELSE fut[p]]
    /\ gets' = <<>>
    /\ UNCHANGED <<maxsize, cancellable, queue, puts, interrupted, raised, cancels>>

\* close: every waiting sender fails and stays in _puts; as many receivers
\* as there are values left, counted from the front of _gets, are woken to
\* take them, the others fail.  A later close finds nobody waiting; it
\* changes nothing (it raises InvalidStateError if _puts is not empty).
Close ==
    /\ ~closed
    /\ closed' = TRUE
    /\ LET served == {gets[i] : i \in {j \in DOMAIN gets : j <= Len(queue)}}
           failed == (ToSet(gets) \ served) \cup ToSet(puts) IN
       fut' = [p \in Process |->
                  IF fut[p] = "pending" /\ p \in served THEN "result"
                  ELSE IF fut[p] = "pending" /\ p \in failed THEN "closed" ELSE fut[p]]
    /\ gets' = <<>>
    /\ UNCHANGED <<maxsize, cancellable, queue, puts, interrupted, raised, cancels>>

Next == \/ \E p \in Sender : SendCall(p) \/ SendResume(p)
        \/ \E p \in Receiver : RecvCall(p) \/ RecvResume(p)
        \/ \E p \in Process : Cancel(p)
        \/ Close

Spec == Init /\ [][Next]_vars

\* The event loop gets back to every task whose future is done.
FairSpec == /\ Spec
            /\ \A p \in Sender : WF_vars(SendResume(p))
            /\ \A p \in Receiver : WF_vars(RecvResume(p))

-----------------------------------------------------------------------------
(* Properties                                                              *)

TypeOK ==
    /\ maxsize \in Sizes /\ cancellable \in Regimes
    /\ queue \in Seq(Sender) /\ closed \in BOOLEAN
    /\ gets \in Seq(Receiver \cup {Gone}) /\ puts \in Seq(Sender)
    /\ fut \in [Process -> {"none", "pending", "result", "closed", "cancelled"}]
    /\ interrupted \subseteq Process
    /\ raised \in [Process -> {"none", "full", "closed", "cancelled"}]
    /\ cancels \in 0..MaxCancels

Pending(P) == {p \in P : fut[p] = "pending"}
Awake(P) == {p \in P : fut[p] = "result"}

\* No receiver sleeps on a value: when one waits, every value in the channel
\* has a woken receiver on its way to it.
NoSleepOnValue ==
    Pending(Receiver) # {} => Len(queue) <= Cardinality(Awake(Receiver))

\* No sender sleeps on a free place: when one waits, every free place has a
\* woken sender on its way to it, whoever was cancelled meanwhile.  The same
\* of receivers and values, as long as no receiver is cancelled.
NoLostWakeup ==
    /\ Pending(Sender) # {} => maxsize - Len(queue) <= Cardinality(Awake(Sender))
    /\ cancellable \cap Receiver = {} => NoSleepOnValue

\* Nobody is left asleep in a closed channel.
CloseReleasesAll == closed => Pending(Process) = {}

\* A send that may wait fails only on a closed channel: being woken and then
\* finding that another sender took the place does not surface as ChanFull.
WaitsInsteadOfFailing ==
    \A p \in Sender : raised[p] \in {"full", "closed"} \/ fut[p] = "closed" => closed

\* A receiver is told that the channel is closed only when a woken receiver
\* is on its way to each value left: none is abandoned in the channel, unless
\* by a receiver that is cancelled.
ClosedMeansDrained ==
    cancellable \cap Receiver = {} /\ (\E p \in Receiver : fut[p] = "closed" \/ raised[p] = "closed")
        => Len(queue) <= Cardinality(Awake(Receiver))

\* A waiting call is not forgotten: a sender leaves the wait once there is
\* room, a receiver, if none of them is cancelled, once there is a value,
\* unless another call takes it.
NoStuckWaiter ==
    /\ \A p \in Sender :
          fut[p] = "pending" /\ ~Full ~> fut[p] # "pending" \/ Full
    /\ \A p \in Receiver :
          cancellable \cap Receiver = {} /\ fut[p] = "pending" /\ queue # <<>>
              ~> fut[p] # "pending" \/ queue = <<>>

\* With the waiting hidden, this is the channel of ChanSpec.
Abstract == INSTANCE ChanSpec WITH Value <- Sender
ImplementsChan == Abstract!Spec
=============================================================================
