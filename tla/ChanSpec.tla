------------------------------ MODULE ChanSpec ------------------------------
(***************************************************************************)
(* What livechain/aio/channel.py promises its callers, with the waiting    *)
(* hidden: a FIFO buffer that holds at most maxsize values (any number     *)
(* when maxsize is 0), that accepts nothing once closed and that is still  *)
(* drained after it is closed.  Chan.tla is shown to implement this        *)
(* module; SignalRoutineRunner.tla uses its actions as the channel of a    *)
(* runner.                                                                 *)
(***************************************************************************)
EXTENDS Integers, Sequences

CONSTANTS Value,     \* the values that may be sent
          Sizes      \* the maxsize arguments a channel may be created with

VARIABLES maxsize,   \* Chan._maxsize, fixed at construction
          queue,     \* Chan._queue
          closed     \* Chan._closed (and _close_ev, set with it)

specVars == <<maxsize, queue, closed>>

Full == maxsize > 0 /\ Len(queue) >= maxsize

Init == /\ maxsize \in Sizes
        /\ queue = <<>>
        /\ closed = FALSE

\* send_nowait when it does not raise.
Put(v) == /\ ~Full
          /\ ~closed
          /\ queue' = Append(queue, v)
          /\ UNCHANGED closed

\* A receive that takes the newest value instead of the oldest.
TakeNewest(v) == /\ queue # <<>>
                 /\ v = queue[Len(queue)]
                 /\ queue' = SubSeq(queue, 1, Len(queue) - 1)
                 /\ UNCHANGED closed

\* recv_nowait when it does not raise; a closed channel can still be drained.
Take(v) == /\ queue # <<>>
           /\ v = Head(queue)
           /\ queue' = Tail(queue)
           /\ UNCHANGED closed

Close == closed' = TRUE /\ UNCHANGED queue

Next == /\ \/ \E v \in Value : Put(v) \/ Take(v)
           \/ Close
        /\ UNCHANGED maxsize

Spec == Init /\ [][Next]_specVars
=============================================================================
