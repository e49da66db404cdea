------------------------------- MODULE Stream -------------------------------
(***************************************************************************)
(* One use of channel_stream (livechain/graph/ops.py): a routine that      *)
(* sends chunks into a Chan, the asynchronous generator that receives from *)
(* it, and the callbacks of WorkflowExecutor.recv, which all get that same *)
(* generator and iterate over it.  The channel is a ChanSpec without limit *)
(* and the topic a PubSub.                                                 *)
(***************************************************************************)
EXTENDS Integers, Sequences

CONSTANTS Consumer,   \* functions given to recv(topic), called at most once each
          MaxChunks   \* bound: chunks the routine sends

ASSUME StreamAssumption == MaxChunks \in Nat

VARIABLES queue, closed,  \* stream_q
          producer,       \* "before", "inside" or "after" its async with block
          sent,           \* chunks sent: they are 1, 2, ..., sent
          generator,      \* generate_stream: "suspended", "receiving" or "finished"
          subscriptions, emitted, owed,  \* the topics emitter
          consumer,       \* where each consumer is
          got             \* the chunks each consumer was given, in order

chanVars == <<queue, closed>>
topicVars == <<subscriptions, emitted, owed>>
vars == <<chanVars, producer, sent, generator, topicVars, consumer, got>>

Chunk == 1..MaxChunks
Topic == "topic"

Ch == INSTANCE ChanSpec WITH Value <- Chunk, Sizes <- {0}, maxsize <- 0
PS == INSTANCE PubSub WITH Callback <- Consumer, Hash <- {Topic}, Default <- "every topic",
                           Emission <- {1}

Init == /\ Ch!Init /\ PS!Init
        /\ producer = "before" /\ sent = 0 /\ generator = "suspended"
        /\ consumer = [c \in Consumer |-> "uncalled"] /\ got = [c \in Consumer |-> <<>>]

-----------------------------------------------------------------------------
(* The routine.                                                            *)

\* channel_stream sends the generator to the topic and does not wait.
Open == /\ producer = "before" /\ producer' = "inside"
        /\ PS!Emit(Topic)
        /\ UNCHANGED <<chanVars, sent, generator, consumer, got>>

\* The channel never fills, so that sending is one step.
SendChunk == /\ producer = "inside" /\ sent < MaxChunks
             /\ Ch!Put(sent + 1)
             /\ sent' = sent + 1
             /\ UNCHANGED <<producer, generator, topicVars, consumer, got>>

\* A block that closes the channel only when it is left normally.
LeaveBlockNormally ==
    /\ producer = "inside" /\ producer' = "after"
    /\ Ch!Close \/ UNCHANGED chanVars
    /\ UNCHANGED <<sent, generator, topicVars, consumer, got>>

\* The block ends, by an error or a cancellation as well.
LeaveBlock == /\ producer = "inside" /\ producer' = "after"
              /\ Ch!Close
              /\ UNCHANGED <<sent, generator, topicVars, consumer, got>>

-----------------------------------------------------------------------------
(* The consumers.                                                          *)

Subscribe(c) == /\ <<c, Topic>> \notin subscriptions
                /\ PS!Subscribe(c, Topic)
                /\ UNCHANGED <<chanVars, producer, sent, generator, consumer, got>>

\* The emission calls one of those that were subscribed when the stream was opened.
Call(c) == /\ PS!Deliver(1, <<c, Topic>>)
           /\ consumer' = [consumer EXCEPT ![c] = "iterating"]
           /\ UNCHANGED <<chanVars, producer, sent, generator, got>>

Become(c, where, gen) == consumer' = [consumer EXCEPT ![c] = where] /\ generator' = gen

\* An end that is seen as soon as the channel is closed.
ReceiveUntilClosed(c) ==
    \/ /\ ~closed /\ queue # <<>>
       /\ \E v \in Chunk : Ch!Take(v) /\ got' = [got EXCEPT ![c] = Append(@, v)]
       /\ Become(c, "iterating", "suspended")
    \/ /\ closed \/ queue = <<>>
       /\ UNCHANGED <<chanVars, got>>
       /\ IF closed THEN Become(c, "ended", "finished") ELSE Become(c, "waiting", "receiving")

\* The generator runs until it yields a chunk, ends, or waits in recv().
Receive(c) ==
    \/ /\ queue # <<>>
       /\ \E v \in Chunk : Ch!Take(v) /\ got' = [got EXCEPT ![c] = Append(@, v)]
       /\ Become(c, "iterating", "suspended")
    \/ /\ queue = <<>>
       /\ UNCHANGED <<chanVars, got>>
       /\ IF closed THEN Become(c, "ended", "finished") ELSE Become(c, "waiting", "receiving")

\* The next turn of a consumer's async for: Python raises RuntimeError while the
\* generator is in recv() for another consumer, and ends the loop once it has finished.
Anext(c) ==
    /\ consumer[c] = "iterating"
    /\ \/ generator = "suspended" /\ Receive(c)
       \/ generator = "receiving" /\ Become(c, "failed", generator) /\ UNCHANGED <<chanVars, got>>
       \/ generator = "finished" /\ Become(c, "ended", generator) /\ UNCHANGED <<chanVars, got>>
    /\ UNCHANGED <<producer, sent, topicVars>>

Resume(c) == /\ consumer[c] = "waiting" /\ (queue # <<>> \/ closed)
             /\ Receive(c)
             /\ UNCHANGED <<producer, sent, topicVars>>

\* A consumer breaks out of its loop, raises, or is cancelled in its own code.
Leave(c) == /\ consumer[c] = "iterating"
            /\ Become(c, "left", generator)
            /\ UNCHANGED <<chanVars, producer, sent, topicVars, got>>

\* A generator that is left where it was by a cancellation.
CancelConsumerOnly(c) == /\ consumer[c] = "waiting"
                         /\ Become(c, "cancelled", generator)
                         /\ UNCHANGED <<chanVars, producer, sent, topicVars, got>>

\* A consumer cancelled while it waits, even if it has been woken: CancelledError
\* goes through recv() and ends the generator.
CancelWaiting(c) == /\ consumer[c] = "waiting"
                    /\ Become(c, "cancelled", "finished")
                    /\ UNCHANGED <<chanVars, producer, sent, topicVars, got>>

Next == \/ Open \/ SendChunk \/ LeaveBlock
        \/ \E c \in Consumer : \/ Subscribe(c) \/ Call(c) \/ Anext(c) \/ Resume(c)
                               \/ Leave(c) \/ CancelWaiting(c)

Spec == Init /\ [][Next]_vars

\* The event loop is fair to the emission and to the consumers; nothing makes the
\* routine send or end.
FairSpec == Spec /\ \A c \in Consumer : WF_vars(Call(c)) /\ WF_vars(Anext(c)) /\ WF_vars(Resume(c))

-----------------------------------------------------------------------------
(* Properties.                                                             *)

Called == {c \in Consumer : consumer[c] # "uncalled"}
Given(c) == {got[c][i] : i \in DOMAIN got[c]}

\* The generator is in recv() only while a consumer waits, so that an iteration fails
\* beside a waiting one, never alone nor because of one that left or was cancelled.
TypeOK ==
    /\ queue \in Seq(Chunk) /\ closed \in BOOLEAN /\ (closed <=> producer = "after")
    /\ producer \in {"before", "inside", "after"} /\ sent \in 0..MaxChunks
    /\ generator \in {"suspended", "receiving", "finished"}
    /\ subscriptions \subseteq Consumer \X {Topic} /\ emitted \in 0..1
    /\ owed \in [{1} -> SUBSET subscriptions]
    /\ consumer \in [Consumer -> {"uncalled", "iterating", "waiting", "ended", "failed", "left",
                                  "cancelled"}]
    /\ got \in [Consumer -> Seq(Chunk)]
    /\ generator = "receiving" <=> (\E c \in Consumer : consumer[c] = "waiting")

\* However consumers share the generator, fail, leave or are cancelled, every chunk
\* received was given to exactly one of them, each got its chunks in the order they
\* were sent, and those in the channel are the rest.
ChunksOnceInOrder ==
    /\ queue = [i \in 1..Len(queue) |-> sent - Len(queue) + i]
    /\ UNION {Given(c) : c \in Consumer} = 1..(sent - Len(queue))
    /\ \A c \in Consumer : \A i, j \in DOMAIN got[c] : i < j => got[c][i] < got[c][j]
    /\ \A c, d \in Consumer : c # d => Given(c) \cap Given(d) = {}

\* A consumer whose loop ends normally has, with those it shares the stream with, seen
\* all of it, also what was sent before an error in the routine, unless one of the
\* others was cancelled while it waited.  One that is alone has seen all of it itself.
EndMeansAll ==
    (\E c \in Consumer : consumer[c] = "ended") =>
        \/ producer = "after" /\ queue = <<>>
        \/ \E d \in Consumer : consumer[d] = "cancelled"

\* Once the routine has left its block, every consumer that is due the stream gets it
\* and comes to the end of its loop.
StreamEnds ==
    producer = "after" ~>
        owed[1] = {} /\ \A c \in Consumer : consumer[c] \notin {"iterating", "waiting"}
=============================================================================
