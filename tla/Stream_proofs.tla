---------------------------- MODULE Stream_proofs ----------------------------
(* What Stream.tla promises, for any consumers and any number of chunks.    *)
EXTENDS Stream, TLAPS

-----------------------------------------------------------------------------
(* The inductive invariant.                                                *)

\* Chunks that have left the channel.
Taken == sent - Len(queue)

\* A consumer is called once; one waits at most, for the one generator.
CallInv ==
    /\ producer = "before" => owed[1] = {} /\ \A c \in Consumer : consumer[c] = "uncalled"
    /\ emitted = 0 <=> producer = "before"
    /\ \A c \in Consumer : <<c, Topic>> \in owed[1] => consumer[c] = "uncalled"
    /\ \A c, d \in Consumer : consumer[c] = "waiting" /\ consumer[d] = "waiting" => c = d

\* What has been taken is shared among the consumers, each part in order.
ShareInv ==
    /\ Len(queue) <= sent
    /\ queue = [i \in 1..Len(queue) |-> Taken + i]
    /\ \A c \in Consumer : \A i \in DOMAIN got[c] : got[c][i] \in 1..Taken
    /\ \A c \in Consumer : \A i, j \in DOMAIN got[c] : i < j => got[c][i] < got[c][j]
    /\ \A c, d \in Consumer : \A i \in DOMAIN got[c], j \in DOMAIN got[d] :
          got[c][i] = got[d][j] => c = d
    /\ \A v \in 1..Taken : \E c \in Consumer : \E i \in DOMAIN got[c] : got[c][i] = v

Over == (producer = "after" /\ queue = <<>>) \/ \E d \in Consumer : consumer[d] = "cancelled"

\* The generator finishes at the end of the channel or because it is cancelled.
EndInv ==
    /\ generator = "finished" => Over
    /\ \A c \in Consumer : consumer[c] = "ended" => generator = "finished"

IInv == TypeOK /\ CallInv /\ ShareInv /\ EndInv

-----------------------------------------------------------------------------
(* The steps.                                                              *)

LEMMA InitInv == Init => IInv
<1> SUFFICES ASSUME Init PROVE IInv
    OBVIOUS
<1> USE DEF Init, Ch!Init, PS!Init
<1>1. TypeOK
    <2>1. queue \in Seq(Chunk) /\ sent \in 0..MaxChunks /\ got \in [Consumer -> Seq(Chunk)]
        BY StreamAssumption
    <2>2. ~\E c \in Consumer : consumer[c] = "waiting"
        OBVIOUS
    <2>3. owed \in [{1} -> SUBSET subscriptions] /\ emitted \in 0..1 /\ subscriptions \subseteq Consumer \X {Topic}
        OBVIOUS
    <2>4. consumer \in [Consumer -> {"uncalled", "iterating", "waiting", "ended", "failed", "left", "cancelled"}]
        OBVIOUS
    <2>5. closed = FALSE /\ producer = "before" /\ generator = "suspended"
        OBVIOUS
    <2> HIDE DEF Init, Ch!Init, PS!Init
    <2> QED BY <2>1, <2>2, <2>3, <2>4, <2>5 DEF TypeOK
<1>2. CallInv /\ EndInv
    BY DEF CallInv, EndInv
<1>3. ShareInv
    BY DEF ShareInv, Taken
<1> QED BY <1>1, <1>2, <1>3 DEF IInv

\* The parts of the invariant that a step leaves alone.
LEMMA Frames ==
    ASSUME IInv
    PROVE  /\ UNCHANGED <<producer, consumer, emitted, owed>> => CallInv'
           /\ UNCHANGED <<queue, sent, got>> => ShareInv'
           /\ UNCHANGED <<producer, queue, generator, consumer>> => EndInv'
<1>1. UNCHANGED <<producer, consumer, emitted, owed>> => CallInv'
    BY DEF IInv, CallInv
<1>2. UNCHANGED <<queue, sent, got>> => ShareInv'
    BY DEF IInv, ShareInv, Taken
<1>3. UNCHANGED <<producer, queue, generator, consumer>> => EndInv'
    BY DEF IInv, EndInv, Over
<1> QED BY <1>1, <1>2, <1>3

LEMMA OpenInv == ASSUME IInv, Open PROVE IInv'
<1>1. /\ producer = "before" /\ producer' = "inside"
      /\ UNCHANGED <<queue, closed, sent, generator, subscriptions, consumer, got>>
    BY DEF Open, PS!Emit, chanVars
<1>2. emitted = 0 /\ \A c \in Consumer : consumer[c] = "uncalled"
    BY <1>1 DEF IInv, CallInv
<1>3. emitted + 1 = 1
    <2>1. emitted = 0
        BY <1>2
    <2> QED BY <2>1
<1> DEFINE due == {s \in subscriptions : s[2] \in {Topic, "every topic"}}
<1>4. emitted' = 1 /\ owed' = [owed EXCEPT ![1] = due]
    <2>1. emitted' = emitted + 1 /\ owed' = [owed EXCEPT ![emitted + 1] = due]
        BY DEF Open, PS!Emit
    <2> QED BY <1>3, <2>1
<1>5. due \in SUBSET subscriptions
    OBVIOUS
<1> HIDE DEF due
<1>6. TypeOK'
    <2>1. owed' \in [{1} -> SUBSET subscriptions]
        BY <1>4, <1>5 DEF IInv, TypeOK
    <2> QED BY <1>1, <1>4, <2>1 DEF IInv, TypeOK
<1>7. CallInv'
    BY <1>1, <1>2, <1>4 DEF CallInv
<1>8. EndInv'
    BY <1>1 DEF IInv, EndInv, Over
<1> QED BY <1>1, <1>6, <1>7, <1>8, Frames DEF IInv

\* The chunk sent is the next one, behind all that are left.
LEMMA SendChunkInv == ASSUME IInv, SendChunk PROVE IInv'
<1>1. /\ producer = "inside" /\ sent < MaxChunks /\ sent' = sent + 1
      /\ queue' = Append(queue, sent + 1)
      /\ UNCHANGED <<closed, producer, generator, topicVars, consumer, got>>
    BY DEF SendChunk, Ch!Put
<1>2. queue \in Seq(Chunk) /\ sent \in 0..MaxChunks /\ Len(queue) \in Nat /\ sent + 1 \in Chunk
    BY <1>1, StreamAssumption DEF IInv, TypeOK, Chunk
<1>3. /\ queue' \in Seq(Chunk) /\ Len(queue') = Len(queue) + 1
      /\ \A i \in 1..Len(queue) : queue'[i] = queue[i]
      /\ queue'[Len(queue) + 1] = sent + 1
    BY <1>1, <1>2
<1>4. Taken' = Taken
    BY <1>1, <1>2, <1>3 DEF Taken
<1>5. queue' = [i \in 1..Len(queue') |-> Taken' + i]
    <2>1. \A i \in 1..Len(queue) : queue[i] = Taken + i
        BY DEF IInv, ShareInv
    <2>2. Taken + (Len(queue) + 1) = sent + 1
        BY <1>2 DEF Taken
    <2>3. \A i \in 1..Len(queue') : queue'[i] = Taken + i
        BY <1>2, <1>3, <2>1, <2>2
    <2>4. queue' = [i \in 1..Len(queue') |-> queue'[i]]
        BY <1>3
    <2> QED BY <1>4, <2>3, <2>4
<1>6. TypeOK'
    BY <1>1, <1>2, <1>3, StreamAssumption DEF IInv, TypeOK, topicVars
<1>7. ShareInv'
    BY <1>1, <1>2, <1>3, <1>4, <1>5 DEF IInv, ShareInv
<1>8. EndInv'
    BY <1>1 DEF IInv, EndInv, Over
<1> QED BY <1>1, <1>6, <1>7, <1>8, Frames DEF IInv, topicVars

LEMMA LeaveBlockInv == ASSUME IInv, LeaveBlock PROVE IInv'
<1>1. /\ producer = "inside" /\ producer' = "after" /\ closed'
      /\ closed' = TRUE
      /\ UNCHANGED <<queue, sent, generator, topicVars, consumer, got>>
    BY DEF LeaveBlock, Ch!Close
<1>2. TypeOK'
    BY <1>1 DEF IInv, TypeOK, topicVars
<1>3. CallInv'
    BY <1>1 DEF IInv, CallInv, topicVars
<1>4. EndInv'
    BY <1>1 DEF IInv, EndInv, Over
<1> QED BY <1>1, <1>2, <1>3, <1>4, Frames DEF IInv

LEMMA SubscribeInv == ASSUME IInv, NEW c \in Consumer, Subscribe(c) PROVE IInv'
<1>1. /\ subscriptions' = subscriptions \cup {<<c, Topic>>}
      /\ UNCHANGED <<chanVars, producer, sent, generator, emitted, owed, consumer, got>>
    BY DEF Subscribe, PS!Subscribe, PS!SubscribeEach
<1>2. TypeOK'
    BY <1>1 DEF IInv, TypeOK, chanVars
<1> QED BY <1>1, <1>2, Frames DEF IInv, chanVars

LEMMA CallKeeps == ASSUME IInv, NEW c \in Consumer, Call(c) PROVE IInv'
<1>1. /\ <<c, Topic>> \in owed[1] /\ owed' = [owed EXCEPT ![1] = @ \ {<<c, Topic>>}]
      /\ consumer' = [consumer EXCEPT ![c] = "iterating"]
      /\ UNCHANGED <<chanVars, producer, sent, generator, subscriptions, emitted, got>>
    BY DEF Call, PS!Deliver
<1>2. consumer[c] = "uncalled"
    BY <1>1 DEF IInv, CallInv
<1>3. owed'[1] \subseteq owed[1] /\ (owed'[1] = owed[1] \ {<<c, Topic>>} \/ owed'[1] = owed[1])
    BY <1>1
<1>4. /\ consumer'[c] = "iterating" /\ \A d \in Consumer : d # c => consumer'[d] = consumer[d]
    BY <1>1 DEF IInv, TypeOK
<1>5. owed' \in [{1} -> SUBSET subscriptions]
    BY <1>1 DEF IInv, TypeOK
<1>6. TypeOK'
    <2>1. \A d \in Consumer : consumer'[d] = "waiting" <=> consumer[d] = "waiting"
        BY <1>2, <1>4
    <2> QED BY <1>1, <1>5, <2>1 DEF IInv, TypeOK, chanVars
<1>7. CallInv'
    <2>1. <<c, Topic>> \notin owed'[1] /\ owed'[1] \subseteq owed[1]
        BY <1>1 DEF IInv, TypeOK
    <2>2. producer # "before"
        BY <1>1 DEF IInv, CallInv
    <2> QED BY <1>1, <1>4, <2>1, <2>2 DEF IInv, CallInv
<1>8. EndInv'
    BY <1>1, <1>2, <1>4 DEF IInv, EndInv, Over, chanVars
<1> QED BY <1>1, <1>6, <1>7, <1>8, Frames DEF IInv, chanVars

\* A consumer that goes on leaves the generator as it found it, or takes it over
\* when no other consumer is waiting for it.
LEMMA GoesOnInv ==
    ASSUME IInv, NEW c \in Consumer,
           NEW where \in {"iterating", "waiting", "ended", "failed", "left", "cancelled"},
           NEW gen \in {"suspended", "receiving", "finished"},
           Become(c, where, gen), UNCHANGED <<producer, topicVars>>,
           consumer[c] \in {"iterating", "waiting"},
           \/ /\ generator # "receiving" \/ consumer[c] = "waiting"
              /\ gen = "receiving" <=> where = "waiting"
           \/ consumer[c] = "iterating" /\ gen = generator /\ where # "waiting",
           where = "ended" => gen = "finished",
           gen = "finished" =>
              generator = "finished" \/ where = "cancelled" \/ (producer = "after" /\ queue' = <<>>),
           generator = "finished" => gen = "finished" /\ UNCHANGED queue
    PROVE  /\ consumer' \in [Consumer -> {"uncalled", "iterating", "waiting", "ended", "failed", "left",
                                          "cancelled"}]
           /\ generator' = "receiving" <=> (\E d \in Consumer : consumer'[d] = "waiting")
           /\ CallInv' /\ EndInv'
<1>1. /\ consumer'[c] = where /\ generator' = gen
      /\ \A d \in Consumer : d # c => consumer'[d] = consumer[d]
      /\ consumer' \in [Consumer -> {"uncalled", "iterating", "waiting", "ended", "failed", "left",
                                     "cancelled"}]
    BY DEF Become, IInv, TypeOK
<1>2. /\ generator = "receiving" <=> (\E d \in Consumer : consumer[d] = "waiting")
      /\ \A d, e \in Consumer : consumer[d] = "waiting" /\ consumer[e] = "waiting" => d = e
    BY DEF IInv, TypeOK, CallInv
<1>3. /\ generator' = "receiving" <=> (\E d \in Consumer : consumer'[d] = "waiting")
      /\ \A d, e \in Consumer : consumer'[d] = "waiting" /\ consumer'[e] = "waiting" => d = e
    <2>1. CASE /\ generator # "receiving" \/ consumer[c] = "waiting"
               /\ gen = "receiving" <=> where = "waiting"
        <3>1. \A d \in Consumer : d # c => consumer'[d] # "waiting"
            BY <1>1, <1>2, <2>1
        <3> QED BY <1>1, <2>1, <3>1
    <2>2. CASE consumer[c] = "iterating" /\ gen = generator /\ where # "waiting"
        <3>1. \A d \in Consumer : consumer'[d] = "waiting" <=> consumer[d] = "waiting"
            BY <1>1, <2>2
        <3> QED BY <1>1, <1>2, <2>2, <3>1
    <2> QED BY <2>1, <2>2
<1>4. CallInv'
    <2>1. producer # "before" /\ <<c, Topic>> \notin owed[1]
        BY DEF IInv, CallInv
    <2> QED BY <1>1, <1>3, <2>1 DEF IInv, CallInv, topicVars
<1>5. EndInv'
    <2>1. generator' = "finished" => Over'
        <3>1. CASE generator = "finished"
            BY <1>1, <3>1 DEF IInv, EndInv, Over
        <3>2. CASE generator # "finished"
            BY <1>1, <3>2 DEF Over
        <3> QED BY <3>1, <3>2
    <2>2. \A d \in Consumer : consumer'[d] = "ended" => generator' = "finished"
        BY <1>1 DEF IInv, EndInv
    <2> QED BY <2>1, <2>2 DEF EndInv
<1> QED BY <1>1, <1>3, <1>4, <1>5

\* The chunk taken is the one after all that have been taken.
LEMMA TakeShares ==
    ASSUME IInv, queue # <<>>, NEW c \in Consumer, NEW v \in Chunk, Ch!Take(v),
           got' = [got EXCEPT ![c] = Append(@, v)], UNCHANGED sent
    PROVE  queue' \in Seq(Chunk) /\ closed' = closed /\ got' \in [Consumer -> Seq(Chunk)] /\ ShareInv'
<1>1. /\ queue \in Seq(Chunk) /\ got \in [Consumer -> Seq(Chunk)] /\ sent \in Nat
    BY StreamAssumption DEF IInv, TypeOK
<1>2. /\ queue' = Tail(queue) /\ v = queue[1] /\ closed' = closed
    BY <1>1 DEF Ch!Take
<1>3. /\ Len(queue) \in Nat \ {0} /\ queue' \in Seq(Chunk) /\ Len(queue') = Len(queue) - 1
      /\ \A i \in 1..(Len(queue) - 1) : queue'[i] = queue[i + 1]
    BY <1>1, <1>2
<1>4. Taken \in Nat /\ Taken' = Taken + 1 /\ Len(queue') <= sent
    BY <1>1, <1>3 DEF IInv, ShareInv, Taken
<1>5. \A i \in 1..Len(queue) : queue[i] = Taken + i
    BY DEF IInv, ShareInv
<1>6. v = Taken + 1
    BY <1>2, <1>3, <1>5
<1>7. queue' = [i \in 1..Len(queue') |-> Taken' + i]
    <2>1. \A i \in 1..Len(queue') : i + 1 \in 1..Len(queue) /\ queue'[i] = queue[i + 1]
        BY <1>3
    <2>2. \A i \in 1..Len(queue') : queue'[i] = Taken' + i
        BY <1>4, <1>5, <2>1
    <2>3. queue' = [i \in 1..Len(queue') |-> queue'[i]]
        BY <1>3
    <2> QED BY <2>2, <2>3
<1>8. /\ got'[c] = Append(got[c], v) /\ got' \in [Consumer -> Seq(Chunk)]
      /\ \A d \in Consumer : d # c => got'[d] = got[d]
    BY <1>1
<1>9. /\ \A d \in Consumer : DOMAIN got[d] = 1..Len(got[d]) /\ Len(got[d]) \in Nat
      /\ DOMAIN got'[c] = 1..(Len(got[c]) + 1) /\ got'[c][Len(got[c]) + 1] = v
      /\ \A i \in DOMAIN got[c] : got'[c][i] = got[c][i]
    BY <1>1, <1>8
<1>10. \A d \in Consumer : \A i \in DOMAIN got[d] : got[d][i] \in 1..Taken
    BY DEF IInv, ShareInv
\* An element of a part is an old one or the new last one of c.
<1>11. \A d \in Consumer : \A i \in DOMAIN got'[d] :
           \/ i \in DOMAIN got[d] /\ got'[d][i] = got[d][i]
           \/ d = c /\ i = Len(got[c]) + 1 /\ got'[d][i] = Taken + 1
    BY <1>6, <1>8, <1>9
<1>12. \A d \in Consumer : \A i \in DOMAIN got'[d] : got'[d][i] \in 1..Taken'
    BY <1>4, <1>10, <1>11
<1>13. \A d \in Consumer : \A i, j \in DOMAIN got'[d] : i < j => got'[d][i] < got'[d][j]
    <2> SUFFICES ASSUME NEW d \in Consumer, NEW i \in DOMAIN got'[d], NEW j \in DOMAIN got'[d], i < j
                 PROVE  got'[d][i] < got'[d][j]
        OBVIOUS
    <2>1. i \in DOMAIN got[d] /\ got'[d][i] = got[d][i]
        BY <1>8, <1>9, <1>11
    <2>2. CASE j \in DOMAIN got[d] /\ got'[d][j] = got[d][j]
        BY <2>1, <2>2 DEF IInv, ShareInv
    <2>3. CASE got'[d][j] = Taken + 1
        BY <1>4, <1>10, <2>1, <2>3
    <2> QED BY <1>11, <2>2, <2>3
<1>14. \A d, e \in Consumer : \A i \in DOMAIN got'[d], j \in DOMAIN got'[e] : got'[d][i] = got'[e][j] => d = e
    <2>1. \A d \in Consumer : \A i \in DOMAIN got[d] : got[d][i] # Taken + 1
        BY <1>4, <1>10
    <2> QED BY <1>11, <2>1 DEF IInv, ShareInv
<1>15. \A u \in 1..Taken' : \E d \in Consumer : \E i \in DOMAIN got'[d] : got'[d][i] = u
    <2> SUFFICES ASSUME NEW u \in 1..Taken'
                 PROVE  \E d \in Consumer : \E i \in DOMAIN got'[d] : got'[d][i] = u
        OBVIOUS
    <2>1. CASE u \in 1..Taken
        <3>1. PICK d \in Consumer : \E i \in DOMAIN got[d] : got[d][i] = u
            BY <2>1 DEF IInv, ShareInv
        <3>2. \A i \in DOMAIN got[d] : i \in DOMAIN got'[d] /\ got'[d][i] = got[d][i]
            BY <1>8, <1>9
        <3> QED BY <3>1, <3>2
    <2>2. CASE u = Taken + 1
        BY <1>6, <1>9, <2>2
    <2> QED BY <1>4, <2>1, <2>2
<1> QED BY <1>2, <1>3, <1>4, <1>7, <1>8, <1>12, <1>13, <1>14, <1>15 DEF ShareInv

LEMMA ReceiveInv ==
    ASSUME IInv, NEW c \in Consumer, Receive(c), UNCHANGED <<producer, sent, topicVars>>,
           consumer[c] = "waiting" \/ (consumer[c] = "iterating" /\ generator = "suspended")
    PROVE  IInv'
<1>1. generator # "finished"
    BY DEF IInv, TypeOK
<1>2. CASE queue # <<>>
    <2>1. PICK v \in Chunk : Ch!Take(v) /\ got' = [got EXCEPT ![c] = Append(@, v)]
        BY <1>2 DEF Receive
    <2>2. Become(c, "iterating", "suspended")
        BY <1>2 DEF Receive
    <2>3. queue' \in Seq(Chunk) /\ closed' = closed /\ got' \in [Consumer -> Seq(Chunk)] /\ ShareInv'
        BY <1>2, <2>1, TakeShares
    <2>4. /\ consumer' \in [Consumer -> {"uncalled", "iterating", "waiting", "ended", "failed", "left",
                                         "cancelled"}]
          /\ generator' = "receiving" <=> (\E d \in Consumer : consumer'[d] = "waiting")
          /\ CallInv' /\ EndInv'
        BY <1>1, <2>2, GoesOnInv
    <2>5. TypeOK'
        BY <2>2, <2>3, <2>4 DEF IInv, TypeOK, Become, topicVars
    <2> QED BY <2>3, <2>4, <2>5 DEF IInv
<1>3. CASE queue = <<>>
    <2>1. UNCHANGED <<queue, closed, got>>
        BY <1>3 DEF Receive, chanVars
    <2>2. \/ closed /\ Become(c, "ended", "finished")
          \/ ~closed /\ Become(c, "waiting", "receiving")
        BY <1>3 DEF Receive
    <2>3. closed => producer = "after"
        BY DEF IInv, TypeOK
    <2>4. /\ consumer' \in [Consumer -> {"uncalled", "iterating", "waiting", "ended", "failed", "left",
                                         "cancelled"}]
          /\ generator' = "receiving" <=> (\E d \in Consumer : consumer'[d] = "waiting")
          /\ CallInv' /\ EndInv'
        BY <1>1, <1>3, <2>1, <2>2, <2>3, GoesOnInv
    <2>5. generator' \in {"suspended", "receiving", "finished"}
        BY <2>2 DEF Become
    <2>6. TypeOK'
        BY <2>1, <2>4, <2>5 DEF IInv, TypeOK, topicVars
    <2> QED BY <2>1, <2>4, <2>6, Frames DEF IInv
<1> QED BY <1>2, <1>3

\* The consumer goes its way, and nothing is received.
LEMMA AsideInv ==
    ASSUME IInv, NEW c \in Consumer, UNCHANGED <<chanVars, producer, sent, topicVars, got>>,
           \/ consumer[c] = "iterating" /\ Become(c, "failed", generator)
           \/ consumer[c] = "iterating" /\ Become(c, "left", generator)
           \/ consumer[c] = "iterating" /\ generator = "finished" /\ Become(c, "ended", generator)
           \/ consumer[c] = "waiting" /\ Become(c, "cancelled", "finished")
    PROVE  IInv'
<1>1. generator \in {"suspended", "receiving", "finished"} /\ (consumer[c] = "waiting" => generator = "receiving")
    BY DEF IInv, TypeOK
<1>2. /\ consumer' \in [Consumer -> {"uncalled", "iterating", "waiting", "ended", "failed", "left",
                                     "cancelled"}]
      /\ generator' = "receiving" <=> (\E d \in Consumer : consumer'[d] = "waiting")
      /\ CallInv' /\ EndInv'
    BY <1>1, GoesOnInv DEF chanVars
<1>3. generator' \in {"suspended", "receiving", "finished"}
    BY <1>1 DEF Become
<1>4. TypeOK'
    BY <1>2, <1>3 DEF IInv, TypeOK, topicVars, chanVars
<1> QED BY <1>2, <1>4, Frames DEF IInv, chanVars

LEMMA NextInv == ASSUME IInv, [Next]_vars PROVE IInv'
<1>1. ASSUME NEW c \in Consumer, Anext(c) PROVE IInv'
    <2>1. CASE generator = "suspended" /\ Receive(c)
        BY <1>1, <2>1, ReceiveInv DEF Anext
    <2>2. CASE ~(generator = "suspended" /\ Receive(c))
        BY <1>1, <2>2, AsideInv DEF Anext
    <2> QED BY <2>1, <2>2
<1>2. ASSUME NEW c \in Consumer, Resume(c) PROVE IInv'
    BY <1>2, ReceiveInv DEF Resume
<1>3. ASSUME NEW c \in Consumer, Leave(c) \/ CancelWaiting(c) PROVE IInv'
    BY <1>3, AsideInv DEF Leave, CancelWaiting
<1>4. CASE UNCHANGED vars
    <2>1. TypeOK'
        BY <1>4 DEF IInv, TypeOK, vars, chanVars, topicVars
    <2> QED BY <1>4, <2>1, Frames DEF IInv, vars, chanVars, topicVars
<1> QED BY <1>1, <1>2, <1>3, <1>4, OpenInv, SendChunkInv, LeaveBlockInv, SubscribeInv, CallKeeps DEF Next

-----------------------------------------------------------------------------
(* The results.                                                            *)

LEMMA StreamInvariant == Spec => []IInv
BY InitInv, NextInv, PTL DEF Spec

\* The stream keeps its types; the generator is in recv() for one consumer.
THEOREM TypeCorrect == Spec => []TypeOK
BY StreamInvariant, PTL DEF IInv

\* The consumers share the stream: no chunk is lost, given twice or out of order, for
\* any number of consumers, whoever fails, leaves or is cancelled.
THEOREM ChunksShared == Spec => []ChunksOnceInOrder
<1>1. IInv => ChunksOnceInOrder
    <2> SUFFICES ASSUME IInv PROVE ChunksOnceInOrder
        OBVIOUS
    <2>1. UNION {Given(c) : c \in Consumer} = 1..Taken
        BY DEF IInv, ShareInv, Given
    <2>2. \A c, d \in Consumer : c # d => Given(c) \cap Given(d) = {}
        BY DEF IInv, ShareInv, Given
    <2> QED BY <2>1, <2>2 DEF IInv, ShareInv, ChunksOnceInOrder, Taken
<1> QED BY <1>1, StreamInvariant, PTL

\* A loop that ends normally has left nothing of the stream unseen, unless another
\* consumer was cancelled while it waited.
THEOREM EndSeesAll == Spec => []EndMeansAll
<1>1. IInv => EndMeansAll
    BY DEF IInv, EndInv, Over, EndMeansAll
<1> QED BY <1>1, StreamInvariant, PTL

-----------------------------------------------------------------------------
(* The consumer that has the stream to itself.                             *)

\* What nobody shares has been given to one: all that was taken, in order.
SoleInv ==
    /\ \A d \in Consumer : consumer[d] = "uncalled" => got[d] = <<>>
    /\ \A c \in Consumer : (\A d \in Consumer : d # c => got[d] = <<>>) => got[c] = [i \in 1..Taken |-> i]

\* A consumer that is the only one to be called, and whose loop ends, has been given
\* the stream as it was sent, whole and in order, and the routine has left its block.
AloneSeesAll ==
    \A c \in Consumer :
        consumer[c] = "ended" /\ (\A d \in Consumer : d # c => consumer[d] = "uncalled") =>
            producer = "after" /\ got[c] = [i \in 1..sent |-> i]

\* The chunk taken follows those that the only consumer has.
LEMMA TakeSole ==
    ASSUME IInv, SoleInv, queue # <<>>, NEW c \in Consumer, NEW v \in Chunk, Ch!Take(v),
           got' = [got EXCEPT ![c] = Append(@, v)], UNCHANGED sent,
           \A d \in Consumer : d # c => consumer'[d] = consumer[d],
           consumer'[c] # "uncalled"
    PROVE  SoleInv'
<1>1. /\ queue \in Seq(Chunk) /\ got \in [Consumer -> Seq(Chunk)] /\ sent \in Nat
    BY StreamAssumption DEF IInv, TypeOK
<1>2. queue' = Tail(queue) /\ v = queue[1] /\ Len(queue) \in Nat \ {0} /\ Len(queue) <= sent
    BY <1>1 DEF Ch!Take, IInv, ShareInv
<1>3. Taken \in Nat /\ Taken' = Taken + 1
    BY <1>1, <1>2 DEF Taken
<1>4. v = Taken + 1
    <2>1. \A i \in 1..Len(queue) : queue[i] = Taken + i
        BY DEF IInv, ShareInv
    <2> QED BY <1>2, <2>1
<1>5. /\ got'[c] = Append(got[c], v) /\ got'[c] # <<>>
      /\ \A d \in Consumer : d # c => got'[d] = got[d]
    BY <1>1
<1>6. ASSUME NEW e \in Consumer, \A d \in Consumer : d # e => got'[d] = <<>>
      PROVE  got'[e] = [i \in 1..Taken' |-> i]
    <2>1. e = c /\ \A d \in Consumer : d # c => got[d] = <<>>
        BY <1>5, <1>6
    <2>2. got[c] = [i \in 1..Taken |-> i]
        BY <2>1 DEF SoleInv
    <2>3. Append([i \in 1..Taken |-> i], Taken + 1) = [i \in 1..(Taken + 1) |-> i]
        <3> DEFINE n == Taken
                   short == [i \in 1..n |-> i]
                   long == Append(short, n + 1)
        <3>1. n \in Nat
            BY <1>3
        <3> HIDE DEF n
        <3>2. short \in Seq(Nat) /\ Len(short) = n
            BY <3>1
        <3>3. /\ long \in Seq(Nat) /\ Len(long) = n + 1 /\ long[n + 1] = n + 1
              /\ \A i \in 1..n : long[i] = short[i]
            BY <3>1, <3>2
        <3>4. \A i \in 1..(n + 1) : long[i] = i
            BY <3>1, <3>3
        <3>5. long = [i \in 1..(n + 1) |-> long[i]]
            BY <3>1, <3>3
        <3> QED BY <3>4, <3>5 DEF n
    <2> QED BY <1>3, <1>4, <1>5, <2>1, <2>2, <2>3
<1>7. \A d \in Consumer : consumer'[d] = "uncalled" => got'[d] = <<>>
    BY <1>5 DEF SoleInv
<1> QED BY <1>6, <1>7 DEF SoleInv

\* Steps in which nobody receives anything.
LEMMA SoleKept ==
    ASSUME SoleInv, got' = got, Taken' = Taken,
           \A d \in Consumer : consumer'[d] = "uncalled" => consumer[d] = "uncalled"
    PROVE  SoleInv'
BY DEF SoleInv

LEMMA ReceiveSole ==
    ASSUME IInv, SoleInv, NEW c \in Consumer, Receive(c), consumer[c] # "uncalled", UNCHANGED sent
    PROVE  SoleInv'
<1>1. \A where, gen : Become(c, where, gen) =>
         consumer'[c] = where /\ \A d \in Consumer : d # c => consumer'[d] = consumer[d]
    BY DEF Become, IInv, TypeOK
<1>2. CASE queue # <<>>
    <2>1. PICK v \in Chunk : Ch!Take(v) /\ got' = [got EXCEPT ![c] = Append(@, v)]
        BY <1>2 DEF Receive
    <2>2. Become(c, "iterating", "suspended")
        BY <1>2 DEF Receive
    <2>3. consumer'[c] # "uncalled" /\ \A d \in Consumer : d # c => consumer'[d] = consumer[d]
        BY <1>1, <2>2
    <2> QED BY <1>2, <2>1, <2>3, TakeSole
<1>3. CASE queue = <<>>
    <2>1. UNCHANGED <<queue, got>>
        BY <1>3 DEF Receive, chanVars
    <2>2. Become(c, "ended", "finished") \/ Become(c, "waiting", "receiving")
        BY <1>3 DEF Receive
    <2>3. \A d \in Consumer : consumer'[d] = "uncalled" => consumer[d] = "uncalled"
        BY <1>1, <2>2
    <2>4. Taken' = Taken
        BY <2>1 DEF Taken
    <2> QED BY <2>1, <2>3, <2>4, SoleKept
<1> QED BY <1>2, <1>3

LEMMA SoleStep == ASSUME IInv, SoleInv, [Next]_vars PROVE SoleInv'
<1>1. CASE SendChunk
    <2>1. queue' = Append(queue, sent + 1) /\ sent' = sent + 1 /\ UNCHANGED <<got, consumer>>
        BY <1>1 DEF SendChunk, Ch!Put
    <2>2. queue \in Seq(Chunk) /\ sent \in Nat /\ sent + 1 \in Chunk
        BY <1>1, StreamAssumption DEF SendChunk, IInv, TypeOK, Chunk
    <2>3. Len(queue') = Len(queue) + 1 /\ Len(queue) \in Nat
        BY <2>1, <2>2
    <2>4. Taken' = Taken
        BY <2>1, <2>2, <2>3 DEF Taken
    <2> QED BY <2>1, <2>4, SoleKept
<1>2. CASE Open \/ LeaveBlock \/ (\E c \in Consumer : Subscribe(c)) \/ UNCHANGED vars
    <2>1. UNCHANGED <<queue, sent, got, consumer>>
        BY <1>2 DEF Open, LeaveBlock, Ch!Close, Subscribe, vars, chanVars
    <2> QED BY <2>1, SoleKept DEF Taken
<1>3. ASSUME NEW c \in Consumer, NEW where, NEW gen, Become(c, where, gen), where # "uncalled",
             UNCHANGED <<queue, sent, got>>
      PROVE  SoleInv'
    BY <1>3, SoleKept DEF Become, Taken, IInv, TypeOK
<1>4. ASSUME NEW c \in Consumer, Call(c) PROVE SoleInv'
    <2>1. consumer' = [consumer EXCEPT ![c] = "iterating"] /\ UNCHANGED <<queue, sent, got>>
        BY <1>4 DEF Call, chanVars
    <2> QED BY <2>1, SoleKept DEF Taken, IInv, TypeOK
<1>5. ASSUME NEW c \in Consumer, Anext(c) PROVE SoleInv'
    BY <1>3, <1>5, ReceiveSole DEF Anext, chanVars
<1>6. ASSUME NEW c \in Consumer, Resume(c) PROVE SoleInv'
    BY <1>6, ReceiveSole DEF Resume
<1>7. ASSUME NEW c \in Consumer, Leave(c) \/ CancelWaiting(c) PROVE SoleInv'
    BY <1>3, <1>7 DEF Leave, CancelWaiting, chanVars
<1> QED BY <1>1, <1>2, <1>4, <1>5, <1>6, <1>7 DEF Next

LEMMA SoleInvariant == Spec => []SoleInv
<1>1. Init => SoleInv
    <2> SUFFICES ASSUME Init PROVE SoleInv
        OBVIOUS
    <2>1. Taken = 0 /\ \A c \in Consumer : got[c] = <<>>
        <3>1. Len(queue) = 0 /\ sent = 0
            BY DEF Init, Ch!Init
        <3> QED BY <3>1 DEF Init, Taken
    <2>2. [i \in 1..Taken |-> i] = <<>>
        BY <2>1
    <2> QED BY <2>1, <2>2 DEF SoleInv
<1> QED BY <1>1, SoleStep, StreamInvariant, PTL DEF Spec

\* The single subscriber of a stream, the usual one, gets exactly what was sent,
\* however the sending and the receiving interleave and however the block is left.
THEOREM LoneConsumer == Spec => []AloneSeesAll
<1>1. ASSUME IInv, SoleInv, NEW c \in Consumer, consumer[c] = "ended",
             \A d \in Consumer : d # c => consumer[d] = "uncalled"
      PROVE  producer = "after" /\ got[c] = [i \in 1..sent |-> i]
    <2>1. Over
        BY <1>1 DEF IInv, EndInv
    <2>2. producer = "after" /\ queue = <<>>
        BY <1>1, <2>1 DEF Over
    <2>3. Taken = sent
        <3>1. Len(queue) = 0 /\ sent \in Nat
            BY <1>1, <2>2, StreamAssumption DEF IInv, TypeOK
        <3> QED BY <3>1 DEF Taken
    <2> QED BY <1>1, <2>2, <2>3 DEF SoleInv
<1>2. IInv /\ SoleInv => AloneSeesAll
    BY <1>1 DEF AloneSeesAll
<1> QED BY <1>2, StreamInvariant, SoleInvariant, PTL
=============================================================================
