----------------------------- MODULE Chan_proofs -----------------------------
(* Proofs about Chan, for any tasks, sizes and bounds.                      *)
EXTENDS Chan, FiniteSetTheorems, TLAPS

\* What the abstract channel needs to know of this one.
Values == queue \in Seq(Sender)

LEMMA ValuesInvariant == Spec => []Values
<1> USE DEF Values
<1>1. Init => Values
  BY DEF Init
<1>2. Values /\ [Next]_vars => Values'
  <2> SUFFICES ASSUME Values, [Next]_vars PROVE Values'
    OBVIOUS
  <2> USE DEF SendLoop, SendNowait, Store, AwaitRoom, RecvLoop, TakeFirst, AwaitValue, Fails
  <2>1. CASE \E p \in Sender : SendCall(p) \/ SendResume(p)
    BY <2>1 DEF SendCall, SendResume, SendCancelled
  <2>2. CASE \E p \in Receiver : RecvCall(p) \/ RecvResume(p)
    BY <2>2 DEF RecvCall, RecvResume, RecvCancelled
  <2>3. CASE (\E p \in Process : Cancel(p)) \/ Close \/ UNCHANGED vars
    BY <2>3 DEF Cancel, Close, vars
  <2> QED
    BY <2>1, <2>2, <2>3 DEF Next
<1> QED
  BY <1>1, <1>2, PTL DEF Spec

\* A step of send puts one value at the end of a channel with room, or is
\* not seen from outside.
LEMMA SendSimulated ==
    ASSUME NEW p \in Sender, SendCall(p) \/ SendResume(p)
    PROVE  Abstract!Next \/ UNCHANGED Abstract!specVars
<1>1. UNCHANGED <<maxsize, closed>> /\ (SendLoop(p) \/ UNCHANGED queue)
  BY DEF SendCall, SendResume, SendCancelled, Fails
<1>2. UNCHANGED queue \/ Abstract!Put(p)
  BY <1>1 DEF SendLoop, SendNowait, Store, AwaitRoom, Fails, Full, Abstract!Put, Abstract!Full
<1> QED
  BY <1>1, <1>2 DEF Abstract!Next, Abstract!specVars

\* A step of recv takes the oldest value, or is not seen from outside.
LEMMA RecvSimulated ==
    ASSUME Values, NEW p \in Receiver, RecvCall(p) \/ RecvResume(p)
    PROVE  Abstract!Next \/ UNCHANGED Abstract!specVars
<1>1. UNCHANGED <<maxsize, closed>> /\ (RecvLoop(p) \/ UNCHANGED queue)
  BY DEF RecvCall, RecvResume, RecvCancelled, Fails
<1>2. UNCHANGED queue \/ (queue # <<>> /\ queue' = Tail(queue))
  BY <1>1 DEF RecvLoop, TakeFirst, AwaitValue, Fails
<1>3. UNCHANGED queue \/ \E v \in Sender : Abstract!Take(v)
  BY <1>1, <1>2 DEF Values, Abstract!Take
<1> QED
  BY <1>1, <1>3 DEF Abstract!Next, Abstract!specVars

\* The channel with its futures and cancellations implements the FIFO buffer
\* of ChanSpec: no interleaving of waiting, waking, cancelling and closing
\* exceeds the limit, reorders, loses or duplicates a value, or accepts one
\* after the close.
THEOREM Refinement == Spec => ImplementsChan
<1>1. Init => Abstract!Init
  BY DEF Init, Abstract!Init
<1>2. Values /\ [Next]_vars => [Abstract!Next]_(Abstract!specVars)
  <2> SUFFICES ASSUME Values, [Next]_vars
               PROVE  Abstract!Next \/ UNCHANGED Abstract!specVars
    OBVIOUS
  <2>1. CASE (\E p \in Process : Cancel(p)) \/ UNCHANGED vars
    BY <2>1 DEF Cancel, vars, Abstract!specVars
  <2>2. CASE Close
    BY <2>2 DEF Close, Abstract!Next, Abstract!Close
  <2> QED
    BY <2>1, <2>2, SendSimulated, RecvSimulated DEF Next
<1> QED
  BY <1>1, <1>2, ValuesInvariant, PTL DEF Spec, ImplementsChan, Abstract!Spec

-----------------------------------------------------------------------------
(* Waking and leaving a queue of futures.                                  *)

LEMMA SmallestIndex ==
    ASSUME NEW I, I \subseteq Nat, I # {}
    PROVE  Min(I) \in I /\ \A j \in I : Min(I) <= j
<1>1. PICK x \in I : \A y \in I : ~(<<y, x>> \in OpToRel(<, Nat))
  BY NatLessThanWellFounded, WFMin
<1>2. ASSUME NEW y \in I PROVE x <= y
  <2>1. <<y, x>> \notin OpToRel(<, Nat)
    BY <1>1
  <2>2. y \in Nat /\ x \in Nat
    OBVIOUS
  <2>3. ~(y < x)
    BY <2>1, <2>2, Zenon DEF OpToRel
  <2> QED
    BY <2>2, <2>3, SMT
<1> QED
  BY <1>2 DEF Min

\* _wakeup_next finds the first future that is still pending.
LEMMA FirstPendingIsFirst ==
    ASSUME NEW W, NEW w \in Seq(W), NEW f
    PROVE  /\ FirstPending(w, f) \in 0..Len(w)
           /\ FirstPending(w, f) = 0 =>
                  \A j \in 1..Len(w) : ~(w[j] # Gone /\ f[w[j]] = "pending")
           /\ FirstPending(w, f) # 0 =>
                  /\ w[FirstPending(w, f)] # Gone /\ f[w[FirstPending(w, f)]] = "pending"
                  /\ \A j \in 1..Len(w) : w[j] # Gone /\ f[w[j]] = "pending" => FirstPending(w, f) <= j
<1> DEFINE I == {j \in 1..Len(w) : w[j] # Gone /\ f[w[j]] = "pending"}
<1>1. FirstPending(w, f) = IF I # {} THEN Min(I) ELSE 0
  BY DEF FirstPending, SelectInSeq
<1>2. I \subseteq Nat
  OBVIOUS
<1>3. CASE I = {}
  BY <1>1, <1>3
<1>4. CASE I # {}
  <2>1. Min(I) \in I /\ \A j \in I : Min(I) <= j
    BY <1>2, <1>4, SmallestIndex
  <2>2. FirstPending(w, f) = Min(I)
    BY <1>1, <1>4
  <2> HIDE DEF I
  <2>3. FirstPending(w, f) \in I /\ \A j \in I : FirstPending(w, f) <= j
    BY <2>1, <2>2
  <2> QED
    BY <2>3 DEF I
<1> QED
  BY <1>3, <1>4

\* A wakeup makes at most one pending future done, and leaves the queue with no
\* other elements than it had.
LEMMA WakeupTyped ==
    ASSUME NEW W, NEW w \in Seq(W), NEW F, "result" \in F, NEW f \in [Process -> F]
    PROVE  /\ StillWaiting(w, f) \in Seq(W)
           /\ Woken(w, f) \in [Process -> F]
           /\ \A q \in Process : Woken(w, f)[q] = f[q] \/ Woken(w, f)[q] = "result"
<1> DEFINE i == FirstPending(w, f)
<1>1. i \in 0..Len(w)
  BY FirstPendingIsFirst
<1>2. StillWaiting(w, f) = IF i = 0 THEN <<>> ELSE SubSeq(w, i + 1, Len(w))
  BY DEF StillWaiting
<1>3. Woken(w, f) = IF i = 0 THEN f ELSE [f EXCEPT ![w[i]] = "result"]
  BY DEF Woken
<1> HIDE DEF i
<1>4. StillWaiting(w, f) \in Seq(W)
  BY <1>1, <1>2
<1> QED
  BY <1>3, <1>4

Ended == {"none", "pending", "result", "closed", "cancelled"}

\* Whoever is still pending after a wakeup is still in the queue.
LEMMA WakeupKeepsOthers ==
    ASSUME NEW W, NEW w \in Seq(W), NEW f \in [Process -> Ended],
           NEW q \in Process, q # Gone,
           Woken(w, f)[q] = "pending", \E j \in DOMAIN w : w[j] = q
    PROVE  \E j \in DOMAIN StillWaiting(w, f) : StillWaiting(w, f)[j] = q
<1> DEFINE i == FirstPending(w, f)
<1>1. /\ i \in 0..Len(w)
      /\ i = 0 => \A j \in 1..Len(w) : ~(w[j] # Gone /\ f[w[j]] = "pending")
      /\ i # 0 => \A j \in 1..Len(w) : w[j] # Gone /\ f[w[j]] = "pending" => i <= j
  BY FirstPendingIsFirst
<1>2. StillWaiting(w, f) = IF i = 0 THEN <<>> ELSE SubSeq(w, i + 1, Len(w))
  BY DEF StillWaiting
<1>3. Woken(w, f) = IF i = 0 THEN f ELSE [f EXCEPT ![w[i]] = "result"]
  BY DEF Woken
<1> HIDE DEF i
<1>4. PICK j \in 1..Len(w) : w[j] = q
  OBVIOUS
<1>5. f[q] = "pending"
  BY <1>3
<1>6. i # 0 /\ i <= j
  BY <1>1, <1>4, <1>5
<1>7. i # j
  BY <1>3, <1>4, <1>6
<1>8. j - i \in DOMAIN SubSeq(w, i + 1, Len(w)) /\ SubSeq(w, i + 1, Len(w))[j - i] = q
  BY <1>1, <1>4, <1>6, <1>7
<1> QED
  BY <1>2, <1>6, <1>8

LEMMA ElementOfBack ==
    ASSUME NEW W, NEW a \in Seq(W), NEW b \in Seq(W), NEW k \in 1..Len(b)
    PROVE  \E m \in DOMAIN (a \o b) : (a \o b)[m] = b[k]
<1> DEFINE m == Len(a) + k
<1>1. m \in Nat /\ m > Len(a) /\ m <= Len(a) + Len(b) /\ m - Len(a) = k
  OBVIOUS
<1> HIDE DEF m
<1>2. m \in 1..Len(a) + Len(b)
  BY <1>1
<1>3. m \in DOMAIN (a \o b) /\ (a \o b)[m] = b[k]
  BY <1>1, <1>2
<1> QED
  BY <1>3

\* _puts.remove(p) takes p out and nobody else.
LEMMA RemoveFirstKeepsOthers ==
    ASSUME NEW W, NEW w \in Seq(W), NEW p
    PROVE  /\ RemoveFirst(w, p) \in Seq(W)
           /\ \A q \in W : q # p /\ (\E j \in DOMAIN w : w[j] = q) =>
                 \E j \in DOMAIN RemoveFirst(w, p) : RemoveFirst(w, p)[j] = q
<1>1. CASE ~\E j \in 1..Len(w) : w[j] = p
  BY <1>1 DEF RemoveFirst
<1>2. CASE \E j \in 1..Len(w) : w[j] = p
  <2> DEFINE I == {j \in 1..Len(w) : w[j] = p}
             i == Min(I)
             front == SubSeq(w, 1, i - 1)
             back == SubSeq(w, i + 1, Len(w))
             rest == front \o back
  <2>1. I # {} /\ I \subseteq Nat
    BY <1>2
  <2>2. i \in I
    BY <2>1, SmallestIndex
  <2>3. RemoveFirst(w, p) = rest
    BY <1>2, <2>1 DEF RemoveFirst, RemoveAt, SelectInSeq
  <2>4. i \in 1..Len(w) /\ w[i] = p
    BY <2>2
  <2> HIDE DEF I, i
  <2>7. front \in Seq(W) /\ back \in Seq(W)
    BY <2>4
  <2>5. rest \in Seq(W)
    BY <2>7
  <2>6. ASSUME NEW q \in W, q # p, NEW j \in DOMAIN w, w[j] = q
        PROVE  \E k \in DOMAIN rest : rest[k] = q
    <3>1. j \in 1..Len(w) /\ j # i
      BY <2>4, <2>6
    <3>2. CASE j < i
      <4>1. Len(front) = i - 1 /\ j \in 1..Len(front) /\ front[j] = w[j]
        BY <2>4, <3>1, <3>2
      <4> HIDE DEF front, back
      <4>2. j \in DOMAIN rest /\ rest[j] = front[j]
        BY <2>7, <4>1
      <4> QED
        BY <2>6, <4>1, <4>2
    <3>3. CASE j > i
      <4>1. j - i \in 1..Len(w) - i /\ Len(back) = Len(w) - i
        BY <2>4, <3>1, <3>3
      <4>2. back[j - i] = w[j]
        BY <2>4, <3>1, <3>3, <4>1
      <4> HIDE DEF front, back
      <4> DEFINE m == j - i
      <4>4. m \in 1..Len(back)
        BY <4>1
      <4> HIDE DEF m
      <4>5. \E k \in DOMAIN rest : rest[k] = back[m]
        BY <2>7, <4>4, ElementOfBack
      <4>3. \E k \in DOMAIN rest : rest[k] = back[j - i]
        BY <4>5 DEF m
      <4> QED
        BY <2>6, <4>2, <4>3
    <3> HIDE DEF rest
    <3>4. j < i \/ j > i
      BY <2>4, <3>1
    <3> QED
      BY <3>2, <3>3, <3>4
  <2> QED
    BY <2>3, <2>5, <2>6
<1> QED
  BY <1>1, <1>2

-----------------------------------------------------------------------------
(* The invariant.                                                          *)

Failure == {"none", "full", "closed", "cancelled"}

\* The parts of the state a call works on.
CallsTyped == /\ queue \in Seq(Sender)
              /\ gets \in Seq(Receiver \cup {Gone}) /\ puts \in Seq(Sender)
              /\ fut \in [Process -> Ended] /\ raised \in [Process -> Failure]

\* The future of every waiting call is in its deque: nobody waits where no
\* wakeup and no close would find him.
Enlisted ==
    /\ \A p \in Pending(Sender) : \E i \in DOMAIN puts : puts[i] = p
    /\ \A p \in Pending(Receiver) : \E i \in DOMAIN gets : gets[i] = p

\* A failure, or one on its way, is that of a closed channel.
FailedWhenClosed ==
    \A p \in Process : raised[p] \in {"full", "closed"} \/ fut[p] = "closed" => closed

CallsInv == CallsTyped /\ Enlisted /\ CloseReleasesAll /\ FailedWhenClosed

LEMMA BackTyped ==
    ASSUME fut \in [Process -> Ended], NEW p \in Process
    PROVE  /\ Back(p) \in [Process -> Ended]
           /\ Back(p)[p] = "none" /\ \A q \in Process : q # p => Back(p)[q] = fut[q]
  BY DEF Back, Ended

\* A future taken from one deque, the woken one from the other or the same:
\* what is left to show of a step that only wakes somebody up.
LEMMA StepKeeps ==
    ASSUME CallsInv, CallsTyped', UNCHANGED closed,
           \A q \in Process : fut'[q] = fut[q] \/ fut'[q] \in {"none", "result"},
           \A q \in Process : raised'[q] = raised[q]
                              \/ (raised'[q] \in {"full", "closed"} => closed),
           \A q \in Pending(Sender)' : \E i \in DOMAIN puts' : puts'[i] = q,
           \A q \in Pending(Receiver)' : \E i \in DOMAIN gets' : gets'[i] = q
    PROVE  CallsInv'
<1>1. Enlisted'
  BY DEF Enlisted
<1>2. CloseReleasesAll'
  BY DEF CallsInv, CloseReleasesAll, Pending, CallsTyped
<1>3. FailedWhenClosed'
  BY DEF CallsInv, FailedWhenClosed
<1> QED
  BY <1>1, <1>2, <1>3 DEF CallsInv

LEMMA FailsKeeps ==
    ASSUME CallsInv, UNCHANGED closed, NEW p \in Process, NEW what \in Failure,
           what \in {"full", "closed"} => closed, Fails(p, what)
    PROVE  CallsInv'
<1> USE DEF CallsInv, CallsTyped
<1>1. /\ fut' = Back(p) /\ UNCHANGED <<queue, gets, puts>>
      /\ raised' = [raised EXCEPT ![p] = what]
  BY DEF Fails, Ends
<1>2. /\ Back(p) \in [Process -> Ended]
      /\ Back(p)[p] = "none" /\ \A q \in Process : q # p => Back(p)[q] = fut[q]
  BY BackTyped
<1>3. CallsTyped' /\ \A q \in Process : q # p => raised'[q] = raised[q]
  BY <1>1, <1>2
<1>4. raised'[p] = what
  BY <1>1
<1>5. Pending(Sender)' \subseteq Pending(Sender) /\ Pending(Receiver)' \subseteq Pending(Receiver)
  BY <1>1, <1>2 DEF Pending, Process
<1> QED
  BY <1>1, <1>2, <1>3, <1>4, <1>5, StepKeeps DEF Enlisted

LEMMA StoreKeeps ==
    ASSUME CallsInv, UNCHANGED closed, NEW p \in Sender, Store(p)
    PROVE  CallsInv'
<1> USE DEF CallsInv, CallsTyped
<1>1. /\ queue' = Append(queue, p) /\ UNCHANGED puts
      /\ gets' = StillWaiting(gets, Back(p)) /\ fut' = Woken(gets, Back(p))
      /\ raised' = [raised EXCEPT ![p] = "none"]
  BY DEF Store, Ends
<1>2. /\ Back(p) \in [Process -> Ended]
      /\ Back(p)[p] = "none" /\ \A q \in Process : q # p => Back(p)[q] = fut[q]
  BY BackTyped DEF Process
<1>3. "result" \in Ended
  BY DEF Ended
<1>4. /\ gets' \in Seq(Receiver \cup {Gone}) /\ fut' \in [Process -> Ended]
      /\ \A q \in Process : fut'[q] = Back(p)[q] \/ fut'[q] = "result"
  <2>1. gets \in Seq(Receiver \cup {Gone})
    OBVIOUS
  <2> HIDE DEF CallsInv, CallsTyped
  <2>2. /\ StillWaiting(gets, Back(p)) \in Seq(Receiver \cup {Gone})
        /\ Woken(gets, Back(p)) \in [Process -> Ended]
        /\ \A q \in Process : \/ Woken(gets, Back(p))[q] = Back(p)[q]
                              \/ Woken(gets, Back(p))[q] = "result"
    BY <1>2, <1>3, <2>1, WakeupTyped
  <2> QED
    BY <1>1, <2>2
<1>5. CallsTyped' /\ \A q \in Process : raised'[q] = raised[q] \/ raised'[q] = "none"
  BY <1>1, <1>4 DEF Failure, Process
<1>6. \A q \in Process : fut'[q] = fut[q] \/ fut'[q] \in {"none", "result"}
  BY <1>2, <1>4
<1>7. \A q \in Pending(Sender)' : \E i \in DOMAIN puts' : puts'[i] = q
  BY <1>1, <1>6 DEF Pending, Enlisted, Process
<1>8. ASSUME NEW q \in Pending(Receiver)' PROVE \E i \in DOMAIN gets' : gets'[i] = q
  <2>1. q \in Process /\ q # Gone /\ q \in Pending(Receiver) /\ fut'[q] = "pending"
    BY <1>6, <1>8, ChanAssumption DEF Pending, Process
  <2>2. \E j \in DOMAIN gets : gets[j] = q
    BY <2>1 DEF Enlisted
  <2>3. gets \in Seq(Receiver \cup {Gone})
    OBVIOUS
  <2>4. Woken(gets, Back(p))[q] = "pending"
    BY <1>1, <2>1
  <2> HIDE DEF CallsInv, CallsTyped
  <2>5. \E j \in DOMAIN StillWaiting(gets, Back(p)) : StillWaiting(gets, Back(p))[j] = q
    BY <1>2, <2>1, <2>2, <2>3, <2>4, WakeupKeepsOthers
  <2> QED
    BY <1>1, <2>5
<1> QED
  BY <1>5, <1>6, <1>7, <1>8, StepKeeps

LEMMA TakeFirstKeeps ==
    ASSUME CallsInv, UNCHANGED closed, NEW p \in Receiver, queue # <<>>, TakeFirst(p)
    PROVE  CallsInv'
<1> USE DEF CallsInv, CallsTyped
<1>1. /\ queue' = Tail(queue) /\ UNCHANGED gets
      /\ puts' = StillWaiting(puts, Back(p)) /\ fut' = Woken(puts, Back(p))
      /\ raised' = [raised EXCEPT ![p] = "none"]
  BY DEF TakeFirst, Ends
<1>2. /\ Back(p) \in [Process -> Ended]
      /\ Back(p)[p] = "none" /\ \A q \in Process : q # p => Back(p)[q] = fut[q]
  BY BackTyped DEF Process
<1>3. "result" \in Ended
  BY DEF Ended
<1>4. /\ puts' \in Seq(Sender) /\ fut' \in [Process -> Ended]
      /\ \A q \in Process : fut'[q] = Back(p)[q] \/ fut'[q] = "result"
  <2>1. puts \in Seq(Sender)
    OBVIOUS
  <2> HIDE DEF CallsInv, CallsTyped
  <2>2. /\ StillWaiting(puts, Back(p)) \in Seq(Sender)
        /\ Woken(puts, Back(p)) \in [Process -> Ended]
        /\ \A q \in Process : \/ Woken(puts, Back(p))[q] = Back(p)[q]
                              \/ Woken(puts, Back(p))[q] = "result"
    BY <1>2, <1>3, <2>1, WakeupTyped
  <2> QED
    BY <1>1, <2>2
<1>5. CallsTyped' /\ \A q \in Process : raised'[q] = raised[q] \/ raised'[q] = "none"
  BY <1>1, <1>4 DEF Failure, Process
<1>6. \A q \in Process : fut'[q] = fut[q] \/ fut'[q] \in {"none", "result"}
  BY <1>2, <1>4
<1>7. \A q \in Pending(Receiver)' : \E i \in DOMAIN gets' : gets'[i] = q
  BY <1>1, <1>6 DEF Pending, Enlisted, Process
<1>8. ASSUME NEW q \in Pending(Sender)' PROVE \E i \in DOMAIN puts' : puts'[i] = q
  <2>1. q \in Process /\ q # Gone /\ q \in Pending(Sender) /\ fut'[q] = "pending"
    BY <1>6, <1>8, ChanAssumption DEF Pending, Process
  <2>2. \E j \in DOMAIN puts : puts[j] = q
    BY <2>1 DEF Enlisted
  <2>3. puts \in Seq(Sender)
    OBVIOUS
  <2>4. Woken(puts, Back(p))[q] = "pending"
    BY <1>1, <2>1
  <2> HIDE DEF CallsInv, CallsTyped
  <2>5. \E j \in DOMAIN StillWaiting(puts, Back(p)) : StillWaiting(puts, Back(p))[j] = q
    BY <1>2, <2>1, <2>2, <2>3, <2>4, WakeupKeepsOthers
  <2> QED
    BY <1>1, <2>5
<1> QED
  BY <1>5, <1>6, <1>7, <1>8, StepKeeps

LEMMA AwaitRoomKeeps ==
    ASSUME CallsInv, UNCHANGED closed, ~closed, NEW p \in Sender, AwaitRoom(p)
    PROVE  CallsInv'
<1> USE DEF CallsInv, CallsTyped
<1>1. /\ puts' = Append(puts, p) /\ fut' = [fut EXCEPT ![p] = "pending"]
      /\ UNCHANGED <<queue, gets, raised>>
  BY DEF AwaitRoom
<1>2. p \in Process /\ p \notin Receiver
  BY ChanAssumption DEF Process
<1>3. fut' \in [Process -> Ended] /\ \A q \in Process : q # p => fut'[q] = fut[q]
  BY <1>1 DEF Ended
<1>4. puts' \in Seq(Sender)
  BY <1>1
<1>5. CallsTyped'
  BY <1>1, <1>3, <1>4
<1>6. \A q \in Pending(Receiver)' : \E i \in DOMAIN gets' : gets'[i] = q
  BY <1>1, <1>2, <1>3 DEF Pending, Enlisted, Process
<1>7. ASSUME NEW q \in Pending(Sender)' PROVE \E i \in DOMAIN puts' : puts'[i] = q
  <2>1. CASE q = p
    <3>1. Len(puts) + 1 \in DOMAIN puts' /\ puts'[Len(puts) + 1] = p
      BY <1>1
    <3> QED
      BY <2>1, <3>1
  <2>2. CASE q # p
    <3>1. PICK i \in DOMAIN puts : puts[i] = q
      BY <1>3, <2>2 DEF Pending, Enlisted, Process
    <3>2. i \in DOMAIN puts' /\ puts'[i] = q
      BY <1>1, <3>1
    <3> QED
      BY <3>2
  <2> QED
    BY <2>1, <2>2
<1>8. Enlisted'
  BY <1>6, <1>7 DEF Enlisted
<1>9. CloseReleasesAll' /\ FailedWhenClosed'
  BY <1>1, <1>2, <1>3 DEF CloseReleasesAll, FailedWhenClosed
<1> QED
  BY <1>5, <1>8, <1>9

LEMMA AwaitValueKeeps ==
    ASSUME CallsInv, UNCHANGED closed, ~closed, NEW p \in Receiver, AwaitValue(p)
    PROVE  CallsInv'
<1> USE DEF CallsInv, CallsTyped
<1>1. /\ gets' = Append(gets, p) /\ fut' = [fut EXCEPT ![p] = "pending"]
      /\ UNCHANGED <<queue, puts, raised>>
  BY DEF AwaitValue
<1>2. p \in Process /\ p \notin Sender
  BY ChanAssumption DEF Process
<1>3. fut' \in [Process -> Ended] /\ \A q \in Process : q # p => fut'[q] = fut[q]
  BY <1>1 DEF Ended
<1>4. gets' \in Seq(Receiver \cup {Gone})
  BY <1>1
<1>5. CallsTyped'
  BY <1>1, <1>3, <1>4
<1>6. \A q \in Pending(Sender)' : \E i \in DOMAIN puts' : puts'[i] = q
  BY <1>1, <1>2, <1>3 DEF Pending, Enlisted, Process
<1>7. ASSUME NEW q \in Pending(Receiver)' PROVE \E i \in DOMAIN gets' : gets'[i] = q
  <2>1. CASE q = p
    <3>1. Len(gets) + 1 \in DOMAIN gets' /\ gets'[Len(gets) + 1] = p
      BY <1>1
    <3> QED
      BY <2>1, <3>1
  <2>2. CASE q # p
    <3>1. PICK i \in DOMAIN gets : gets[i] = q
      BY <1>3, <2>2 DEF Pending, Enlisted, Process
    <3>2. i \in DOMAIN gets' /\ gets'[i] = q
      BY <1>1, <3>1
    <3> QED
      BY <3>2
  <2> QED
    BY <2>1, <2>2
<1>8. Enlisted'
  BY <1>6, <1>7 DEF Enlisted
<1>9. CloseReleasesAll' /\ FailedWhenClosed'
  BY <1>1, <1>2, <1>3 DEF CloseReleasesAll, FailedWhenClosed
<1> QED
  BY <1>5, <1>8, <1>9

LEMMA RecvCancelledKeeps ==
    ASSUME CallsInv, UNCHANGED closed, NEW p \in Receiver, RecvCancelled(p)
    PROVE  CallsInv'
<1> USE DEF CallsInv, CallsTyped
<1>1. /\ gets' = ReplaceAll(gets, p, Gone) /\ fut' = Back(p) /\ UNCHANGED <<queue, puts>>
      /\ raised' = [raised EXCEPT ![p] = "cancelled"]
  BY DEF RecvCancelled, Ends
<1>2. /\ Back(p) \in [Process -> Ended]
      /\ Back(p)[p] = "none" /\ \A q \in Process : q # p => Back(p)[q] = fut[q]
  BY BackTyped DEF Process
<1>3. /\ DOMAIN gets' = DOMAIN gets /\ gets' \in Seq(Receiver \cup {Gone})
      /\ \A i \in DOMAIN gets : gets[i] # p => gets'[i] = gets[i]
  BY <1>1 DEF ReplaceAll
<1>4. CallsTyped' /\ \A q \in Process : raised'[q] = raised[q] \/ raised'[q] = "cancelled"
  BY <1>1, <1>2, <1>3 DEF Failure, Process
<1>5. \A q \in Process : q # p \/ fut'[q] = "none"
  BY <1>1, <1>2
<1>6. \A q \in Pending(Sender)' : \E i \in DOMAIN puts' : puts'[i] = q
  BY <1>1, <1>2, <1>5 DEF Pending, Enlisted, Process
<1>7. \A q \in Pending(Receiver)' : \E i \in DOMAIN gets' : gets'[i] = q
  BY <1>1, <1>2, <1>3, <1>5 DEF Pending, Enlisted, Process
<1> QED
  BY <1>1, <1>2, <1>4, <1>6, <1>7, StepKeeps

\* The pending senders other than p are in _puts without p's future.
LEMMA SendCancelledKeeps ==
    ASSUME CallsInv, UNCHANGED closed, NEW p \in Sender, SendCancelled(p)
    PROVE  CallsInv'
<1> DEFINE others == RemoveFirst(puts, p)
<1>1. /\ UNCHANGED <<queue, gets>> /\ raised' = [raised EXCEPT ![p] = "cancelled"]
      /\ \/ puts' = StillWaiting(others, Back(p)) /\ fut' = Woken(others, Back(p))
         \/ puts' = others /\ fut' = Back(p)
  BY DEF SendCancelled, Ends
<1>2. /\ Back(p) \in [Process -> Ended]
      /\ Back(p)[p] = "none" /\ \A q \in Process : q # p => Back(p)[q] = fut[q]
  BY BackTyped DEF Process, CallsInv, CallsTyped
<1>3. "result" \in Ended
  BY DEF Ended
<1>4. puts \in Seq(Sender)
  BY DEF CallsInv, CallsTyped
<1>5. /\ others \in Seq(Sender)
      /\ \A q \in Sender : q # p /\ (\E j \in DOMAIN puts : puts[j] = q)
             => \E j \in DOMAIN others : others[j] = q
  BY <1>4, RemoveFirstKeepsOthers
<1> HIDE DEF others
<1>6. /\ StillWaiting(others, Back(p)) \in Seq(Sender)
      /\ Woken(others, Back(p)) \in [Process -> Ended]
      /\ \A q \in Process : \/ Woken(others, Back(p))[q] = Back(p)[q]
                            \/ Woken(others, Back(p))[q] = "result"
  BY <1>2, <1>3, <1>5, WakeupTyped
<1>7. /\ puts' \in Seq(Sender) /\ fut' \in [Process -> Ended]
      /\ \A q \in Process : fut'[q] = Back(p)[q] \/ fut'[q] = "result"
  BY <1>1, <1>2, <1>5, <1>6
<1>8. CallsTyped' /\ \A q \in Process : raised'[q] = raised[q] \/ raised'[q] = "cancelled"
  BY <1>1, <1>7 DEF Failure, Process, CallsInv, CallsTyped
<1>9. \A q \in Process : \/ fut'[q] = fut[q] /\ q # p
                         \/ fut'[q] \in {"none", "result"}
  BY <1>2, <1>7
<1>10. \A q \in Pending(Receiver)' : \E i \in DOMAIN gets' : gets'[i] = q
  BY <1>1, <1>9 DEF Pending, Enlisted, Process, CallsInv
<1>11. ASSUME NEW q \in Pending(Sender)' PROVE \E i \in DOMAIN puts' : puts'[i] = q
  <2>1. q \in Sender /\ q \in Process /\ q # Gone /\ q # p /\ q \in Pending(Sender)
    BY <1>9, <1>11, ChanAssumption DEF Pending, Process
  <2>2. \E j \in DOMAIN puts : puts[j] = q
    BY <2>1 DEF Enlisted, CallsInv
  <2>3. \E j \in DOMAIN others : others[j] = q
    BY <1>5, <2>1, <2>2
  <2>4. CASE puts' = others
    BY <2>3, <2>4
  <2>5. CASE puts' = StillWaiting(others, Back(p)) /\ fut' = Woken(others, Back(p))
    <3>1. Woken(others, Back(p))[q] = "pending"
      BY <1>11, <2>5 DEF Pending
    <3>2. \E j \in DOMAIN StillWaiting(others, Back(p)) : StillWaiting(others, Back(p))[j] = q
      BY <1>2, <1>5, <2>1, <2>3, <3>1, WakeupKeepsOthers
    <3> QED
      BY <2>5, <3>2
  <2> QED
    BY <1>1, <2>4, <2>5
<1> QED
  BY <1>8, <1>9, <1>10, <1>11, StepKeeps

LEMMA SendLoopKeeps ==
    ASSUME CallsInv, UNCHANGED closed, NEW p \in Sender, SendLoop(p)
    PROVE  CallsInv'
<1>1. CASE ~closed /\ AwaitRoom(p)
  BY <1>1, AwaitRoomKeeps
<1>2. CASE ~(Full /\ ~closed) /\ SendNowait(p)
  <2>1. CASE Full /\ Fails(p, "full")
    BY <1>2, <2>1, FailsKeeps DEF Failure, Process
  <2>2. CASE closed /\ Fails(p, "closed")
    BY <2>2, FailsKeeps DEF Failure, Process
  <2>3. CASE Store(p)
    BY <2>3, StoreKeeps
  <2> QED
    BY <1>2, <2>1, <2>2, <2>3 DEF SendNowait
<1> QED
  BY <1>1, <1>2 DEF SendLoop

LEMMA RecvLoopKeeps ==
    ASSUME CallsInv, UNCHANGED closed, NEW p \in Receiver, RecvLoop(p)
    PROVE  CallsInv'
<1>1. CASE ~closed /\ AwaitValue(p)
  BY <1>1, AwaitValueKeeps
<1>2. CASE closed /\ Fails(p, "closed")
  BY <1>2, FailsKeeps DEF Failure, Process
<1>3. CASE queue # <<>> /\ TakeFirst(p)
  BY <1>3, TakeFirstKeeps
<1> QED
  BY <1>1, <1>2, <1>3 DEF RecvLoop

\* ChanClosed set on a future was set by close.
LEMMA ToldClosedKeeps ==
    ASSUME CallsInv, UNCHANGED closed, NEW p \in Process, fut[p] = "closed", Fails(p, "closed")
    PROVE  CallsInv'
<1>1. closed
  BY DEF CallsInv, FailedWhenClosed
<1> QED
  BY <1>1, FailsKeeps DEF Failure

LEMMA CancelKeeps ==
    ASSUME CallsInv, NEW p \in Process, Cancel(p)
    PROVE  CallsInv'
<1> USE DEF CallsInv, CallsTyped
<1>1. /\ UNCHANGED <<closed, queue, gets, puts, raised>>
      /\ UNCHANGED fut \/ fut' = [fut EXCEPT ![p] = "cancelled"]
  BY DEF Cancel
<1>2. /\ fut' \in [Process -> Ended]
      /\ \A q \in Process : fut'[q] = fut[q] \/ fut'[q] = "cancelled"
  BY <1>1 DEF Ended
<1>3. CallsTyped'
  BY <1>1, <1>2
<1>4. Enlisted'
  BY <1>1, <1>2 DEF Enlisted, Pending, Process
<1>5. CloseReleasesAll' /\ FailedWhenClosed'
  BY <1>1, <1>2 DEF CloseReleasesAll, FailedWhenClosed, Pending
<1> QED
  BY <1>3, <1>4, <1>5

\* close finds everybody who waits in the two deques.
LEMMA CloseKeeps ==
    ASSUME CallsInv, Close
    PROVE  CallsInv'
<1> USE DEF CallsInv, CallsTyped
<1> DEFINE served == {gets[i] : i \in {j \in DOMAIN gets : j <= Len(queue)}}
           failed == (ToSet(gets) \ served) \cup ToSet(puts)
<1>1. /\ closed' /\ gets' = <<>> /\ UNCHANGED <<queue, puts, raised>>
      /\ fut' = [p \in Process |->
                    IF fut[p] = "pending" /\ p \in served THEN "result"
                    ELSE IF fut[p] = "pending" /\ p \in failed THEN "closed" ELSE fut[p]]
  BY DEF Close
<1>2. \A p \in Process : fut[p] = "pending" => p \in served \cup failed
  BY DEF Enlisted, Pending, Process, ToSet
<1> HIDE DEF served, failed
<1>3. fut' \in [Process -> Ended] /\ \A p \in Process : fut'[p] # "pending"
  BY <1>1, <1>2 DEF Ended
<1>4. CallsTyped'
  BY <1>1, <1>3
<1>5. Pending(Process)' = {} /\ Pending(Sender)' = {} /\ Pending(Receiver)' = {}
  BY <1>3 DEF Pending, Process
<1> QED
  BY <1>1, <1>4, <1>5 DEF Enlisted, CloseReleasesAll, FailedWhenClosed

LEMMA CallsInvariant == Spec => []CallsInv
<1>1. Init => CallsInv
  BY DEF Init, CallsInv, CallsTyped, Enlisted, CloseReleasesAll, FailedWhenClosed, Pending, Ended, Failure, Process
<1>2. CallsInv /\ [Next]_vars => CallsInv'
  <2> SUFFICES ASSUME CallsInv, [Next]_vars PROVE CallsInv'
    OBVIOUS
  <2>1. ASSUME NEW p \in Sender, SendCall(p) PROVE CallsInv'
    BY <2>1, SendLoopKeeps DEF SendCall
  <2>2. ASSUME NEW p \in Sender, SendResume(p) PROVE CallsInv'
    <3>1. UNCHANGED closed /\ p \in Process
      BY <2>2 DEF SendResume, Process
    <3> QED
      BY <2>2, <3>1, SendLoopKeeps, ToldClosedKeeps, SendCancelledKeeps DEF SendResume
  <2>3. ASSUME NEW p \in Receiver, RecvCall(p) PROVE CallsInv'
    BY <2>3, RecvLoopKeeps DEF RecvCall
  <2>4. ASSUME NEW p \in Receiver, RecvResume(p) PROVE CallsInv'
    <3>1. UNCHANGED closed /\ p \in Process
      BY <2>4 DEF RecvResume, Process
    <3> QED
      BY <2>4, <3>1, RecvLoopKeeps, ToldClosedKeeps, RecvCancelledKeeps DEF RecvResume
  <2>5. CASE UNCHANGED vars
    BY <2>5 DEF vars, CallsInv, CallsTyped, Enlisted, CloseReleasesAll, FailedWhenClosed, Pending
  <2> QED
    BY <2>1, <2>2, <2>3, <2>4, <2>5, CancelKeeps, CloseKeeps DEF Next
<1> QED
  BY <1>1, <1>2, PTL DEF Spec

\* TypeOK is an invariant, for any tasks, sizes and bounds.
THEOREM TypeCorrect == Spec => []TypeOK
<1> DEFINE Fixed == /\ maxsize \in Sizes /\ cancellable \in Regimes /\ closed \in BOOLEAN
                    /\ interrupted \subseteq Process /\ cancels \in 0..MaxCancels
<1>1. Init => Fixed
  <2>1. Init => maxsize \in Sizes /\ cancellable \in Regimes /\ interrupted \subseteq Process
    BY DEF Init
  <2>2. Init => closed \in BOOLEAN
    BY DEF Init
  <2>3. Init => cancels \in 0..MaxCancels
    BY ChanAssumption DEF Init
  <2> QED
    BY <2>1, <2>2, <2>3
<1>2. Fixed /\ [Next]_vars => Fixed'
  <2> SUFFICES ASSUME Fixed, [Next]_vars PROVE Fixed'
    OBVIOUS
  <2>1. CASE \E p \in Sender : SendCall(p) \/ SendResume(p)
    BY <2>1 DEF SendCall, SendResume
  <2>2. CASE \E p \in Receiver : RecvCall(p) \/ RecvResume(p)
    BY <2>2 DEF RecvCall, RecvResume
  <2>3. CASE \E p \in Process : Cancel(p)
    BY <2>3, ChanAssumption DEF Cancel
  <2>4. CASE Close \/ UNCHANGED vars
    BY <2>4 DEF Close, vars
  <2> QED
    BY <2>1, <2>2, <2>3, <2>4 DEF Next
<1>3. Fixed /\ CallsInv => TypeOK
  BY DEF CallsInv, CallsTyped, TypeOK, Ended, Failure
<1> QED
  BY <1>1, <1>2, <1>3, CallsInvariant, PTL DEF Spec

\* close leaves nobody asleep, and nobody falls asleep in a closed channel,
\* for any tasks waiting, woken or cancelled.
THEOREM NobodyLeftAsleep == Spec => []CloseReleasesAll
<1>1. CallsInv => CloseReleasesAll
  BY DEF CallsInv
<1> QED
  BY <1>1, CallsInvariant, PTL

\* send waits for room and never fails for the lack of it while the channel is
\* open, whoever overtakes it.
THEOREM SendWaits == Spec => []WaitsInsteadOfFailing
<1>1. CallsInv => WaitsInsteadOfFailing
  BY DEF CallsInv, FailedWhenClosed, WaitsInsteadOfFailing, Process
<1> QED
  BY <1>1, CallsInvariant, PTL

-----------------------------------------------------------------------------
(* No lost wakeup: counting the woken tasks.                               *)

\* B gains a task or keeps all of A but p: at least as many, up to one.
LEMMA Counting ==
    ASSUME NEW P, IsFiniteSet(P), NEW A \in SUBSET P, NEW B \in SUBSET P, NEW p, A \ {p} \subseteq B
    PROVE  /\ Cardinality(A) \in Nat /\ Cardinality(B) \in Nat
           /\ Cardinality(A) - 1 <= Cardinality(B)
           /\ A \subseteq B => Cardinality(A) <= Cardinality(B)
           /\ \A q \in B \ A : /\ Cardinality(A) <= Cardinality(B)
                               /\ A \subseteq B => Cardinality(A) + 1 <= Cardinality(B)
<1>1. IsFiniteSet(A) /\ IsFiniteSet(B)
  BY FS_Subset
<1>2. Cardinality(A) \in Nat /\ Cardinality(B) \in Nat
  BY <1>1, FS_CardinalityType
<1>3. A \subseteq B => Cardinality(A) <= Cardinality(B)
  BY <1>1, FS_Subset
<1>4. /\ IsFiniteSet(A \ {p}) /\ Cardinality(A \ {p}) \in Nat
      /\ Cardinality(A) - 1 <= Cardinality(A \ {p})
  <2>1. /\ IsFiniteSet(A \ {p})
        /\ Cardinality(A \ {p}) = IF p \in A THEN Cardinality(A) - 1 ELSE Cardinality(A)
    BY <1>1, FS_RemoveElement
  <2>2. Cardinality(A \ {p}) \in Nat
    BY <2>1, FS_CardinalityType
  <2> QED
    BY <1>2, <2>1, <2>2
<1>5. Cardinality(A \ {p}) <= Cardinality(B)
  BY <1>1, FS_Subset
<1>6. ASSUME NEW q \in B \ A
      PROVE  /\ Cardinality(A) <= Cardinality(B)
             /\ A \subseteq B => Cardinality(A) + 1 <= Cardinality(B)
  <2>1. Cardinality((A \ {p}) \cup {q}) = Cardinality(A \ {p}) + 1
    BY <1>4, FS_AddElement
  <2>2. Cardinality((A \ {p}) \cup {q}) <= Cardinality(B)
    <3>1. (A \ {p}) \cup {q} \in SUBSET B
      OBVIOUS
    <3> QED
      BY <1>1, <3>1, FS_Subset
  <2>3. Cardinality(A \cup {q}) = Cardinality(A) + 1
    BY <1>1, FS_AddElement
  <2>4. A \subseteq B => Cardinality(A \cup {q}) <= Cardinality(B)
    <3>1. A \subseteq B => A \cup {q} \in SUBSET B
      OBVIOUS
    <3> QED
      BY <1>1, <3>1, FS_Subset
  <2> QED
    BY <1>2, <1>4, <2>1, <2>2, <2>3, <2>4
<1> QED
  BY <1>2, <1>3, <1>4, <1>5, <1>6

\* A wakeup makes one waiting task's future done, unless nobody is waiting.
LEMMA WakeupWakes ==
    ASSUME NEW W, NEW w \in Seq(W), NEW f \in [Process -> Ended]
    PROVE  \/ /\ \A j \in DOMAIN w : w[j] = Gone \/ f[w[j]] # "pending"
              /\ Woken(w, f) = f
           \/ \E q \in W \ {Gone} : /\ f[q] = "pending"
                                    /\ Woken(w, f) = [f EXCEPT ![q] = "result"]
<1> DEFINE i == FirstPending(w, f)
<1>1. /\ i \in 0..Len(w)
      /\ i = 0 => \A j \in 1..Len(w) : ~(w[j] # Gone /\ f[w[j]] = "pending")
      /\ i # 0 => w[i] # Gone /\ f[w[i]] = "pending"
  BY FirstPendingIsFirst
<1>2. Woken(w, f) = IF i = 0 THEN f ELSE [f EXCEPT ![w[i]] = "result"]
  BY DEF Woken
<1> HIDE DEF i
<1>3. CASE i = 0
  BY <1>1, <1>2, <1>3
<1>4. CASE i # 0
  <2>1. w[i] \in W \ {Gone}
    BY <1>1, <1>4
  <2> QED
    BY <1>1, <1>2, <1>4, <2>1
<1> QED
  BY <1>3, <1>4

\* As long as no receiver may be cancelled.
Calm == cancellable \cap Receiver = {}
NoReceiverCancelled == Calm => \A p \in Receiver : ~Interrupted(p)

Free == maxsize - Len(queue)
NoSenderSleepsOnPlace == Pending(Sender) # {} => Free <= Cardinality(Awake(Sender))

ReceiverToldClosed == \E p \in Receiver : fut[p] = "closed" \/ raised[p] = "closed"

\* The values left have receivers on their way, as soon as one still sleeps
\* or is told that the channel is closed.
ValuesAwaited ==
    Calm /\ (Pending(Receiver) # {} \/ ReceiverToldClosed)
        => Len(queue) <= Cardinality(Awake(Receiver))

WakeInv == NoReceiverCancelled /\ NoSenderSleepsOnPlace /\ ValuesAwaited

\* What the steps below may take for granted.
Settled == CallsInv /\ CallsInv' /\ TypeOK /\ WakeInv

\* What changed for the tasks of P but p.
Same(P) == \A q \in P : fut'[q] = fut[q]
SameBut(P, p) == fut'[p] = "none" /\ \A q \in P : q # p => fut'[q] = fut[q]
WokenBut(P, p, q) == /\ q \in P /\ q # p /\ fut[q] = "pending" /\ fut'[q] = "result"
                     /\ fut'[p] = "none"
                     /\ \A r \in P : r # p /\ r # q => fut'[r] = fut[r]

Crowd == {Sender, Receiver}

LEMMA CountBack ==
    ASSUME NEW P \in Crowd, NEW p, SameBut(P, p)
    PROVE  /\ Cardinality(Awake(P)) \in Nat /\ Cardinality(Awake(P))' \in Nat
           /\ Cardinality(Awake(P)) - 1 <= Cardinality(Awake(P))'
           /\ p \notin Awake(P) => Cardinality(Awake(P)) <= Cardinality(Awake(P))'
           /\ Pending(P)' \subseteq Pending(P)
<1>1. IsFiniteSet(P) /\ Awake(P) \in SUBSET P /\ Awake(P)' \in SUBSET P
  BY ChanAssumption DEF Crowd, Awake
<1>2. /\ Awake(P) \ {p} \subseteq Awake(P)'
      /\ p \notin Awake(P) => Awake(P) \subseteq Awake(P)'
      /\ Pending(P)' \subseteq Pending(P)
  BY DEF SameBut, Awake, Pending
<1> QED
  BY <1>1, <1>2, Counting

LEMMA CountWoken ==
    ASSUME NEW P \in Crowd, NEW p, NEW q, WokenBut(P, p, q)
    PROVE  /\ Cardinality(Awake(P)) \in Nat /\ Cardinality(Awake(P))' \in Nat
           /\ Cardinality(Awake(P)) <= Cardinality(Awake(P))'
           /\ p \notin Awake(P) => Cardinality(Awake(P)) + 1 <= Cardinality(Awake(P))'
           /\ Pending(P)' \subseteq Pending(P) /\ Pending(P) # {}
<1>1. IsFiniteSet(P) /\ Awake(P) \in SUBSET P /\ Awake(P)' \in SUBSET P
  BY ChanAssumption DEF Crowd, Awake
<1>2. /\ Awake(P) \ {p} \subseteq Awake(P)' /\ q \in Awake(P)' \ Awake(P)
      /\ p \notin Awake(P) => Awake(P) \subseteq Awake(P)'
      /\ Pending(P)' \subseteq Pending(P) /\ Pending(P) # {}
  BY DEF WokenBut, Awake, Pending
<1> QED
  BY <1>1, <1>2, Counting

\* What a wakeup of the deque w of P's futures does, for the call of p.
LEMMA WakeupOf ==
    ASSUME CallsInv, NEW P \in Crowd, NEW w \in Seq(P \cup {Gone}), NEW p \in Process,
           fut' = Woken(w, Back(p)),
           \A q \in Pending(P) : q # p => \E j \in DOMAIN w : w[j] = q
    PROVE  /\ (SameBut(P, p) /\ Pending(P)' = {}) \/ \E q : WokenBut(P, p, q)
           /\ \A Q \in Crowd : Q # P => SameBut(Q, p)
<1>1. /\ fut \in [Process -> Ended] /\ Back(p) \in [Process -> Ended]
      /\ Back(p)[p] = "none" /\ \A q \in Process : q # p => Back(p)[q] = fut[q]
  BY BackTyped DEF CallsInv, CallsTyped
<1>2. /\ P \subseteq Process /\ Gone \notin Process
      /\ \A Q \in Crowd : Q \subseteq Process /\ (Q # P => Q \cap P = {})
  BY ChanAssumption DEF Crowd, Process
<1>3. CASE /\ \A j \in DOMAIN w : w[j] = Gone \/ Back(p)[w[j]] # "pending"
           /\ Woken(w, Back(p)) = Back(p)
  <2>1. \A Q \in Crowd : SameBut(Q, p)
    BY <1>1, <1>2, <1>3 DEF SameBut
  <2>2. Pending(P)' = {}
    <3>1. SUFFICES ASSUME NEW q \in P, fut'[q] = "pending" PROVE FALSE
      BY DEF Pending
    <3>2. q # p /\ q # Gone /\ fut[q] = "pending" /\ Back(p)[q] = "pending"
      BY <1>1, <1>2, <1>3, <3>1
    <3>3. \E j \in DOMAIN w : w[j] = q
      BY <3>1, <3>2 DEF Pending
    <3> QED
      BY <1>3, <3>2, <3>3
  <2> QED
    BY <2>1, <2>2
<1>4. ASSUME NEW q \in (P \cup {Gone}) \ {Gone}, Back(p)[q] = "pending",
             Woken(w, Back(p)) = [Back(p) EXCEPT ![q] = "result"]
      PROVE  WokenBut(P, p, q) /\ \A Q \in Crowd : Q # P => SameBut(Q, p)
  <2>1. q \in P /\ q \in Process /\ q # p /\ fut[q] = "pending"
    BY <1>1, <1>2, <1>4
  <2>2. fut'[q] = "result" /\ \A r \in Process : r # q => fut'[r] = Back(p)[r]
    BY <1>1, <1>4, <2>1
  <2> QED
    BY <1>1, <1>2, <2>1, <2>2 DEF WokenBut, SameBut
<1> QED
  BY <1>1, <1>3, <1>4, WakeupWakes

\* What the steps of a call, up to its next wait, leave alone.
CallFrame == /\ UNCHANGED <<maxsize, cancellable, closed>>
             /\ interrupted' \subseteq interrupted

LEMMA NoReceiverCancelledKept ==
    ASSUME NoReceiverCancelled, UNCHANGED cancellable, interrupted' \subseteq interrupted,
           \A q \in Receiver : fut'[q] = fut[q] \/ fut'[q] # "cancelled"
    PROVE  NoReceiverCancelled'
  BY DEF NoReceiverCancelled, Calm, Interrupted

\* Nobody sleeps in a closed channel, so there is nobody to count for.
LEMMA NobodySleeps ==
    ASSUME CallsInv', closed'
    PROVE  Pending(Sender)' = {} /\ Pending(Receiver)' = {}
  BY DEF CallsInv, CloseReleasesAll, Pending, Process

LEMMA SizesNatural ==
    ASSUME TypeOK
    PROVE  maxsize \in Nat /\ Len(queue) \in Nat
  BY ChanAssumption DEF TypeOK

\* Room taken and value added: one place less for the other senders, and one
\* receiver more on its way.
LEMMA StoreWakes ==
    ASSUME Settled, CallFrame, ~closed, NEW p \in Sender, Store(p)
    PROVE  WakeInv'
<1>1. /\ queue' = Append(queue, p) /\ fut' = Woken(gets, Back(p))
      /\ raised' = [raised EXCEPT ![p] = "none"]
  BY DEF Store, Ends
<1>2. maxsize' = maxsize /\ maxsize \in Nat /\ Len(queue) \in Nat /\ Len(queue') = Len(queue) + 1
  BY <1>1, SizesNatural DEF Settled, CallsInv, CallsTyped, CallFrame
<1>3. /\ (SameBut(Receiver, p) /\ Pending(Receiver)' = {}) \/ \E q : WokenBut(Receiver, p, q)
      /\ SameBut(Sender, p)
  <2>1. gets \in Seq(Receiver \cup {Gone})
    BY DEF Settled, CallsInv, CallsTyped
  <2>2. \A q \in Pending(Receiver) : q # p => \E j \in DOMAIN gets : gets[j] = q
    BY DEF Settled, CallsInv, Enlisted
  <2>3. Sender # Receiver /\ p \in Process
    BY ChanAssumption DEF Process
  <2> QED
    BY <1>1, <2>1, <2>2, <2>3, WakeupOf DEF Settled, Crowd
<1>4. p \notin Awake(Receiver)
  BY ChanAssumption DEF Awake
<1>5. NoReceiverCancelled'
  <2>1. \A q \in Receiver : fut'[q] = fut[q] \/ fut'[q] # "cancelled"
    BY <1>3 DEF SameBut, WokenBut
  <2> QED
    BY <2>1, NoReceiverCancelledKept DEF Settled, WakeInv, CallFrame
<1>6. NoSenderSleepsOnPlace'
  BY <1>2, <1>3, CountBack DEF Settled, WakeInv, NoSenderSleepsOnPlace, Free, Crowd
<1>7. ValuesAwaited'
  <2>1. ~ReceiverToldClosed'
    BY DEF Settled, CallsInv, FailedWhenClosed, ReceiverToldClosed, CallFrame, Process
  <2>2. CASE Pending(Receiver)' = {}
    BY <2>1, <2>2 DEF ValuesAwaited
  <2>3. ASSUME NEW q, WokenBut(Receiver, p, q) PROVE ValuesAwaited'
    BY <1>2, <1>4, <2>3, CountWoken DEF Settled, WakeInv, ValuesAwaited, Calm, CallFrame, Crowd
  <2> QED
    BY <1>3, <2>2, <2>3
<1> QED
  BY <1>5, <1>6, <1>7 DEF WakeInv

LEMMA TakeFirstWakes ==
    ASSUME Settled, CallFrame, queue # <<>>, NEW p \in Receiver, TakeFirst(p)
    PROVE  WakeInv'
<1>1. /\ queue' = Tail(queue) /\ fut' = Woken(puts, Back(p))
      /\ raised' = [raised EXCEPT ![p] = "none"]
  BY DEF TakeFirst, Ends
<1>2. maxsize' = maxsize /\ maxsize \in Nat /\ Len(queue) \in Nat /\ Len(queue') = Len(queue) - 1
  BY <1>1, SizesNatural DEF Settled, CallsInv, CallsTyped, CallFrame
<1>3. /\ (SameBut(Sender, p) /\ Pending(Sender)' = {}) \/ \E q : WokenBut(Sender, p, q)
      /\ SameBut(Receiver, p)
  <2>1. puts \in Seq(Sender \cup {Gone})
    BY DEF Settled, CallsInv, CallsTyped
  <2>2. \A q \in Pending(Sender) : q # p => \E j \in DOMAIN puts : puts[j] = q
    BY DEF Settled, CallsInv, Enlisted
  <2>3. Sender # Receiver /\ p \in Process
    BY ChanAssumption DEF Process
  <2> QED
    BY <1>1, <2>1, <2>2, <2>3, WakeupOf DEF Settled, Crowd
<1>4. p \notin Awake(Sender)
  BY ChanAssumption DEF Awake
<1>5. NoReceiverCancelled'
  <2>1. \A q \in Receiver : fut'[q] = fut[q] \/ fut'[q] # "cancelled"
    BY <1>3 DEF SameBut
  <2> QED
    BY <2>1, NoReceiverCancelledKept DEF Settled, WakeInv, CallFrame
<1>6. NoSenderSleepsOnPlace'
  <2>1. CASE Pending(Sender)' = {}
    BY <2>1 DEF NoSenderSleepsOnPlace
  <2>2. ASSUME NEW q, WokenBut(Sender, p, q) PROVE NoSenderSleepsOnPlace'
    BY <1>2, <1>4, <2>2, CountWoken DEF Settled, WakeInv, NoSenderSleepsOnPlace, Free, Crowd
  <2> QED
    BY <1>3, <2>1, <2>2
<1>7. ValuesAwaited'
  <2>1. ReceiverToldClosed' => ReceiverToldClosed
    <3>1. raised'[p] = "none" /\ \A q \in Receiver : q # p => raised'[q] = raised[q]
      BY <1>1 DEF Settled, CallsInv, CallsTyped, Process
    <3> QED
      BY <1>3, <3>1 DEF ReceiverToldClosed, SameBut
  <2> QED
    BY <1>2, <1>3, <2>1, CountBack DEF Settled, WakeInv, ValuesAwaited, Calm, CallFrame, Crowd
<1> QED
  BY <1>5, <1>6, <1>7 DEF WakeInv

\* A sender falls asleep only on a full channel, a receiver on an empty one.
LEMMA AwaitRoomWakes ==
    ASSUME Settled, CallFrame, Full, NEW p \in Sender, AwaitRoom(p)
    PROVE  WakeInv'
<1>1. fut' = [fut EXCEPT ![p] = "pending"] /\ UNCHANGED <<maxsize, queue, raised>>
  BY DEF AwaitRoom, CallFrame
<1>2. \A q \in Receiver : fut'[q] = fut[q]
  BY <1>1, ChanAssumption DEF Settled, CallsInv, CallsTyped, Process
<1>3. NoReceiverCancelled'
  BY <1>2, NoReceiverCancelledKept DEF Settled, WakeInv, CallFrame
<1>4. NoSenderSleepsOnPlace'
  <2>1. Free' <= 0 /\ Free' \in Int
    BY <1>1, SizesNatural DEF Settled, Full, Free
  <2>2. Cardinality(Awake(Sender))' \in Nat
    <3>1. IsFiniteSet(Awake(Sender)')
      BY ChanAssumption, FS_Subset DEF Awake
    <3> QED
      BY <3>1, FS_CardinalityType
  <2> QED
    BY <2>1, <2>2 DEF NoSenderSleepsOnPlace
<1>5. ValuesAwaited'
  BY <1>1, <1>2 DEF Settled, WakeInv, ValuesAwaited, ReceiverToldClosed, Calm, CallFrame, Pending, Awake
<1> QED
  BY <1>3, <1>4, <1>5 DEF WakeInv

LEMMA EmptyIsAwaited ==
    ASSUME queue' = <<>>
    PROVE  ValuesAwaited'
<1>1. IsFiniteSet(Awake(Receiver)')
  BY ChanAssumption, FS_Subset DEF Awake
<1>2. Cardinality(Awake(Receiver))' \in Nat
  BY <1>1, FS_CardinalityType
<1> QED
  BY <1>2 DEF ValuesAwaited

LEMMA AwaitValueWakes ==
    ASSUME Settled, CallFrame, queue = <<>>, NEW p \in Receiver, AwaitValue(p)
    PROVE  WakeInv'
<1>1. fut' = [fut EXCEPT ![p] = "pending"] /\ UNCHANGED <<maxsize, queue>>
  BY DEF AwaitValue, CallFrame
<1>2. \A q \in Sender : fut'[q] = fut[q]
  BY <1>1, ChanAssumption DEF Settled, CallsInv, CallsTyped, Process
<1>3. NoReceiverCancelled'
  <2>1. \A q \in Receiver : fut'[q] = fut[q] \/ fut'[q] # "cancelled"
    BY <1>1 DEF Settled, CallsInv, CallsTyped, Process
  <2> QED
    BY <2>1, NoReceiverCancelledKept DEF Settled, WakeInv, CallFrame
<1>4. NoSenderSleepsOnPlace'
  BY <1>1, <1>2 DEF Settled, WakeInv, NoSenderSleepsOnPlace, Free, Pending, Awake
<1>5. ValuesAwaited'
  BY <1>1, EmptyIsAwaited
<1> QED
  BY <1>3, <1>4, <1>5 DEF WakeInv

LEMMA SendFailsWakes ==
    ASSUME Settled, CallFrame, closed, NEW p \in Sender, NEW what, Fails(p, what)
    PROVE  WakeInv'
<1>1. fut' = Back(p) /\ raised' = [raised EXCEPT ![p] = what] /\ UNCHANGED queue
  BY DEF Fails, Ends
<1>2. \A q \in Receiver : fut'[q] = fut[q] /\ raised'[q] = raised[q]
  BY <1>1, BackTyped, ChanAssumption DEF Settled, CallsInv, CallsTyped, Process
<1>3. NoReceiverCancelled'
  BY <1>2, NoReceiverCancelledKept DEF Settled, WakeInv, CallFrame
<1>4. NoSenderSleepsOnPlace'
  BY NobodySleeps DEF NoSenderSleepsOnPlace, Settled, CallFrame
<1>5. ValuesAwaited'
  BY <1>1, <1>2 DEF Settled, WakeInv, ValuesAwaited, ReceiverToldClosed, Calm, CallFrame, Pending, Awake
<1> QED
  BY <1>3, <1>4, <1>5 DEF WakeInv

\* A receiver fails on an empty channel, or was told so by close.
LEMMA RecvFailsWakes ==
    ASSUME Settled, CallFrame, closed, NEW p \in Receiver, NEW what, Fails(p, what),
           queue = <<>> \/ fut[p] = "closed"
    PROVE  WakeInv'
<1>1. fut' = Back(p) /\ UNCHANGED queue
  BY DEF Fails
<1>2. SameBut(Receiver, p)
  BY <1>1, BackTyped DEF Settled, CallsInv, CallsTyped, Process, SameBut
<1>3. NoReceiverCancelled'
  BY <1>2, NoReceiverCancelledKept DEF Settled, WakeInv, CallFrame, SameBut
<1>4. NoSenderSleepsOnPlace'
  BY NobodySleeps DEF NoSenderSleepsOnPlace, Settled, CallFrame
<1>5. ValuesAwaited'
  <2>1. CASE queue = <<>>
    BY <1>1, <2>1, EmptyIsAwaited
  <2>2. CASE fut[p] = "closed"
    <3>1. Len(queue) \in Nat /\ Len(queue') = Len(queue)
      BY <1>1, SizesNatural DEF Settled
    <3>2. Calm => Len(queue) <= Cardinality(Awake(Receiver))
      BY <2>2 DEF Settled, WakeInv, ValuesAwaited, ReceiverToldClosed
    <3>3. p \notin Awake(Receiver)
      BY <2>2 DEF Awake
    <3> QED
      BY <1>2, <3>1, <3>2, <3>3, CountBack DEF ValuesAwaited, Calm, CallFrame, Crowd
  <2> QED
    BY <2>1, <2>2
<1> QED
  BY <1>3, <1>4, <1>5 DEF WakeInv

\* A cancelled sender that had been given the place passes it on.
LEMMA SendCancelledWakes ==
    ASSUME Settled, CallFrame, NEW p \in Sender, SendCancelled(p)
    PROVE  WakeInv'
<1> DEFINE others == RemoveFirst(puts, p)
<1>1. /\ UNCHANGED <<maxsize, queue>> /\ raised' = [raised EXCEPT ![p] = "cancelled"]
      /\ \/ ~Full /\ fut[p] # "cancelled" /\ fut' = Woken(others, Back(p))
         \/ (Full \/ fut[p] = "cancelled") /\ fut' = Back(p)
  BY DEF SendCancelled, Ends, CallFrame
<1>2. maxsize \in Nat /\ Len(queue) \in Nat /\ Receiver # Sender /\ p \in Process
  BY SizesNatural, ChanAssumption DEF Settled, Process
<1>3. /\ others \in Seq(Sender \cup {Gone})
      /\ \A q \in Pending(Sender) : q # p => \E j \in DOMAIN others : others[j] = q
  <2>1. puts \in Seq(Sender)
    BY DEF Settled, CallsInv, CallsTyped
  <2>2. /\ others \in Seq(Sender)
        /\ \A q \in Sender : q # p /\ (\E j \in DOMAIN puts : puts[j] = q)
               => \E j \in DOMAIN others : others[j] = q
    BY <2>1, RemoveFirstKeepsOthers
  <2> HIDE DEF others
  <2>3. others \in Seq(Sender \cup {Gone})
    BY <2>2
  <2>4. \A q \in Pending(Sender) : q \in Sender /\ \E j \in DOMAIN puts : puts[j] = q
    BY DEF Settled, CallsInv, Enlisted, Pending
  <2> QED
    BY <2>2, <2>3, <2>4
<1> HIDE DEF others
<1>4. /\ SameBut(Receiver, p)
      /\ \/ SameBut(Sender, p) /\ (Full \/ p \notin Awake(Sender))
         \/ SameBut(Sender, p) /\ Pending(Sender)' = {}
         \/ \E q : WokenBut(Sender, p, q)
  <2>1. CASE fut' = Woken(others, Back(p))
    BY <1>2, <1>3, <2>1, WakeupOf DEF Settled, Crowd
  <2>2. CASE (Full \/ fut[p] = "cancelled") /\ fut' = Back(p)
    BY <2>2, BackTyped, ChanAssumption
       DEF SameBut, Awake, Settled, CallsInv, CallsTyped, Process
  <2> QED
    BY <1>1, <2>1, <2>2
<1>5. NoReceiverCancelled'
  BY <1>4, NoReceiverCancelledKept DEF Settled, WakeInv, CallFrame, SameBut
<1>6. NoSenderSleepsOnPlace'
  <2> USE <1>1, <1>2 DEF Settled, WakeInv, NoSenderSleepsOnPlace, Free, Crowd
  <2>1. CASE SameBut(Sender, p) /\ Full
    BY <2>1, CountBack DEF Full
  <2>2. CASE SameBut(Sender, p) /\ p \notin Awake(Sender)
    BY <2>2, CountBack
  <2>3. CASE Pending(Sender)' = {}
    BY <2>3
  <2>4. ASSUME NEW q, WokenBut(Sender, p, q) PROVE NoSenderSleepsOnPlace'
    BY <2>4, CountWoken
  <2> QED
    BY <1>4, <2>1, <2>2, <2>3, <2>4
<1>7. ValuesAwaited'
  <2>1. \A q \in Receiver : q # p /\ fut'[q] = fut[q] /\ raised'[q] = raised[q]
    BY <1>1, <1>4, ChanAssumption DEF SameBut, Settled, CallsInv, CallsTyped, Process
  <2> QED
    BY <1>1, <2>1 DEF Settled, WakeInv, ValuesAwaited, ReceiverToldClosed, Calm, CallFrame, Pending, Awake
<1> QED
  BY <1>5, <1>6, <1>7 DEF WakeInv

LEMMA RecvCancelledWakes ==
    ASSUME Settled, CallFrame, NEW p \in Receiver, Interrupted(p), RecvCancelled(p)
    PROVE  WakeInv'
<1>1. ~Calm /\ ~Calm'
  BY DEF Settled, WakeInv, NoReceiverCancelled, CallFrame, Calm
<1>2. \A q \in Sender : fut'[q] = fut[q]
  BY BackTyped, ChanAssumption DEF RecvCancelled, Settled, CallsInv, CallsTyped, Process
<1>3. NoSenderSleepsOnPlace'
  BY <1>2 DEF RecvCancelled, CallFrame, Settled, WakeInv, NoSenderSleepsOnPlace, Free, Pending, Awake
<1> QED
  BY <1>1, <1>3 DEF WakeInv, NoReceiverCancelled, ValuesAwaited

LEMMA CancelWakes ==
    ASSUME Settled, NEW p \in Process, Cancel(p)
    PROVE  WakeInv'
<1>1. /\ UNCHANGED <<maxsize, cancellable, queue, raised>> /\ p \in cancellable
      /\ \/ UNCHANGED fut /\ interrupted' = interrupted \cup {p}
         \/ fut[p] = "pending" /\ fut' = [fut EXCEPT ![p] = "cancelled"] /\ UNCHANGED interrupted
  BY DEF Cancel
<1>2. \A q \in Process : fut'[q] = fut[q] \/ (q = p /\ fut[q] = "pending" /\ fut'[q] = "cancelled")
  BY <1>1 DEF Settled, CallsInv, CallsTyped
<1>3. Calm => \A q \in Receiver : fut'[q] = fut[q] /\ (q \in interrupted' => q \in interrupted)
  BY <1>1, <1>2 DEF Calm, Process
<1>4. NoReceiverCancelled'
  BY <1>1, <1>3 DEF Settled, WakeInv, NoReceiverCancelled, Calm, Interrupted
<1>5. NoSenderSleepsOnPlace'
  <2>1. Pending(Sender)' \subseteq Pending(Sender) /\ Awake(Sender)' = Awake(Sender)
    BY <1>2 DEF Pending, Awake, Process
  <2> QED
    BY <1>1, <2>1 DEF Settled, WakeInv, NoSenderSleepsOnPlace, Free
<1>6. ValuesAwaited'
  BY <1>1, <1>3 DEF Settled, WakeInv, ValuesAwaited, ReceiverToldClosed, Calm, Pending, Awake
<1> QED
  BY <1>4, <1>5, <1>6 DEF WakeInv

\* Whom close tells that the channel is closed was asleep till then.
LEMMA CloseWakes ==
    ASSUME Settled, Close
    PROVE  WakeInv'
<1>1. ~closed /\ closed' /\ UNCHANGED <<maxsize, cancellable, queue, interrupted, raised>>
  BY DEF Close
<1>2. \A q \in Process : \/ fut'[q] = fut[q]
                         \/ fut[q] = "pending" /\ fut'[q] \in {"result", "closed"}
  BY DEF Close
<1>3. Pending(Sender)' = {} /\ Pending(Receiver)' = {}
  BY <1>1, NobodySleeps DEF Settled
<1>4. NoReceiverCancelled'
  BY <1>1, <1>2, NoReceiverCancelledKept DEF Settled, WakeInv, Process
<1>5. NoSenderSleepsOnPlace'
  BY <1>3 DEF NoSenderSleepsOnPlace
<1>6. ValuesAwaited'
  <2>1. SUFFICES ASSUME Calm, ReceiverToldClosed'
                 PROVE  Len(queue) <= Cardinality(Awake(Receiver))'
    BY <1>1, <1>3 DEF ValuesAwaited, Calm
  <2>2. Pending(Receiver) # {}
    BY <1>1, <1>2, <2>1 DEF ReceiverToldClosed, Settled, CallsInv, FailedWhenClosed, Pending, Process
  <2>3. Len(queue) <= Cardinality(Awake(Receiver))
    BY <2>1, <2>2 DEF Settled, WakeInv, ValuesAwaited
  <2>4. /\ Cardinality(Awake(Receiver)) \in Nat /\ Cardinality(Awake(Receiver))' \in Nat
        /\ Cardinality(Awake(Receiver)) <= Cardinality(Awake(Receiver))'
    <3>1. Awake(Receiver) \subseteq Awake(Receiver)'
      BY <1>2 DEF Awake, Process
    <3>2. Awake(Receiver) \in SUBSET Receiver /\ Awake(Receiver)' \in SUBSET Receiver
      BY DEF Awake
    <3> QED
      BY <3>1, <3>2, ChanAssumption, Counting
  <2>5. Len(queue) \in Nat
    BY SizesNatural DEF Settled
  <2> QED
    BY <2>3, <2>4, <2>5
<1> QED
  BY <1>4, <1>5, <1>6 DEF WakeInv

LEMMA SendLoopWakes ==
    ASSUME Settled, CallFrame, NEW p \in Sender, SendLoop(p)
    PROVE  WakeInv'
<1>1. CASE Full /\ AwaitRoom(p)
  BY <1>1, AwaitRoomWakes
<1>2. CASE ~(Full /\ ~closed) /\ SendNowait(p)
  BY <1>2, SendFailsWakes, StoreWakes DEF SendNowait
<1> QED
  BY <1>1, <1>2 DEF SendLoop

LEMMA RecvLoopWakes ==
    ASSUME Settled, CallFrame, NEW p \in Receiver, RecvLoop(p)
    PROVE  WakeInv'
  BY AwaitValueWakes, RecvFailsWakes, TakeFirstWakes DEF RecvLoop

LEMMA WakeInvariant == Spec => []WakeInv
<1>1. Init => WakeInv
  <2> SUFFICES ASSUME Init PROVE WakeInv
    OBVIOUS
  <2>1. /\ \A p \in Process : fut[p] = "none" /\ raised[p] = "none"
        /\ interrupted = {}
    BY DEF Init
  <2> QED
    BY <2>1 DEF WakeInv, NoReceiverCancelled, NoSenderSleepsOnPlace, ValuesAwaited,
                ReceiverToldClosed, Interrupted, Pending, Process
<1>2. Settled /\ [Next]_vars => WakeInv'
  <2> SUFFICES ASSUME Settled, [Next]_vars PROVE WakeInv'
    OBVIOUS
  <2>1. ASSUME NEW p \in Sender, SendCall(p) PROVE WakeInv'
    BY <2>1, SendLoopWakes DEF SendCall, CallFrame
  <2>2. ASSUME NEW p \in Sender, SendResume(p) PROVE WakeInv'
    <3>1. CallFrame /\ (fut[p] = "closed" => closed)
      BY <2>2 DEF SendResume, CallFrame, Settled, CallsInv, FailedWhenClosed, Process
    <3> QED
      BY <2>2, <3>1, SendLoopWakes, SendFailsWakes, SendCancelledWakes DEF SendResume
  <2>3. ASSUME NEW p \in Receiver, RecvCall(p) PROVE WakeInv'
    BY <2>3, RecvLoopWakes DEF RecvCall, CallFrame
  <2>4. ASSUME NEW p \in Receiver, RecvResume(p) PROVE WakeInv'
    <3>1. CallFrame /\ (fut[p] = "closed" => closed)
      BY <2>4 DEF RecvResume, CallFrame, Settled, CallsInv, FailedWhenClosed, Process
    <3> QED
      BY <2>4, <3>1, RecvLoopWakes, RecvFailsWakes, RecvCancelledWakes DEF RecvResume
  <2>5. CASE UNCHANGED vars
    BY <2>5 DEF vars, Settled, WakeInv, NoReceiverCancelled, NoSenderSleepsOnPlace, Free, ValuesAwaited,
                ReceiverToldClosed, Calm, Interrupted, Pending, Awake
  <2> QED
    BY <2>1, <2>2, <2>3, <2>4, <2>5, CancelWakes, CloseWakes DEF Next
<1> QED
  BY <1>1, <1>2, CallsInvariant, TypeCorrect, PTL DEF Spec, Settled

\* No wakeup is lost: while a task sleeps, whatever it waits for has a woken
\* task on its way to it, for any number of senders, of receivers and of
\* cancelled senders.
THEOREM NobodySleepsInVain == Spec => []NoLostWakeup
<1>1. WakeInv => NoLostWakeup
  BY DEF WakeInv, NoSenderSleepsOnPlace, Free, ValuesAwaited, Calm, NoLostWakeup, NoSleepOnValue
<1> QED
  BY <1>1, WakeInvariant, PTL

\* ChanClosed reaches a receiver only when the values left are spoken for.
THEOREM DrainedBeforeClosed == Spec => []ClosedMeansDrained
<1>1. WakeInv => ClosedMeansDrained
  BY DEF WakeInv, ValuesAwaited, ReceiverToldClosed, Calm, ClosedMeansDrained
<1> QED
  BY <1>1, WakeInvariant, PTL
=============================================================================
