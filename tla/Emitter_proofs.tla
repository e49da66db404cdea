--------------------------- MODULE Emitter_proofs ---------------------------
(***************************************************************************)
(* Theorems about Emitter.tla: type correctness, the entries find every    *)
(* subscription, and the emitter implements PubSub, for any callbacks,     *)
(* hashes and number of emissions.  The last two are about callers that    *)
(* subscribe a callback under one hash at a time.                          *)
(***************************************************************************)
EXTENDS Emitter, TLAPS

\* The emitter's variables always have their types: no operation puts a default
\* subscriber among those with a hash, or the other way round.
THEOREM TypeCorrect == Spec => []TypeOK
<1> USE EmitterAssumption
<1>1. Init => TypeOK
  BY DEF Init, TypeOK, Emission
<1>2. TypeOK /\ [Next]_vars => TypeOK'
  <2> SUFFICES ASSUME TypeOK, [Next]_vars PROVE TypeOK'
    OBVIOUS
  <2>1. ASSUME NEW c \in Callback, NEW h \in Hash \cup {Default}, Subscribe(c, h)
        PROVE  TypeOK'
    BY <2>1 DEF TypeOK, Subscribe, AddSubscriber
  <2>2. ASSUME NEW c \in Callback, Unsubscribe(c) PROVE TypeOK'
    BY <2>2 DEF TypeOK, Unsubscribe
  <2>3. CASE UnsubscribeAll
    BY <2>3 DEF TypeOK, UnsubscribeAll
  <2>4. ASSUME NEW h \in Hash, Emit(h) PROVE TypeOK'
    <3>1. {<<c, h>> : c \in subscribers[h]} \cup {<<c, Default>> : c \in defaults}
              \in SUBSET (Callback \X (Hash \cup {Default}))
      BY DEF TypeOK
    <3>2. calls' \in [Emission -> SUBSET (Callback \X (Hash \cup {Default}))]
      BY <2>4, <3>1 DEF TypeOK, Emit
    <3> QED BY <2>4, <3>2 DEF TypeOK, Emit, tables
  <2>5. ASSUME NEW n \in Emission, Call(n) PROVE TypeOK'
    BY <2>5 DEF TypeOK, Call, tables
  <2>6. ASSUME NEW n \in Emission, CancelEmission(n) PROVE TypeOK'
    BY <2>6 DEF TypeOK, CancelEmission, tables
  <2>7. CASE UNCHANGED vars
    BY <2>7 DEF TypeOK, vars, tables
  <2> QED BY <2>1, <2>2, <2>3, <2>4, <2>5, <2>6, <2>7 DEF Next
<1> QED BY <1>1, <1>2, PTL DEF Spec

-----------------------------------------------------------------------------
(* What each operation does to the relation the maps stand for.            *)

LEMMA SubscribeAdds ==
    ASSUME TypeOK, NEW c \in Callback, NEW h \in Hash \cup {Default}, Subscribe(c, h)
    PROVE  Subscriptions' = Subscriptions \cup {<<c, h>>}
BY EmitterAssumption DEF TypeOK, Subscribe, AddSubscriber, Subscriptions

LEMMA UnsubscribeRemoves ==
    ASSUME TypeOK, NEW c \in Callback, Unsubscribe(c)
    PROVE  Subscriptions' = Subscriptions \ {<<c, hashOf[c]>>}
<1>1. CASE hashOf[c] = Default /\ defaults' = defaults \ {c} /\ UNCHANGED subscribers
  BY <1>1, EmitterAssumption DEF TypeOK, Subscriptions
<1>2. CASE /\ hashOf[c] \in Hash
           /\ subscribers' = [subscribers EXCEPT ![hashOf[c]] = @ \ {c}]
           /\ UNCHANGED defaults
  BY <1>2, EmitterAssumption DEF TypeOK, Subscriptions
<1> QED BY <1>1, <1>2 DEF Unsubscribe

LEMMA UnsubscribeAllClears ==
    ASSUME UnsubscribeAll PROVE Subscriptions' = {}
BY EmitterAssumption DEF UnsubscribeAll, Subscriptions

LEMMA TablesKept ==
    ASSUME UNCHANGED tables PROVE Subscriptions' = Subscriptions
BY DEF tables, Subscriptions

\* As long as callers subscribe a callback under one hash at a time, its entry in
\* _callback_to_hash leads unsubscribe to the only place where it is subscribed.
THEOREM EntriesComplete == ASSUME OneHash PROVE Spec => []EntryFindsAll
<1>1. Init => EntryFindsAll
  BY EmitterAssumption DEF Init, EntryFindsAll, Subscriptions
<1>2. TypeOK /\ EntryFindsAll /\ [Next]_vars => EntryFindsAll'
  <2> SUFFICES ASSUME TypeOK, EntryFindsAll, [Next]_vars PROVE EntryFindsAll'
    OBVIOUS
  <2>1. ASSUME NEW c \in Callback, NEW h \in Hash \cup {Default}, Subscribe(c, h)
        PROVE  EntryFindsAll'
    <3>1. hashOf' = [hashOf EXCEPT ![c] = h]
      BY <2>1 DEF Subscribe
    <3>2. \A s \in Subscriptions : s[1] = c => s[2] = h
      BY <2>1, OneHash DEF Subscribe
    <3>3. \A s \in Subscriptions : s[1] \in Callback
      BY DEF Subscriptions
    <3> QED BY <2>1, <3>1, <3>2, <3>3, SubscribeAdds DEF EntryFindsAll, TypeOK
  <2>2. ASSUME NEW c \in Callback, Unsubscribe(c) PROVE EntryFindsAll'
    BY <2>2, UnsubscribeRemoves DEF EntryFindsAll, Unsubscribe
  <2>3. CASE UnsubscribeAll
    BY <2>3, UnsubscribeAllClears DEF EntryFindsAll
  <2>4. CASE UNCHANGED tables
    BY <2>4, TablesKept DEF EntryFindsAll, tables
  <2> QED BY <2>1, <2>2, <2>3, <2>4 DEF Next, Emit, Call, CancelEmission, vars
<1> QED BY <1>1, <1>2, TypeCorrect, PTL DEF Spec

\* The emitter implements PubSub for such callers: its maps are one relation, and
\* what an emission still has to call was subscribed when it was made.
THEOREM Refinement == ASSUME OneHash PROVE Spec => ImplementsPubSub
<1>1. Init => PS!Init
  BY EmitterAssumption DEF Init, PS!Init, Subscriptions
<1>2. TypeOK /\ EntryFindsAll /\ [Next]_vars => [PS!Next]_(PS!specVars)
  <2> SUFFICES ASSUME TypeOK, EntryFindsAll, [Next]_vars PROVE [PS!Next]_(PS!specVars)
    OBVIOUS
  <2> USE DEF PS!Next
  <2>1. ASSUME NEW c \in Callback, NEW h \in Hash \cup {Default}, Subscribe(c, h)
        PROVE  PS!Next
    <3>1. PS!Subscribe(c, h)
      BY <2>1, SubscribeAdds DEF Subscribe, PS!Subscribe, PS!SubscribeEach
    <3> QED BY <3>1
  <2>2. ASSUME NEW c \in Callback, Unsubscribe(c) PROVE PS!Next
    <3>1. Subscriptions \ {<<c, hashOf[c]>>} = {s \in Subscriptions : s[1] # c}
      BY DEF EntryFindsAll, Subscriptions
    <3>2. PS!Unsubscribe(c)
      BY <2>2, <3>1, UnsubscribeRemoves DEF Unsubscribe, PS!Unsubscribe
    <3> QED BY <3>2
  <2>3. ASSUME UnsubscribeAll PROVE PS!Next
    BY <2>3, UnsubscribeAllClears DEF UnsubscribeAll, PS!UnsubscribeAll
  <2>4. ASSUME NEW h \in Hash, Emit(h) PROVE PS!Next
    <3>1. {<<c, h>> : c \in subscribers[h]} \cup {<<c, Default>> : c \in defaults}
              = {s \in Subscriptions : s[2] \in {h, Default}}
      BY EmitterAssumption DEF TypeOK, Subscriptions
    <3>2. emitted + 1 \in Emission
      BY <2>4, EmitterAssumption DEF TypeOK, Emit, Emission
    <3>3. PS!Emit(h)
      BY <2>4, <3>1, <3>2, TablesKept DEF Emit, PS!Emit
    <3> QED BY <3>3
  <2>5. ASSUME NEW n \in Emission, Call(n) PROVE PS!Next
    <3>1. PICK s \in calls[n] : calls' = [calls EXCEPT ![n] = @ \ {s}]
      BY <2>5 DEF Call
    <3>2. PS!Deliver(n, s)
      BY <2>5, <3>1, TablesKept DEF Call, PS!Deliver
    <3> QED BY <3>2
  <2>6. ASSUME NEW n \in Emission, CancelEmission(n) PROVE PS!Next
    <3>1. PS!Drop(n)
      BY <2>6, TablesKept DEF CancelEmission, PS!Drop
    <3> QED BY <3>1
  <2>7. CASE UNCHANGED vars
    BY <2>7, TablesKept DEF vars, PS!specVars
  <2> QED BY <2>1, <2>2, <2>3, <2>4, <2>5, <2>6, <2>7 DEF Next
<1> QED BY <1>1, <1>2, TypeCorrect, EntriesComplete, PTL DEF Spec, ImplementsPubSub, PS!Spec
=============================================================================
