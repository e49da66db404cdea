------------------------------- MODULE PubSub -------------------------------
(***************************************************************************)
(* What an Emitter (livechain/graph/emitter.py) promises: a set of         *)
(* subscriptions, and for every emitted signal the deliveries it owes to   *)
(* the callbacks that were subscribed when it was emitted.                 *)
(***************************************************************************)
EXTENDS Integers

CONSTANTS Callback, Hash, Default,  \* Default stands for "every signal"
          Emission                  \* the emissions, numbered

VARIABLES subscriptions,  \* pairs of a callback and what it is subscribed to
          emitted,        \* emissions so far
          owed            \* of each emission, the subscriptions not served yet

specVars == <<subscriptions, emitted, owed>>

Init == subscriptions = {} /\ emitted = 0 /\ owed = [n \in Emission |-> {}]

SubscribeEach(S) == subscriptions' = subscriptions \cup S /\ UNCHANGED <<emitted, owed>>

Subscribe(c, h) == SubscribeEach({<<c, h>>})

Unsubscribe(c) == /\ subscriptions' = {s \in subscriptions : s[1] # c}
                  /\ UNCHANGED <<emitted, owed>>

UnsubscribeAll == subscriptions' = {} /\ UNCHANGED <<emitted, owed>>

Emit(h) == /\ emitted + 1 \in Emission
           /\ emitted' = emitted + 1
           /\ owed' = [owed EXCEPT ![emitted + 1] = {s \in subscriptions : s[2] \in {h, Default}}]
           /\ UNCHANGED subscriptions

\* A delivery that remains owed, and so may be made again.
DeliverAgain(n, s) == s \in owed[n] /\ UNCHANGED specVars

Deliver(n, s) == /\ s \in owed[n]
                 /\ owed' = [owed EXCEPT ![n] = @ \ {s}]
                 /\ UNCHANGED <<subscriptions, emitted>>

\* The caller that awaits the emission is cancelled, and with it the rest.
Drop(n) == owed' = [owed EXCEPT ![n] = {}] /\ UNCHANGED <<subscriptions, emitted>>

Next == \/ \E c \in Callback : Unsubscribe(c) \/ \E h \in Hash \cup {Default} : Subscribe(c, h)
        \/ UnsubscribeAll
        \/ \E h \in Hash : Emit(h)
        \/ \E n \in Emission : Drop(n) \/ \E s \in owed[n] : Deliver(n, s)

Spec == Init /\ [][Next]_specVars
=============================================================================
