------------------------------ MODULE Emitter ------------------------------
(***************************************************************************)
(* One Emitter of livechain/graph/emitter.py: its three maps, and the      *)
(* tasks emit creates, which call their callbacks later, each in its own   *)
(* task (RunnableParallel): one that fails does not keep the others from   *)
(* being called, and a caller that is cancelled while it awaits the task   *)
(* cancels the calls still to come.                                        *)
(***************************************************************************)
EXTENDS Integers, FiniteSets

CONSTANTS Callback,   \* the callbacks
          Hash,       \* what get_hash may return
          Default,    \* subscribe() without a hash
          NoEntry,    \* not a key of _callback_to_hash
          OneHash,    \* TRUE if no callback is subscribed under two hashes
          MaxEmits    \* bound: emissions

ASSUME EmitterAssumption ==
    /\ Default \notin Hash /\ NoEntry \notin Hash \cup {Default}
    /\ OneHash \in BOOLEAN
    /\ MaxEmits \in Nat

Emission == 1..MaxEmits

VARIABLES subscribers,  \* _subscribers
          defaults,     \* _default_subscribers
          hashOf,       \* _callback_to_hash
          emitted,      \* emissions so far
          calls         \* of each emission, the entries of func_map not called yet

tables == <<subscribers, defaults, hashOf>>
vars == <<tables, emitted, calls>>

Init == /\ subscribers = [h \in Hash |-> {}]
        /\ defaults = {}
        /\ hashOf = [c \in Callback |-> NoEntry]
        /\ emitted = 0
        /\ calls = [n \in Emission |-> {}]

Subscriptions == {s \in Callback \X (Hash \cup {Default}) :
                     IF s[2] = Default THEN s[1] \in defaults ELSE s[1] \in subscribers[s[2]]}

\* A subscriber without a hash put among those with one.
AddSubscriberUnder(c, h) ==
    /\ subscribers' = [g \in DOMAIN subscribers \cup {h} |->
                         (IF g \in DOMAIN subscribers THEN subscribers[g] ELSE {})
                             \cup (IF g = h THEN {c} ELSE {})]
    /\ UNCHANGED defaults

AddSubscriber(c, h) ==
    \/ /\ h \in Hash
       /\ subscribers' = [subscribers EXCEPT ![h] = @ \cup {c}]
       /\ UNCHANGED defaults
    \/ /\ h = Default
       /\ defaults' = defaults \cup {c}
       /\ UNCHANGED subscribers

\* An entry that is already there is kept, as setdefault would.
SubscribeKeepsEntry(c, h) ==
    /\ OneHash => \A s \in Subscriptions : s[1] = c => s[2] = h
    /\ AddSubscriber(c, h)
    /\ hashOf' = [hashOf EXCEPT ![c] = IF @ = NoEntry THEN h ELSE @]
    /\ UNCHANGED <<emitted, calls>>

Subscribe(c, h) ==
    /\ OneHash => \A s \in Subscriptions : s[1] = c => s[2] = h
    /\ AddSubscriber(c, h)
    /\ hashOf' = [hashOf EXCEPT ![c] = h]
    /\ UNCHANGED <<emitted, calls>>

\* Without an entry the call returns.  The entry is never deleted, so for a
\* callback that is gone set.remove raises KeyError; neither changes anything.
Unsubscribe(c) ==
    /\ \/ /\ hashOf[c] = Default /\ c \in defaults
          /\ defaults' = defaults \ {c}
          /\ UNCHANGED subscribers
       \/ /\ hashOf[c] \in Hash /\ c \in subscribers[hashOf[c]]
          /\ subscribers' = [subscribers EXCEPT ![hashOf[c]] = @ \ {c}]
          /\ UNCHANGED defaults
    /\ UNCHANGED <<hashOf, emitted, calls>>

UnsubscribeAll == /\ subscribers' = [h \in Hash |-> {}]
                  /\ defaults' = {}
                  /\ hashOf' = [c \in Callback |-> NoEntry]
                  /\ UNCHANGED <<emitted, calls>>

\* The callbacks without a hash called only when there are no others.
EmitOrDefault(h) ==
    /\ emitted < MaxEmits
    /\ emitted' = emitted + 1
    /\ calls' = [calls EXCEPT ![emitted + 1] =
                    IF subscribers[h] # {} THEN {<<c, h>> : c \in subscribers[h]}
                    ELSE {<<c, Default>> : c \in defaults}]
    /\ UNCHANGED tables

\* emit: the callbacks are collected now and called later.  One that is
\* subscribed in both ways is called twice.
Emit(h) ==
    /\ emitted < MaxEmits
    /\ emitted' = emitted + 1
    /\ calls' = [calls EXCEPT ![emitted + 1] =
                    {<<c, h>> : c \in subscribers[h]} \cup {<<c, Default>> : c \in defaults}]
    /\ UNCHANGED tables

Call(n) == /\ \E s \in calls[n] : calls' = [calls EXCEPT ![n] = @ \ {s}]
           /\ UNCHANGED <<tables, emitted>>

\* The emission's task is cancelled: calls that have not begun never do.
CancelEmission(n) == /\ calls[n] # {}
                     /\ calls' = [calls EXCEPT ![n] = {}]
                     /\ UNCHANGED <<tables, emitted>>

Next == \/ \E c \in Callback : Unsubscribe(c) \/ \E h \in Hash \cup {Default} : Subscribe(c, h)
        \/ UnsubscribeAll
        \/ \E h \in Hash : Emit(h)
        \/ \E n \in Emission : Call(n) \/ CancelEmission(n)

Spec == Init /\ [][Next]_vars

-----------------------------------------------------------------------------
(* Properties.                                                             *)

TypeOK ==
    /\ subscribers \in [Hash -> SUBSET Callback] /\ defaults \subseteq Callback
    /\ hashOf \in [Callback -> Hash \cup {Default, NoEntry}]
    /\ emitted \in 0..MaxEmits
    /\ calls \in [Emission -> SUBSET (Callback \X (Hash \cup {Default}))]

\* What unsubscribe looks up is the only place where a callback is subscribed:
\* the map of entries never falls behind the two it points into, in any order
\* of subscribing, unsubscribing and subscribing elsewhere.
EntryFindsAll == \A s \in Subscriptions : hashOf[s[1]] = s[2]

\* The emitter implements PubSub: the subscriptions are those the two maps hold
\* together, and an emission is delivered to those subscribed when it was made,
\* whatever happens to the maps before its callbacks run.
PS == INSTANCE PubSub WITH subscriptions <- Subscriptions, owed <- calls
ImplementsPubSub == PS!Spec
=============================================================================
