------------------------------ MODULE Context ------------------------------
(***************************************************************************)
(* The state of a workflow: Context.mutate_state (livechain/graph/         *)
(* context.py), the cache and the checkpoint of its persister              *)
(* (livechain/graph/persist), and the reactive runners that watch it       *)
(* (_with_cond of livechain/graph/executor.py).  A state gives each field  *)
(* a value; a field never written reads as its default.  Reading, writing  *)
(* and emitting are one step, as mutate_state does not await.              *)
(***************************************************************************)
EXTENDS Integers, Sequences

CONSTANTS Field, Value,
          Bad,         \* any value the schema rejects
          Default,     \* the state of a schema with its defaults
          None,        \* no cached state
          Runner,      \* runners of reactive routines, each made by one start()
          Cond(_, _),  \* what a runner's routine watches, of a state
          MaxChanges,  \* bound: mutations that are accepted
          MaxCancels   \* bound: mutations whose caller is cancelled

State == [Field -> Value]
Raw == [Field -> Value \cup {Bad}]
Patch == UNION {[F -> Value \cup {Bad}] : F \in SUBSET Field \ {{}}}

ASSUME ContextAssumption ==
    /\ Bad \notin Value /\ Default \in State /\ None \notin State
    /\ MaxChanges \in Nat /\ MaxCancels \in Nat

VARIABLES cached,      \* _cached_state
          checkpoint,  \* what the graph's checkpointer holds
          changes,     \* the ReactiveSignals emitted
          subscriptions, emitted, owed,  \* the effects emitter
          open,        \* runners whose channel is open
          got,         \* the signals each runner has accepted
          base,        \* history: what each runner watched when it was subscribed
          missed,      \* history: runners that lost a delivery to a cancellation
          cancels      \* cancellations so far

Emission == 1..MaxChanges
Effects == "effects"  \* the emitter's only topic: its hash is None

PS == INSTANCE PubSub WITH Callback <- Runner, Hash <- {Effects}, Default <- Effects

stateVars == <<cached, checkpoint, changes>>
emitterVars == <<subscriptions, emitted, owed>>
runnerVars == <<open, got, base, missed>>
vars == <<stateVars, emitterVars, runnerVars, cancels>>

Init == /\ cached = None /\ checkpoint = Default /\ changes = <<>>
        /\ PS!Init
        /\ open = {} /\ got = [r \in Runner |-> {}] /\ base = [r \in Runner |-> None]
        /\ missed = {} /\ cancels = 0

-----------------------------------------------------------------------------
(* The persister.                                                          *)

\* get(): nothing has been written before the first one, so what it validates is valid.
Get == IF cached = None THEN checkpoint ELSE cached

Patched(p) == [f \in Field |-> IF f \in DOMAIN p THEN p[f] ELSE checkpoint[f]]

\* The graph writes the patch, validates the state at its node, and raises if it is
\* not valid; whether the write then stays in the checkpoint is the graph's affair.
Invoke(p) ==
    \/ Patched(p) \in State /\ checkpoint' = Patched(p)
    \/ Patched(p) \notin State /\ checkpoint' \in {checkpoint, Patched(p)}

GetState == /\ cached' = Get
            /\ UNCHANGED <<checkpoint, changes, emitterVars, runnerVars, cancels>>

-----------------------------------------------------------------------------
(* mutate_state.                                                           *)

\* The previous state read from the checkpoint, without the cache.
MutateFromCheckpoint(p) ==
    /\ emitted < MaxChanges
    /\ Invoke(p)
    /\ \/ /\ Patched(p) \in State
          /\ cached' = Patched(p)
          /\ changes' = Append(changes, [old |-> checkpoint, new |-> cached'])
          /\ PS!Emit(Effects)
       \/ /\ Patched(p) \notin State
          /\ cached' = Get
          /\ UNCHANGED <<changes, emitterVars>>
    /\ UNCHANGED <<runnerVars, cancels>>

\* The cache dropped before the write, and not set again if that raises.
MutateDropsCache(p) ==
    /\ emitted < MaxChanges
    /\ Invoke(p)
    /\ \/ /\ Patched(p) \in State
          /\ cached' = Patched(p)
          /\ changes' = Append(changes, [old |-> Get, new |-> cached'])
          /\ PS!Emit(Effects)
       \/ /\ Patched(p) \notin State
          /\ cached' = None
          /\ UNCHANGED <<changes, emitterVars>>
    /\ UNCHANGED <<runnerVars, cancels>>

MutateState(p) ==
    /\ emitted < MaxChanges
    /\ Invoke(p)
    /\ \/ /\ Patched(p) \in State
          /\ cached' = Patched(p)
          /\ changes' = Append(changes, [old |-> Get, new |-> cached'])
          /\ PS!Emit(Effects)
       \/ /\ Patched(p) \notin State
          /\ cached' = Get
          /\ UNCHANGED <<changes, emitterVars>>
    /\ UNCHANGED <<runnerVars, cancels>>

\* The caller is cancelled while it awaits the emission.
CancelMutation(n) ==
    /\ cancels < MaxCancels /\ owed[n] # {}
    /\ PS!Drop(n)
    /\ missed' = missed \cup {s[1] : s \in owed[n]}
    /\ cancels' = cancels + 1
    /\ UNCHANGED <<stateVars, open, got, base>>

-----------------------------------------------------------------------------
(* The reactive runners.                                                   *)

\* start() makes a runner and subscribes it behind its condition.
StartRunner(r) ==
    /\ base[r] = None
    /\ PS!Subscribe(r, Effects)
    /\ open' = open \cup {r}
    /\ base' = [base EXCEPT ![r] = Get]
    /\ UNCHANGED <<stateVars, got, missed, cancels>>

\* stop() closes the channels first,
CloseRunner(r) ==
    /\ r \in open
    /\ open' = open \ {r}
    /\ UNCHANGED <<stateVars, emitterVars, got, base, missed, cancels>>

\* and unsubscribes in the end.
UnsubscribeAll ==
    /\ open = {} /\ subscriptions # {}
    /\ PS!UnsubscribeAll
    /\ UNCHANGED <<stateVars, runnerVars, cancels>>

\* A condition that compares with the state the runner was subscribed in.
DeliverIfNotAsAtStart(n) ==
    /\ \E s \in owed[n] :
          LET r == s[1] IN
          /\ PS!Deliver(n, s)
          /\ IF r \in open /\ Cond(r, base[r]) # Cond(r, changes[n].new)
             THEN got' = [got EXCEPT ![r] = @ \cup {n}]
             ELSE UNCHANGED got
    /\ UNCHANGED <<stateVars, open, base, missed, cancels>>

\* An emission calls one of its runners: the condition compares the states of the
\* signal; a closed channel raises.
Deliver(n) ==
    /\ \E s \in owed[n] :
          LET r == s[1] IN
          /\ PS!Deliver(n, s)
          /\ IF r \in open /\ Cond(r, changes[n].old) # Cond(r, changes[n].new)
             THEN got' = [got EXCEPT ![r] = @ \cup {n}]
             ELSE UNCHANGED got
    /\ UNCHANGED <<stateVars, open, base, missed, cancels>>

Next == \/ GetState
        \/ \E p \in Patch : MutateState(p)
        \/ \E n \in Emission : CancelMutation(n) \/ Deliver(n)
        \/ \E r \in Runner : StartRunner(r) \/ CloseRunner(r)
        \/ UnsubscribeAll

Spec == Init /\ [][Next]_vars

-----------------------------------------------------------------------------
(* Properties.                                                             *)

Change == [old : State, new : State]

TypeOK ==
    /\ cached \in State \cup {None} /\ checkpoint \in Raw
    /\ changes \in Seq(Change) /\ emitted = Len(changes) /\ emitted \in 0..MaxChanges
    /\ subscriptions \subseteq Runner \X {Effects}
    /\ owed \in [Emission -> SUBSET (Runner \X {Effects})]
    /\ open \subseteq Runner /\ got \in [Runner -> SUBSET Emission]
    /\ base \in [Runner -> State \cup {None}]
    /\ missed \subseteq Runner /\ cancels \in 0..MaxCancels

\* The signals tell the whole history of the state, from the default to now: each
\* begins where the one before ended, also after mutations that were rejected and
\* left their patch in the checkpoint.
SignalsChain ==
    /\ \A n \in DOMAIN changes :
          changes[n].old = IF n = 1 THEN Default ELSE changes[n - 1].new
    /\ changes # <<>> => cached = changes[Len(changes)].new

OwedTo(r) == {n \in Emission : \E s \in owed[n] : s[1] = r}

Latest(S) == CHOOSE n \in S : \A m \in S : m <= n

\* A reactive runner to which nothing is owed knows the value it watches: by the
\* latest signal it has accepted, or from the beginning, although it sees only those
\* that its condition lets through, in any order, and no cancelled ones.
WatcherUpToDate ==
    \A r \in open \ missed :
        OwedTo(r) = {} =>
            Cond(r, Get) = Cond(r, IF got[r] = {} THEN base[r] ELSE changes[Latest(got[r])].new)

\* "reactive node that will be called whenever state.has_started has changed": the
\* same for every runner, whatever became of the callers of mutate_state.
CalledWheneverChanged ==
    \A r \in open :
        OwedTo(r) = {} =>
            Cond(r, Get) = Cond(r, IF got[r] = {} THEN base[r] ELSE changes[Latest(got[r])].new)
=============================================================================
