--------------------------- MODULE Context_proofs ---------------------------
(***************************************************************************)
(* Proofs about Context, for any fields, values, conditions and runners:   *)
(* the reactive signals tell the history of the state, and a runner that   *)
(* has had its signals knows the value it watches.                         *)
(***************************************************************************)
EXTENDS Context, TLAPS

-----------------------------------------------------------------------------
(* The inductive invariant.                                                *)

\* The state after n accepted mutations.
Shown(n) == IF n = 0 THEN Default ELSE changes[n].new

ChainInv ==
    /\ TypeOK
    /\ Get = Shown(Len(changes))
    /\ cached = None => changes = <<>>
    /\ \A n \in 1..Len(changes) : changes[n].old = Shown(n - 1)

Due(r, n) == n \in got[r] \/ <<r, Effects>> \in owed[n]

\* Nobody is called who was not subscribed, and what was accepted has a latest signal.
CallsInv ==
    /\ \A r \in Runner : base[r] = None =>
          /\ r \notin open /\ <<r, Effects>> \notin subscriptions
          /\ \A n \in Emission : ~Due(r, n)
    /\ \A r \in open : <<r, Effects>> \in subscriptions
    /\ \A r \in Runner, n \in Emission : Due(r, n) => n <= Len(changes)
    /\ \A r \in Runner : got[r] # {} => \E m \in got[r] : \A n \in got[r] : n <= m

\* A runner subscribed after k mutations: between two states without a signal that it
\* has accepted or is owed, what it watches has not changed.
Follows(r, k) ==
    /\ base[r] = Shown(k)
    /\ \A n \in Emission : Due(r, n) => k < n
    /\ \A i, j \in k..Len(changes) :
          i <= j /\ (\A n \in (i + 1)..j : ~Due(r, n)) => Cond(r, Shown(i)) = Cond(r, Shown(j))

WatchInv == CallsInv /\ \A r \in open \ missed : \E k \in 0..Len(changes) : Follows(r, k)

-----------------------------------------------------------------------------
(* Helpers.                                                                *)

LEMMA Typed ==
    ASSUME TypeOK
    PROVE  /\ MaxChanges \in Nat /\ Len(changes) \in Nat /\ Len(changes) <= MaxChanges
           /\ emitted = Len(changes) /\ changes \in Seq(Change)
           /\ 1..Len(changes) \subseteq Emission
BY ContextAssumption DEF TypeOK, Emission

LEMMA GetIsState ==
    ASSUME ChainInv
    PROVE  Get \in State
<1>1. CASE cached = None
  <2>1. Len(changes) = 0
    BY <1>1 DEF ChainInv
  <2> QED BY <2>1, ContextAssumption DEF ChainInv, Shown
<1>2. CASE cached # None
  BY <1>2 DEF ChainInv, TypeOK, Get
<1> QED BY <1>1, <1>2

LEMMA PatchedIsRaw ==
    ASSUME TypeOK, NEW p \in Patch
    PROVE  Patched(p) \in Raw
<1>1. PICK F \in SUBSET Field : p \in [F -> Value \cup {Bad}]
  BY DEF Patch
<1>2. \A f \in Field : checkpoint[f] \in Value \cup {Bad}
  BY DEF TypeOK, Raw
<1>3. \A f \in Field : (IF f \in DOMAIN p THEN p[f] ELSE checkpoint[f]) \in Value \cup {Bad}
  BY <1>1, <1>2
<1> QED BY <1>3 DEF Patched, Raw

\* A mutation is accepted and becomes the last change, or it leaves the state alone.
LEMMA MutateEffect ==
    ASSUME ChainInv, NEW p \in Patch, MutateState(p)
    PROVE  \/ /\ emitted < MaxChanges /\ checkpoint' \in Raw
              /\ cached' \in State
              /\ changes' = Append(changes, [old |-> Get, new |-> cached'])
              /\ PS!Emit(Effects) /\ UNCHANGED <<runnerVars, cancels>>
           \/ /\ checkpoint' \in Raw /\ cached' = Get
              /\ UNCHANGED <<changes, emitterVars, runnerVars, cancels>>
<1>1. checkpoint' \in Raw
  <2>1. checkpoint \in Raw
    BY DEF ChainInv, TypeOK
  <2>2. Patched(p) \in Raw
    BY PatchedIsRaw DEF ChainInv
  <2> QED BY <2>1, <2>2 DEF MutateState, Invoke
<1> QED BY <1>1 DEF MutateState

\* What a new change does to the sequence.
LEMMA AppendedChange ==
    ASSUME TypeOK, NEW c \in Change, changes' = Append(changes, c)
    PROVE  /\ changes' \in Seq(Change) /\ Len(changes') = Len(changes) + 1
           /\ changes'[Len(changes) + 1] = c
           /\ \A n \in 1..Len(changes) : changes'[n] = changes[n]
BY DEF TypeOK

LEMMA ShownAfter ==
    ASSUME TypeOK, NEW c \in Change, changes' = Append(changes, c)
    PROVE  /\ \A n \in 0..Len(changes) : Shown(n)' = Shown(n)
           /\ \A n \in Nat : n = Len(changes) + 1 => Shown(n)' = c.new
<1>1. ASSUME NEW n \in 0..Len(changes) PROVE Shown(n)' = Shown(n)
  <2>1. CASE n = 0
    BY <2>1 DEF Shown
  <2>2. CASE n # 0
    <3>1. n \in 1..Len(changes)
      BY <2>2, Typed
    <3>2. changes'[n] = changes[n]
      BY <3>1, AppendedChange
    <3> QED BY <2>2, <3>2 DEF Shown
  <2> QED BY <2>1, <2>2
<1>2. ASSUME NEW n \in Nat, n = Len(changes) + 1 PROVE Shown(n)' = c.new
  <2>1. n # 0 /\ changes'[n] = c
    BY <1>2, Typed, AppendedChange
  <2> QED BY <2>1 DEF Shown
<1> QED BY <1>1, <1>2

-----------------------------------------------------------------------------
(* The signals chain.                                                      *)

LEMMA ChainKept ==
    ASSUME ChainInv, UNCHANGED <<stateVars, emitted>>, TypeOK'
    PROVE  ChainInv'
BY DEF ChainInv, stateVars, Get, Shown

LEMMA MutateKeepsChain ==
    ASSUME ChainInv, NEW p \in Patch, MutateState(p)
    PROVE  ChainInv'
<1>1. CASE /\ emitted < MaxChanges /\ checkpoint' \in Raw
           /\ cached' \in State
           /\ changes' = Append(changes, [old |-> Get, new |-> cached'])
           /\ PS!Emit(Effects) /\ UNCHANGED <<runnerVars, cancels>>
  <2> DEFINE c == [old |-> Get, new |-> cached']
  <2>1. c \in Change /\ c.old = Get /\ c.new = cached'
    BY <1>1, GetIsState DEF Change
  <2>2. changes' = Append(changes, c) /\ TypeOK
    BY <1>1 DEF ChainInv
  <2> HIDE DEF c
  <2>3. /\ changes' \in Seq(Change) /\ Len(changes') = Len(changes) + 1
        /\ changes'[Len(changes) + 1] = c
        /\ \A n \in 1..Len(changes) : changes'[n] = changes[n]
    BY <2>1, <2>2, AppendedChange
  <2>4. /\ \A n \in 0..Len(changes) : Shown(n)' = Shown(n)
        /\ \A n \in Nat : n = Len(changes) + 1 => Shown(n)' = c.new
    BY <2>1, <2>2, ShownAfter
  <2>5. cached' # None
    BY <1>1, ContextAssumption
  <2>6. Get' = Shown(Len(changes))'
    <3>1. PICK m \in Nat : m = Len(changes) + 1
      BY <2>2, Typed
    <3>2. Shown(m)' = cached'
      BY <2>1, <2>4, <3>1
    <3>3. Shown(m)' = Shown(Len(changes))'
      BY <2>3, <3>1 DEF Shown
    <3>4. Get' = cached'
      BY <2>5 DEF Get
    <3> QED BY <3>2, <3>3, <3>4
  <2>7. ASSUME NEW n \in 1..Len(changes') PROVE changes'[n].old = Shown(n - 1)'
    <3>1. CASE n = Len(changes) + 1
      <4>1. Shown(n - 1)' = Shown(Len(changes))
        BY <2>4, <3>1, Typed, <2>2
      <4> QED BY <2>1, <2>3, <3>1, <4>1 DEF ChainInv
    <3>2. CASE n # Len(changes) + 1
      <4>1. n \in 1..Len(changes) /\ n - 1 \in 0..Len(changes)
        BY <2>2, <2>3, <3>2, Typed
      <4> QED BY <2>3, <2>4, <4>1 DEF ChainInv
    <3> QED BY <3>1, <3>2
  <2>8. TypeOK'
    <3>1. /\ emitted' = Len(changes') /\ emitted' \in 0..MaxChanges
      BY <1>1, <2>2, <2>3, Typed DEF PS!Emit
    <3>2. owed' \in [Emission -> SUBSET (Runner \X {Effects})] /\ UNCHANGED subscriptions
      BY <1>1, <2>2 DEF PS!Emit, TypeOK
    <3> QED BY <1>1, <2>2, <2>3, <3>1, <3>2 DEF TypeOK, runnerVars
  <2> QED BY <2>5, <2>6, <2>7, <2>8 DEF ChainInv
<1>2. CASE /\ checkpoint' \in Raw /\ cached' = Get
           /\ UNCHANGED <<changes, emitterVars, runnerVars, cancels>>
  <2>1. Get \in State /\ None \notin State
    BY GetIsState, ContextAssumption
  <2>2. Get' = Get
    BY <1>2, <2>1 DEF Get
  <2>3. TypeOK'
    BY <1>2, <2>1 DEF ChainInv, TypeOK, emitterVars, runnerVars
  <2> QED BY <1>2, <2>1, <2>2, <2>3 DEF ChainInv, Shown
<1> QED BY <1>1, <1>2, MutateEffect

LEMMA CallsKeepChain ==
    ASSUME ChainInv, NEW n \in Emission, CancelMutation(n) \/ Deliver(n)
    PROVE  ChainInv'
<1>1. PICK S : owed' = [owed EXCEPT ![n] = S] /\ S \subseteq owed[n]
  BY DEF CancelMutation, Deliver, PS!Drop, PS!Deliver
<1>2. owed' \in [Emission -> SUBSET (Runner \X {Effects})]
  BY <1>1 DEF ChainInv, TypeOK
<1>3. got' \in [Runner -> SUBSET Emission]
  BY DEF ChainInv, TypeOK, CancelMutation, Deliver
<1>4. missed' \subseteq Runner /\ cancels' \in 0..MaxCancels
  BY ContextAssumption DEF ChainInv, TypeOK, CancelMutation, Deliver
<1>5. UNCHANGED <<stateVars, open, base, subscriptions, emitted>>
  BY DEF CancelMutation, Deliver, PS!Drop, PS!Deliver
<1>6. TypeOK'
  BY <1>2, <1>3, <1>4, <1>5 DEF ChainInv, TypeOK, stateVars
<1> QED BY <1>5, <1>6, ChainKept

LEMMA RunnersKeepChain ==
    ASSUME ChainInv, NEW r \in Runner, StartRunner(r) \/ CloseRunner(r)
    PROVE  ChainInv'
<1>1. UNCHANGED <<stateVars, got, missed, cancels, emitted, owed>>
  BY DEF StartRunner, CloseRunner, PS!Subscribe, PS!SubscribeEach, emitterVars
<1>2. /\ open' \subseteq Runner /\ subscriptions' \subseteq Runner \X {Effects}
      /\ base' \in [Runner -> State \cup {None}]
  <2>1. CASE StartRunner(r)
    <3>1. /\ subscriptions' = subscriptions \cup {<<r, Effects>>} /\ open' = open \cup {r}
          /\ base' = [base EXCEPT ![r] = Get]
      BY <2>1 DEF StartRunner, PS!Subscribe, PS!SubscribeEach
    <3> QED BY <3>1, GetIsState DEF ChainInv, TypeOK
  <2>2. CASE CloseRunner(r)
    BY <2>2 DEF ChainInv, TypeOK, CloseRunner, emitterVars
  <2> QED BY <2>1, <2>2
<1>3. TypeOK'
  BY <1>1, <1>2 DEF ChainInv, TypeOK, stateVars
<1> QED BY <1>1, <1>3, ChainKept

THEOREM ChainInvariant == Spec => []ChainInv
<1>1. Init => ChainInv
  <2> SUFFICES ASSUME Init PROVE ChainInv
    OBVIOUS
  <2>1. changes = <<>> /\ Len(changes) = 0 /\ changes \in Seq(Change)
    BY DEF Init
  <2>2. Default \in Raw
    BY ContextAssumption DEF State, Raw
  <2>3. TypeOK
    BY <2>1, <2>2, ContextAssumption DEF Init, PS!Init, TypeOK
  <2>4. Get = Default /\ Shown(Len(changes)) = Default
    BY <2>1 DEF Init, Get, Shown
  <2> QED BY <2>1, <2>3, <2>4 DEF ChainInv
<1>2. ChainInv /\ [Next]_vars => ChainInv'
  <2> SUFFICES ASSUME ChainInv, [Next]_vars PROVE ChainInv'
    OBVIOUS
  <2>1. CASE GetState
    <3>1. cached' = Get /\ Get' = Get /\ Get \in State
      BY <2>1, GetIsState, ContextAssumption DEF GetState, Get
    <3>2. UNCHANGED <<checkpoint, changes, emitterVars, runnerVars, cancels>>
      BY <2>1 DEF GetState
    <3>3. TypeOK'
      BY <3>1, <3>2 DEF ChainInv, TypeOK, emitterVars, runnerVars
    <3>4. cached' # None
      BY <3>1, ContextAssumption
    <3> QED BY <3>1, <3>2, <3>3, <3>4 DEF ChainInv, Shown
  <2>2. CASE UnsubscribeAll
    <3>1. UNCHANGED <<stateVars, runnerVars, cancels, emitted, owed>> /\ subscriptions' = {}
      BY <2>2 DEF UnsubscribeAll, PS!UnsubscribeAll
    <3>2. TypeOK'
      BY <3>1 DEF ChainInv, TypeOK, stateVars, runnerVars
    <3> QED BY <3>1, <3>2, ChainKept
  <2>3. CASE UNCHANGED vars
    <3>1. TypeOK'
      BY <2>3 DEF ChainInv, TypeOK, vars, stateVars, emitterVars, runnerVars
    <3> QED BY <2>3, <3>1, ChainKept DEF vars, emitterVars
  <2> QED BY <2>1, <2>2, <2>3, MutateKeepsChain, CallsKeepChain, RunnersKeepChain DEF Next
<1> QED BY <1>1, <1>2, PTL DEF Spec

\* Type correctness, for any schema and any number of runners.
THEOREM TypeCorrect == Spec => []TypeOK
<1>1. ChainInv => TypeOK
  BY DEF ChainInv
<1> QED BY <1>1, ChainInvariant, PTL

\* The reactive signals tell the whole history of the state, whatever was rejected and
\* whatever a rejected patch left in the checkpoint.
THEOREM HistoryTold == Spec => []SignalsChain
<1>1. ChainInv => SignalsChain
  <2> SUFFICES ASSUME ChainInv PROVE SignalsChain
    OBVIOUS
  <2>1. DOMAIN changes = 1..Len(changes) /\ (changes # <<>> => Len(changes) # 0)
    BY DEF ChainInv, TypeOK
  <2>2. \A n \in DOMAIN changes :
          changes[n].old = IF n = 1 THEN Default ELSE changes[n - 1].new
    BY <2>1, Typed DEF ChainInv, Shown
  <2>3. changes # <<>> => cached = changes[Len(changes)].new
    BY <2>1 DEF ChainInv, Shown, Get
  <2> QED BY <2>2, <2>3 DEF SignalsChain
<1> QED BY <1>1, ChainInvariant, PTL

-----------------------------------------------------------------------------
(* Watchers are up to date.                                                *)

IInv == ChainInv /\ WatchInv

LEMMA FollowsKept ==
    ASSUME TypeOK, NEW r, NEW k \in 0..Len(changes), Follows(r, k),
           changes' = changes, base'[r] = base[r],
           \A n \in Emission : Due(r, n)' <=> Due(r, n)
    PROVE  Follows(r, k)'
<1>1. \A i \in Nat : Shown(i)' = Shown(i)
  BY DEF Shown
<1>2. base'[r] = Shown(k)'
  BY <1>1 DEF Follows
<1>3. \A n \in Emission : Due(r, n)' => k < n
  BY DEF Follows
<1>4. ASSUME NEW i \in k..Len(changes), NEW j \in k..Len(changes), i <= j,
             \A n \in (i + 1)..j : ~Due(r, n)'
      PROVE  Cond(r, Shown(i)') = Cond(r, Shown(j)')
  <2>1. i \in Nat /\ j \in Nat /\ (i + 1)..j \subseteq Emission
    BY Typed DEF Emission
  <2>2. \A n \in (i + 1)..j : ~Due(r, n)
    BY <1>4, <2>1
  <2>3. Cond(r, Shown(i)) = Cond(r, Shown(j))
    BY <1>4, <2>2 DEF Follows
  <2> QED BY <1>1, <2>1, <2>3
<1> QED BY <1>2, <1>3, <1>4 DEF Follows

LEMMA WatchKept ==
    ASSUME IInv, UNCHANGED <<changes, emitterVars, runnerVars>>
    PROVE  WatchInv'
<1>1. CallsInv'
  BY DEF IInv, WatchInv, CallsInv, Due, emitterVars, runnerVars
<1>2. ASSUME NEW r \in open' \ missed' PROVE \E k \in 0..Len(changes') : Follows(r, k)'
  <2>1. PICK k \in 0..Len(changes) : Follows(r, k)
    BY DEF IInv, WatchInv, runnerVars
  <2>2. base'[r] = base[r] /\ changes' = changes /\ TypeOK
    BY DEF IInv, ChainInv, runnerVars
  <2>3. \A n \in Emission : Due(r, n)' <=> Due(r, n)
    BY DEF Due, emitterVars, runnerVars
  <2>4. Follows(r, k)'
    BY <2>1, <2>2, <2>3, FollowsKept
  <2> QED BY <2>1, <2>2, <2>4
<1> QED BY <1>1, <1>2 DEF WatchInv

LEMMA MutateKeepsWatch ==
    ASSUME IInv, NEW p \in Patch, MutateState(p)
    PROVE  WatchInv'
<1>1. CASE /\ emitted < MaxChanges /\ checkpoint' \in Raw
           /\ cached' \in State
           /\ changes' = Append(changes, [old |-> Get, new |-> cached'])
           /\ PS!Emit(Effects) /\ UNCHANGED <<runnerVars, cancels>>
  <2>1. PICK m \in Nat : m = Len(changes) + 1
    BY Typed DEF IInv, ChainInv
  <2>2. [old |-> Get, new |-> cached'] \in Change /\ TypeOK
    BY <1>1, GetIsState DEF Change, IInv, ChainInv
  <2>3. Len(changes') = m /\ \A n \in 0..Len(changes) : Shown(n)' = Shown(n)
    BY <1>1, <2>1, <2>2, AppendedChange, ShownAfter
  <2>4. m \in Emission /\ owed' = [owed EXCEPT ![m] = {s \in subscriptions : s[2] = Effects}]
        /\ UNCHANGED <<open, got, base, missed, subscriptions>>
    BY <1>1, <2>1, <2>2, Typed DEF PS!Emit, runnerVars
  <2>5. \A r : \A n \in Emission : n # m => (Due(r, n)' <=> Due(r, n))
    BY <2>2, <2>4 DEF Due, TypeOK
  <2>6. \A r \in Runner : Due(r, m)' <=> m \in got[r] \/ <<r, Effects>> \in subscriptions
    BY <2>2, <2>4 DEF Due, TypeOK
  <2>7. \A r \in Runner : m \notin got[r]
    <3>1. \A r \in Runner : m \in got[r] => m <= Len(changes)
      BY <2>4 DEF IInv, WatchInv, CallsInv, Due
    <3> QED BY <2>1, <2>2, <3>1, Typed
  <2>8. CallsInv'
    <3>1. \A r \in Runner : base'[r] = None =>
             /\ r \notin open' /\ <<r, Effects>> \notin subscriptions'
             /\ \A n \in Emission : ~Due(r, n)'
      BY <2>4, <2>5, <2>6, <2>7 DEF IInv, WatchInv, CallsInv
    <3>2. \A r \in open' : <<r, Effects>> \in subscriptions'
      BY <2>4 DEF IInv, WatchInv, CallsInv
    <3>3. \A r \in Runner, n \in Emission : Due(r, n)' => n <= Len(changes')
      BY <2>1, <2>2, <2>3, <2>5, Typed DEF IInv, WatchInv, CallsInv, Emission
    <3>4. \A r \in Runner : got'[r] # {} => \E x \in got'[r] : \A n \in got'[r] : n <= x
      BY <2>4 DEF IInv, WatchInv, CallsInv
    <3> QED BY <3>1, <3>2, <3>3, <3>4 DEF CallsInv
  <2>9. ASSUME NEW r \in open' \ missed' PROVE \E k \in 0..Len(changes') : Follows(r, k)'
    <3>1. PICK k \in 0..Len(changes) : Follows(r, k)
      BY <2>4 DEF IInv, WatchInv
    <3>2. Due(r, m)' /\ r \in Runner
      BY <2>2, <2>4, <2>6 DEF IInv, WatchInv, CallsInv, TypeOK
    <3>3. base'[r] = Shown(k)'
      BY <2>3, <2>4, <3>1 DEF Follows
    <3>4. \A n \in Emission : Due(r, n)' => k < n
      BY <2>1, <2>2, <2>5, <3>1, Typed DEF Follows, Emission
    <3>5. ASSUME NEW i \in k..m, NEW j \in k..m, i <= j, \A n \in (i + 1)..j : ~Due(r, n)'
          PROVE  Cond(r, Shown(i)') = Cond(r, Shown(j)')
      <4>1. CASE i = j
        BY <4>1
      <4>2. CASE i # j
        <5>1. j # m
          BY <2>1, <3>2, <3>5, <4>2
        <5>2. i \in k..Len(changes) /\ j \in k..Len(changes)
          BY <2>1, <2>2, <3>5, <5>1, Typed
        <5>3. (i + 1)..j \subseteq Emission /\ m \notin (i + 1)..j
          BY <2>1, <2>2, <5>2, Typed DEF Emission
        <5>4. \A n \in (i + 1)..j : ~Due(r, n)
          BY <2>5, <3>5, <5>3
        <5>5. Cond(r, Shown(i)) = Cond(r, Shown(j))
          BY <3>1, <3>5, <5>2, <5>4 DEF Follows
        <5>6. i \in 0..Len(changes) /\ j \in 0..Len(changes)
          BY <2>2, <5>2, Typed
        <5> QED BY <2>3, <5>5, <5>6
      <4> QED BY <4>1, <4>2
    <3>6. k \in 0..Len(changes')
      BY <2>1, <2>2, <2>3, Typed
    <3>7. Follows(r, k)'
      BY <2>3, <3>3, <3>4, <3>5 DEF Follows
    <3> QED BY <3>6, <3>7
  <2> QED BY <2>8, <2>9 DEF WatchInv
<1>2. CASE UNCHANGED <<changes, emitterVars, runnerVars, cancels>>
  BY <1>2, WatchKept
<1> QED BY <1>1, <1>2, MutateEffect DEF IInv

LEMMA CancelKeepsWatch ==
    ASSUME IInv, NEW n \in Emission, CancelMutation(n)
    PROVE  WatchInv'
<1>1. /\ owed' = [owed EXCEPT ![n] = {}] /\ missed' = missed \cup {s[1] : s \in owed[n]}
      /\ UNCHANGED <<changes, open, got, base, subscriptions>>
  BY DEF CancelMutation, PS!Drop, stateVars
<1>2. \A r \in Runner : \A m \in Emission : Due(r, m)' => Due(r, m)
  BY <1>1 DEF IInv, ChainInv, TypeOK, Due
<1>3. CallsInv'
  BY <1>1, <1>2 DEF IInv, WatchInv, CallsInv
<1>4. ASSUME NEW r \in open' \ missed' PROVE \E k \in 0..Len(changes') : Follows(r, k)'
  <2>1. r \in open \ missed /\ <<r, Effects>> \notin owed[n]
    BY <1>1
  <2>2. PICK k \in 0..Len(changes) : Follows(r, k)
    BY <2>1 DEF IInv, WatchInv
  <2>3. \A m \in Emission : Due(r, m)' <=> Due(r, m)
    BY <1>1, <2>1 DEF IInv, ChainInv, TypeOK, Due
  <2>4. Follows(r, k)'
    BY <1>1, <2>2, <2>3, FollowsKept DEF IInv, ChainInv
  <2> QED BY <1>1, <2>2, <2>4
<1> QED BY <1>3, <1>4 DEF WatchInv

\* A runner that does not accept a signal has seen no change of what it watches.
LEMMA FollowsWithout ==
    ASSUME TypeOK, NEW r, NEW k \in 0..Len(changes), Follows(r, k),
           changes' = changes, base'[r] = base[r],
           NEW x \in Emission, k < x, x <= Len(changes),
           Cond(r, Shown(x - 1)) = Cond(r, Shown(x)),
           \A n \in Emission : n # x => (Due(r, n)' <=> Due(r, n))
    PROVE  Follows(r, k)'
<1>1. \A i \in Nat : Shown(i)' = Shown(i)
  BY DEF Shown
<1>2. base'[r] = Shown(k)'
  BY <1>1 DEF Follows
<1>3. \A n \in Emission : Due(r, n)' => k < n
  BY DEF Follows
<1>4. ASSUME NEW i \in k..Len(changes), NEW j \in k..Len(changes), i <= j,
             \A n \in (i + 1)..j : ~Due(r, n)'
      PROVE  Cond(r, Shown(i)') = Cond(r, Shown(j)')
  <2>1. i \in Nat /\ j \in Nat /\ (i + 1)..j \subseteq Emission /\ x \in Nat /\ k \in Nat
    BY Typed DEF Emission
  <2>2. \A n \in (i + 1)..j : n # x => ~Due(r, n)
    BY <1>4, <2>1
  <2>3. CASE x \in (i + 1)..j
    <3>1. /\ x - 1 \in k..Len(changes) /\ x \in k..Len(changes)
          /\ i <= x - 1 /\ x <= j
      BY <2>1, <2>3, Typed
    <3>2. (\A n \in (i + 1)..(x - 1) : ~Due(r, n)) /\ (\A n \in (x + 1)..j : ~Due(r, n))
      BY <2>1, <2>2, <2>3
    <3>3. Cond(r, Shown(i)) = Cond(r, Shown(x - 1))
      BY <3>1, <3>2 DEF Follows
    <3>4. Cond(r, Shown(x)) = Cond(r, Shown(j))
      BY <3>1, <3>2 DEF Follows
    <3> QED BY <1>1, <2>1, <3>3, <3>4
  <2>4. CASE x \notin (i + 1)..j
    <3>1. Cond(r, Shown(i)) = Cond(r, Shown(j))
      BY <1>4, <2>2, <2>4 DEF Follows
    <3> QED BY <1>1, <2>1, <3>1
  <2> QED BY <2>3, <2>4
<1> QED BY <1>2, <1>3, <1>4 DEF Follows

LEMMA DeliverKeepsWatch ==
    ASSUME IInv, NEW n \in Emission, Deliver(n)
    PROVE  WatchInv'
<1>1. PICK s \in owed[n] :
         /\ owed' = [owed EXCEPT ![n] = @ \ {s}]
         /\ IF s[1] \in open /\ Cond(s[1], changes[n].old) # Cond(s[1], changes[n].new)
            THEN got' = [got EXCEPT ![s[1]] = @ \cup {n}]
            ELSE UNCHANGED got
  BY DEF Deliver, PS!Deliver
<1>2. UNCHANGED <<changes, open, base, missed, subscriptions>>
  BY DEF Deliver, PS!Deliver, stateVars
<1> DEFINE q == s[1]
<1>3. q \in Runner /\ s = <<q, Effects>> /\ Due(q, n)
  BY <1>1 DEF IInv, ChainInv, TypeOK, Due
<1> HIDE DEF q
<1>4. \A r \in Runner : \A m \in Emission : Due(r, m)' => Due(r, m)
  <2>1. \A r \in Runner : \A m \in Emission : <<r, Effects>> \in owed'[m] => <<r, Effects>> \in owed[m]
    BY <1>1 DEF IInv, ChainInv, TypeOK
  <2>2. \A r \in Runner : \A m \in Emission : m \in got'[r] => m \in got[r] \/ (r = q /\ m = n)
    BY <1>1, <1>3 DEF IInv, ChainInv, TypeOK, q
  <2> QED BY <1>3, <2>1, <2>2 DEF Due
<1>5. \A r \in Runner : \A m \in Emission : r # q \/ m # n => (Due(r, m)' <=> Due(r, m))
  BY <1>1, <1>3 DEF IInv, ChainInv, TypeOK, Due, q
<1>6. q \in open => Due(q, n)' \/ Cond(q, changes[n].old) = Cond(q, changes[n].new)
  BY <1>1, <1>3 DEF IInv, ChainInv, TypeOK, Due, q
<1>7. CallsInv'
  <2>1. \A r \in Runner : base'[r] = None =>
           /\ r \notin open' /\ <<r, Effects>> \notin subscriptions'
           /\ \A m \in Emission : ~Due(r, m)'
    BY <1>2, <1>4 DEF IInv, WatchInv, CallsInv
  <2>2. \A r \in open' : <<r, Effects>> \in subscriptions'
    BY <1>2 DEF IInv, WatchInv, CallsInv
  <2>3. \A r \in Runner, m \in Emission : Due(r, m)' => m <= Len(changes')
    BY <1>2, <1>4 DEF IInv, WatchInv, CallsInv
  <2>4. ASSUME NEW r \in Runner, got'[r] # {}
        PROVE  \E x \in got'[r] : \A m \in got'[r] : m <= x
    <3>1. CASE got'[r] = got[r]
      BY <2>4, <3>1 DEF IInv, WatchInv, CallsInv
    <3>2. CASE got'[r] = got[r] \cup {n}
      <4>1. got[r] \subseteq Emission /\ \A m \in Emission : m \in Int
        BY DEF IInv, ChainInv, TypeOK, Emission
      <4>2. CASE got[r] = {}
        BY <3>2, <4>1, <4>2
      <4>3. CASE got[r] # {}
        <5>1. PICK x \in got[r] : \A m \in got[r] : m <= x
          BY <4>3 DEF IInv, WatchInv, CallsInv
        <5>2. x \in Int /\ n \in Int
          BY <4>1, <5>1
        <5>3. CASE n <= x
          <6>1. \A m \in got'[r] : m <= x
            BY <3>2, <5>1, <5>3
          <6> QED BY <3>2, <5>1, <6>1
        <5>4. CASE x < n
          <6>1. ASSUME NEW m \in got[r] PROVE m <= n
            <7>1. m \in Int /\ m <= x
              BY <4>1, <5>1
            <7> QED BY <5>2, <5>4, <7>1
          <6> QED BY <3>2, <5>2, <6>1
        <5> QED BY <5>2, <5>3, <5>4
      <4> QED BY <4>2, <4>3
    <3>3. got \in [Runner -> SUBSET Emission]
      BY DEF IInv, ChainInv, TypeOK
    <3>4. got' = got \/ got' = [got EXCEPT ![q] = @ \cup {n}]
      BY <1>1 DEF q
    <3>5. got'[r] = got[r] \/ got'[r] = got[r] \cup {n}
      BY <1>3, <3>3, <3>4
    <3> QED BY <3>1, <3>2, <3>5
  <2> QED BY <2>1, <2>2, <2>3, <2>4 DEF CallsInv
<1>8. ASSUME NEW r \in open' \ missed' PROVE \E k \in 0..Len(changes') : Follows(r, k)'
  <2>1. r \in open \ missed /\ r \in Runner /\ TypeOK
    BY <1>2 DEF IInv, ChainInv, TypeOK
  <2>2. PICK k \in 0..Len(changes) : Follows(r, k)
    BY <2>1 DEF IInv, WatchInv
  <2>3. CASE \A m \in Emission : Due(r, m)' <=> Due(r, m)
    <3>1. Follows(r, k)'
      BY <1>2, <2>1, <2>2, <2>3, FollowsKept
    <3> QED BY <1>2, <2>2, <3>1
  <2>4. CASE ~\A m \in Emission : Due(r, m)' <=> Due(r, m)
    <3>1. r = q /\ ~Due(r, n)'
      BY <1>3, <1>5, <2>1, <2>4
    <3>2. Cond(r, changes[n].old) = Cond(r, changes[n].new)
      BY <1>6, <2>1, <3>1
    <3>3. k < n /\ n <= Len(changes)
      BY <1>3, <2>1, <2>2, <3>1 DEF Follows, IInv, WatchInv, CallsInv
    <3>4. Cond(r, Shown(n - 1)) = Cond(r, Shown(n))
      <4>1. changes[n].old = Shown(n - 1) /\ n # 0
        BY <2>1, <3>3, Typed DEF IInv, ChainInv, Emission
      <4> QED BY <3>2, <4>1 DEF Shown
    <3>5. Follows(r, k)'
      BY <1>2, <1>5, <2>1, <2>2, <3>3, <3>4, FollowsWithout
    <3> QED BY <1>2, <2>2, <3>5
  <2> QED BY <2>3, <2>4
<1> QED BY <1>7, <1>8 DEF WatchInv

LEMMA RunnersKeepWatch ==
    ASSUME IInv, NEW q \in Runner, StartRunner(q) \/ CloseRunner(q)
    PROVE  WatchInv'
<1>1. CASE StartRunner(q)
  <2>1. /\ base[q] = None /\ base' = [base EXCEPT ![q] = Get]
        /\ subscriptions' = subscriptions \cup {<<q, Effects>>} /\ open' = open \cup {q}
        /\ UNCHANGED <<changes, owed, got, missed>>
    BY <1>1 DEF StartRunner, PS!Subscribe, PS!SubscribeEach, stateVars
  <2>2. /\ base'[q] = Get /\ Get # None /\ \A r \in Runner : r # q => base'[r] = base[r]
    BY <2>1, GetIsState, ContextAssumption DEF IInv, ChainInv, TypeOK
  <2>3. \A r : \A n \in Emission : Due(r, n)' <=> Due(r, n)
    BY <2>1 DEF Due
  <2>4. \A n \in Emission : ~Due(q, n)
    BY <2>1 DEF IInv, WatchInv, CallsInv
  <2>5. CallsInv'
    <3>1. \A r \in Runner : base'[r] = None =>
             /\ r \notin open' /\ <<r, Effects>> \notin subscriptions'
             /\ \A m \in Emission : ~Due(r, m)'
      BY <2>1, <2>2, <2>3 DEF IInv, WatchInv, CallsInv
    <3>2. \A r \in open' : <<r, Effects>> \in subscriptions'
      BY <2>1 DEF IInv, WatchInv, CallsInv
    <3>3. \A r \in Runner, m \in Emission : Due(r, m)' => m <= Len(changes')
      BY <2>1, <2>3 DEF IInv, WatchInv, CallsInv
    <3>4. \A r \in Runner : got'[r] # {} => \E x \in got'[r] : \A m \in got'[r] : m <= x
      BY <2>1 DEF IInv, WatchInv, CallsInv
    <3> QED BY <3>1, <3>2, <3>3, <3>4 DEF CallsInv
  <2>6. ASSUME NEW r \in open' \ missed' PROVE \E k \in 0..Len(changes') : Follows(r, k)'
    <3>1. CASE r = q
      <4>1. PICK k \in Nat : k = Len(changes)
        BY Typed DEF IInv, ChainInv
      <4>2. base'[r] = Shown(k)'
        BY <2>1, <2>2, <3>1, <4>1 DEF IInv, ChainInv, Shown
      <4>3. \A n \in Emission : ~Due(r, n)'
        BY <2>3, <2>4, <3>1
      <4>4. \A i, j \in k..Len(changes') : i = j
        BY <2>1, <4>1
      <4>5. \A i, j \in k..Len(changes') : Cond(r, Shown(i)') = Cond(r, Shown(j)')
        BY <4>4
      <4>6. Follows(r, k)'
        BY <4>2, <4>3, <4>5 DEF Follows
      <4> QED BY <2>1, <4>1, <4>6
    <3>2. CASE r # q
      <4>1. r \in open \ missed /\ r \in Runner /\ TypeOK
        BY <2>1, <3>2 DEF IInv, ChainInv, TypeOK
      <4>2. PICK k \in 0..Len(changes) : Follows(r, k)
        BY <4>1 DEF IInv, WatchInv
      <4>3. Follows(r, k)'
        BY <2>1, <2>2, <2>3, <3>2, <4>1, <4>2, FollowsKept
      <4> QED BY <2>1, <4>2, <4>3
    <3> QED BY <3>1, <3>2
  <2> QED BY <2>5, <2>6 DEF WatchInv
<1>2. CASE CloseRunner(q)
  <2>1. open' = open \ {q} /\ UNCHANGED <<changes, owed, subscriptions, got, base, missed>>
    BY <1>2 DEF CloseRunner, stateVars, emitterVars
  <2>2. \A r : \A n \in Emission : Due(r, n)' <=> Due(r, n)
    BY <2>1 DEF Due
  <2>3. CallsInv'
    BY <2>1, <2>2 DEF IInv, WatchInv, CallsInv
  <2>4. ASSUME NEW r \in open' \ missed' PROVE \E k \in 0..Len(changes') : Follows(r, k)'
    <3>1. PICK k \in 0..Len(changes) : Follows(r, k)
      BY <2>1 DEF IInv, WatchInv
    <3>2. Follows(r, k)'
      BY <2>1, <2>2, <3>1, FollowsKept DEF IInv, ChainInv
    <3> QED BY <2>1, <3>1, <3>2
  <2> QED BY <2>3, <2>4 DEF WatchInv
<1> QED BY <1>1, <1>2

LEMMA UnsubscribeKeepsWatch ==
    ASSUME IInv, UnsubscribeAll
    PROVE  WatchInv'
<1>1. open' = {} /\ subscriptions' = {} /\ UNCHANGED <<changes, owed, got, base, missed>>
  BY DEF UnsubscribeAll, PS!UnsubscribeAll, stateVars, runnerVars
<1>2. CallsInv'
  BY <1>1 DEF IInv, WatchInv, CallsInv, Due
<1> QED BY <1>1, <1>2 DEF WatchInv

THEOREM WatchInvariant == Spec => []IInv
<1>1. Init => WatchInv
  <2> SUFFICES ASSUME Init PROVE WatchInv
    OBVIOUS
  <2>1. /\ open = {} /\ subscriptions = {} /\ \A r \in Runner : got[r] = {}
        /\ \A n \in Emission : owed[n] = {}
    BY DEF Init, PS!Init
  <2> QED BY <2>1 DEF WatchInv, CallsInv, Due
<1>2. IInv /\ [Next]_vars => WatchInv'
  <2> SUFFICES ASSUME IInv, [Next]_vars PROVE WatchInv'
    OBVIOUS
  <2>1. CASE GetState
    BY <2>1, WatchKept DEF GetState
  <2>2. CASE UNCHANGED vars
    BY <2>2, WatchKept DEF vars, stateVars
  <2>3. ASSUME NEW n \in Emission, CancelMutation(n) \/ Deliver(n) PROVE WatchInv'
    BY <2>3, CancelKeepsWatch, DeliverKeepsWatch
  <2> QED BY <2>1, <2>2, <2>3, MutateKeepsWatch, RunnersKeepWatch, UnsubscribeKeepsWatch DEF Next
<1>3. WatchInv /\ ChainInv => IInv
  BY DEF IInv
<1>4. IInv => WatchInv
  BY DEF IInv
<1> QED BY <1>1, <1>2, <1>3, <1>4, ChainInvariant, PTL DEF Spec

\* A reactive runner to which nothing is owed knows the value it watches, for any
\* condition, any deliveries in any order and any restarts.
THEOREM WatchersKnow == Spec => []WatcherUpToDate
<1>1. IInv => WatcherUpToDate
  <2> SUFFICES ASSUME IInv, NEW r \in open \ missed, OwedTo(r) = {}
      PROVE  Cond(r, Get) = Cond(r, IF got[r] = {} THEN base[r] ELSE changes[Latest(got[r])].new)
    BY DEF WatcherUpToDate
  <2>1. r \in Runner /\ TypeOK /\ got[r] \subseteq Emission
    BY DEF IInv, ChainInv, TypeOK
  <2>2. PICK k \in 0..Len(changes) : Follows(r, k)
    BY DEF IInv, WatchInv
  <2>3. \A n \in Emission : Due(r, n) <=> n \in got[r]
    BY DEF OwedTo, Due
  <2>4. \A i \in k..Len(changes) :
           (\A n \in got[r] : n <= i) => Cond(r, Shown(i)) = Cond(r, Shown(Len(changes)))
    <3> SUFFICES ASSUME NEW i \in k..Len(changes), \A n \in got[r] : n <= i
                 PROVE  Cond(r, Shown(i)) = Cond(r, Shown(Len(changes)))
      OBVIOUS
    <3>1. \A n \in (i + 1)..Len(changes) : n \in Emission /\ n \notin got[r]
      BY <2>1, Typed DEF Emission
    <3>2. i <= Len(changes) /\ Len(changes) \in k..Len(changes)
      BY <2>1, Typed
    <3> QED BY <2>2, <2>3, <3>1, <3>2 DEF Follows
  <2>5. CASE got[r] = {}
    <3>1. k \in k..Len(changes)
      BY <2>1, Typed
    <3>2. Cond(r, base[r]) = Cond(r, Shown(Len(changes)))
      BY <2>2, <2>4, <2>5, <3>1 DEF Follows
    <3> QED BY <2>5, <3>2 DEF IInv, ChainInv
  <2>6. CASE got[r] # {}
    <3> DEFINE l == Latest(got[r])
    <3>1. l \in got[r] /\ \A n \in got[r] : n <= l
      BY <2>1, <2>6 DEF Latest, IInv, WatchInv, CallsInv
    <3> HIDE DEF l
    <3>2. l \in Emission /\ k < l /\ l <= Len(changes)
      BY <2>1, <2>2, <2>3, <3>1 DEF Follows, IInv, WatchInv, CallsInv
    <3>3. l \in k..Len(changes) /\ l # 0
      BY <2>1, <3>2, Typed DEF Emission
    <3>4. Cond(r, Shown(l)) = Cond(r, Shown(Len(changes))) /\ Shown(l) = changes[l].new
      BY <2>4, <3>1, <3>3 DEF Shown
    <3>5. Cond(r, Get) = Cond(r, changes[l].new)
      BY <3>4 DEF IInv, ChainInv
    <3> QED BY <2>6, <3>5 DEF l
  <2> QED BY <2>5, <2>6
<1> QED BY <1>1, WatchInvariant, PTL

-----------------------------------------------------------------------------
(* Which signals a reactive routine gets: every change of what it watches  *)
(* since its runner was subscribed, and no other.                          *)

Changed(r, n) == Cond(r, changes[n].old) # Cond(r, changes[n].new)

\* Of the signals after the first k, those not owed any more have been accepted exactly
\* if they changed what the runner watches.
HeardSince(r, k) ==
    /\ base[r] = Shown(k)
    /\ \A n \in Emission : n <= k => ~Due(r, n)
    /\ \A n \in Emission : k < n /\ n <= Len(changes) =>
          IF <<r, Effects>> \in owed[n] THEN n \notin got[r]
          ELSE n \in got[r] <=> Changed(r, n)

HeardInv == /\ \A r \in open \ missed : \E k \in 0..Len(changes) : HeardSince(r, k)
            /\ cancels = 0 => missed = {}

\* "will be called whenever state.has_started has changed": what a runner to which
\* nothing is owed has accepted are all the changes of what it watches since it was
\* subscribed, and nothing else, if no caller of mutate_state was cancelled.
CalledForEveryChange ==
    cancels = 0 =>
        \A r \in open : OwedTo(r) = {} =>
            \E k \in 0..Len(changes) :
                /\ base[r] = Shown(k)
                /\ got[r] = {n \in (k + 1)..Len(changes) : Changed(r, n)}

LEMMA HeardKept ==
    ASSUME TypeOK, NEW r \in Runner, NEW k \in 0..Len(changes), HeardSince(r, k),
           changes' = changes, base'[r] = base[r], got'[r] = got[r],
           \A n \in Emission : <<r, Effects>> \in owed'[n] <=> <<r, Effects>> \in owed[n]
    PROVE  HeardSince(r, k)'
<1>1. Shown(k)' = Shown(k) /\ \A n \in Emission : Changed(r, n)' <=> Changed(r, n)
  BY DEF Shown, Changed
<1> QED BY <1>1 DEF HeardSince, Due

\* Steps that neither mutate nor deliver to anyone that is left.
LEMMA QuietKeepsHeard ==
    ASSUME IInv, HeardInv, UNCHANGED <<changes, base, got>>, open' \subseteq open,
           missed \subseteq missed', cancels' = 0 => cancels = 0 /\ missed' = missed,
           \A r \in open' \ missed', n \in Emission :
              <<r, Effects>> \in owed'[n] <=> <<r, Effects>> \in owed[n]
    PROVE  HeardInv'
<1>1. ASSUME NEW r \in open' \ missed' PROVE \E k \in 0..Len(changes') : HeardSince(r, k)'
  <2>1. r \in open \ missed /\ r \in Runner /\ TypeOK
    BY <1>1 DEF IInv, ChainInv, TypeOK
  <2>2. PICK k \in 0..Len(changes) : HeardSince(r, k)
    BY <2>1 DEF HeardInv
  <2>3. HeardSince(r, k)'
    BY <1>1, <2>1, <2>2, HeardKept
  <2> QED BY <2>2, <2>3
<1> QED BY <1>1 DEF HeardInv

LEMMA MutateKeepsHeard ==
    ASSUME IInv, HeardInv, NEW p \in Patch, MutateState(p)
    PROVE  HeardInv'
<1>1. CASE /\ emitted < MaxChanges
           /\ cached' \in State
           /\ changes' = Append(changes, [old |-> Get, new |-> cached'])
           /\ PS!Emit(Effects) /\ UNCHANGED <<runnerVars, cancels>>
  <2>1. PICK m \in Nat : m = Len(changes) + 1
    BY Typed DEF IInv, ChainInv
  <2>2. [old |-> Get, new |-> cached'] \in Change /\ TypeOK
    BY <1>1, GetIsState DEF Change, IInv, ChainInv
  <2>3. /\ Len(changes') = m /\ \A n \in 0..Len(changes) : Shown(n)' = Shown(n)
        /\ \A n \in 1..Len(changes) : changes'[n] = changes[n]
    BY <1>1, <2>1, <2>2, AppendedChange, ShownAfter
  <2>4. m \in Emission /\ owed' = [owed EXCEPT ![m] = {s \in subscriptions : s[2] = Effects}]
        /\ UNCHANGED <<open, got, base, missed, subscriptions, cancels>>
    BY <1>1, <2>1, <2>2, Typed DEF PS!Emit, runnerVars
  <2>5. \A n \in Emission : n # m => owed'[n] = owed[n]
    BY <2>2, <2>4 DEF TypeOK
  <2>6. ASSUME NEW r \in open' \ missed' PROVE \E k \in 0..Len(changes') : HeardSince(r, k)'
    <3>1. r \in open \ missed /\ r \in Runner
      BY <2>2, <2>4 DEF TypeOK
    <3>2. PICK k \in 0..Len(changes) : HeardSince(r, k)
      BY <3>1 DEF HeardInv
    <3>3. m \notin got[r]
      <4>1. m \in got[r] => m <= Len(changes)
        BY <2>4, <3>1 DEF IInv, WatchInv, CallsInv, Due
      <4> QED BY <2>1, <2>2, <4>1, Typed
    <3>4. <<r, Effects>> \in owed'[m]
      BY <2>2, <2>4, <3>1 DEF IInv, WatchInv, CallsInv, TypeOK
    <3>5. k \in 0..Len(changes') /\ k # m /\ k < m /\ k \in Nat
      BY <2>1, <2>2, <2>3, Typed
    <3>6. base'[r] = Shown(k)'
      BY <2>3, <2>4, <3>2 DEF HeardSince
    <3>7. ASSUME NEW n \in Emission, n <= k PROVE ~Due(r, n)'
      <4>1. n # m
        BY <2>1, <3>5, <3>7 DEF Emission
      <4> QED BY <2>4, <2>5, <3>2, <3>7, <4>1 DEF HeardSince, Due
    <3>8. ASSUME NEW n \in Emission, k < n, n <= Len(changes'), n # m
          PROVE  IF <<r, Effects>> \in owed'[n] THEN n \notin got'[r]
                 ELSE n \in got'[r] <=> Changed(r, n)'
      <4>1. n \in 1..Len(changes) /\ n <= Len(changes)
        BY <2>1, <2>2, <2>3, <3>8, Typed DEF Emission
      <4>2. Changed(r, n)' <=> Changed(r, n)
        BY <2>3, <4>1 DEF Changed
      <4> QED BY <2>4, <2>5, <3>2, <3>8, <4>1, <4>2 DEF HeardSince
    <3>9. HeardSince(r, k)'
      BY <2>4, <3>3, <3>4, <3>6, <3>7, <3>8 DEF HeardSince
    <3> QED BY <3>5, <3>9
  <2> QED BY <2>4, <2>6 DEF HeardInv
<1>2. CASE UNCHANGED <<changes, emitterVars, runnerVars, cancels>>
  BY <1>2, QuietKeepsHeard DEF emitterVars, runnerVars
<1> QED BY <1>1, <1>2, MutateEffect DEF IInv

\* A delivery is the moment at which the condition decides.
LEMMA DeliverKeepsHeard ==
    ASSUME IInv, HeardInv, NEW n \in Emission, Deliver(n)
    PROVE  HeardInv'
<1>1. PICK s \in owed[n] :
         /\ owed' = [owed EXCEPT ![n] = @ \ {s}]
         /\ IF s[1] \in open /\ Changed(s[1], n)
            THEN got' = [got EXCEPT ![s[1]] = @ \cup {n}]
            ELSE UNCHANGED got
  BY DEF Deliver, PS!Deliver, Changed
<1>2. UNCHANGED <<changes, open, base, missed, cancels>>
  BY DEF Deliver, PS!Deliver, stateVars
<1> DEFINE q == s[1]
<1>3. q \in Runner /\ s = <<q, Effects>> /\ TypeOK
  BY <1>1 DEF IInv, ChainInv, TypeOK
<1>4. \A r \in Runner, m \in Emission :
         r # q \/ m # n => /\ <<r, Effects>> \in owed'[m] <=> <<r, Effects>> \in owed[m]
                           /\ m \in got'[r] <=> m \in got[r]
  BY <1>1, <1>3 DEF TypeOK
<1>5. q \in open => /\ <<q, Effects>> \notin owed'[n]
                    /\ n \in got'[q] <=> n \in got[q] \/ Changed(q, n)
  BY <1>1, <1>3 DEF TypeOK
<1>6. <<q, Effects>> \in owed[n]
  BY <1>1, <1>3
<1> HIDE DEF q
<1>7. ASSUME NEW r \in open' \ missed' PROVE \E k \in 0..Len(changes') : HeardSince(r, k)'
  <2>1. r \in open \ missed /\ r \in Runner
    BY <1>2, <1>3 DEF TypeOK
  <2>2. PICK k \in 0..Len(changes) : HeardSince(r, k)
    BY <2>1 DEF HeardInv
  <2>3. Shown(k)' = Shown(k) /\ \A m \in Emission : Changed(r, m)' <=> Changed(r, m)
    BY <1>2 DEF Shown, Changed
  <2>4. r = q => ~(n <= k) /\ n \notin got[r]
    <3>1. r = q => n <= Len(changes)
      BY <1>6, <2>1 DEF IInv, WatchInv, CallsInv, Due
    <3>2. r = q => ~(n <= k)
      BY <1>6, <2>2 DEF HeardSince, Due
    <3>3. n \in Nat /\ k \in Nat
      BY <1>3, Typed DEF Emission
    <3> QED BY <1>6, <2>2, <3>1, <3>2, <3>3 DEF HeardSince
  <2>5. \A m \in Emission : m <= k => ~Due(r, m)'
    BY <1>4, <2>1, <2>2, <2>4 DEF HeardSince, Due
  <2>6. ASSUME NEW m \in Emission, k < m, m <= Len(changes)
        PROVE  IF <<r, Effects>> \in owed'[m] THEN m \notin got'[r]
               ELSE m \in got'[r] <=> Changed(r, m)
    <3>1. CASE r = q /\ m = n
      BY <1>5, <2>1, <2>4, <3>1
    <3>2. CASE ~(r = q /\ m = n)
      BY <1>4, <2>1, <2>2, <2>6, <3>2 DEF HeardSince
    <3> QED BY <3>1, <3>2
  <2>7. HeardSince(r, k)'
    BY <1>2, <2>2, <2>3, <2>5, <2>6 DEF HeardSince
  <2> QED BY <1>2, <2>2, <2>7
<1> QED BY <1>2, <1>7 DEF HeardInv

LEMMA StartKeepsHeard ==
    ASSUME IInv, HeardInv, NEW q \in Runner, StartRunner(q)
    PROVE  HeardInv'
<1>1. /\ base[q] = None /\ base' = [base EXCEPT ![q] = Get] /\ open' = open \cup {q}
      /\ UNCHANGED <<changes, owed, got, missed, cancels>>
  BY DEF StartRunner, PS!Subscribe, PS!SubscribeEach, stateVars
<1>2. TypeOK /\ base'[q] = Get /\ \A r \in Runner : r # q => base'[r] = base[r]
  BY <1>1 DEF IInv, ChainInv, TypeOK
<1>3. ASSUME NEW r \in open' \ missed' PROVE \E k \in 0..Len(changes') : HeardSince(r, k)'
  <2>1. CASE r = q
    <3>1. PICK k \in Nat : k = Len(changes)
      BY <1>2, Typed
    <3>2. base'[r] = Shown(k)'
      BY <1>1, <1>2, <2>1, <3>1 DEF IInv, ChainInv, Shown
    <3>3. \A n \in Emission : ~Due(r, n)'
      BY <1>1, <2>1 DEF IInv, WatchInv, CallsInv, Due
    <3>4. \A n \in Emission : ~(k < n /\ n <= Len(changes'))
      BY <1>1, <3>1, ContextAssumption DEF Emission
    <3>5. HeardSince(r, k)'
      BY <3>2, <3>3, <3>4 DEF HeardSince
    <3> QED BY <1>1, <3>1, <3>5
  <2>2. CASE r # q
    <3>1. r \in open \ missed /\ r \in Runner
      BY <1>1, <1>2, <2>2 DEF TypeOK
    <3>2. PICK k \in 0..Len(changes) : HeardSince(r, k)
      BY <3>1 DEF HeardInv
    <3>3. HeardSince(r, k)'
      BY <1>1, <1>2, <2>2, <3>1, <3>2, HeardKept
    <3> QED BY <1>1, <3>2, <3>3
  <2> QED BY <2>1, <2>2
<1> QED BY <1>1, <1>3 DEF HeardInv

LEMMA HeardStep == ASSUME IInv, HeardInv, [Next]_vars PROVE HeardInv'
<1>1. CASE GetState \/ UNCHANGED vars
  <2>1. UNCHANGED <<open, changes, owed, got, base, missed, cancels>>
    BY <1>1 DEF GetState, vars, stateVars, emitterVars, runnerVars
  <2> QED BY <2>1, QuietKeepsHeard
<1>2. ASSUME NEW r \in Runner, CloseRunner(r) PROVE HeardInv'
  <2>1. open' = open \ {r} /\ UNCHANGED <<changes, owed, got, base, missed, cancels>>
    BY <1>2 DEF CloseRunner, stateVars, emitterVars
  <2> QED BY <2>1, QuietKeepsHeard
<1>3. CASE UnsubscribeAll
  <2>1. UNCHANGED <<open, changes, owed, got, base, missed, cancels>>
    BY <1>3 DEF UnsubscribeAll, PS!UnsubscribeAll, stateVars, runnerVars
  <2> QED BY <2>1, QuietKeepsHeard
<1>4. ASSUME NEW n \in Emission, CancelMutation(n) PROVE HeardInv'
  <2>1. /\ owed' = [owed EXCEPT ![n] = {}] /\ missed' = missed \cup {s[1] : s \in owed[n]}
        /\ UNCHANGED <<changes, open, got, base>> /\ cancels' = cancels + 1
    BY <1>4 DEF CancelMutation, PS!Drop, stateVars
  <2>2. TypeOK /\ cancels' # 0
    BY <2>1, ContextAssumption DEF IInv, ChainInv, TypeOK
  <2>3. \A r \in open' \ missed', m \in Emission :
           <<r, Effects>> \in owed'[m] <=> <<r, Effects>> \in owed[m]
    <3>1. \A r \in open' \ missed' : <<r, Effects>> \notin owed[n]
      BY <2>1
    <3> QED BY <2>1, <2>2, <3>1 DEF TypeOK
  <2> QED BY <2>1, <2>2, <2>3, QuietKeepsHeard
<1> QED BY <1>1, <1>2, <1>3, <1>4, MutateKeepsHeard, DeliverKeepsHeard, StartKeepsHeard DEF Next

\* What each runner has heard, at any moment.
THEOREM HeardInvariant == Spec => []HeardInv
<1>1. Init => HeardInv
  BY DEF Init, HeardInv
<1> QED BY <1>1, HeardStep, WatchInvariant, PTL DEF Spec

\* A reactive routine is called for exactly the changes of what it watches, in
\* whatever order the calls come, through stops and restarts and rejected patches.
THEOREM CalledExactly == Spec => []CalledForEveryChange
<1>1. ASSUME IInv, HeardInv, cancels = 0, NEW r \in open, OwedTo(r) = {}
      PROVE  \E k \in 0..Len(changes) :
                /\ base[r] = Shown(k)
                /\ got[r] = {n \in (k + 1)..Len(changes) : Changed(r, n)}
  <2>1. r \in Runner /\ TypeOK /\ got[r] \subseteq Emission
    BY <1>1 DEF IInv, ChainInv, TypeOK
  <2>2. PICK k \in 0..Len(changes) : HeardSince(r, k)
    BY <1>1 DEF HeardInv
  <2>3. \A n \in Emission : <<r, Effects>> \notin owed[n]
    BY <1>1 DEF OwedTo
  <2>4. \A n \in Emission : n \in got[r] => k < n /\ n <= Len(changes)
    <3>1. \A n \in Emission : n \in got[r] => n <= Len(changes) /\ ~(n <= k)
      BY <1>1, <2>1, <2>2 DEF HeardSince, Due, IInv, WatchInv, CallsInv
    <3> QED BY <2>1, <3>1, Typed DEF Emission
  <2>5. \A n : n \in (k + 1)..Len(changes) <=> n \in Emission /\ k < n /\ n <= Len(changes)
    BY <2>1, Typed DEF Emission
  <2>6. got[r] = {n \in (k + 1)..Len(changes) : Changed(r, n)}
    BY <2>1, <2>2, <2>3, <2>4, <2>5 DEF HeardSince
  <2> QED BY <2>2, <2>6 DEF HeardSince
<1>2. IInv /\ HeardInv => CalledForEveryChange
  BY <1>1 DEF CalledForEveryChange
<1> QED BY <1>2, WatchInvariant, HeardInvariant, PTL
=============================================================================
