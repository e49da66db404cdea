----------------------------- MODULE MCExecutor -----------------------------
(* Executor on a small workflow: a cron routine with strategy Queue and the    *)
(* root, which any other routine that hears a topic would be like.             *)
EXTENDS Executor

W == INSTANCE Workflow

Declared == <<W!Cron("tick", "Queue")>>
Compiled == W!Compile(W!Root("root"), Declared)

Names == [i \in DOMAIN Compiled |-> Compiled[i].name]
NamesOf(S) == {r.name : r \in S}
CronNames == NamesOf({r \in Range(Compiled) : r.type = "CronEffect"})
QueueNames == NamesOf({r \in Range(Compiled) : r.strategy = "Queue"})
Hearing == [n \in NamesOf(Range(Compiled)) \ CronNames |->
                W!HeardBy(CHOOSE r \in Range(Compiled) : r.name = n)]
Topics == Range(Hearing)

Both == {"alternating", "repeated"}
CancelOnlyAlternating == [alternating |-> 1, repeated |-> 0]

-----------------------------------------------------------------------------
(* compile() on every list of up to four of these routines.                *)

Declarable == {W!Subscribe("chat", "UserChatEvent", "None"), W!Cron("tick", "Queue"),
               W!Subscribe("remind", "RemindUserEvent", "Debounce"),
               W!Reactive("watch", "AgentState", "Interrupt")}

IndexOf(r, s) == CHOOSE i \in DOMAIN s : s[i] = r

\* Every routine gets one runner, the root the last; those of one type keep the order
\* in which they were declared.
CompileKeepsAll(routines) ==
    LET root == W!Root("root")
        all == W!Compile(root, routines)
    IN  /\ Range(all) = Range(routines) \cup {root}
        /\ Len(all) = Len(routines) + 1 /\ all[Len(all)] = root
        /\ \A r, s \in Range(routines) :
              r.type = s.type =>
                  (IndexOf(r, routines) < IndexOf(s, routines)) = (IndexOf(r, all) < IndexOf(s, all))

ASSUME CompileAssumption ==
    /\ W!Compiles(Declared, "AgentState")
    /\ \A k \in 0..4 : \A routines \in [1..k -> Declarable] :
          (\A i, j \in 1..k : routines[i] = routines[j] => i = j) => CompileKeepsAll(routines)
=============================================================================
