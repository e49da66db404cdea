------------------------------ MODULE Workflow ------------------------------
(***************************************************************************)
(* How a program declares its routines (livechain/graph/func/nodes.py and  *)
(* routine.py) and what Workflow.compile and WorkflowExecutor.start of     *)
(* livechain/graph/executor.py make of them: the list of routines in the   *)
(* order in which their runners are made and later stopped.                *)
(***************************************************************************)
EXTENDS Naturals, Sequences

RoutineType == {"EventCallback", "ReactiveEffect", "CronEffect", "Workflow"}

\* A strategy that is not given is Parallel.
StrategyOr(strategy) == IF strategy = "None" THEN "Parallel" ELSE strategy

Routine(type, name, schema, strategy) ==
    [type |-> type, name |-> name, schema |-> schema, strategy |-> StrategyOr(strategy)]

Subscribe(name, eventSchema, strategy) == Routine("EventCallback", name, eventSchema, strategy)
Reactive(name, stateSchema, strategy) == Routine("ReactiveEffect", name, stateSchema, strategy)
Cron(name, strategy) == Routine("CronEffect", name, "CronSignal", strategy)

\* A new trigger always interrupts the workflow that is running.
Root(name) == Routine("Workflow", name, "TriggerSignal", "Interrupt")

OfType(type, routines) == SelectSeq(routines, LAMBDA r : r.type = type)

\* compile() raises for a reactive routine that watches another state.
Compiles(routines, stateSchema) ==
    \A i \in DOMAIN routines :
        routines[i].type = "ReactiveEffect" => routines[i].schema = stateSchema

Compile(root, routines) ==
    OfType("EventCallback", routines) \o OfType("CronEffect", routines)
        \o OfType("ReactiveEffect", routines) \o <<root>>

\* The topic a runner hears, unless it hears its own cron id.
HeardBy(routine) ==
    IF routine.type = "EventCallback" THEN routine.schema
    ELSE IF routine.type = "ReactiveEffect" THEN "effects" ELSE "trigger"
=============================================================================
