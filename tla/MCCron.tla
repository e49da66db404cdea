------------------------------- MODULE MCCron -------------------------------
(* Cron on small instances: one job of each kind.                          *)
EXTENDS Cron

OneOfEachKind == {"interval", "linear", "exp"}
SmallExprs ==
    [interval |-> [kind |-> "interval", seconds |-> 2],
     linear |-> [kind |-> "linear", base |-> 0, step |-> 1, max |-> 2],
     exp |-> [kind |-> "exp", base |-> 1, powers |-> <<1, 2, 4>>, max |-> 3]]
=============================================================================
