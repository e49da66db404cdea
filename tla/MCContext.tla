----------------------------- MODULE MCContext -----------------------------
(* Context with two fields and two reactive runners, which watch one field and *)
(* the relation of both.                                                       *)
EXTENDS Context

CONSTANTS a, b, r1, r2

BothFalse == [f \in {a, b} |-> FALSE]
Watches(r, state) == IF r = r1 THEN state[a] ELSE state[a] = state[b]
=============================================================================
