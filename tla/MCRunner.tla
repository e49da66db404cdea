------------------------------ MODULE MCRunner ------------------------------
(* SignalRoutineRunner on small instances: see the configurations.         *)
EXTENDS SignalRoutineRunner

AllOutcomes == {"ok", "error", "chanclosed"}
=============================================================================
