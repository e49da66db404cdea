----------------------------- MODULE MCEmitter -----------------------------
(* Emitter on small instances: see the configurations.                     *)
EXTENDS Emitter
=============================================================================
