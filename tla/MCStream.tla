------------------------------ MODULE MCStream ------------------------------
(* Three consumers of one stream, which are alike. *)
EXTENDS Stream

CONSTANTS a, b, c
=============================================================================
