------------------------------- MODULE MCChan -------------------------------
(* Chan on small instances: see the configurations.                        *)
EXTENDS Chan

CONSTANTS s1, s2, r1, r2, r3

Senders == {s1, s2}
Receivers == {r1, r2, r3}
TwoReceivers == {r1, r2}
SizesUpTo2 == {0, 1, 2}
WithOrWithoutReceivers == {Sender, Process}
Everybody == {Process}
=============================================================================
