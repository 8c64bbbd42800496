---------------------------- MODULE MC_MPSCQueue ----------------------------
(* Model-checking instance of MPSCQueue.                                   *)
EXTENDS MPSCQueue

CONSTANTS p1, p2

MC_Two == {p1, p2}
MC_One == {p1}
=============================================================================
