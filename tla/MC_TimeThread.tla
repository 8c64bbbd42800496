---------------------------- MODULE MC_TimeThread ----------------------------
(* Model-checking instance of TimeThread: two producer threads.            *)
EXTENDS TimeThread

CONSTANTS p1, p2

MC_Producers == {p1, p2}
=============================================================================
