------------------------- MODULE MC_SocketLifecycle -------------------------
(* Model-checking instance of SocketLifecycle: two user threads on one     *)
(* SINGLE channel, two reactors, and fds 5 (reactor 1) and 6 (reactor 0).  *)
EXTENDS SocketLifecycle

CONSTANTS t1, t2

MC_Threads == {t1, t2}
MC_FDs == {5, 6}
=============================================================================
