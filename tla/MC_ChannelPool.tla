---------------------------- MODULE MC_ChannelPool ----------------------------
(* Model-checking instance of ChannelPool: two user threads.             *)
EXTENDS ChannelPool

CONSTANTS t1, t2

MC_Threads == {t1, t2}
=============================================================================
