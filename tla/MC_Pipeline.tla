----------------------------- MODULE MC_Pipeline -----------------------------
(* Model-checking instance of Pipeline: up to three legs.  No timeout()    *)
(* call is made, so the session takes the channel's default timeout_ms.   *)
EXTENDS Pipeline

MC_SessionTimeout == Unset
MC_ChannelTimeout == 500   \* SOCKET_TIMEOUT_MS

(* PipelineSession::timeout(0): expire_time is the maximum and sync()      *)
(* calls wait() without a limit.                                            *)
MC_NoTimeout == 0
=============================================================================
