----------------------------- MODULE MC_SocketIO -----------------------------
EXTENDS SocketIO

(* Two caller threads (request ids 1 and 2) and the reactor thread 0.      *)
MC_Callers == {1, 2}

(* Enough blocks for the two callers' chains, the reactor's and the        *)
(* slices in flight: createBlock never fails.                              *)
MC_Blocks == 1 .. 8
=============================================================================
