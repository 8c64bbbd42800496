--------------------------- MODULE MC_ReadSession ---------------------------
(* Model-checking instance of ReadSession: two caller threads on one       *)
(* socket, one using Session::sync and one Session::async.                 *)
EXTENDS ReadSession

CONSTANTS c1, c2

MC_Calls == {c1, c2}
MC_Mode == (c1 :> "sync") @@ (c2 :> "async")
=============================================================================
