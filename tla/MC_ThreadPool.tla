--------------------------- MODULE MC_ThreadPool ---------------------------
(* Model-checking instance of ThreadPool: two or three submitting threads. *)
EXTENDS ThreadPool

CONSTANTS s1, s2, s3

MC_Submitters == {s1, s2}
MC_Three == {s1, s2, s3}
=============================================================================
