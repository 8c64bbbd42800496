-------------------------- MODULE MC_ConcurrentLRU --------------------------
EXTENDS ConcurrentLRU

CONSTANTS k1, k2, k3, t1, t2

MC_Keys == {k1, k2, k3}
MC_Threads == {t1, t2}

(* Two buckets: k1 and k3 share bucket 0, k2 is alone in bucket 1, so      *)
(* release_nodes meets both its same-bucket and its other-bucket branch.   *)
MC_Buckets == {0, 1}
MC_Bucket == (k1 :> 0) @@ (k2 :> 1) @@ (k3 :> 0)

(* The cache starts full: k1 at the back of the list, k2 at the front.     *)
MC_Preload == <<k1, k2>>
=============================================================================
