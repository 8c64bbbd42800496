--------------------------- MODULE MC_IntrusiveList ---------------------------
EXTENDS IntrusiveList

CONSTANTS a, b, c, t1, t2

MC_Nodes == {a, b, c}
MC_Threads == {t1, t2}

(* Every method but push_back: the three LRUCache calls (push_front,       *)
(* remove, pop_back) and pop_front; and all of them.                       *)
MC_NoPushBack == {"push_front", "remove", "pop_back", "pop_front"}
MC_AllOps == {"push_front", "push_back", "remove", "pop_front", "pop_back"}
=============================================================================
