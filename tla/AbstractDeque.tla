---------------------------- MODULE AbstractDeque ----------------------------
(***************************************************************************)
(* What IntrusiveList of include/common/intrusive_list.h promises: the     *)
(* list is a sequence of distinct nodes.  push_front and push_back add a   *)
(* node that is not in it at one end; remove, pop_front and pop_back take  *)
(* one node out.  Each operation happens at a single instant.              *)
(* This module models no code of its own.                                  *)
(***************************************************************************)
EXTENDS Sequences, SequencesExt

CONSTANT Nodes

VARIABLE lst

(* Every order of every set of nodes.                                      *)
Lists == UNION {SetToSeqs(S) : S \in SUBSET Nodes}

Init == lst \in Lists

PushFront(x) == x \notin ToSet(lst) /\ lst' = Cons(x, lst)

PushBack(x) == x \notin ToSet(lst) /\ lst' = Append(lst, x)

PopFront == lst /= <<>> /\ lst' = Tail(lst)

PopBack == lst /= <<>> /\ lst' = Front(lst)

Take(x) == x \in ToSet(lst) /\ lst' = Remove(lst, x)

Next ==
    \/ PopFront
    \/ PopBack
    \/ \E x \in Nodes : PushFront(x) \/ PushBack(x) \/ Take(x)

Spec == Init /\ [][Next]_lst
=============================================================================
