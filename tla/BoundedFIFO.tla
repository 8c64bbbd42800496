---------------------------- MODULE BoundedFIFO ----------------------------
(***************************************************************************)
(* What a fixed-capacity queue of include/common/lockfree_queue.h          *)
(* promises its users: push appends a value when fewer than Cap values are *)
(* queued, pop hands out the oldest one; `out' is the sequence of values   *)
(* popped so far.                                                          *)
(***************************************************************************)
EXTENDS Naturals, Sequences

CONSTANTS Vals, Cap

VARIABLES q, out

Init == q = <<>> /\ out = <<>>

Put(v) == /\ Len(q) < Cap
          /\ q' = Append(q, v)
          /\ UNCHANGED out

Get == /\ q /= <<>>
       /\ out' = Append(out, Head(q))
       /\ q' = Tail(q)

Next == (\E v \in Vals : Put(v)) \/ Get

Spec == Init /\ [][Next]_<<q, out>>
=============================================================================
