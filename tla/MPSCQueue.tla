----------------------------- MODULE MPSCQueue -----------------------------
(***************************************************************************)
(* MPSCQueue of include/common/lockfree_queue.h, the queue of              *)
(* SocketReadSession pointers that caller threads push to and the reactor  *)
(* pops (Socket::_session_info).                                           *)
(*                                                                         *)
(* push reserves an index with a compare-exchange on _write_prepare_idx,   *)
(* stores the value in its slot, then commits with a compare-exchange on   *)
(* _write_idx that is meant to advance it only from its own index.  pop    *)
(* reads the slot at _read_idx while it differs from _write_idx.  Indices  *)
(* are size_t and never wrap within the bounds checked.  The buffer comes  *)
(* from malloc: a slot never written holds Junk.                           *)
(***************************************************************************)
EXTENDS Integers, Sequences

CONSTANTS
    Producers,   \* threads calling push
    Cap,         \* _capacity, a power of 2
    MaxPush,     \* pushes attempted by each producer
    Junk         \* an uninitialised slot

ASSUME Cap \in Nat \ {0} /\ MaxPush \in Nat \ {0}

Vals == Producers \X (1 .. MaxPush)   \* the k-th value pushed by p

VARIABLES
    buf,     \* _buffer
    ridx,    \* _read_idx
    wpidx,   \* _write_prepare_idx
    widx,    \* _write_idx
    ppc,     \* producer: "idle", "reserve", "store", "commit", "done"
    write,   \* producer's local `write'
    commit,  \* producer's local `write_commit'
    sent,    \* number of pushes a producer has started
    got      \* history: values popped, in order

vars == <<buf, ridx, wpidx, widx, ppc, write, commit, sent, got>>

Slot(i) == i % Cap
Val(p) == <<p, sent[p]>>

(* push, line 42: load _write_prepare_idx.                                 *)
PushBegin(p) ==
    /\ ppc[p] = "idle" /\ sent[p] < MaxPush
    /\ sent' = [sent EXCEPT ![p] = @ + 1]
    /\ write' = [write EXCEPT ![p] = wpidx]
    /\ ppc' = [ppc EXCEPT ![p] = "reserve"]
    /\ UNCHANGED <<buf, ridx, wpidx, widx, commit, got>>

(* The reservation loop, lines 44-51: full when write >= read + capacity   *)
(* (push returns false); otherwise compare-exchange write -> write + 1,    *)
(* which on failure reloads `write'.                                       *)
Reserve(p) ==
    /\ ppc[p] = "reserve"
    /\ IF write[p] >= ridx + Cap
       THEN /\ ppc' = [ppc EXCEPT ![p] = "idle"] /\ UNCHANGED <<wpidx, write>>
       ELSE IF wpidx = write[p]
            THEN /\ wpidx' = wpidx + 1
                 /\ ppc' = [ppc EXCEPT ![p] = "store"] /\ UNCHANGED write
            ELSE /\ write' = [write EXCEPT ![p] = wpidx]
                 /\ UNCHANGED <<wpidx, ppc>>
    /\ UNCHANGED <<buf, ridx, widx, commit, sent, got>>

(* _buffer[write & _mask] = val.                                           *)
Store(p) ==
    /\ ppc[p] = "store"
    /\ buf' = [buf EXCEPT ![Slot(write[p])] = Val(p)]
    /\ commit' = [commit EXCEPT ![p] = write[p]]
    /\ ppc' = [ppc EXCEPT ![p] = "commit"]
    /\ UNCHANGED <<ridx, wpidx, widx, write, sent, got>>

(* The commit loop, lines 56-65: compare_exchange_strong(write_commit,     *)
(* write_commit + 1); a failed exchange stores the current _write_idx into *)
(* write_commit, and the next iteration tries from there.                  *)
Commit(p) ==
    /\ ppc[p] = "commit"
    /\ IF widx = commit[p]
       THEN /\ widx' = widx + 1
            /\ ppc' = [ppc EXCEPT ![p] = "idle"] /\ UNCHANGED commit
       ELSE /\ commit' = [commit EXCEPT ![p] = widx]
            /\ UNCHANGED <<widx, ppc>>
    /\ UNCHANGED <<buf, ridx, wpidx, write, sent, got>>

(* pop: empty when _read_idx = _write_idx; else take the slot, advance.    *)
Pop ==
    /\ ridx /= widx
    /\ got' = Append(got, buf[Slot(ridx)])
    /\ ridx' = ridx + 1
    /\ UNCHANGED <<buf, wpidx, widx, ppc, write, commit, sent>>

Init ==
    /\ buf = [i \in 0 .. Cap - 1 |-> Junk]
    /\ ridx = 0 /\ wpidx = 0 /\ widx = 0
    /\ ppc = [p \in Producers |-> "idle"]
    /\ write = [p \in Producers |-> 0]
    /\ commit = [p \in Producers |-> 0]
    /\ sent = [p \in Producers |-> 0]
    /\ got = <<>>

(* Every push has returned and the consumer has drained the queue.        *)
Drained ==
    /\ \A p \in Producers : ppc[p] = "idle" /\ sent[p] = MaxPush
    /\ ridx = widx
    /\ UNCHANGED vars

Producer(p) == PushBegin(p) \/ Reserve(p) \/ Store(p) \/ Commit(p)

Next == (\E p \in Producers : Producer(p)) \/ Pop \/ Drained

(* Producers finish a push they began; the reactor keeps popping.          *)
Spec == Init /\ [][Next]_vars
        /\ \A p \in Producers : WF_vars(Reserve(p) \/ Store(p) \/ Commit(p))
        /\ WF_vars(Pop)

-----------------------------------------------------------------------------
(* Properties.                                                             *)

TypeOK ==
    /\ buf \in [0 .. Cap - 1 -> Vals \cup {Junk}]
    /\ ridx <= widx /\ widx <= wpidx
    /\ ppc \in [Producers -> {"idle", "reserve", "store", "commit"}]

(* The queue as its users see it: the committed, unread slots in order.    *)
AbsQueue == [i \in 1 .. widx - ridx |-> buf[Slot(ridx + i - 1)]]

(* MPSCQueue implements a bounded FIFO of the values pushed.               *)
FIFO == INSTANCE BoundedFIFO WITH Vals <- Vals, Cap <- Cap, q <- AbsQueue,
                                  out <- got
ImplementsFIFO == FIFO!Spec

(* Every push that began returns (the commit spin ends).                   *)
PushReturns == \A p \in Producers : ppc[p] /= "idle" ~> ppc[p] = "idle"
=============================================================================
