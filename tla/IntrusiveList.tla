---------------------------- MODULE IntrusiveList ----------------------------
(***************************************************************************)
(* IntrusiveList of include/common/intrusive_list.h: a doubly linked list  *)
(* between two sentinel nodes _header (H) and _tail (T) whose links are    *)
(* atomics, changed only by loads and compare-exchanges, so that threads   *)
(* may push, pop and remove concurrently.                                  *)
(*                                                                         *)
(* Every load, store and compare-exchange of a link is one step.  A thread *)
(* keeps the local copies of the code: cur, prev (lp) and next (ln).       *)
(*                                                                         *)
(* The callers are those of LRUCache (lru_cache.h).  They push a node      *)
(* they own: a new one, or one their own remove or pop took out.  They may *)
(* remove any node at any time, and they may delete a node they own, so    *)
(* its memory is reused by a later new node.                               *)
(*                                                                         *)
(* _size is a relaxed counter read by nobody on these paths.  Its          *)
(* fetch_add and fetch_sub are folded into the step that completes the     *)
(* operation.                                                              *)
(***************************************************************************)
EXTENDS Integers, Sequences, SequencesExt, FiniteSets

CONSTANTS
    Nodes,      \* the nodes the callers allocate
    Threads,
    H, T,       \* _header and _tail
    Null,
    MaxOps,     \* operations a thread calls in a behaviour
    Ops         \* the methods the callers use

Ptr == Nodes \cup {H, T}

VARIABLES
    prv, nxt,   \* the prev and next atomics of every node
    size,       \* _size
    pc,         \* position of each thread in the list's methods
    op,         \* the method a thread is in
    cur, lp, ln,\* its local cur, prev and next
    owned,      \* nodes a thread allocated or took out and has not pushed
    avail,      \* memory not allocated to a node
    ops         \* operations each thread has called

vars == <<prv, nxt, size, pc, op, cur, lp, ln, owned, avail, ops>>

(* The links of the sequential list s: H, s[1], ..., s[Len(s)], T; a node  *)
(* outside s has null links.                                               *)
Chain(s) == <<H>> \o s \o <<T>>
NextOf(s) == [n \in Ptr |-> IF \E i \in 1 .. Len(s) + 1 : Chain(s)[i] = n
                            THEN Chain(s)[1 + CHOOSE i \in 1 .. Len(s) + 1 : Chain(s)[i] = n]
                            ELSE Null]
PrevOf(s) == [n \in Ptr |-> IF \E i \in 2 .. Len(s) + 2 : Chain(s)[i] = n
                            THEN Chain(s)[(CHOOSE i \in 2 .. Len(s) + 2 : Chain(s)[i] = n) - 1]
                            ELSE Null]

(* compare_exchange_strong(expect, v) on the link f[n].                    *)
CAS(f, n, expect, v) == IF f[n] = expect THEN [f EXCEPT ![n] = v] ELSE f

Goto(t, l) == pc' = [pc EXCEPT ![t] = l]

(* Return to the caller.                                                   *)
Return(t) == /\ Goto(t, "idle")
             /\ op' = [op EXCEPT ![t] = Null]

-----------------------------------------------------------------------------
(* A caller starts an operation.                                           *)

StartPush(t, front, x) ==
    /\ pc[t] = "idle" /\ ops[t] < MaxOps
    /\ (IF front THEN "push_front" ELSE "push_back") \in Ops
    /\ x \in owned[t] \cup avail
    /\ owned' = [owned EXCEPT ![t] = @ \ {x}]
    /\ avail' = avail \ {x}
    /\ op' = [op EXCEPT ![t] = IF front THEN "push_front" ELSE "push_back"]
    /\ cur' = [cur EXCEPT ![t] = x]
    /\ Goto(t, "push_chk")
    /\ ops' = [ops EXCEPT ![t] = @ + 1]
    /\ UNCHANGED <<prv, nxt, size, lp, ln>>

StartRemove(t, x) ==
    /\ pc[t] = "idle" /\ ops[t] < MaxOps
    /\ "remove" \in Ops
    /\ op' = [op EXCEPT ![t] = "remove"]
    /\ cur' = [cur EXCEPT ![t] = x]
    /\ Goto(t, "rm_prev")
    /\ ops' = [ops EXCEPT ![t] = @ + 1]
    /\ UNCHANGED <<prv, nxt, size, lp, ln, owned, avail>>

StartPop(t, front) ==
    /\ pc[t] = "idle" /\ ops[t] < MaxOps
    /\ (IF front THEN "pop_front" ELSE "pop_back") \in Ops
    /\ op' = [op EXCEPT ![t] = IF front THEN "pop_front" ELSE "pop_back"]
    /\ Goto(t, IF front THEN "pf_read" ELSE "pb_read")
    /\ ops' = [ops EXCEPT ![t] = @ + 1]
    /\ UNCHANGED <<prv, nxt, size, cur, lp, ln, owned, avail>>

(* delete p: the memory of an owned node may back a later new node, whose  *)
(* constructor sets both links to nullptr.                                 *)
Delete(t, x) ==
    /\ pc[t] = "idle" /\ x \in owned[t]
    /\ prv[x] = Null /\ nxt[x] = Null
    /\ owned' = [owned EXCEPT ![t] = @ \ {x}]
    /\ avail' = avail \cup {x}
    /\ UNCHANGED <<prv, nxt, size, pc, op, cur, lp, ln, ops>>

-----------------------------------------------------------------------------
(* push_front / push_back, lines 72-102, and insert_once, lines 179-235.   *)

(* while (true) { if (cur->prev.load() != nullptr) return; ...            *)
PushCheck(t) ==
    /\ pc[t] = "push_chk"
    /\ IF prv[cur[t]] /= Null THEN Return(t) ELSE Goto(t, "push_read") /\ UNCHANGED op
    /\ UNCHANGED <<prv, nxt, size, cur, lp, ln, owned, avail, ops>>

(* next = _header->next.load() (push_front); prev = _tail->prev.load()      *)
(* (push_back).                                                            *)
PushRead(t) ==
    /\ pc[t] = "push_read"
    /\ IF op[t] = "push_front"
       THEN lp' = [lp EXCEPT ![t] = H] /\ ln' = [ln EXCEPT ![t] = nxt[H]]
       ELSE lp' = [lp EXCEPT ![t] = prv[T]] /\ ln' = [ln EXCEPT ![t] = T]
    /\ Goto(t, "is1")
    /\ UNCHANGED <<prv, nxt, size, op, cur, owned, avail, ops>>

(* IS1: next->prev must still be prev, or insert_once returns false.       *)
IS1(t) ==
    /\ pc[t] = "is1"
    /\ Goto(t, IF prv[ln[t]] = lp[t] THEN "cas_prev" ELSE "push_chk")
    /\ UNCHANGED <<prv, nxt, size, op, cur, lp, ln, owned, avail, ops>>

(* cur->prev: nullptr -> prev; a failure means another thread is inserting *)
(* the same node.                                                          *)
CasPrev(t) ==
    /\ pc[t] = "cas_prev"
    /\ prv' = CAS(prv, cur[t], Null, lp[t])
    /\ Goto(t, IF prv[cur[t]] = Null THEN "store_next" ELSE "push_chk")
    /\ UNCHANGED <<nxt, size, op, cur, lp, ln, owned, avail, ops>>

(* cur->next.store(next).                                                  *)
StoreNext(t) ==
    /\ pc[t] = "store_next"
    /\ nxt' = [nxt EXCEPT ![cur[t]] = ln[t]]
    /\ Goto(t, "is2")
    /\ UNCHANGED <<prv, size, op, cur, lp, ln, owned, avail, ops>>

(* IS2: prev->next: next -> cur links the node in; on failure the node's   *)
(* two links are reset, next first.                                        *)
IS2(t) ==
    /\ pc[t] = "is2"
    /\ nxt' = CAS(nxt, lp[t], ln[t], cur[t])
    /\ Goto(t, IF nxt[lp[t]] = ln[t] THEN "is3" ELSE "undo_next")
    /\ UNCHANGED <<prv, size, op, cur, lp, ln, owned, avail, ops>>

UndoNext(t) ==
    /\ pc[t] = "undo_next"
    /\ nxt' = CAS(nxt, cur[t], ln[t], Null)
    /\ Goto(t, "undo_prev")
    /\ UNCHANGED <<prv, size, op, cur, lp, ln, owned, avail, ops>>

UndoPrev(t) ==
    /\ pc[t] = "undo_prev"
    /\ prv' = CAS(prv, cur[t], lp[t], Null)
    /\ Goto(t, "push_chk")
    /\ UNCHANGED <<nxt, size, op, cur, lp, ln, owned, avail, ops>>

(* An IS3 that leaves out _size.fetch_add.                                *)
IS3WithoutCount(t) ==
    /\ pc[t] = "is3"
    /\ prv[ln[t]] = lp[t]
    /\ prv' = [prv EXCEPT ![ln[t]] = cur[t]]
    /\ Return(t)
    /\ UNCHANGED <<nxt, size, cur, lp, ln, owned, avail, ops>>

(* IS3: spin until next->prev: prev -> cur succeeds; then _size + 1.       *)
IS3(t) ==
    /\ pc[t] = "is3"
    /\ prv[ln[t]] = lp[t]
    /\ prv' = [prv EXCEPT ![ln[t]] = cur[t]]
    /\ size' = size + 1
    /\ Return(t)
    /\ UNCHANGED <<nxt, cur, lp, ln, owned, avail, ops>>

-----------------------------------------------------------------------------
(* remove, lines 112-127; pop_front, lines 129-147; pop_back, 149-167.     *)

(* remove: prev = p->prev.load(); next = p->next.load(); either null means *)
(* another thread is removing p, and remove returns false.                 *)
RmPrev(t) ==
    /\ pc[t] = "rm_prev"
    /\ lp' = [lp EXCEPT ![t] = prv[cur[t]]]
    /\ Goto(t, "rm_next")
    /\ UNCHANGED <<prv, nxt, size, op, cur, ln, owned, avail, ops>>

RmNext(t) ==
    /\ pc[t] = "rm_next"
    /\ ln' = [ln EXCEPT ![t] = nxt[cur[t]]]
    /\ IF lp[t] = Null \/ nxt[cur[t]] = Null
       THEN Return(t)
       ELSE Goto(t, "rs1") /\ UNCHANGED op
    /\ UNCHANGED <<prv, nxt, size, cur, lp, owned, avail, ops>>

(* pop_front: cur = _header->next; nullptr when it is _tail.               *)
PfRead(t) ==
    /\ pc[t] = "pf_read"
    /\ IF nxt[H] = T
       THEN Return(t) /\ UNCHANGED <<cur, lp>>
       ELSE /\ cur' = [cur EXCEPT ![t] = nxt[H]]
            /\ lp' = [lp EXCEPT ![t] = H]
            /\ Goto(t, "pf_next") /\ UNCHANGED op
    /\ UNCHANGED <<prv, nxt, size, ln, owned, avail, ops>>

(* next = cur->next; null: another thread is removing cur, try again.      *)
PfNext(t) ==
    /\ pc[t] = "pf_next"
    /\ ln' = [ln EXCEPT ![t] = nxt[cur[t]]]
    /\ Goto(t, IF nxt[cur[t]] = Null THEN "pf_read" ELSE "rs1")
    /\ UNCHANGED <<prv, nxt, size, op, cur, lp, owned, avail, ops>>

PbRead(t) ==
    /\ pc[t] = "pb_read"
    /\ IF prv[T] = H
       THEN Return(t) /\ UNCHANGED <<cur, ln>>
       ELSE /\ cur' = [cur EXCEPT ![t] = prv[T]]
            /\ ln' = [ln EXCEPT ![t] = T]
            /\ Goto(t, "pb_prev") /\ UNCHANGED op
    /\ UNCHANGED <<prv, nxt, size, lp, owned, avail, ops>>

PbPrev(t) ==
    /\ pc[t] = "pb_prev"
    /\ lp' = [lp EXCEPT ![t] = prv[cur[t]]]
    /\ Goto(t, IF prv[cur[t]] = Null THEN "pb_read" ELSE "rs1")
    /\ UNCHANGED <<prv, nxt, size, op, cur, ln, owned, avail, ops>>

-----------------------------------------------------------------------------
(* remove_once(prev, next, cur), lines 237-313.  When it returns false,    *)
(* each caller goes round its loop again.                                  *)

Retry(t) == Goto(t, CASE op[t] = "remove"    -> "rm_prev"
                      [] op[t] = "pop_front" -> "pf_read"
                      [] op[t] = "pop_back"  -> "pb_read")

(* RS1: next->prev == cur; RS2: prev->next == cur.                         *)
RS1(t) ==
    /\ pc[t] = "rs1"
    /\ IF prv[ln[t]] = cur[t] THEN Goto(t, "rs2") ELSE Retry(t)
    /\ UNCHANGED <<prv, nxt, size, op, cur, lp, ln, owned, avail, ops>>

RS2(t) ==
    /\ pc[t] = "rs2"
    /\ IF nxt[lp[t]] = cur[t] THEN Goto(t, "rs3") ELSE Retry(t)
    /\ UNCHANGED <<prv, nxt, size, op, cur, lp, ln, owned, avail, ops>>

(* RS3: cur->prev: prev -> nullptr claims the node.                        *)
RS3(t) ==
    /\ pc[t] = "rs3"
    /\ prv' = CAS(prv, cur[t], lp[t], Null)
    /\ IF prv[cur[t]] = lp[t] THEN Goto(t, "rs4") ELSE Retry(t)
    /\ UNCHANGED <<nxt, size, op, cur, lp, ln, owned, avail, ops>>

(* RS4: cur->next: next -> nullptr; on failure cur->prev is put back.      *)
RS4(t) ==
    /\ pc[t] = "rs4"
    /\ nxt' = CAS(nxt, cur[t], ln[t], Null)
    /\ Goto(t, IF nxt[cur[t]] = ln[t] THEN "rs5" ELSE "rs4_undo")
    /\ UNCHANGED <<prv, size, op, cur, lp, ln, owned, avail, ops>>

(* A failed RS4 that does not put cur->prev back.                          *)
RS4UndoForgettingPrev(t) ==
    /\ pc[t] = "rs4_undo"
    /\ Retry(t)
    /\ UNCHANGED <<prv, nxt, size, op, cur, lp, ln, owned, avail, ops>>

RS4Undo(t) ==
    /\ pc[t] = "rs4_undo"
    /\ prv' = CAS(prv, cur[t], Null, lp[t])
    /\ Retry(t)
    /\ UNCHANGED <<nxt, size, op, cur, lp, ln, owned, avail, ops>>

(* An RS5 that stores prev->next instead of compare-exchanging it.         *)
RS5Storing(t) ==
    /\ pc[t] = "rs5"
    /\ nxt' = [nxt EXCEPT ![lp[t]] = ln[t]]
    /\ Goto(t, "rs6")
    /\ UNCHANGED <<prv, size, op, cur, lp, ln, owned, avail, ops>>

(* RS5: prev->next: cur -> next unlinks the node; on failure both of its   *)
(* links are put back, prev first.                                         *)
RS5(t) ==
    /\ pc[t] = "rs5"
    /\ nxt' = CAS(nxt, lp[t], cur[t], ln[t])
    /\ Goto(t, IF nxt[lp[t]] = cur[t] THEN "rs6" ELSE "rs5_undo_prev")
    /\ UNCHANGED <<prv, size, op, cur, lp, ln, owned, avail, ops>>

RS5UndoPrev(t) ==
    /\ pc[t] = "rs5_undo_prev"
    /\ prv' = CAS(prv, cur[t], Null, lp[t])
    /\ Goto(t, "rs5_undo_next")
    /\ UNCHANGED <<nxt, size, op, cur, lp, ln, owned, avail, ops>>

RS5UndoNext(t) ==
    /\ pc[t] = "rs5_undo_next"
    /\ nxt' = CAS(nxt, cur[t], Null, ln[t])
    /\ Retry(t)
    /\ UNCHANGED <<prv, size, op, cur, lp, ln, owned, avail, ops>>

(* A remove that ends after RS5, leaving next->prev on the node.           *)
RS6WithoutRelink(t) ==
    /\ pc[t] = "rs6"
    /\ size' = size - 1
    /\ owned' = [owned EXCEPT ![t] = @ \cup {cur[t]}]
    /\ Return(t)
    /\ UNCHANGED <<prv, nxt, cur, lp, ln, avail, ops>>

(* RS6: spin until next->prev: cur -> prev succeeds; then _size - 1 and    *)
(* the caller owns the node it took out.                                   *)
RS6(t) ==
    /\ pc[t] = "rs6"
    /\ prv[ln[t]] = cur[t]
    /\ prv' = [prv EXCEPT ![ln[t]] = lp[t]]
    /\ size' = size - 1
    /\ owned' = [owned EXCEPT ![t] = @ \cup {cur[t]}]
    /\ Return(t)
    /\ UNCHANGED <<nxt, cur, lp, ln, avail, ops>>

-----------------------------------------------------------------------------
(* The list starts as any list a sequence of pushes builds; the other      *)
(* nodes are not allocated.                                                *)
Init ==
    /\ \E s \in UNION {SetToSeqs(S) : S \in SUBSET Nodes} :
          /\ nxt = NextOf(s)
          /\ prv = PrevOf(s)
          /\ size = Len(s)
          /\ avail = Nodes \ ToSet(s)
    /\ pc = [t \in Threads |-> "idle"]
    /\ op = [t \in Threads |-> Null]
    /\ cur = [t \in Threads |-> Null]
    /\ lp = [t \in Threads |-> Null]
    /\ ln = [t \in Threads |-> Null]
    /\ owned = [t \in Threads |-> {}]
    /\ ops = [t \in Threads |-> 0]

Caller(t) ==
    \/ \E x \in Nodes : \E front \in BOOLEAN : StartPush(t, front, x)
    \/ \E x \in Nodes : StartRemove(t, x) \/ Delete(t, x)
    \/ \E front \in BOOLEAN : StartPop(t, front)

Step(t) ==
    \/ PushCheck(t) \/ PushRead(t) \/ IS1(t) \/ CasPrev(t) \/ StoreNext(t)
    \/ IS2(t) \/ UndoNext(t) \/ UndoPrev(t) \/ IS3(t)
    \/ RmPrev(t) \/ RmNext(t) \/ PfRead(t) \/ PfNext(t) \/ PbRead(t) \/ PbPrev(t)
    \/ RS1(t) \/ RS2(t) \/ RS3(t) \/ RS4(t) \/ RS4Undo(t)
    \/ RS5(t) \/ RS5UndoPrev(t) \/ RS5UndoNext(t) \/ RS6(t)

Next == \E t \in Threads : Caller(t) \/ Step(t)

(* A thread inside a method keeps running; calling one is not forced.      *)
Spec == Init /\ [][Next]_vars /\ \A t \in Threads : WF_vars(Step(t))

-----------------------------------------------------------------------------
(* The list a reader sees: the forward walk from _header.  While a remover *)
(* has nulled cur->next (RS4) and not yet unlinked or restored it, the     *)
(* node is still linked from its predecessor, and its successor is the     *)
(* remover's next.  A walk that meets a null link or does not reach _tail  *)
(* contains Null.                                                          *)
EffNext(n) ==
    IF nxt[n] /= Null \/ ~\E t \in Threads :
            cur[t] = n /\ pc[t] \in {"rs5", "rs5_undo_prev", "rs5_undo_next"}
    THEN nxt[n]
    ELSE ln[CHOOSE t \in Threads :
            cur[t] = n /\ pc[t] \in {"rs5", "rs5_undo_prev", "rs5_undo_next"}]

RECURSIVE WalkFrom(_, _)
WalkFrom(n, k) ==
    CASE n = T -> <<>>
      [] n \in Nodes /\ k > 0 -> <<n>> \o WalkFrom(EffNext(n), k - 1)
      [] OTHER -> <<Null>>

Walk == WalkFrom(EffNext(H), Cardinality(Nodes))

Idle == \A t \in Threads : pc[t] = "idle"

(* The types of the variables.  size counts completed insertions minus     *)
(* completed removals (the counter is folded into the completing CAS), so  *)
(* its bounds also say that no node is counted in or out twice.           *)
TypeOK ==
    /\ prv \in [Ptr -> Ptr \cup {Null}]
    /\ nxt \in [Ptr -> Ptr \cup {Null}]
    /\ size \in 0 .. Cardinality(Nodes)
    /\ pc \in [Threads -> {"idle", "push_chk", "push_read", "is1", "cas_prev",
                           "store_next", "is2", "undo_next", "undo_prev", "is3",
                           "rm_prev", "rm_next", "pf_read", "pf_next", "pb_read",
                           "pb_prev", "rs1", "rs2", "rs3", "rs4", "rs4_undo",
                           "rs5", "rs5_undo_prev", "rs5_undo_next", "rs6"}]
    /\ cur \in [Threads -> Ptr \cup {Null}]
    /\ lp \in [Threads -> Ptr \cup {Null}]
    /\ ln \in [Threads -> Ptr \cup {Null}]
    /\ owned \in [Threads -> SUBSET Nodes]
    /\ avail \subseteq Nodes

(* When no thread is inside a method, the backward links mirror the        *)
(* forward ones exactly, every node outside the list has two null links    *)
(* (so push_front's "cur->prev != nullptr" test sees it as free), and      *)
(* _size is the length of the list: every failed CAS was undone.           *)
LinkedAtRest ==
    Idle => /\ Null \notin ToSet(Walk)
            /\ nxt = NextOf(Walk)
            /\ prv = PrevOf(Walk)
            /\ size = Len(Walk)

(* The list implements AbstractDeque under the forward walk: every step    *)
(* of every thread either leaves the walk alone or pushes a node that was  *)
(* not in it at one end, or takes one node out.                            *)
Deque == INSTANCE AbstractDeque WITH lst <- Walk
ImplementsDeque == Deque!Spec

(* Every call returns: the spins of IS3 and RS6 and the retry loops end    *)
(* once the thread is scheduled.                                           *)
CallsReturn == \A t \in Threads : pc[t] /= "idle" ~> pc[t] = "idle"

=============================================================================
