---------------------------- MODULE ConcurrentLRU ----------------------------
(***************************************************************************)
(* LRUCache of include/common/lru_cache.h over the intrusive half of       *)
(* ConcurrentHashMap of include/common/concurrent_hash_map.h.              *)
(*                                                                         *)
(* A key hashes to a bucket; each bucket has a LifeCycleLock.  put,        *)
(* exchange and erase spin on tryUpgrade() && tryExclusive() of the key's  *)
(* bucket, get takes it shared.  Under the lock the map operation runs     *)
(* and then the LRU callback given to the map's constructor: it moves a   *)
(* node in the IntrusiveList _list, adds to or subtracts from the atomic   *)
(* _mem_size_used, and, when the cache is full, calls release_nodes,       *)
(* which pops nodes off the back of the list and erases their keys, the   *)
(* bucket of such a key being locked only when it is not the caller's.    *)
(* put pushes its node on the list, and exchange re-links the list, only  *)
(* after the bucket lock is released.                                      *)
(*                                                                         *)
(* Abstractions.  A bucket chain holds each key at most once, so the map   *)
(* is a function mp from keys to node or None.  Each list call is one     *)
(* atomic step of AbstractDeque; IntrusiveList.tla checks that the list   *)
(* implements it for push_front, remove and pop_back, the three calls the *)
(* cache makes.  _mem_size_used is a size_t: used is kept modulo MemMod.  *)
(* A node is a fresh id from 1..MaxNodes with its key and used_mem; ids   *)
(* are never reused, and frees[n] counts the deletes of node n.  The heap *)
(* reuses addresses, so exchange's late _list.remove(old) can hit a newer *)
(* node at old's address; ids that are never reused cannot show that.     *)
(* The statistics _hit_query_times, _total_query_times and _element_size  *)
(* decide nothing and are left out.                                       *)
(***************************************************************************)
EXTENDS Integers, Sequences, SequencesExt, FiniteSets, LifeCycleLock

CONSTANTS
    Keys,       \* the keys the callers use
    Buckets,    \* the bucket indexes
    Bucket,     \* [Keys -> Buckets]: get_bucket_idx, hash % bucket size
    Threads,    \* the calling threads
    Mems,       \* the used_mem values a caller passes
    MemSize,    \* _mem_size, the capacity given to the constructor
    MemMod,     \* 2^w: _mem_size_used wraps modulo this
    Preload,    \* a sequence of distinct keys put, in order, before the run
    MaxNodes,   \* bound on the nodes allocated (new LRUNode)
    MaxOps,     \* bound on the calls each thread makes
    None        \* nullptr

ASSUME Len(Preload) <= MemSize /\ Len(Preload) <= MaxNodes

NodeIds == 1 .. MaxNodes

VARIABLES
    lock,   \* [Buckets -> lock word]: _locks
    mp,     \* [Keys -> NodeIds \cup {None}]: the bucket chains
    lst,    \* the IntrusiveList _list, front first
    used,   \* _mem_size_used
    nkey,   \* [NodeIds -> Keys]: LRUNode::key
    nmem,   \* [NodeIds -> Mems]: LRUNode::used_mem
    fresh,  \* the next node id new LRUNode returns
    frees,  \* [NodeIds -> Nat]: how often each node was deleted
    pc,     \* per thread: where it is in its call
    k,      \* per thread: the key of its call
    nd,     \* per thread: the node it allocated (put, exchange)
    o,      \* per thread: the node found, swapped out or erased
    xret,   \* per thread: exchange's ret
    rp,     \* per thread: release_nodes' popped node p
    rmem,   \* per thread: release_nodes' local mem
    rret,   \* per thread: where release_nodes returns to
    ops     \* per thread: calls started

vars == <<lock, mp, lst, used, nkey, nmem, fresh, frees, pc, k, nd, o, xret,
          rp, rmem, rret, ops>>

Locals == <<k, nd, o, xret, rp, rmem, rret>>

-----------------------------------------------------------------------------
(* Helpers.                                                                *)

Wrap(x) == x % MemMod

(* _list.push_front: a node already linked is left where it is.            *)
PushedFront(x) == IF x \in ToSet(lst) THEN lst ELSE <<x>> \o lst

Delete(x) == frees' = [frees EXCEPT ![x] = @ + 1]

Goto(t, l) == pc' = [pc EXCEPT ![t] = l]

(* One turn of while (!(tryUpgrade() && tryExclusive())) on bucket b; the  *)
(* thread moves on to l when it got the lock.                              *)
SpinExclusive(t, b, l) ==
    LET u == TryUpgrade(lock[b])
        x == TryExclusive(u.lock)
    IN  /\ lock' = [lock EXCEPT ![b] = IF u.ok THEN x.lock ELSE u.lock]
        /\ pc' = [pc EXCEPT ![t] = IF u.ok /\ x.ok THEN l ELSE pc[t]]

(* A mutant: the lock released with releaseShared instead of             *)
(* releaseExclusive.                                                       *)
UnlockShared(b) == lock' = [lock EXCEPT ![b] = ReleaseShared(@)]

Unlock(b) == lock' = [lock EXCEPT ![b] = ReleaseExclusive(@)]

(* A mutant: delete the node whether or not _list.remove took it out.    *)
ErasePostprocessAlwaysDeleting(x) ==
    /\ lst' = Remove(lst, x)
    /\ Delete(x)
    /\ used' = Wrap(used - nmem[x])

(* The erase postprocess of LRUCache (lines 84-93) on node x: delete x if  *)
(* it was still linked, then subtract its used_mem.                        *)
ErasePostprocess(x) ==
    /\ lst' = Remove(lst, x)
    /\ frees' = IF x \in ToSet(lst) THEN [frees EXCEPT ![x] = @ + 1] ELSE frees
    /\ used' = Wrap(used - nmem[x])

-----------------------------------------------------------------------------
(* LRUCache::put(key, mem): new LRUNode, then intrusive_put.               *)
PutStart(t) ==
    /\ pc[t] = "idle" /\ ops[t] < MaxOps /\ fresh <= MaxNodes
    /\ \E key \in Keys, m \in Mems :
          /\ k' = [k EXCEPT ![t] = key]
          /\ nkey' = [nkey EXCEPT ![fresh] = key]
          /\ nmem' = [nmem EXCEPT ![fresh] = m]
    /\ nd' = [nd EXCEPT ![t] = fresh]
    /\ fresh' = fresh + 1
    /\ ops' = [ops EXCEPT ![t] = @ + 1]
    /\ Goto(t, "p_lock")
    /\ UNCHANGED <<lock, mp, lst, used, frees, o, xret, rp, rmem, rret>>

PutLock(t) ==
    /\ pc[t] = "p_lock"
    /\ SpinExclusive(t, Bucket[k[t]], "p_pre")
    /\ UNCHANGED <<mp, lst, used, nkey, nmem, fresh, frees, ops>>
    /\ UNCHANGED Locals

(* The preprocess refuses a node bigger than the whole cache; put deletes  *)
(* it.                                                                     *)
PutTooBig(t) ==
    /\ pc[t] = "p_pre" /\ nmem[nd[t]] > MemSize
    /\ Unlock(Bucket[k[t]])
    /\ Delete(nd[t])
    /\ Goto(t, "idle")
    /\ UNCHANGED <<mp, lst, used, nkey, nmem, fresh, ops>>
    /\ UNCHANGED Locals

(* The key is already there: intrusive_put_nolock returns false, the       *)
(* postprocess does nothing, put deletes the node.                         *)
PutExists(t) ==
    /\ pc[t] = "p_pre" /\ nmem[nd[t]] <= MemSize /\ mp[k[t]] /= None
    /\ Unlock(Bucket[k[t]])
    /\ Delete(nd[t])
    /\ Goto(t, "idle")
    /\ UNCHANGED <<mp, lst, used, nkey, nmem, fresh, ops>>
    /\ UNCHANGED Locals

PutInsert(t) ==
    /\ pc[t] = "p_pre" /\ nmem[nd[t]] <= MemSize /\ mp[k[t]] = None
    /\ mp' = [mp EXCEPT ![k[t]] = nd[t]]
    /\ Goto(t, "p_post")
    /\ UNCHANGED <<lock, lst, used, nkey, nmem, fresh, frees, ops>>
    /\ UNCHANGED Locals

(* The put postprocess: make room for used_mem when the cache would go     *)
(* over _mem_size.                                                         *)
PutPost(t) ==
    /\ pc[t] = "p_post"
    /\ IF Wrap(nmem[nd[t]] + used) > MemSize
       THEN /\ rmem' = [rmem EXCEPT ![t] = nmem[nd[t]]]
            /\ rret' = [rret EXCEPT ![t] = "p_add"]
            /\ Goto(t, "rn_pop")
       ELSE /\ Goto(t, "p_add")
            /\ UNCHANGED <<rmem, rret>>
    /\ UNCHANGED <<lock, mp, lst, used, nkey, nmem, fresh, frees, ops,
                   k, nd, o, xret, rp>>

PutAdd(t) ==
    /\ pc[t] = "p_add"
    /\ used' = Wrap(used + nmem[nd[t]])
    /\ Unlock(Bucket[k[t]])
    /\ Goto(t, "p_push")
    /\ UNCHANGED <<mp, lst, nkey, nmem, fresh, frees, ops>>
    /\ UNCHANGED Locals

(* After intrusive_put returned true and released the lock.                *)
PutPush(t) ==
    /\ pc[t] = "p_push"
    /\ lst' = PushedFront(nd[t])
    /\ Goto(t, "idle")
    /\ UNCHANGED <<lock, mp, used, nkey, nmem, fresh, frees, ops>>
    /\ UNCHANGED Locals

-----------------------------------------------------------------------------
(* release_nodes(mem, locked_bucket_key), lines 168-191, called with the   *)
(* bucket of k[t] locked.                                                  *)
RnDone(t) ==
    /\ pc[t] = "rn_pop" /\ (rmem[t] = 0 \/ lst = <<>>)
    /\ Goto(t, rret[t])
    /\ UNCHANGED <<lock, mp, lst, used, nkey, nmem, fresh, frees, ops>>
    /\ UNCHANGED Locals

RnPop(t) ==
    /\ pc[t] = "rn_pop" /\ rmem[t] > 0 /\ lst /= <<>>
    /\ rp' = [rp EXCEPT ![t] = Last(lst)]
    /\ lst' = Front(lst)
    /\ Goto(t, IF Bucket[nkey[Last(lst)]] = Bucket[k[t]]
               THEN "rn_same" ELSE "rn_lock")
    /\ UNCHANGED <<lock, mp, used, nkey, nmem, fresh, frees, ops,
                   k, nd, o, xret, rmem, rret>>

(* Same bucket: erase_nolock(p->key) takes out whatever node has that key  *)
(* now, fetch_sub p's used_mem, mem -= it, delete p.                       *)
RnSame(t) ==
    /\ pc[t] = "rn_same"
    /\ mp' = [mp EXCEPT ![nkey[rp[t]]] = None]
    /\ used' = Wrap(used - nmem[rp[t]])
    /\ rmem' = [rmem EXCEPT ![t] = Wrap(@ - nmem[rp[t]])]
    /\ Delete(rp[t])
    /\ Goto(t, "rn_pop")
    /\ UNCHANGED <<lock, lst, nkey, nmem, fresh, ops,
                   k, nd, o, xret, rp, rret>>

(* Other bucket: this->erase(p->key) is LRUCache::erase, intrusive_erase:  *)
(* it locks that bucket while the caller's stays locked.                   *)
RnLock(t) ==
    /\ pc[t] = "rn_lock"
    /\ SpinExclusive(t, Bucket[nkey[rp[t]]], "rn_erase")
    /\ UNCHANGED <<mp, lst, used, nkey, nmem, fresh, frees, ops>>
    /\ UNCHANGED Locals

RnEraseMiss(t) ==
    /\ pc[t] = "rn_erase" /\ mp[nkey[rp[t]]] = None
    /\ Unlock(Bucket[nkey[rp[t]]])
    /\ Goto(t, "rn_after")
    /\ UNCHANGED <<mp, lst, used, nkey, nmem, fresh, frees, ops>>
    /\ UNCHANGED Locals

RnErase(t) ==
    /\ pc[t] = "rn_erase" /\ mp[nkey[rp[t]]] /= None
    /\ mp' = [mp EXCEPT ![nkey[rp[t]]] = None]
    /\ ErasePostprocess(mp[nkey[rp[t]]])
    /\ Unlock(Bucket[nkey[rp[t]]])
    /\ Goto(t, "rn_after")
    /\ UNCHANGED <<nkey, nmem, fresh, ops, k, nd, o, xret, rp, rmem, rret>>

(* _list.remove(p) one more time, mem -= p->used_mem, delete p.            *)
RnAfter(t) ==
    /\ pc[t] = "rn_after"
    /\ lst' = Remove(lst, rp[t])
    /\ rmem' = [rmem EXCEPT ![t] = Wrap(@ - nmem[rp[t]])]
    /\ Delete(rp[t])
    /\ Goto(t, "rn_pop")
    /\ UNCHANGED <<lock, mp, used, nkey, nmem, fresh, ops,
                   k, nd, o, xret, rp, rret>>

-----------------------------------------------------------------------------
(* LRUCache::exchange(key, mem): new LRUNode, intrusive_exchange, then,    *)
(* with the lock released, unlink and delete the node swapped out and     *)
(* push the new one.                                                       *)
ExStart(t) ==
    /\ pc[t] = "idle" /\ ops[t] < MaxOps /\ fresh <= MaxNodes
    /\ \E key \in Keys, m \in Mems :
          /\ k' = [k EXCEPT ![t] = key]
          /\ nkey' = [nkey EXCEPT ![fresh] = key]
          /\ nmem' = [nmem EXCEPT ![fresh] = m]
    /\ nd' = [nd EXCEPT ![t] = fresh]
    /\ fresh' = fresh + 1
    /\ ops' = [ops EXCEPT ![t] = @ + 1]
    /\ Goto(t, "x_lock")
    /\ UNCHANGED <<lock, mp, lst, used, frees, o, xret, rp, rmem, rret>>

ExLock(t) ==
    /\ pc[t] = "x_lock"
    /\ SpinExclusive(t, Bucket[k[t]], "x_swap")
    /\ UNCHANGED <<mp, lst, used, nkey, nmem, fresh, frees, ops>>
    /\ UNCHANGED Locals

(* intrusive_exchange_nolock, then the first half of the exchange          *)
(* postprocess: fetch_add of the new node's used_mem, less the old one's.  *)
ExSwap(t) ==
    /\ pc[t] = "x_swap"
    /\ mp' = [mp EXCEPT ![k[t]] = nd[t]]
    /\ o' = [o EXCEPT ![t] = mp[k[t]]]
    /\ xret' = [xret EXCEPT ![t] = mp[k[t]] /= None]
    /\ used' = Wrap(used + nmem[nd[t]]
                         - (IF mp[k[t]] /= None THEN nmem[mp[k[t]]] ELSE 0))
    /\ Goto(t, "x_check")
    /\ UNCHANGED <<lock, lst, nkey, nmem, fresh, frees, ops,
                   k, nd, rp, rmem, rret>>

(* The second half: load _mem_size_used and release what is over.          *)
ExCheck(t) ==
    /\ pc[t] = "x_check"
    /\ IF used > MemSize
       THEN /\ rmem' = [rmem EXCEPT ![t] = used - MemSize]
            /\ rret' = [rret EXCEPT ![t] = "x_unlock"]
            /\ Goto(t, "rn_pop")
       ELSE /\ Goto(t, "x_unlock")
            /\ UNCHANGED <<rmem, rret>>
    /\ UNCHANGED <<lock, mp, lst, used, nkey, nmem, fresh, frees, ops,
                   k, nd, o, xret, rp>>

ExUnlock(t) ==
    /\ pc[t] = "x_unlock"
    /\ Unlock(Bucket[k[t]])
    /\ Goto(t, "x_remove")
    /\ UNCHANGED <<mp, lst, used, nkey, nmem, fresh, frees, ops>>
    /\ UNCHANGED Locals

ExRemove(t) ==
    /\ pc[t] = "x_remove"
    /\ IF xret[t]
       THEN /\ lst' = Remove(lst, o[t])
            /\ frees' = IF o[t] \in ToSet(lst)
                        THEN [frees EXCEPT ![o[t]] = @ + 1] ELSE frees
       ELSE UNCHANGED <<lst, frees>>
    /\ Goto(t, "x_push")
    /\ UNCHANGED <<lock, mp, used, nkey, nmem, fresh, ops>>
    /\ UNCHANGED Locals

ExPush(t) ==
    /\ pc[t] = "x_push"
    /\ lst' = PushedFront(nd[t])
    /\ Goto(t, "idle")
    /\ UNCHANGED <<lock, mp, used, nkey, nmem, fresh, frees, ops>>
    /\ UNCHANGED Locals

-----------------------------------------------------------------------------
(* LRUCache::get(key): intrusive_get under the shared lock; the get        *)
(* postprocess moves a hit to the front if it is still linked, then the    *)
(* value is copied out of the node.                                        *)
GetStart(t) ==
    /\ pc[t] = "idle" /\ ops[t] < MaxOps
    /\ \E key \in Keys : k' = [k EXCEPT ![t] = key]
    /\ ops' = [ops EXCEPT ![t] = @ + 1]
    /\ Goto(t, "g_lock")
    /\ UNCHANGED <<lock, mp, lst, used, nkey, nmem, fresh, frees,
                   nd, o, xret, rp, rmem, rret>>

(* LifeCycleLock::share(): spin on tryShared.                              *)
GetLock(t) ==
    /\ pc[t] = "g_lock"
    /\ LET r == TryShared(lock[Bucket[k[t]]])
       IN  /\ lock' = [lock EXCEPT ![Bucket[k[t]]] = r.lock]
           /\ Goto(t, IF r.ok THEN "g_find" ELSE "g_lock")
    /\ UNCHANGED <<mp, lst, used, nkey, nmem, fresh, frees, ops>>
    /\ UNCHANGED Locals

GetMiss(t) ==
    /\ pc[t] = "g_find" /\ mp[k[t]] = None
    /\ lock' = [lock EXCEPT ![Bucket[k[t]]] = ReleaseShared(@)]
    /\ Goto(t, "idle")
    /\ UNCHANGED <<mp, lst, used, nkey, nmem, fresh, frees, ops>>
    /\ UNCHANGED Locals

GetHit(t) ==
    /\ pc[t] = "g_find" /\ mp[k[t]] /= None
    /\ o' = [o EXCEPT ![t] = mp[k[t]]]
    /\ lst' = Remove(lst, mp[k[t]])
    /\ Goto(t, IF mp[k[t]] \in ToSet(lst) THEN "g_push" ELSE "g_read")
    /\ UNCHANGED <<lock, mp, used, nkey, nmem, fresh, frees, ops,
                   k, nd, xret, rp, rmem, rret>>

GetPush(t) ==
    /\ pc[t] = "g_push"
    /\ lst' = PushedFront(o[t])
    /\ Goto(t, "g_read")
    /\ UNCHANGED <<lock, mp, used, nkey, nmem, fresh, frees, ops>>
    /\ UNCHANGED Locals

(* val = p->value, then releaseShared.                                     *)
GetRead(t) ==
    /\ pc[t] = "g_read"
    /\ lock' = [lock EXCEPT ![Bucket[k[t]]] = ReleaseShared(@)]
    /\ Goto(t, "idle")
    /\ UNCHANGED <<mp, lst, used, nkey, nmem, fresh, frees, ops>>
    /\ UNCHANGED Locals

-----------------------------------------------------------------------------
(* LRUCache::erase(key): intrusive_erase with the erase postprocess.       *)
EraseStart(t) ==
    /\ pc[t] = "idle" /\ ops[t] < MaxOps
    /\ \E key \in Keys : k' = [k EXCEPT ![t] = key]
    /\ ops' = [ops EXCEPT ![t] = @ + 1]
    /\ Goto(t, "e_lock")
    /\ UNCHANGED <<lock, mp, lst, used, nkey, nmem, fresh, frees,
                   nd, o, xret, rp, rmem, rret>>

EraseLock(t) ==
    /\ pc[t] = "e_lock"
    /\ SpinExclusive(t, Bucket[k[t]], "e_erase")
    /\ UNCHANGED <<mp, lst, used, nkey, nmem, fresh, frees, ops>>
    /\ UNCHANGED Locals

EraseMiss(t) ==
    /\ pc[t] = "e_erase" /\ mp[k[t]] = None
    /\ Unlock(Bucket[k[t]])
    /\ Goto(t, "idle")
    /\ UNCHANGED <<mp, lst, used, nkey, nmem, fresh, frees, ops>>
    /\ UNCHANGED Locals

EraseHit(t) ==
    /\ pc[t] = "e_erase" /\ mp[k[t]] /= None
    /\ o' = [o EXCEPT ![t] = mp[k[t]]]
    /\ mp' = [mp EXCEPT ![k[t]] = None]
    /\ ErasePostprocess(mp[k[t]])
    /\ Unlock(Bucket[k[t]])
    /\ Goto(t, "idle")
    /\ UNCHANGED <<nkey, nmem, fresh, ops, k, nd, xret, rp, rmem, rret>>

-----------------------------------------------------------------------------
(* The cache after Preload[1], ..., Preload[n] were put one after another  *)
(* by one thread, each with used_mem 1: node i holds Preload[i], the last  *)
(* put is at the front.                                                    *)
Init ==
    LET n == Len(Preload) IN
    /\ lock = [b \in Buckets |-> Free]
    /\ mp = [key \in Keys |->
               IF \E i \in 1 .. n : Preload[i] = key
               THEN CHOOSE i \in 1 .. n : Preload[i] = key ELSE None]
    /\ lst = [i \in 1 .. n |-> n + 1 - i]
    /\ used = n
    /\ nkey = [i \in NodeIds |-> IF i <= n THEN Preload[i]
                                 ELSE CHOOSE key \in Keys : TRUE]
    /\ nmem = [i \in NodeIds |-> 1]
    /\ fresh = n + 1
    /\ frees = [i \in NodeIds |-> 0]
    /\ pc = [t \in Threads |-> "idle"]
    /\ k = [t \in Threads |-> CHOOSE key \in Keys : TRUE]
    /\ nd = [t \in Threads |-> None]
    /\ o = [t \in Threads |-> None]
    /\ xret = [t \in Threads |-> FALSE]
    /\ rp = [t \in Threads |-> None]
    /\ rmem = [t \in Threads |-> 0]
    /\ rret = [t \in Threads |-> "idle"]
    /\ ops = [t \in Threads |-> 0]

Call(t) == PutStart(t) \/ ExStart(t) \/ GetStart(t) \/ EraseStart(t)

Step(t) ==
    \/ PutLock(t) \/ PutTooBig(t) \/ PutExists(t) \/ PutInsert(t)
    \/ PutPost(t) \/ PutAdd(t) \/ PutPush(t)
    \/ RnDone(t) \/ RnPop(t) \/ RnSame(t) \/ RnLock(t) \/ RnEraseMiss(t)
    \/ RnErase(t) \/ RnAfter(t)
    \/ ExLock(t) \/ ExSwap(t) \/ ExCheck(t) \/ ExUnlock(t) \/ ExRemove(t)
    \/ ExPush(t)
    \/ GetLock(t) \/ GetMiss(t) \/ GetHit(t) \/ GetPush(t) \/ GetRead(t)
    \/ EraseLock(t) \/ EraseMiss(t) \/ EraseHit(t)

Next == \E t \in Threads : Call(t) \/ Step(t)

Spec == Init /\ [][Next]_vars /\ \A t \in Threads : WF_vars(Step(t))

-----------------------------------------------------------------------------
(* Properties.                                                             *)

Pcs == {"idle", "p_lock", "p_pre", "p_post", "p_add", "p_push",
        "rn_pop", "rn_same", "rn_lock", "rn_erase", "rn_after",
        "x_lock", "x_swap", "x_check", "x_unlock", "x_remove", "x_push",
        "g_lock", "g_find", "g_push", "g_read", "e_lock", "e_erase"}

(* The lock words stay well formed (no release without a hold drives the   *)
(* shared count below zero), _mem_size_used a size_t, the list a sequence  *)
(* of distinct allocated nodes.                                            *)
TypeOK ==
    /\ \A b \in Buckets : lock[b].sh \in Nat /\ lock[b].up \in BOOLEAN
                          /\ lock[b].ex \in BOOLEAN
    /\ mp \in [Keys -> 1 .. fresh - 1 \cup {None}]
    /\ IsInjective(lst) /\ ToSet(lst) \subseteq 1 .. fresh - 1
    /\ used \in 0 .. MemMod - 1
    /\ fresh \in 1 .. MaxNodes + 1
    /\ pc \in [Threads -> Pcs]
    /\ rmem \in [Threads -> 0 .. MemMod - 1]

(* No node is deleted twice: of the paths that delete a node (the erase   *)
(* postprocess, release_nodes, exchange, a refused put), only the one     *)
(* whose _list.remove or pop_back took the node out may delete it.        *)
FreedOnce == \A n \in NodeIds : frees[n] <= 1

(* Every call returns: no thread spins forever on a bucket lock.           *)
CallsReturn == \A t \in Threads : pc[t] /= "idle" ~> pc[t] = "idle"

=============================================================================
