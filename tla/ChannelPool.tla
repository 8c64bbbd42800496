----------------------------- MODULE ChannelPool -----------------------------
(***************************************************************************)
(* The pooled Channel of src/src/channel/channel.cpp                       *)
(* (CONNECTION_TYPE_POOLED).                                               *)
(*                                                                         *)
(* init() makes PoolSize SubChannels, each a Channel with its own socket,  *)
(* an atomic `shared_num' (threads bound to it) and an atomic `is_active'. *)
(* Each user thread keeps a thread-local ThreadLocalSubChannel whose `idx' *)
(* names its sub channel (-1: none).  getSubSocketInternal first tries its *)
(* own sub channel; when that fails it marks it inactive and unbinds, then *)
(* scans the active sub channels for the least shared_num (all inactive:   *)
(* a random one) and binds with a CAS on shared_num, scanning again when   *)
(* the CAS fails; then it tries the new sub channel, unbinding on failure. *)
(* The thread-local destructor unbinds a thread that ends.                 *)
(*                                                                         *)
(* A sub channel's getSocketInternal is abstracted to what it returns:     *)
(* the socket when it is active; false while another thread holds the     *)
(* channel lock to reconnect; otherwise this thread takes the lock and     *)
(* reconnects, which may fail.  SocketLifecycle models that function and   *)
(* its LifeCycleLock step by step.                                         *)
(***************************************************************************)
EXTENDS Integers, FiniteSets

CONSTANTS
    Threads,    \* user threads calling Channel::getSocket
    PoolSize,   \* _options.pool_size
    None        \* no thread holds a sub channel's lock

ASSUME PoolSize \in Nat \ {0} /\ None \notin Threads

Slots == 0 .. PoolSize - 1

(* std::numeric_limits<size_t>::max(), above any shared_num.               *)
Inf == Cardinality(Threads) + 1

VARIABLES
    shared,     \* _sub_channels[k]->shared_num
    active,     \* _sub_channels[k]->is_active
    up,         \* the sub channel's socket is active() (status OK)
    holder,     \* thread holding sub channel k's lock to reconnect, or None
    idx,        \* thread-local sub_channel->idx
    pc,         \* step of getSubSocketInternal
    i,          \* scan position
    best,       \* most_idle_sub_channel
    minus,      \* minus_shared_num
    res         \* what the thread's last getSocket returned

vars == <<shared, active, up, holder, idx, pc, i, best, minus, res>>

(* init() with pool_size sub channels whose tryConnect all succeeded:     *)
(* shared_num 0, is_active true.  No thread has its thread-local yet.      *)
Init ==
    /\ shared = [k \in Slots |-> 0]
    /\ active = [k \in Slots |-> TRUE]
    /\ up = [k \in Slots |-> TRUE]
    /\ holder = [k \in Slots |-> None]
    /\ idx = [t \in Threads |-> -1]
    /\ pc = [t \in Threads |-> "idle"]
    /\ i = [t \in Threads |-> 0]
    /\ best = [t \in Threads |-> 0]
    /\ minus = [t \in Threads |-> Inf]
    /\ res = [t \in Threads |-> "none"]
-----------------------------------------------------------------------------
(* Channel::getSocketInternal on sub channel k by thread t, as far as its   *)
(* caller sees it: "ok" when the socket is active, "busy" when the share   *)
(* fails because another thread holds the lock, "reconnect" when t wins    *)
(* tryUpgradeNonReEntrant and goes on to tryConnect.                        *)
GetSocketInternal(k) ==
    CASE holder[k] # None -> "busy"
      [] up[k]            -> "ok"
      [] OTHER            -> "reconnect"

(* Enter the scan loop with fresh locals.                                   *)
StartScan(t) ==
    /\ pc' = [pc EXCEPT ![t] = "scan"]
    /\ i' = [i EXCEPT ![t] = 0]
    /\ best' = [best EXCEPT ![t] = 0]
    /\ minus' = [minus EXCEPT ![t] = Inf]

(* Mutant: the unbind's fetch_sub is missing.                              *)
FirstFailNoDecrement(t) ==
    LET k == idx[t] IN
    /\ active' = [active EXCEPT ![k] = FALSE]
    /\ UNCHANGED shared
    /\ StartScan(t)

(* Mutant: sub_channel->idx is not reset to -1 after the unbind.           *)
SecondFailKeepIdx(t) ==
    LET k == idx[t] IN
    /\ active' = [active EXCEPT ![k] = FALSE]
    /\ shared' = [shared EXCEPT ![k] = @ - 1]
    /\ UNCHANGED idx
    /\ pc' = [pc EXCEPT ![t] = "idle"]
    /\ res' = [res EXCEPT ![t] = "fail"]

(* The first getSocketInternal failed: is_active = false and               *)
(* shared_num.fetch_sub(1) on the thread's sub channel, then the loop.     *)
FirstFail(t) ==
    LET k == idx[t] IN
    /\ active' = [active EXCEPT ![k] = FALSE]
    /\ shared' = [shared EXCEPT ![k] = @ - 1]
    /\ StartScan(t)

(* The second getSocketInternal failed: is_active = false, fetch_sub and   *)
(* idx = -1; getSubSocketInternal returns false.                            *)
SecondFail(t) ==
    LET k == idx[t] IN
    /\ active' = [active EXCEPT ![k] = FALSE]
    /\ shared' = [shared EXCEPT ![k] = @ - 1]
    /\ idx' = [idx EXCEPT ![t] = -1]
    /\ pc' = [pc EXCEPT ![t] = "idle"]
    /\ res' = [res EXCEPT ![t] = "fail"]

(* getSocket: pthread_getspecific (a new thread-local has idx -1), then    *)
(* the thread's own sub channel when it has one.                            *)
Call(t) ==
    /\ pc[t] = "idle"
    /\ IF idx[t] < 0
       THEN /\ StartScan(t)
            /\ UNCHANGED <<shared, active, holder, res>>
       ELSE CASE GetSocketInternal(idx[t]) = "ok" ->
                   /\ res' = [res EXCEPT ![t] = "ok"]
                   /\ UNCHANGED <<shared, active, holder, pc, i, best, minus>>
              [] GetSocketInternal(idx[t]) = "busy" ->
                   /\ FirstFail(t)
                   /\ UNCHANGED <<holder, res>>
              [] OTHER ->
                   /\ holder' = [holder EXCEPT ![idx[t]] = t]
                   /\ pc' = [pc EXCEPT ![t] = "reconnect1"]
                   /\ UNCHANGED <<shared, active, i, best, minus, res>>
    /\ UNCHANGED <<up, idx>>

(* One iteration of the for loop over _sub_channels: skip the thread's     *)
(* current idx and inactive ones, keep the least shared_num.               *)
Scan(t) ==
    /\ pc[t] = "scan"
    /\ i[t] < PoolSize
    /\ LET k == i[t] IN
       IF idx[t] # k /\ active[k] /\ shared[k] < minus[t]
       THEN /\ minus' = [minus EXCEPT ![t] = shared[k]]
            /\ best' = [best EXCEPT ![t] = k]
       ELSE UNCHANGED <<minus, best>>
    /\ i' = [i EXCEPT ![t] = @ + 1]
    /\ UNCHANGED <<shared, active, up, holder, idx, pc, res>>

(* After the loop: nothing active gives rd() % size and a fresh load of    *)
(* its shared_num; then sub_channel->idx = most_idle_sub_channel.          *)
ScanEnd(t) ==
    /\ pc[t] = "scan"
    /\ i[t] = PoolSize
    /\ IF minus[t] = Inf
       THEN \E r \in Slots :
               /\ best' = [best EXCEPT ![t] = r]
               /\ minus' = [minus EXCEPT ![t] = shared[r]]
               /\ idx' = [idx EXCEPT ![t] = r]
       ELSE /\ idx' = [idx EXCEPT ![t] = best[t]]
            /\ UNCHANGED <<best, minus>>
    /\ pc' = [pc EXCEPT ![t] = "cas"]
    /\ UNCHANGED <<shared, active, up, holder, i, res>>

(* compare_exchange_strong(minus_shared_num, minus_shared_num + 1): bound, *)
(* or back to the top of while (true).                                      *)
Cas(t) ==
    /\ pc[t] = "cas"
    /\ IF shared[idx[t]] = minus[t]
       THEN /\ shared' = [shared EXCEPT ![idx[t]] = @ + 1]
            /\ pc' = [pc EXCEPT ![t] = "second"]
            /\ UNCHANGED <<i, best, minus>>
       ELSE /\ StartScan(t)
            /\ UNCHANGED shared
    /\ UNCHANGED <<active, up, holder, idx, res>>

(* getSocketInternal on the new sub channel: on success is_active = true.  *)
Second(t) ==
    /\ pc[t] = "second"
    /\ LET k == idx[t] IN
       CASE GetSocketInternal(k) = "ok" ->
              /\ active' = [active EXCEPT ![k] = TRUE]
              /\ pc' = [pc EXCEPT ![t] = "idle"]
              /\ res' = [res EXCEPT ![t] = "ok"]
              /\ UNCHANGED <<shared, holder, idx>>
         [] GetSocketInternal(k) = "busy" ->
              /\ SecondFail(t)
              /\ UNCHANGED holder
         [] OTHER ->
              /\ holder' = [holder EXCEPT ![k] = t]
              /\ pc' = [pc EXCEPT ![t] = "reconnect2"]
              /\ UNCHANGED <<shared, active, idx, res>>
    /\ UNCHANGED <<up, i, best, minus>>

(* The lock holder's tryConnect, then releaseExclusive.  Success returns   *)
(* the new socket from getSocketInternal; failure returns false.           *)
Reconnect(t) ==
    /\ pc[t] \in {"reconnect1", "reconnect2"}
    /\ LET k == idx[t] IN
       \E ok \in BOOLEAN :
          /\ up' = [up EXCEPT ![k] = ok]
          /\ holder' = [holder EXCEPT ![k] = None]
          /\ IF ok
             THEN /\ active' = IF pc[t] = "reconnect2"
                               THEN [active EXCEPT ![k] = TRUE] ELSE active
                  /\ pc' = [pc EXCEPT ![t] = "idle"]
                  /\ res' = [res EXCEPT ![t] = "ok"]
                  /\ UNCHANGED <<shared, idx, i, best, minus>>
             ELSE IF pc[t] = "reconnect1"
                  THEN /\ FirstFail(t)
                       /\ UNCHANGED <<idx, res>>
                  ELSE /\ SecondFail(t)
                       /\ UNCHANGED <<i, best, minus>>

(* The thread ends: deleteThreadLocalSubChannel unbinds it.  Another       *)
(* thread may take its place with a fresh thread-local.                     *)
ThreadExit(t) ==
    /\ pc[t] = "idle"
    /\ idx[t] >= 0
    /\ shared' = [shared EXCEPT ![idx[t]] = @ - 1]
    /\ idx' = [idx EXCEPT ![t] = -1]
    /\ res' = [res EXCEPT ![t] = "none"]
    /\ UNCHANGED <<active, up, holder, pc, i, best, minus>>

(* A read or write error sets the socket's status (Socket::setStatus).     *)
SocketError(k) ==
    /\ up[k]
    /\ up' = [up EXCEPT ![k] = FALSE]
    /\ UNCHANGED <<shared, active, holder, idx, pc, i, best, minus, res>>

Next ==
    \/ \E t \in Threads :
          \/ Call(t) \/ Scan(t) \/ ScanEnd(t) \/ Cas(t) \/ Second(t)
          \/ Reconnect(t) \/ ThreadExit(t)
    \/ \E k \in Slots : SocketError(k)

Spec == Init /\ [][Next]_vars
-----------------------------------------------------------------------------
TypeOK ==
    /\ shared \in [Slots -> 0 .. Cardinality(Threads)]
    /\ active \in [Slots -> BOOLEAN] /\ up \in [Slots -> BOOLEAN]
    /\ holder \in [Slots -> Threads \cup {None}]
    /\ idx \in [Threads -> {-1} \cup Slots]
    /\ pc \in [Threads -> {"idle", "reconnect1", "scan", "cas", "second",
                           "reconnect2"}]
    /\ i \in [Threads -> 0 .. PoolSize] /\ best \in [Threads -> Slots]
    /\ minus \in [Threads -> 0 .. Inf]
    /\ res \in [Threads -> {"none", "ok", "fail"}]

(* The sub channel whose shared_num counts thread t: its idx, except while *)
(* it is between unbinding and the CAS that binds it again.                 *)
Bound(t) == IF pc[t] \in {"scan", "cas"} THEN -1 ELSE idx[t]

(* Every sub channel's shared_num is the number of threads bound to it:    *)
(* the unbind on each failure, the CAS and the thread-local destructor     *)
(* keep the count exact, so the least-loaded choice is made on true loads  *)
(* and no size_t count wraps below zero.                                    *)
CountsExact ==
    \A k \in Slots : shared[k] = Cardinality({t \in Threads : Bound(t) = k})
=============================================================================
