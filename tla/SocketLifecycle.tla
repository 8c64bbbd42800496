-------------------------- MODULE SocketLifecycle --------------------------
(***************************************************************************)
(* The life of a Socket between a Channel, the reactor threads and the     *)
(* SocketManager thread.                                                   *)
(*                                                                         *)
(*  - Channel::getSocketInternal (src/channel/channel.cpp), run by user    *)
(*    threads under the channel's LifeCycleLock: hand out the current      *)
(*    socket while it is active, otherwise surrender it (releaseExclusive  *)
(*    on the socket's _sharers) and tryConnect a new one, which the        *)
(*    channel holds exclusively.                                           *)
(*  - The reactors (Schedule::addScheduleInternal/removeSchedule routing,  *)
(*    Loop::loop_once): epoll_wait returns a batch of ready events, which  *)
(*    are then dispatched one by one.                                      *)
(*  - SocketManager::watchConnections, one tick per second: take every     *)
(*    watched socket it can make exclusive (the channel has surrendered    *)
(*    it), disconnect it, and clear its _on_read closure only after a      *)
(*    one-shot wakeup on reactor cur_idx has been acknowledged; then send  *)
(*    heartbeats.                                                          *)
(*                                                                         *)
(* A socket is identified by its fd, as the code does for its reactor      *)
(* (fd % N); the kernel hands out the lowest free fd.  Status: "none" (no  *)
(* Socket object holds the fd), "ok", "init" (reset by a SHORT channel),   *)
(* "fail" (any error status), "timeout" (connect timed out).              *)
(***************************************************************************)
EXTENDS Integers, FiniteSets, FiniteSetsExt, LifeCycleLock

CONSTANTS
    Threads,     \* user threads calling Channel::getSocket
    FDs,         \* fds the sockets of the channel may get
    NR,          \* Schedule::scheduleThreadSize(), the reactor threads
    RFd,         \* SocketManager::_reclaim_fd[1]
    Short,       \* CONNECTION_TYPE_SHORT (else SINGLE)
    MayTimeOut,  \* a reactor may take longer than the 500 ms reclaim wait
    None

Reactors == 0 .. NR - 1

(* Schedule::addScheduleInternal / removeSchedule: reactor idx % N when    *)
(* idx > 0, else fd % N.                                                   *)
Route(fd, idx) == IF idx > 0 THEN idx % NR ELSE fd % NR

(* Registered epoll interests: a socket's read handler, a pending connect  *)
(* handler, and the reclaim wakeup for index i.                            *)
ReadEv(f) == <<"read", f>>
ConnEv(f) == <<"conn", f>>
WakeEv(i) == <<"wake", i>>
Events == {ReadEv(f) : f \in FDs} \cup {ConnEv(f) : f \in FDs}
          \cup {WakeEv(i) : i \in Reactors}

VARIABLES
    chLock,    \* Channel::_lock
    chSocket,  \* Channel::_socket
    tpc,       \* user thread's position in getSocketInternal
    got,       \* socket a user thread holds (the session's shared_ptr)
    status,    \* Socket::_status, per fd
    own,       \* Socket::_sharers, per fd
    onRead,    \* Socket::_on_read is set (it holds `self')
    connCb,    \* Socket::_connection.on_connection is set (it holds `self')
    reg,       \* per reactor: registered interests
    batch,     \* per reactor: events epoll_wait returned, not yet dispatched
    mpc,       \* manager: "sleep", "collect", "barrier", "wait", "heartbeat"
    list,      \* SocketManager::_list
    todo,      \* sockets of _list the collect loop has not visited yet
    hbs,       \* the local `sockets' kept for heartbeat
    rlist,     \* SocketManager::_reclaim_list
    counter,   \* _reclaim_counter % N
    cur,       \* cur_idx of this tick
    flag       \* _reclaim_notify_flag

chanVars == <<chLock, chSocket, tpc, got>>
sockVars == <<status, own, onRead, connCb>>
loopVars == <<reg, batch>>
mgrVars == <<mpc, list, todo, hbs, rlist, counter, cur, flag>>
vars == <<chanVars, sockVars, loopVars, mgrVars>>

Active(f) == f /= None /\ status[f] = "ok"

Register(r, e) == reg' = [reg EXCEPT ![r] = @ \cup {e}]

-----------------------------------------------------------------------------
(* Channel::getSocketInternal, run by thread t.                            *)

(* LifeCycleShareGuard: tryShared on the channel lock; on failure another  *)
(* thread is reconnecting and getSocket returns false.                     *)
TryShare(t) ==
    /\ tpc[t] = "idle" /\ got[t] = None
    /\ LET r == TryShared(chLock)
       IN  /\ chLock' = r.lock
           /\ tpc' = [tpc EXCEPT ![t] = IF r.ok THEN "shared" ELSE "idle"]
    /\ UNCHANGED <<chSocket, got, sockVars, loopVars, mgrVars>>

(* A check that reconnects without looking at the socket's status.         *)
CheckIgnoringStatus(t) ==
    /\ tpc[t] = "shared"
    /\ tpc' = [tpc EXCEPT ![t] = "upgrade"]
    /\ UNCHANGED <<chLock, chSocket, got, sockVars, loopVars, mgrVars>>

(* Lines 160-178: a SHORT channel sets the socket's status to INIT, then   *)
(* the socket is handed out if it is active.                               *)
Check(t) ==
    /\ tpc[t] = "shared"
    /\ status' = IF Short /\ chSocket /= None
                 THEN [status EXCEPT ![chSocket] = "init"] ELSE status
    /\ tpc' = [tpc EXCEPT ![t] = IF Short \/ ~Active(chSocket)
                                 THEN "upgrade" ELSE "copy"]
    /\ UNCHANGED <<chLock, chSocket, got, own, onRead, connCb,
                   loopVars, mgrVars>>

(* A hand-out that releases the share itself as well as in the guard.      *)
CopyReleasingTwice(t) ==
    /\ tpc[t] = "copy"
    /\ got' = [got EXCEPT ![t] = chSocket]
    /\ chLock' = ReleaseShared(ReleaseShared(chLock))
    /\ tpc' = [tpc EXCEPT ![t] = "idle"]
    /\ UNCHANGED <<chSocket, sockVars, loopVars, mgrVars>>

(* socket = _socket; return true, releasing the share.                     *)
Copy(t) ==
    /\ tpc[t] = "copy"
    /\ got' = [got EXCEPT ![t] = chSocket]
    /\ chLock' = ReleaseShared(chLock)
    /\ tpc' = [tpc EXCEPT ![t] = "idle"]
    /\ UNCHANGED <<chSocket, sockVars, loopVars, mgrVars>>

(* Lines 184-188: tryUpgradeNonReEntrant; the guard releases the share.    *)
Upgrade(t) ==
    /\ tpc[t] = "upgrade"
    /\ LET r == TryUpgradeNonReEntrant(chLock)
       IN  /\ chLock' = ReleaseShared(r.lock)
           /\ tpc' = [tpc EXCEPT ![t] = IF r.ok THEN "exclusive" ELSE "idle"]
    /\ UNCHANGED <<chSocket, got, sockVars, loopVars, mgrVars>>

(* _lock->exclusive(): spin until no share is held.                        *)
Exclusive(t) ==
    /\ tpc[t] = "exclusive"
    /\ LET r == TryExclusive(chLock)
       IN  /\ r.ok
           /\ chLock' = r.lock
    /\ tpc' = [tpc EXCEPT ![t] = "surrender"]
    /\ UNCHANGED <<chSocket, got, sockVars, loopVars, mgrVars>>

(* Lines 194-196: surrender the old socket to the SocketManager.           *)
Surrender(t) ==
    /\ tpc[t] = "surrender"
    /\ own' = IF chSocket /= None
              THEN [own EXCEPT ![chSocket] = ReleaseExclusive(@)] ELSE own
    /\ tpc' = [tpc EXCEPT ![t] = "connect"]
    /\ UNCHANGED <<chLock, chSocket, got, status, onRead, connCb,
                   loopVars, mgrVars>>

(* Socket::connect (socket.cpp 49-121) of a new Socket on fd f:           *)
(*  - "fail": connect error, no POLLOUT registration, or not connected;    *)
(*  - "timeout": the promise wait times out; status CONNECT_TIMEOUT, and   *)
(*    on_connection, which holds `self', stays registered for POLLOUT;     *)
(*  - "ok": _on_read (holding `self') is registered for POLLIN on reactor  *)
(*    fd % N, addWatch appends to _list under _mtx, status OK.             *)
SocketConnect(t, f, o) ==
    CASE o = "fail" ->
            /\ chSocket' = None
            /\ UNCHANGED <<got, sockVars, reg, list>>
      [] o = "timeout" ->
            /\ chSocket' = None
            /\ status' = [status EXCEPT ![f] = "timeout"]
            /\ connCb' = [connCb EXCEPT ![f] = TRUE]
            /\ Register(Route(f, -1), ConnEv(f))
            /\ UNCHANGED <<got, own, onRead, list>>
      [] o = "ok" ->
            /\ mpc /= "collect"
            /\ chSocket' = f
            /\ got' = [got EXCEPT ![t] = f]
            /\ status' = [status EXCEPT ![f] = "ok"]
            /\ own' = [own EXCEPT ![f] = [sh |-> 0, up |-> FALSE, ex |-> TRUE]]
            /\ onRead' = [onRead EXCEPT ![f] = TRUE]
            /\ Register(Route(f, -1), ReadEv(f))
            /\ list' = list \cup {f}
            /\ UNCHANGED connCb

(* Channel::tryConnect, then the channel lock's releaseExclusive (lines    *)
(* 198-229).  The new Socket gets the lowest free fd and is made exclusive *)
(* at once (tryUpgrade && tryExclusive on a fresh word always succeeds);   *)
(* on failure it is released and reset, so only a timed-out connect        *)
(* leaves something behind: its on_connection closure.  No free fd is a    *)
(* failed connect.                                                         *)
Connect(t, o) ==
    /\ tpc[t] = "connect"
    /\ LET free == {f \in FDs : status[f] = "none"}
       IN  IF free = {} THEN o = "fail" /\ SocketConnect(t, None, "fail")
                        ELSE SocketConnect(t, Min(free), o)
    /\ chLock' = ReleaseExclusive(chLock)
    /\ tpc' = [tpc EXCEPT ![t] = "idle"]
    /\ UNCHANGED <<batch, mpc, todo, hbs, rlist, counter, cur, flag>>

(* The session that used the socket ends and drops its shared_ptr.        *)
Done(t) ==
    /\ got[t] /= None
    /\ got' = [got EXCEPT ![t] = None]
    /\ UNCHANGED <<chLock, chSocket, tpc, sockVars, loopVars, mgrVars>>

-----------------------------------------------------------------------------
(* The reactors, Loop::loop_once.                                          *)

(* epoll_wait returns the ready registered events: a reclaim wakeup is     *)
(* ready as soon as it is added (the pipe is writable); read and connect   *)
(* readiness come from the network.                                       *)
EpollWait(r) ==
    /\ batch[r] = {}
    /\ \E x \in SUBSET {e \in reg[r] : e[1] /= "wake"} :
          LET b == {e \in reg[r] : e[1] = "wake"} \cup x
          IN  /\ b /= {}
              /\ batch' = [batch EXCEPT ![r] = b]
    /\ UNCHANGED <<chanVars, sockVars, reg, mgrVars>>

(* Dispatch Socket::_on_read: Socket::onRead reads while the socket is     *)
(* active and may find the connection closed or broken.                    *)
DispatchRead(r, f) ==
    /\ ReadEv(f) \in batch[r]
    /\ batch' = [batch EXCEPT ![r] = @ \ {ReadEv(f)}]
    /\ \/ status[f] = "ok" /\ status' = [status EXCEPT ![f] = "fail"]
       \/ UNCHANGED status
    /\ UNCHANGED <<chanVars, own, onRead, connCb, reg, mgrVars>>

(* Dispatch _connection.on_connection after a timed-out connect: it        *)
(* removes its POLLOUT interest and sets the abandoned promise.            *)
DispatchConn(r, f) ==
    /\ ConnEv(f) \in batch[r]
    /\ batch' = [batch EXCEPT ![r] = @ \ {ConnEv(f)}]
    /\ reg' = [reg EXCEPT ![Route(f, -1)] = @ \ {ConnEv(f)}]
    /\ UNCHANGED <<chanVars, sockVars, mgrVars>>

(* Dispatch SocketManager::_on_reclaim[i] (socket_manager.cpp 31-37): set  *)
(* the flag, remove the wakeup fd from reactor Route(fd, i), notify.       *)
DispatchWake(r, i) ==
    /\ WakeEv(i) \in batch[r]
    /\ batch' = [batch EXCEPT ![r] = @ \ {WakeEv(i)}]
    /\ flag' = [flag EXCEPT ![i] = TRUE]
    /\ reg' = [reg EXCEPT ![Route(RFd, i)] = {e \in @ : e[1] /= "wake"}]
    /\ UNCHANGED <<chanVars, sockVars, mpc, list, todo, hbs, rlist,
                   counter, cur>>

-----------------------------------------------------------------------------
(* SocketManager::watchConnections, one tick.                              *)

(* Sleep one second, then take _mtx and walk _list.                        *)
MBegin ==
    /\ mpc = "sleep"
    /\ todo' = list /\ hbs' = {}
    /\ mpc' = "collect"
    /\ UNCHANGED <<chanVars, sockVars, loopVars, list, rlist, counter,
                   cur, flag>>

(* Lines 96-108 for one socket: Socket::tryExclusive (tryUpgrade, then     *)
(* tryExclusive); on success disconnect it (remove its read interest) and  *)
(* move it to _reclaim_list, else keep it for the heartbeat.              *)
MCollect(f) ==
    /\ mpc = "collect" /\ f \in todo
    /\ todo' = todo \ {f}
    /\ LET u == TryUpgrade(own[f])
           x == TryExclusive(u.lock)
       IN  IF u.ok /\ x.ok
           THEN /\ own' = [own EXCEPT ![f] = x.lock]
                /\ reg' = [reg EXCEPT ![Route(f, -1)] = @ \ {ReadEv(f)}]
                /\ rlist' = rlist \cup {f}
                /\ list' = list \ {f}
                /\ UNCHANGED hbs
           ELSE /\ own' = [own EXCEPT ![f] = u.lock]
                /\ hbs' = hbs \cup {f}
                /\ UNCHANGED <<reg, rlist, list>>
    /\ UNCHANGED <<chanVars, status, onRead, connCb, batch, mpc, counter,
                   cur, flag>>

(* A barrier that never moves on to the next reactor.                      *)
MBarrierNoAdvance ==
    /\ mpc = "collect" /\ todo = {}
    /\ rlist /= {}
    /\ cur' = counter
    /\ flag' = [flag EXCEPT ![counter] = FALSE]
    /\ LET target == Route(RFd, counter)
       IN  IF \E e \in reg[target] : e[1] = "wake"
           THEN UNCHANGED reg
           ELSE Register(target, WakeEv(counter))
    /\ mpc' = "wait"
    /\ UNCHANGED <<chanVars, sockVars, batch, list, todo, hbs, rlist,
                   counter>>

(* Lines 113-127: with a non-empty _reclaim_list, pick cur_idx, clear its  *)
(* flag and addSchedule the wakeup fd with idx cur_idx; epoll_ctl ADD of   *)
(* an fd already registered on that reactor fails, and the result is not   *)
(* checked.                                                                *)
MBarrier ==
    /\ mpc = "collect" /\ todo = {}
    /\ rlist /= {}
    /\ cur' = counter
    /\ counter' = (counter + 1) % NR
    /\ flag' = [flag EXCEPT ![counter] = FALSE]
    /\ LET target == Route(RFd, counter)
       IN  IF \E e \in reg[target] : e[1] = "wake"
           THEN UNCHANGED reg
           ELSE Register(target, WakeEv(counter))
    /\ mpc' = "wait"
    /\ UNCHANGED <<chanVars, sockVars, batch, list, todo, hbs, rlist>>

(* An empty _reclaim_list: straight to the heartbeats.                     *)
MNoReclaim ==
    /\ mpc = "collect" /\ todo = {}
    /\ rlist = {}
    /\ mpc' = "heartbeat"
    /\ UNCHANGED <<chanVars, sockVars, loopVars, list, todo, hbs, rlist,
                   counter, cur, flag>>

(* Lines 132-143: wait_for returned true (the flag was set): clear the     *)
(* _on_read closure of every reclaimed socket with fd % N = cur_idx and    *)
(* drop it from the list.                                                  *)
MAcked ==
    /\ mpc = "wait" /\ flag[cur]
    /\ LET done == {f \in rlist : f % NR = cur}
       IN  /\ onRead' = [f \in FDs |-> onRead[f] /\ f \notin done]
           /\ rlist' = rlist \ done
    /\ mpc' = "heartbeat"
    /\ UNCHANGED <<chanVars, status, own, connCb, loopVars, list, todo,
                   hbs, counter, cur, flag>>

(* wait_for gave up after 500 ms with the flag still false.                *)
MTimeout ==
    /\ MayTimeOut
    /\ mpc = "wait" /\ ~flag[cur]
    /\ mpc' = "heartbeat"
    /\ UNCHANGED <<chanVars, sockVars, loopVars, list, todo, hbs, rlist,
                   counter, cur, flag>>

(* Lines 147-180: an idle active socket gets a synchronous heartbeat; one  *)
(* that fails marks the socket CONNECT_FAIL.  Then the local `sockets'     *)
(* vector is dropped.                                                      *)
MHeartbeat ==
    /\ mpc = "heartbeat"
    /\ \E failed \in SUBSET {f \in hbs : status[f] = "ok"} :
          status' = [f \in FDs |-> IF f \in failed THEN "fail" ELSE status[f]]
    /\ hbs' = {}
    /\ mpc' = "sleep"
    /\ UNCHANGED <<chanVars, own, onRead, connCb, loopVars, list, todo,
                   rlist, counter, cur, flag>>

-----------------------------------------------------------------------------
(* ~Socket: the last shared_ptr to the socket is gone, the fd is closed.   *)
Referenced(f) ==
    \/ f = chSocket \/ \E t \in Threads : got[t] = f
    \/ f \in list \cup rlist \cup hbs
    \/ onRead[f] \/ connCb[f]

Destroy(f) ==
    /\ status[f] /= "none" /\ ~Referenced(f)
    /\ status' = [status EXCEPT ![f] = "none"]
    /\ own' = [own EXCEPT ![f] = Free]
    /\ UNCHANGED <<chanVars, onRead, connCb, loopVars, mgrVars>>

-----------------------------------------------------------------------------
Init ==
    /\ chLock = Free /\ chSocket = None
    /\ tpc = [t \in Threads |-> "idle"]
    /\ got = [t \in Threads |-> None]
    /\ status = [f \in FDs |-> "none"]
    /\ own = [f \in FDs |-> Free]
    /\ onRead = [f \in FDs |-> FALSE]
    /\ connCb = [f \in FDs |-> FALSE]
    /\ reg = [r \in Reactors |-> {}]
    /\ batch = [r \in Reactors |-> {}]
    /\ mpc = "sleep" /\ list = {} /\ todo = {} /\ hbs = {} /\ rlist = {}
    /\ counter = 0 /\ cur = 0
    /\ flag = [i \in Reactors |-> FALSE]

Channel(t) ==
    \/ TryShare(t) \/ Check(t) \/ Copy(t) \/ Upgrade(t) \/ Exclusive(t)
    \/ Surrender(t) \/ (\E o \in {"ok", "fail", "timeout"} : Connect(t, o))
    \/ Done(t)

Reactor(r) ==
    \/ EpollWait(r)
    \/ \E f \in FDs : DispatchRead(r, f) \/ DispatchConn(r, f)
    \/ \E i \in Reactors : DispatchWake(r, i)

Manager ==
    \/ MBegin \/ (\E f \in FDs : MCollect(f)) \/ MBarrier \/ MNoReclaim
    \/ MAcked \/ MTimeout \/ MHeartbeat

Next ==
    \/ \E t \in Threads : Channel(t)
    \/ \E r \in Reactors : Reactor(r)
    \/ Manager
    \/ \E f \in FDs : Destroy(f)

(* User threads run getSocketInternal to its end once they have called it; *)
(* a reactor dispatches what epoll returned and reports a pending wakeup;  *)
(* the manager thread keeps ticking.  Calling getSocket, ending a session, *)
(* network readiness and failures are not forced.                         *)
WakeReported(r) == EpollWait(r) /\ \E i \in Reactors : WakeEv(i) \in batch'[r]

Fairness ==
    /\ \A t \in Threads :
          WF_vars(Check(t) \/ Copy(t) \/ Upgrade(t) \/ Exclusive(t)
                  \/ Surrender(t) \/ \E o \in {"ok", "fail", "timeout"} : Connect(t, o))
    /\ \A r \in Reactors :
          /\ WF_vars(\E f \in FDs : DispatchRead(r, f) \/ DispatchConn(r, f))
          /\ WF_vars(\E i \in Reactors : DispatchWake(r, i))
          /\ WF_vars(WakeReported(r))
    /\ WF_vars(Manager)

Spec == Init /\ [][Next]_vars /\ Fairness

-----------------------------------------------------------------------------
(* Properties.                                                             *)

TypeOK ==
    /\ tpc \in [Threads -> {"idle", "shared", "copy", "upgrade", "exclusive",
                            "surrender", "connect"}]
    /\ got \in [Threads -> FDs \cup {None}]
    /\ status \in [FDs -> {"none", "ok", "init", "fail", "timeout"}]
    /\ mpc \in {"sleep", "collect", "wait", "heartbeat"}
    /\ \A r \in Reactors : reg[r] \cup batch[r] \subseteq Events
    /\ counter \in Reactors /\ cur \in Reactors
    \* every releaseShared of the channel lock matches a successful tryShared
    /\ chLock \in [sh : Nat, up : BOOLEAN, ex : BOOLEAN]

(* The reclaim barrier (socket_manager.cpp 112-143): a read event that a   *)
(* reactor may still dispatch (registered, or returned by epoll_wait and   *)
(* not yet dispatched) always finds the socket's _on_read closure set;     *)
(* otherwise Loop::loop_once calls an empty or destroyed std::function.    *)
NoHandlerAfterReclaim ==
    \A r \in Reactors, f \in FDs :
        ReadEv(f) \in reg[r] \cup batch[r] => onRead[f]

(* Spec section 3: a socket with status OK is owned by its channel (the    *)
(* EXCLUSIVE claim taken in tryConnect), watched by the SocketManager and  *)
(* registered for reading with its reactor fd % N.                         *)
OkSocketWatched ==
    \A f \in FDs :
        status[f] = "ok" =>
            /\ own[f].ex
            /\ f \in list
            /\ ReadEv(f) \in reg[Route(f, -1)]

(* getSocketInternal hands a socket to a session only while the channel    *)
(* still owns it, so the SocketManager cannot have started reclaiming it   *)
(* (the channel lock keeps a reconnect away from a thread that found the   *)
(* socket active).                                                         *)
HandsOutOwned ==
    [][\A t \in Threads :
          got'[t] /= None /\ got'[t] /= got[t] => own'[got'[t]].ex]_vars

Surrendered(f) == f \in list /\ ~own[f].ex
Reclaimed(f) == f \notin list \cup rlist /\ ~onRead[f]

(* Spec 8.5, reclamation liveness: a socket the channel has surrendered is *)
(* disconnected and its _on_read closure released, unless the reclaim      *)
(* wait times out for ever.                                                *)
ReclaimEventually ==
    \/ []<><<MTimeout>>_vars
    \/ \A f \in FDs : Surrendered(f) ~> Reclaimed(f)
====
