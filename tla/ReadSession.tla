----------------------------- MODULE ReadSession -----------------------------
(***************************************************************************)
(* One Socket's in-flight calls: the send path of Session (session.cpp),   *)
(* the reactor's read path and reclaim sweep (socket.cpp), the timeout     *)
(* task run by the timer thread, and the notify-vs-reclaim protocol of     *)
(* SocketReadSession (socket.h) that ties them together.                   *)
(*                                                                         *)
(* Actors: one caller thread per element of Calls, running               *)
(* Session::sync or Session::async with its retry loop; the reactor thread *)
(* that owns the socket's fd; the timer thread.  A ReadSession is the      *)
(* object `new SocketReadSession' of one attempt, named <<call, attempt>>. *)
(* Time is abstract: a timeout task may fire at any moment after it was    *)
(* scheduled; EarlyDeadline says whether that moment may come before the   *)
(* caller has finished its own send path (a write slower than the timeout, *)
(* or a preempted caller).                                                 *)
(***************************************************************************)
EXTENDS Integers, Sequences, SequencesExt, FiniteSets, LifeCycleLock

CONSTANTS
    Calls,          \* caller threads, one call each
    Mode,           \* Mode[c] \in {"sync", "async"}
    MaxAttempts,    \* max(1, _retry) of sendInternalWithRetry
    QCap,           \* capacity of the MPSC queue _session_info
    Protocol,       \* "bolt" (frames carry the request id) or "http"
    WriteMayFail,   \* Socket::write may return false
    EarlyDeadline,  \* a deadline may pass before the caller's send path ends
    NoRS            \* no ReadSession

RS == Calls \X (1 .. MaxAttempts)

ASSUME /\ Mode \in [Calls -> {"sync", "async"}]
       /\ MaxAttempts \in Nat \ {0}
       /\ QCap \in Nat \ {0}
       /\ Protocol \in {"bolt", "http"}
       /\ WriteMayFail \in BOOLEAN /\ EarlyDeadline \in BOOLEAN
       /\ NoRS \notin RS

Errors == {"OK", "SOCKET_LOST", "ASSEMBLE_REQUEST_FAIL", "SOCKET_BUSY",
           "TIMER_BUSY", "WRITE_FAIL", "READ_TIMEOUT", "PARSE_RESPONSE_FAIL"}

VARIABLES
    \* caller threads (Session)
    pc,        \* where each caller is in sendInternalWithRetry
    att,       \* current attempt number
    err,       \* Session::_error_code
    cbMoved,   \* the async callback has been moved out of Session::async
    cbCalls,   \* history: error codes the user callback was invoked with
    threw,     \* history: an empty (moved-from) callback was invoked
    \* ReadSessions
    st,        \* "none", "live" or "freed"
    lk,        \* SocketReadSession::owners
    hasCb,     \* SocketReadSession::callback is non-empty
    timer,     \* timeout task: "none", "armed", "firing", "cancelled", "fired"
    promise,   \* SocketReadSession::result: "unset" or an error code
    wins,      \* history: successful notify() calls
    \* socket
    queue,     \* Socket::_session_info (MPSC queue)
    smap,      \* Socket::_session_map, owned by the reactor
    wire,      \* requests written and not yet answered, in write order
    answered,  \* history: requests the server has answered
    \* reactor and timer thread
    rpc, rcur, \* reactor: step of notify() and the ReadSession it works on
    tpc, tcur, \* timer thread: step of the timeout task and its ReadSession
    \* history
    uaf        \* some thread touched a freed ReadSession

callerVars  == <<pc, att, err, cbMoved, threw>>
rsVars      == <<st, lk, hasCb, timer, promise, wins>>
socketVars  == <<queue, smap, wire, answered>>
reactorVars == <<rpc, rcur>>
timerVars   == <<tpc, tcur>>
vars == <<callerVars, cbCalls, rsVars, socketVars, reactorVars, timerVars,
          uaf>>

Cur(c) == <<c, att[c]>>

(* Every access to a SocketReadSession's memory goes through Touch.        *)
Touch(r) == uaf' = (uaf \/ st[r] = "freed")

(* SocketReadSession::postProcess: parse_response_fn may fail on OK.       *)
PostProcess(e) == IF e = "OK" THEN {"OK", "PARSE_RESPONSE_FAIL"} ELSE {e}

(* End of one sendInternal; sendInternalWithRetry stops on OK or timeout.  *)
EndAttempt(c, e) ==
    /\ err' = [err EXCEPT ![c] = e]
    /\ IF e \in {"OK", "READ_TIMEOUT"} \/ att[c] = MaxAttempts
       THEN /\ pc' = [pc EXCEPT ![c] = "returned"]
            /\ att' = att
       ELSE /\ pc' = [pc EXCEPT ![c] = "attempt"]
            /\ att' = [att EXCEPT ![c] = @ + 1]

-----------------------------------------------------------------------------
(* Caller thread: Session::sendInternal.                                   *)

(* getSocket fails, or assemble_request_fn fails: nothing allocated.       *)
SocketLost(c) ==
    /\ pc[c] = "attempt"
    /\ EndAttempt(c, "SOCKET_LOST")
    /\ UNCHANGED <<cbMoved, threw, cbCalls, rsVars, socketVars, reactorVars,
                   timerVars, uaf>>

AssembleFail(c) ==
    /\ pc[c] = "attempt"
    /\ EndAttempt(c, "ASSEMBLE_REQUEST_FAIL")
    /\ UNCHANGED <<cbMoved, threw, cbCalls, rsVars, socketVars, reactorVars,
                   timerVars, uaf>>

(* new SocketReadSession: the callback is std::move'd into it, the timer's *)
(* share is taken, and it is pushed to _session_info; a full queue deletes *)
(* it again (SOCKET_BUSY).                                                 *)
NewReadSession(c) ==
    LET r == Cur(c) IN
    /\ pc[c] = "attempt"
    /\ hasCb' = [hasCb EXCEPT ![r] = Mode[c] = "async" /\ ~cbMoved[c]]
    /\ cbMoved' = [cbMoved EXCEPT ![c] = @ \/ Mode[c] = "async"]
    /\ IF Len(queue) < QCap
       THEN /\ queue' = Append(queue, r)
            /\ st' = [st EXCEPT ![r] = "live"]
            /\ lk' = [lk EXCEPT ![r] = TryShared(Free).lock]
            /\ pc' = [pc EXCEPT ![c] = "posted"]
            /\ UNCHANGED <<att, err>>
       ELSE /\ EndAttempt(c, "SOCKET_BUSY")
            /\ UNCHANGED <<queue, st, lk>>
    /\ UNCHANGED <<threw, cbCalls, timer, promise, wins, smap, wire, answered,
                   reactorVars, timerVars, uaf>>

(* addTimeschdule; a zero task id releases the timer's share (TIMER_BUSY). *)
ScheduleTimeout(c) ==
    LET r == Cur(c) IN
    /\ pc[c] = "posted"
    /\ Touch(r)
    /\ \/ /\ timer' = [timer EXCEPT ![r] = "armed"]
          /\ pc' = [pc EXCEPT ![c] = "scheduled"]
          /\ UNCHANGED <<att, err, lk>>
       \/ /\ lk' = [lk EXCEPT ![r] = ReleaseShared(@)]
          /\ EndAttempt(c, "TIMER_BUSY")
          /\ UNCHANGED timer
    /\ UNCHANGED <<cbMoved, threw, cbCalls, st, hasCb, promise, wins,
                   socketVars, reactorVars, timerVars>>

(* Socket::write, serialized by _write_mtx: the request reaches the wire,  *)
(* or write returns false.                                                 *)
WriteRequest(c) ==
    LET r == Cur(c) IN
    /\ pc[c] = "scheduled"
    /\ \/ /\ wire' = Append(wire, r)
          /\ pc' = [pc EXCEPT ![c] = "written"]
       \/ /\ WriteMayFail
          /\ pc' = [pc EXCEPT ![c] = "writefail"]
          /\ UNCHANGED wire
    /\ UNCHANGED <<att, err, cbMoved, threw, cbCalls, rsVars, queue, smap,
                   answered, reactorVars, timerVars, uaf>>

(* After a failed write: removeTimeschdule(session_info->timer_task_id)    *)
(* and release the timer's share.                                          *)
WriteFailCleanup(c) ==
    LET r == Cur(c) IN
    /\ pc[c] = "writefail"
    /\ Touch(r)
    /\ timer' = [timer EXCEPT ![r] = IF @ = "armed" THEN "cancelled" ELSE @]
    /\ lk' = [lk EXCEPT ![r] = ReleaseShared(@)]
    /\ EndAttempt(c, "WRITE_FAIL")
    /\ UNCHANGED <<cbMoved, threw, cbCalls, st, hasCb, promise, wins,
                   socketVars, reactorVars, timerVars>>

(* `if (!session_info->callback)': async attempts end here with OK.        *)
AfterWrite(c) ==
    LET r == Cur(c) IN
    /\ pc[c] = "written"
    /\ Touch(r)
    /\ IF hasCb[r]
       THEN EndAttempt(c, "OK")
       ELSE /\ pc' = [pc EXCEPT ![c] = "waiting"]
            /\ UNCHANGED <<att, err>>
    /\ UNCHANGED <<cbMoved, threw, cbCalls, rsVars, socketVars, reactorVars,
                   timerVars>>

(* Sync wait: result.get_future().get(), postProcess, release the share    *)
(* the notifier left for this thread.                                      *)
SyncWakeDoubleRelease(c) ==
    LET r == Cur(c) IN
    /\ pc[c] = "waiting"
    /\ promise[r] /= "unset"
    /\ Touch(r)
    /\ lk' = [lk EXCEPT ![r] = ReleaseShared(ReleaseShared(@))]
    /\ \E e \in PostProcess(promise[r]) : EndAttempt(c, e)
    /\ UNCHANGED <<cbMoved, threw, cbCalls, st, hasCb, timer, promise, wins,
                   socketVars, reactorVars, timerVars>>

SyncWake(c) ==
    LET r == Cur(c) IN
    /\ pc[c] = "waiting"
    /\ promise[r] /= "unset"
    /\ Touch(r)
    /\ lk' = [lk EXCEPT ![r] = ReleaseShared(@)]
    /\ \E e \in PostProcess(promise[r]) : EndAttempt(c, e)
    /\ UNCHANGED <<cbMoved, threw, cbCalls, st, hasCb, timer, promise, wins,
                   socketVars, reactorVars, timerVars>>

(* Session::async: `if (failed()) callback(_error_code, _response)' on the *)
(* std::function that sendInternal has already moved from.                 *)
ReturnToUser(c) ==
    /\ pc[c] = "returned"
    /\ pc' = [pc EXCEPT ![c] = "done"]
    /\ IF Mode[c] = "async" /\ err[c] /= "OK"
       THEN IF cbMoved[c]
            THEN /\ threw' = [threw EXCEPT ![c] = TRUE]
                 /\ UNCHANGED cbCalls
            ELSE /\ cbCalls' = [cbCalls EXCEPT ![c] = Append(@, err[c])]
                 /\ UNCHANGED threw
       ELSE UNCHANGED <<threw, cbCalls>>
    /\ UNCHANGED <<att, err, cbMoved, rsVars, socketVars, reactorVars,
                   timerVars, uaf>>

-----------------------------------------------------------------------------
(* Reactor thread: Socket::onRead / cutIntoMessage / tryReclaimSessionMap. *)

(* Which map entry a frame answering q is handed to: Bolt looks q up by    *)
(* id; HTTP takes _session_map.begin() of an unordered_map, i.e. any one.  *)
LookupTargets(q, m) ==
    IF Protocol = "http" THEN m ELSE m \cap {q}

(* Frames the server may send next: HTTP answers in request order.         *)
NextFrames == IF Protocol = "http" THEN {1} ELSE DOMAIN wire

(* One frame is cut: drain _session_info into the map, find the session,   *)
(* cut the bytes into its read_buf and start notify(SESSION_OK) with       *)
(* tryShared.  A frame with no session is popped and dropped.              *)
OnFrame ==
    /\ rpc = "idle"
    /\ wire /= <<>>
    /\ \E i \in NextFrames :
        LET q == wire[i]
            m == smap \cup ToSet(queue)
        IN /\ wire' = RemoveAt(wire, i)
           /\ answered' = answered \cup {q}
           /\ queue' = <<>>
           /\ smap' = m
           /\ IF LookupTargets(q, m) = {}
              THEN UNCHANGED <<lk, rpc, rcur, uaf>>
              ELSE \E t \in LookupTargets(q, m) :
                     LET res == TryShared(lk[t]) IN
                     /\ Touch(t)
                     /\ lk' = [lk EXCEPT ![t] = res.lock]
                     /\ rpc' = IF res.ok THEN "shared" ELSE "idle"
                     /\ rcur' = t
    /\ UNCHANGED <<callerVars, cbCalls, st, hasCb, timer, promise, wins,
                   timerVars>>

(* notify: tryUpgradeNonReEntrant; the loser releases its share; the sync  *)
(* winner sets the promise and keeps its share for the waiting thread.     *)
ReactorUpgrade ==
    LET t == rcur
        res == TryUpgradeNonReEntrant(lk[t])
    IN
    /\ rpc = "shared"
    /\ Touch(t)
    /\ IF ~res.ok
       THEN /\ lk' = [lk EXCEPT ![t] = ReleaseShared(res.lock)]
            /\ rpc' = "idle"
            /\ UNCHANGED <<wins, promise>>
       ELSE /\ lk' = [lk EXCEPT ![t] = res.lock]
            /\ wins' = [wins EXCEPT ![t] = @ + 1]
            /\ IF hasCb[t]
               THEN /\ rpc' = "callback"
                    /\ UNCHANGED promise
               ELSE /\ promise' = [promise EXCEPT ![t] = "OK"]
                    /\ rpc' = "idle"
    /\ UNCHANGED <<callerVars, cbCalls, st, hasCb, timer, socketVars, rcur,
                   timerVars>>

(* Async winner: postProcess, callback(err, response), releaseShared.      *)
ReactorCallback ==
    LET t == rcur IN
    /\ rpc = "callback"
    /\ Touch(t)
    /\ \E e \in PostProcess("OK") :
          cbCalls' = [cbCalls EXCEPT ![t[1]] = Append(@, e)]
    /\ lk' = [lk EXCEPT ![t] = ReleaseShared(@)]
    /\ rpc' = "idle"
    /\ UNCHANGED <<callerVars, st, hasCb, timer, promise, wins, socketVars,
                   rcur, timerVars>>

(* tryReclaimSessionMap: owners.tryExclusive() succeeds only on a word     *)
(* that is exactly UPGRADED; then delete and erase from the map.           *)
Reclaim(r) ==
    LET res == TryExclusive(lk[r]) IN
    /\ rpc = "idle"
    /\ r \in smap
    /\ res.ok
    /\ lk' = [lk EXCEPT ![r] = res.lock]
    /\ st' = [st EXCEPT ![r] = "freed"]
    /\ smap' = smap \ {r}
    /\ UNCHANGED <<callerVars, cbCalls, hasCb, timer, promise, wins, queue,
                   wire, answered, reactorVars, timerVars, uaf>>

-----------------------------------------------------------------------------
(* Timer thread: the lambda scheduled by sendInternal.                     *)

DeadlineMayPass(r) ==
    \/ EarlyDeadline
    \/ ~(pc[r[1]] \in {"scheduled", "written", "writefail"} /\ att[r[1]] = r[2])

(* The task is still in _active_ids: run it; notify starts with tryShared. *)
TimerFireReleaseOnly(r) ==
    /\ tpc = "idle"
    /\ timer[r] = "armed"
    /\ DeadlineMayPass(r)
    /\ Touch(r)
    /\ timer' = [timer EXCEPT ![r] = "firing"]
    /\ tpc' = "release"
    /\ tcur' = r
    /\ UNCHANGED <<callerVars, cbCalls, st, lk, hasCb, promise, wins,
                   socketVars, reactorVars>>

TimerFire(r) ==
    LET res == TryShared(lk[r]) IN
    /\ tpc = "idle"
    /\ timer[r] = "armed"
    /\ DeadlineMayPass(r)
    /\ Touch(r)
    /\ timer' = [timer EXCEPT ![r] = "firing"]
    /\ lk' = [lk EXCEPT ![r] = res.lock]
    /\ tpc' = IF res.ok THEN "shared" ELSE "release"
    /\ tcur' = r
    /\ UNCHANGED <<callerVars, cbCalls, st, hasCb, promise, wins, socketVars,
                   reactorVars>>

TimerUpgrade ==
    LET r == tcur
        res == TryUpgradeNonReEntrant(lk[r])
    IN
    /\ tpc = "shared"
    /\ Touch(r)
    /\ IF ~res.ok
       THEN /\ lk' = [lk EXCEPT ![r] = ReleaseShared(res.lock)]
            /\ tpc' = "release"
            /\ UNCHANGED <<wins, promise>>
       ELSE /\ lk' = [lk EXCEPT ![r] = res.lock]
            /\ wins' = [wins EXCEPT ![r] = @ + 1]
            /\ IF hasCb[r]
               THEN /\ tpc' = "callback"
                    /\ UNCHANGED promise
               ELSE /\ promise' = [promise EXCEPT ![r] = "READ_TIMEOUT"]
                    /\ tpc' = "release"
    /\ UNCHANGED <<callerVars, cbCalls, st, hasCb, timer, socketVars,
                   reactorVars, tcur>>

TimerCallback ==
    LET r == tcur IN
    /\ tpc = "callback"
    /\ Touch(r)
    /\ cbCalls' = [cbCalls EXCEPT ![r[1]] = Append(@, "READ_TIMEOUT")]
    /\ lk' = [lk EXCEPT ![r] = ReleaseShared(@)]
    /\ tpc' = "release"
    /\ UNCHANGED <<callerVars, st, hasCb, timer, promise, wins, socketVars,
                   reactorVars, tcur>>

(* session_info->owners.releaseShared(): the share taken at creation.      *)
TimerRelease ==
    LET r == tcur IN
    /\ tpc = "release"
    /\ Touch(r)
    /\ lk' = [lk EXCEPT ![r] = ReleaseShared(@)]
    /\ timer' = [timer EXCEPT ![r] = "fired"]
    /\ tpc' = "idle"
    /\ UNCHANGED <<callerVars, cbCalls, st, hasCb, promise, wins, socketVars,
                   reactorVars, tcur>>

-----------------------------------------------------------------------------

Init ==
    /\ pc = [c \in Calls |-> "attempt"]
    /\ att = [c \in Calls |-> 1]
    /\ err = [c \in Calls |-> "OK"]
    /\ cbMoved = [c \in Calls |-> FALSE]
    /\ cbCalls = [c \in Calls |-> <<>>]
    /\ threw = [c \in Calls |-> FALSE]
    /\ st = [r \in RS |-> "none"]
    /\ lk = [r \in RS |-> Free]
    /\ hasCb = [r \in RS |-> FALSE]
    /\ timer = [r \in RS |-> "none"]
    /\ promise = [r \in RS |-> "unset"]
    /\ wins = [r \in RS |-> 0]
    /\ queue = <<>>
    /\ smap = {}
    /\ wire = <<>>
    /\ answered = {}
    /\ rpc = "idle" /\ rcur = NoRS
    /\ tpc = "idle" /\ tcur = NoRS
    /\ uaf = FALSE

(* Every caller has returned: the program may stop here.                   *)
Finished ==
    /\ \A c \in Calls : pc[c] = "done"
    /\ UNCHANGED vars

Caller(c) ==
    \/ SocketLost(c) \/ AssembleFail(c) \/ NewReadSession(c)
    \/ ScheduleTimeout(c) \/ WriteRequest(c) \/ WriteFailCleanup(c)
    \/ AfterWrite(c) \/ SyncWake(c) \/ ReturnToUser(c)

Reactor == OnFrame \/ ReactorUpgrade \/ ReactorCallback \/ \E r \in RS : Reclaim(r)

TimerThread ==
    \/ \E r \in RS : TimerFire(r)
    \/ TimerUpgrade \/ TimerCallback \/ TimerRelease

Next ==
    \/ \E c \in Calls : Caller(c)
    \/ Reactor
    \/ TimerThread
    \/ Finished

(* A caller inside sendInternal runs to its end; the reactor finishes a    *)
(* notify it started; the timer thread runs every task whose deadline has  *)
(* passed.  The server is not fair: it may never answer.                   *)
Fairness ==
    /\ \A c \in Calls : WF_vars(Caller(c))
    /\ WF_vars(ReactorUpgrade \/ ReactorCallback)
    /\ WF_vars(TimerThread)

Spec == Init /\ [][Next]_vars /\ Fairness

-----------------------------------------------------------------------------
(* Properties.                                                             *)

TypeOK ==
    /\ pc \in [Calls -> {"attempt", "posted", "scheduled", "written",
                         "writefail", "waiting", "returned", "done"}]
    /\ att \in [Calls -> 1 .. MaxAttempts]
    /\ err \in [Calls -> Errors]
    /\ cbMoved \in [Calls -> BOOLEAN] /\ threw \in [Calls -> BOOLEAN]
    /\ \A c \in Calls : cbCalls[c] \in Seq(Errors)
    /\ st \in [RS -> {"none", "live", "freed"}]
    /\ lk \in [RS -> [sh : 0 .. 3, up : BOOLEAN, ex : BOOLEAN]]
    /\ timer \in [RS -> {"none", "armed", "firing", "cancelled", "fired"}]
    /\ promise \in [RS -> Errors \cup {"unset"}]
    /\ ToSet(queue) \subseteq RS /\ smap \subseteq RS /\ ToSet(wire) \subseteq RS
    /\ rpc \in {"idle", "shared", "callback"} /\ rcur \in RS \cup {NoRS}
    /\ tpc \in {"idle", "shared", "callback", "release"} /\ tcur \in RS \cup {NoRS}

(* At-most-once completion (SocketReadSession::notify): of the reactor,    *)
(* on a frame, and the timer thread, on the deadline, at most one call of  *)
(* notify ever wins for a ReadSession.                                     *)
AtMostOnceNotify == \A r \in RS : wins[r] <= 1

(* No use after free: no caller, reactor or timer step ever reads or       *)
(* writes a SocketReadSession after tryReclaimSessionMap deleted it.       *)
NoUseAfterFree == ~uaf

(* A sync caller blocked in result.get_future().get() is woken.            *)
SyncCallReturns == \A c \in Calls : pc[c] = "waiting" ~> pc[c] /= "waiting"

=============================================================================
