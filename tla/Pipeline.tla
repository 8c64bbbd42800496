------------------------------ MODULE Pipeline ------------------------------
(***************************************************************************)
(* PipelineSession::sync of src/src/session/session.cpp.                   *)
(*                                                                         *)
(* One user thread sends every pipe()d request through Session::async on   *)
(* the same Session and then waits on a promise.  Each leg's callback      *)
(* stores its error in status[i] and runs `++info->received_size'; the     *)
(* callback that brings the count to total_size sets the promise.          *)
(* received_size is a plain size_t, and the callbacks run in three         *)
(* threads:                                                                *)
(*   - the pipeline thread itself, when sendInternalWithRetry fails before *)
(*     the callback is moved into a SocketReadSession (SOCKET_LOST,        *)
(*     ASSEMBLE_REQUEST_FAIL): Session::async calls it inline;             *)
(*   - the reactor, when the response arrives (SocketReadSession::notify,  *)
(*     postProcess gives SESSION_OK or PARSE_RESPONSE_FAIL);               *)
(*   - the timer thread, when the leg's timeout fires first (READ_TIMEOUT).*)
(* The notify CAS lets exactly one of reactor and timer run a sent leg's   *)
(* callback.  The increment is a load and a store, so two callbacks in     *)
(* different threads can lose one.                                         *)
(*                                                                         *)
(* Failures after the callback was moved (SOCKET_BUSY, TIMER_BUSY,         *)
(* WRITE_FAIL) call a moved-from std::function; ReadSession models those.  *)
(***************************************************************************)
EXTENDS Integers, FiniteSets

CONSTANTS
    MaxLegs,          \* bound on _requests.size()
    SessionTimeout,   \* the value given to PipelineSession::timeout, or Unset
    ChannelTimeout    \* channel._options.timeout_ms

(* Session() : _timeout(-1): no timeout() call was made.                    *)
Unset == -1

ASSUME MaxLegs \in Nat \ {0} /\ SessionTimeout \in Int /\ ChannelTimeout \in Int

(* Session::to(Channel&): a negative _timeout takes the channel's.          *)
Timeout == IF SessionTimeout < 0 THEN ChannelTimeout ELSE SessionTimeout

(* sendInternalWithRetry ends before the callback is moved.                 *)
EarlyErrors == {"SOCKET_LOST", "ASSEMBLE_REQUEST_FAIL"}

(* notify from onRead after postProcess, and from the timeout lambda.       *)
ReactorErrors == {"SESSION_OK", "PARSE_RESPONSE_FAIL"}
TimerErrors   == {"READ_TIMEOUT"}

Errors == {"SESSION_OK", "PROTOCOL_NOT_FOUND", "READ_FAIL"}
              \cup EarlyErrors \cup ReactorErrors \cup TimerErrors

Threads == {"pipeline", "reactor", "timer"}
NoLeg == 0

VARIABLES
    total,      \* _requests.size() (info->total_size)
    channel,    \* _channel != nullptr
    pc,         \* the pipeline thread's step of sync()
    i,          \* the loop index of the leg being sent
    errcode,    \* _session._error_code
    status,     \* info->status
    received,   \* info->received_size
    promise,    \* info->promise has a value
    sent,       \* legs whose callback waits in a SocketReadSession
    th,         \* per thread: the leg whose callback it runs, the value loaded
    done        \* history: legs whose callback has returned

vars == <<total, channel, pc, i, errcode, status, received, promise, sent, th,
          done>>

(* PipelineSession::pipe appends to _requests: legs 1..total.               *)
Leg == 1 .. total

Idle == [leg |-> NoLeg, v |-> 0]

Init ==
    /\ total \in 0 .. MaxLegs
    /\ channel \in BOOLEAN
    /\ pc = "sync"
    /\ i = 1
    /\ errcode = "SESSION_OK"
    /\ status = [l \in 1 .. MaxLegs |-> "SESSION_OK"]
    /\ received = 0
    /\ promise = FALSE
    /\ sent = {}
    /\ th = [t \in Threads |-> Idle]
    /\ done = {}
-----------------------------------------------------------------------------
(* sync(): an empty pipeline returns at once; no channel gives            *)
(* PROTOCOL_NOT_FOUND; otherwise info is made with every status OK.        *)
SyncStart ==
    /\ pc = "sync"
    /\ \/ total = 0 /\ pc' = "done" /\ UNCHANGED errcode
       \/ total > 0 /\ ~channel /\ errcode' = "PROTOCOL_NOT_FOUND" /\ pc' = "done"
       \/ total > 0 /\ channel /\ pc' = "issue" /\ UNCHANGED errcode
    /\ UNCHANGED <<total, channel, i, status, received, promise, sent, th, done>>

(* The callback's first half: `info->status[i] = err' and the load of      *)
(* received_size for the increment.                                         *)
Begin(t, l, e) ==
    /\ status' = [status EXCEPT ![l] = e]
    /\ th' = [th EXCEPT ![t] = [leg |-> l, v |-> received]]

(* The callback's second half: the store of the incremented value, and     *)
(* set_value when it equals total_size.                                     *)
Finish(t) ==
    /\ th[t].leg # NoLeg
    /\ received' = th[t].v + 1
    /\ promise' = (promise \/ th[t].v + 1 = total)
    /\ done' = done \cup {th[t].leg}
    /\ th' = [th EXCEPT ![t] = Idle]

(* Mutant: the loop runs while i <= _requests.size() + 1.                   *)
IssueOffByOne ==
    /\ pc = "issue"
    /\ \/ \E e \in EarlyErrors :
            /\ errcode' = e
            /\ Begin("pipeline", i, e)
            /\ pc' = "inline"
            /\ UNCHANGED <<i, sent>>
       \/ /\ errcode' = "SESSION_OK"
          /\ sent' = sent \cup {i}
          /\ i' = i + 1
          /\ pc' = IF i = total + 1 THEN "wait" ELSE "issue"
          /\ UNCHANGED <<status, th>>
    /\ UNCHANGED <<total, channel, received, promise, done>>

(* Leg i: reset, send, to(channel), receiveTo, async.  The send either     *)
(* fails early, and async runs the callback inline, or moves the callback  *)
(* into a SocketReadSession and returns.                                    *)
Issue ==
    /\ pc = "issue"
    /\ \/ \E e \in EarlyErrors :
            /\ errcode' = e
            /\ Begin("pipeline", i, e)
            /\ pc' = "inline"
            /\ UNCHANGED <<i, sent>>
       \/ /\ errcode' = "SESSION_OK"
          /\ sent' = sent \cup {i}
          /\ i' = i + 1
          /\ pc' = IF i = total THEN "wait" ELSE "issue"
          /\ UNCHANGED <<status, th>>
    /\ UNCHANGED <<total, channel, received, promise, done>>

(* The inline callback ends and async returns to the loop.                  *)
InlineFinish ==
    /\ pc = "inline"
    /\ Finish("pipeline")
    /\ i' = i + 1
    /\ pc' = IF i = total THEN "wait" ELSE "issue"
    /\ UNCHANGED <<total, channel, errcode, status, sent>>

(* SocketReadSession::notify: the reactor (response parsed) or the timer   *)
(* (deadline passed; only when _timeout > 0 set a finite expire_time) wins *)
(* the leg and starts its callback.                                         *)
Deliver(t, l) ==
    /\ t \in {"reactor", "timer"}
    /\ th[t] = Idle
    /\ l \in sent
    /\ t = "timer" => Timeout > 0
    /\ sent' = sent \ {l}
    /\ \E e \in IF t = "reactor" THEN ReactorErrors ELSE TimerErrors :
            Begin(t, l, e)
    /\ UNCHANGED <<total, channel, pc, i, errcode, received, promise, done>>

CallbackFinish(t) ==
    /\ t \in {"reactor", "timer"}
    /\ Finish(t)
    /\ UNCHANGED <<total, channel, pc, i, errcode, status, sent>>

(* wait_for(_timeout) when _timeout > 0, wait() otherwise.                  *)
Wait ==
    /\ pc = "wait"
    /\ \/ promise /\ pc' = "check" /\ UNCHANGED errcode
       \/ Timeout > 0 /\ ~promise /\ errcode' = "READ_FAIL" /\ pc' = "done"
    /\ UNCHANGED <<total, channel, i, status, received, promise, sent, th, done>>

(* Mutant: the status loop stops before the last leg.                       *)
CheckSkipLast ==
    /\ pc = "check"
    /\ errcode' = IF \E l \in 1 .. total - 1 : status[l] # "SESSION_OK"
                  THEN "READ_FAIL" ELSE errcode
    /\ pc' = "done"
    /\ UNCHANGED <<total, channel, i, status, received, promise, sent, th, done>>

(* Any leg whose status is not SESSION_OK makes the pipeline READ_FAIL.     *)
Check ==
    /\ pc = "check"
    /\ errcode' = IF \E l \in Leg : status[l] # "SESSION_OK"
                  THEN "READ_FAIL" ELSE errcode
    /\ pc' = "done"
    /\ UNCHANGED <<total, channel, i, status, received, promise, sent, th, done>>

Pipeline == SyncStart \/ Issue \/ InlineFinish \/ Wait \/ Check

Next ==
    \/ Pipeline
    \/ \E t \in Threads, l \in 1 .. MaxLegs : Deliver(t, l)
    \/ \E t \in Threads : CallbackFinish(t)

(* The pipeline thread runs; the server answers every request and the      *)
(* reactor reads it; wait_for returns when its time is up.                  *)
Fairness ==
    /\ WF_vars(Pipeline)
    /\ \A l \in 1 .. MaxLegs : WF_vars(Deliver("reactor", l))
    /\ \A t \in Threads : WF_vars(CallbackFinish(t))

Spec == Init /\ [][Next]_vars /\ Fairness
-----------------------------------------------------------------------------
TypeOK ==
    /\ total \in 0 .. MaxLegs /\ channel \in BOOLEAN
    /\ pc \in {"sync", "issue", "inline", "wait", "check", "done"}
    /\ i \in 1 .. MaxLegs + 1
    /\ errcode \in Errors
    /\ status \in [1 .. MaxLegs -> Errors]
    /\ received \in 0 .. MaxLegs /\ promise \in BOOLEAN
    /\ sent \subseteq Leg /\ done \subseteq Leg
    /\ th \in [Threads -> [leg : {NoLeg} \cup Leg, v : 0 .. MaxLegs]]

(* sync() reports success only when every leg's callback has returned and  *)
(* reported SESSION_OK: the caller may then read every response.            *)
OkOnlyIfAllOk ==
    pc = "done" /\ errcode = "SESSION_OK" =>
        \A l \in Leg : l \in done /\ status[l] = "SESSION_OK"

(* sync() returns: the promise is set or wait_for gives up.  With a        *)
(* positive timeout wait_for always gives up, so this says something only  *)
(* when _timeout <= 0 and wait() needs every increment to land.            *)
SyncReturns == <>(pc = "done")
=============================================================================
