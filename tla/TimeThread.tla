----------------------------- MODULE TimeThread -----------------------------
(***************************************************************************)
(* The timer service of src/src/schedule/time_thread.cpp.                  *)
(*                                                                         *)
(* Producer threads (the callers of Session) schedule timeout tasks with   *)
(* scheduleAbs and cancel them with unschedule.  Each producer owns a      *)
(* thread-local TaskContainer with two SPSC queues, `tasks' and            *)
(* `abandon_tasks'.  One loop thread runs loopOnce: it merges every        *)
(* container's queued tasks into a heap and `_active_ids', applies the     *)
(* queued cancellations, runs the due tasks that are still active, lowers  *)
(* `_nearest_run_time' to the heap head and sleeps on a condition          *)
(* variable until that time or until a producer lowers it.  destroy()      *)
(* stops the loop and runs every task that is still active.                *)
(*                                                                         *)
(* Time is a discrete clock `now'; a task is an id with an absolute time.  *)
(* The heap is the set of merged ids; its head is any id of least time     *)
(* (std::push_heap does not order equal times).                            *)
(***************************************************************************)
EXTENDS Integers, Sequences, SequencesExt, FiniteSets

CONSTANTS
    Producers,   \* threads that call scheduleAbs / unschedule
    MaxTasks,    \* bound on _timer_id: ids 1..MaxTasks
    MaxTime,     \* the clock runs over 0..MaxTime
    QCap         \* capacity of each SPSC queue (TASK_QUEUE_SIZE)

ASSUME MaxTasks \in Nat \ {0} /\ MaxTime \in Nat \ {0} /\ QCap \in Nat \ {0}

Ids == 1 .. MaxTasks
Times == 0 .. MaxTime
Inf == MaxTime + 1      \* std::numeric_limits<size_t>::max()

VARIABLES
    now,        \* the clock
    nearest,    \* _nearest_run_time
    nextId,     \* _timer_id
    exit,       \* _exit
    reg,        \* _containers, in registration order (one per producer)
    tq, aq,     \* per container: tasks and abandon_tasks (SPSC queues)
    absTime,    \* absolute time of each id handed out
    owner,      \* producer that scheduled each id
    ppc, pcur,  \* producer: step of scheduleAbs and the id it handles
    issued,     \* ids whose scheduleAbs returned them (non-zero)
    heap,       \* ids in *_tasks
    active,     \* _active_ids
    lpc,        \* loop thread: step of loopOnce
    li, lsize,  \* index of the container being merged; snapshot of size
    lw,         \* the value of _nearest_run_time the loop sleeps on
    destroyed,  \* destroy() has deleted the containers
    ran,        \* history: how many times each task's fn ran
    cancelled,  \* history: ids whose unschedule returned true
    late,       \* history: ids that ran after their unschedule returned
    crash       \* history: a null or freed container was dereferenced

vars == <<now, nearest, nextId, exit, reg, tq, aq, absTime, owner, ppc, pcur,
          issued, heap, active, lpc, li, lsize, lw, destroyed, ran,
          cancelled, late, crash>>

loopVars == <<heap, active, lpc, li, lsize, lw>>
histVars == <<ran, cancelled, late, crash>>

(* Run task id: its fn runs once more; a run after its cancellation is late. *)
RunTasks(S) ==
    /\ ran' = [i \in Ids |-> IF i \in S THEN ran[i] + 1 ELSE ran[i]]
    /\ late' = late \cup (S \cap cancelled)

(* The least absolute time of a set of ids, Inf for none.                  *)
Earliest(S) == IF S = {} THEN Inf ELSE Min({absTime[i] : i \in S})

-----------------------------------------------------------------------------
(* Producers: scheduleAbs and unschedule.                                  *)

(* getLocalTaskContainer: the calling thread's container, created and     *)
(* appended to _containers on first use.                                   *)
Register(p) == IF p \in ToSet(reg) THEN reg ELSE Append(reg, p)

(* scheduleAbs up to the push: the _exit checks (lines 147 and 334),       *)
(* getLocalTaskContainer registering the thread's container, and           *)
(* _timer_id.fetch_add.  A timeout is always in the future.                *)
ScheduleBegin(p) ==
    /\ ppc[p] = "idle"
    /\ nextId <= MaxTasks
    /\ ~exit
    /\ \E t \in (now + 1) .. MaxTime :
         absTime' = [absTime EXCEPT ![nextId] = t]
    /\ owner' = [owner EXCEPT ![nextId] = p]
    /\ reg' = Register(p)
    /\ pcur' = [pcur EXCEPT ![p] = nextId]
    /\ nextId' = nextId + 1
    /\ ppc' = [ppc EXCEPT ![p] = "got"]
    /\ UNCHANGED <<now, nearest, exit, tq, aq, issued, destroyed, loopVars,
                   histVars>>

(* A push that does not test for a full queue.                           *)
SchedulePushUnbounded(p) ==
    /\ ppc[p] = "got"
    /\ IF destroyed
       THEN /\ crash' = TRUE
            /\ ppc' = [ppc EXCEPT ![p] = "idle"]
            /\ UNCHANGED tq
       ELSE /\ tq' = [tq EXCEPT ![p] = Append(@, pcur[p])]
            /\ ppc' = [ppc EXCEPT ![p] = "pushed"]
            /\ UNCHANGED crash
    /\ UNCHANGED <<now, nearest, nextId, exit, reg, aq, absTime, owner, pcur,
                   issued, destroyed, loopVars, ran, cancelled, late>>

(* tasks.push: into a container destroy() has deleted, or returns 0 when   *)
(* the queue is full.                                                      *)
SchedulePush(p) ==
    /\ ppc[p] = "got"
    /\ IF destroyed
       THEN /\ crash' = TRUE
            /\ ppc' = [ppc EXCEPT ![p] = "idle"]
            /\ UNCHANGED tq
       ELSE IF Len(tq[p]) < QCap
            THEN /\ tq' = [tq EXCEPT ![p] = Append(@, pcur[p])]
                 /\ ppc' = [ppc EXCEPT ![p] = "pushed"]
                 /\ UNCHANGED crash
            ELSE /\ ppc' = [ppc EXCEPT ![p] = "idle"]
                 /\ UNCHANGED <<tq, crash>>
    /\ UNCHANGED <<now, nearest, nextId, exit, reg, aq, absTime, owner, pcur,
                   issued, destroyed, loopVars, ran, cancelled, late>>

(* The compare-exchange loop lowering _nearest_run_time (and the notify);  *)
(* scheduleAbs then returns the id.                                        *)
ScheduleNearest(p) ==
    LET t == absTime[pcur[p]] IN
    /\ ppc[p] = "pushed"
    /\ nearest' = IF t < nearest THEN t ELSE nearest
    /\ issued' = issued \cup {pcur[p]}
    /\ ppc' = [ppc EXCEPT ![p] = "idle"]
    /\ UNCHANGED <<now, nextId, exit, reg, tq, aq, absTime, owner, pcur,
                   destroyed, loopVars, histVars>>

(* unschedule: after _exit getLocalTaskContainer returns nullptr and the   *)
(* code dereferences it; otherwise abandon_tasks.push.                     *)
Unschedule(p, id) ==
    /\ ppc[p] = "idle"
    /\ id \in issued /\ owner[id] = p /\ id \notin cancelled
    /\ IF exit
       THEN /\ crash' = TRUE
            /\ UNCHANGED <<aq, cancelled>>
       ELSE /\ Len(aq[p]) < QCap
            /\ aq' = [aq EXCEPT ![p] = Append(@, id)]
            /\ cancelled' = cancelled \cup {id}
            /\ UNCHANGED crash
    /\ UNCHANGED <<now, nearest, nextId, exit, reg, tq, absTime, owner, ppc,
                   pcur, issued, destroyed, loopVars, ran, late>>

-----------------------------------------------------------------------------
(* The loop thread: loopOnce.                                              *)

(* `while (!_exit) loopOnce()'; loopOnce starts by exchanging              *)
(* _nearest_run_time for max (a failed exchange just loops again) and      *)
(* snapshots _containers.size().                                           *)
LoopBegin ==
    /\ lpc = "idle"
    /\ IF exit
       THEN /\ lpc' = "joined"
            /\ UNCHANGED <<nearest, li, lsize>>
       ELSE /\ nearest' = Inf
            /\ lsize' = Len(reg)
            /\ li' = 1
            /\ lpc' = "merge"
    /\ UNCHANGED <<now, nextId, exit, reg, tq, aq, absTime, owner, ppc, pcur,
                   issued, heap, active, lw, destroyed, histVars>>

(* Pop the tasks.size() tasks queued in container li into the heap and     *)
(* _active_ids.  The producer only appends, so taking every task queued    *)
(* now is taking the snapshot.                                             *)
MergeOffByOne ==
    LET p == reg[li]
        k == IF Len(tq[p]) > 0 THEN Len(tq[p]) - 1 ELSE 0
    IN
    /\ lpc = "merge" /\ li <= lsize
    /\ heap' = heap \cup ToSet(SubSeq(tq[p], 1, k))
    /\ active' = active \cup ToSet(SubSeq(tq[p], 1, k))
    /\ tq' = [tq EXCEPT ![p] = SubSeq(@, k + 1, Len(@))]
    /\ lpc' = "collect"
    /\ UNCHANGED <<now, nearest, nextId, exit, reg, aq, absTime, owner, ppc,
                   pcur, issued, li, lsize, lw, destroyed, histVars>>

Merge ==
    LET p == reg[li] IN
    /\ lpc = "merge" /\ li <= lsize
    /\ heap' = heap \cup ToSet(tq[p])
    /\ active' = active \cup ToSet(tq[p])
    /\ tq' = [tq EXCEPT ![p] = <<>>]
    /\ lpc' = "collect"
    /\ UNCHANGED <<now, nearest, nextId, exit, reg, aq, absTime, owner, ppc,
                   pcur, issued, li, lsize, lw, destroyed, histVars>>

(* collectUnschedule(container): pop the queued cancellations and erase    *)
(* their ids from _active_ids; an id not (yet) active is dropped.          *)
Collect ==
    LET p == reg[li] IN
    /\ lpc = "collect"
    /\ active' = active \ ToSet(aq[p])
    /\ aq' = [aq EXCEPT ![p] = <<>>]
    /\ li' = li + 1
    /\ lpc' = "merge"
    /\ UNCHANGED <<now, nearest, nextId, exit, reg, tq, absTime, owner, ppc,
                   pcur, issued, heap, lsize, lw, destroyed, histVars>>

MergeDone ==
    /\ lpc = "merge" /\ li > lsize
    /\ lpc' = "fire"
    /\ UNCHANGED <<now, nearest, nextId, exit, reg, tq, aq, absTime, owner,
                   ppc, pcur, issued, heap, active, li, lsize, lw, destroyed,
                   histVars>>

(* One turn of the firing loop on a due head: return if an earlier task    *)
(* was scheduled meanwhile; else pop it, collectUnschedule() over every    *)
(* container, and run it if it is still in _active_ids.                    *)
FireKeepHead ==
    /\ lpc = "fire"
    /\ heap /= {} /\ Earliest(heap) <= now
    /\ IF Earliest(heap) > nearest
       THEN /\ lpc' = "idle"
            /\ UNCHANGED <<aq, active, histVars>>
       ELSE \E h \in {i \in heap : absTime[i] = Earliest(heap)} :
              LET act == active \ UNION {ToSet(aq[p]) : p \in ToSet(reg)} IN
              /\ aq' = [p \in Producers |-> IF p \in ToSet(reg) THEN <<>> ELSE aq[p]]
              /\ RunTasks({h} \cap act)
              /\ active' = act
              /\ UNCHANGED <<lpc, crash, cancelled>>
    /\ UNCHANGED <<now, nearest, nextId, exit, reg, tq, heap, absTime, owner,
                   ppc, pcur, issued, li, lsize, lw, destroyed>>

Fire ==
    /\ lpc = "fire"
    /\ heap /= {} /\ Earliest(heap) <= now
    /\ IF Earliest(heap) > nearest
       THEN /\ lpc' = "idle"
            /\ UNCHANGED <<aq, heap, active, histVars>>
       ELSE \E h \in {i \in heap : absTime[i] = Earliest(heap)} :
              LET act == active \ UNION {ToSet(aq[p]) : p \in ToSet(reg)} IN
              /\ heap' = heap \ {h}
              /\ aq' = [p \in Producers |-> IF p \in ToSet(reg) THEN <<>> ELSE aq[p]]
              /\ RunTasks({h} \cap act)
              /\ active' = act \ {h}
              /\ UNCHANGED <<lpc, crash, cancelled>>
    /\ UNCHANGED <<now, nearest, nextId, exit, reg, tq, absTime, owner, ppc,
                   pcur, issued, li, lsize, lw, destroyed>>

(* No due head: lower _nearest_run_time to the heap head (compare-exchange *)
(* loop), return if that time has come, else sleep on it.                  *)
SettleKeepingNearest ==
    /\ lpc = "fire"
    /\ Earliest(heap) > now
    /\ IF nearest <= now
       THEN /\ lpc' = "idle" /\ UNCHANGED lw
       ELSE /\ lpc' = "wait" /\ lw' = nearest
    /\ UNCHANGED <<now, nearest, nextId, exit, reg, tq, aq, absTime, owner,
                   ppc, pcur, issued, heap, active, li, lsize, destroyed,
                   histVars>>

Settle ==
    LET nv == IF Earliest(heap) < nearest THEN Earliest(heap) ELSE nearest IN
    /\ lpc = "fire"
    /\ Earliest(heap) > now
    /\ nearest' = nv
    /\ IF nv <= now
       THEN /\ lpc' = "idle" /\ UNCHANGED lw
       ELSE /\ lpc' = "wait" /\ lw' = nv
    /\ UNCHANGED <<now, nextId, exit, reg, tq, aq, absTime, owner, ppc, pcur,
                   issued, heap, active, li, lsize, destroyed, histVars>>

(* _wake_cond.wait_for returns on _exit, on a changed _nearest_run_time,   *)
(* or when the time slept on has come.  Sleeping on max is bounded by an   *)
(* hour in the code, which is beyond every deadline of the model.          *)
WakeOnNotifyOnly ==
    /\ lpc = "wait"
    /\ exit \/ nearest /= lw
    /\ lpc' = "idle"
    /\ UNCHANGED <<now, nearest, nextId, exit, reg, tq, aq, absTime, owner,
                   ppc, pcur, issued, heap, active, li, lsize, lw, destroyed,
                   histVars>>

Wake ==
    /\ lpc = "wait"
    /\ exit \/ nearest /= lw \/ (lw /= Inf /\ now >= lw)
    /\ lpc' = "idle"
    /\ UNCHANGED <<now, nearest, nextId, exit, reg, tq, aq, absTime, owner,
                   ppc, pcur, issued, heap, active, li, lsize, lw, destroyed,
                   histVars>>

-----------------------------------------------------------------------------
(* Time and shutdown.                                                      *)

Tick ==
    /\ now < MaxTime
    /\ now' = now + 1
    /\ UNCHANGED <<nearest, nextId, exit, reg, tq, aq, absTime, owner, ppc,
                   pcur, issued, loopVars, destroyed, histVars>>

(* destroy(): set _exit and wake the loop ...                              *)
Exit ==
    /\ ~exit
    /\ exit' = TRUE
    /\ UNCHANGED <<now, nearest, nextId, reg, tq, aq, absTime, owner, ppc,
                   pcur, issued, loopVars, destroyed, histVars>>

(* ... join it, merge every container's tasks and cancellations, delete    *)
(* the containers, and run every task still active, due or not.            *)
Destroy ==
    LET queued == UNION {ToSet(tq[p]) : p \in ToSet(reg)}
        act == ((active \cup queued) \ UNION {ToSet(aq[p]) : p \in ToSet(reg)})
                  \cap (heap \cup queued)
    IN
    /\ exit /\ lpc = "joined" /\ ~destroyed
    /\ RunTasks(act)
    /\ active' = {}
    /\ heap' = heap \cup queued
    /\ tq' = [p \in Producers |-> <<>>]
    /\ aq' = [p \in Producers |-> <<>>]
    /\ destroyed' = TRUE
    /\ UNCHANGED <<now, nearest, nextId, exit, reg, absTime, owner, ppc, pcur,
                   issued, lpc, li, lsize, lw, crash, cancelled>>

-----------------------------------------------------------------------------

Init ==
    /\ now = 0
    /\ nearest = Inf
    /\ nextId = 1
    /\ exit = FALSE
    /\ reg = <<>>
    /\ tq = [p \in Producers |-> <<>>]
    /\ aq = [p \in Producers |-> <<>>]
    /\ absTime = [i \in Ids |-> 0]
    /\ owner = [i \in Ids |-> CHOOSE p \in Producers : TRUE]
    /\ ppc = [p \in Producers |-> "idle"]
    /\ pcur = [p \in Producers |-> 0]
    /\ issued = {}
    /\ heap = {} /\ active = {}
    /\ lpc = "idle" /\ li = 1 /\ lsize = 0 /\ lw = Inf
    /\ destroyed = FALSE
    /\ ran = [i \in Ids |-> 0]
    /\ cancelled = {} /\ late = {} /\ crash = FALSE

(* Nothing left to do: producers idle with no id left or after shutdown,   *)
(* the loop asleep with no timeout pending or gone.                        *)
Quiescent ==
    /\ \A p \in Producers : ppc[p] = "idle"
    /\ nextId > MaxTasks \/ exit
    /\ lpc \in {"wait", "joined"}
    /\ UNCHANGED vars

Producer(p) ==
    \/ ScheduleBegin(p) \/ SchedulePush(p) \/ ScheduleNearest(p)
    \/ \E id \in Ids : Unschedule(p, id)

Loop ==
    \/ LoopBegin \/ Merge \/ Collect \/ MergeDone \/ Fire \/ Settle \/ Wake

Next ==
    \/ \E p \in Producers : Producer(p)
    \/ Loop \/ Tick \/ Exit \/ Destroy
    \/ Quiescent

(* The loop thread and destroy() run whenever they can; time passes; a     *)
(* producer inside scheduleAbs finishes it.  Producers need not schedule   *)
(* or cancel anything, and nothing forces shutdown.                        *)
Fairness ==
    /\ WF_vars(Loop) /\ WF_vars(Tick) /\ WF_vars(Destroy)
    /\ \A p \in Producers : WF_vars(SchedulePush(p) \/ ScheduleNearest(p))

Spec == Init /\ [][Next]_vars /\ Fairness

-----------------------------------------------------------------------------
(* Properties.                                                             *)

TypeOK ==
    /\ now \in Times /\ nearest \in Times \cup {Inf}
    /\ nextId \in 1 .. MaxTasks + 1
    /\ reg \in Seq(Producers) /\ Len(reg) <= Cardinality(Producers)
    /\ \A p \in Producers : /\ ToSet(tq[p]) \subseteq Ids /\ Len(tq[p]) <= QCap
                           /\ ToSet(aq[p]) \subseteq Ids /\ Len(aq[p]) <= QCap
    /\ absTime \in [Ids -> Times] /\ owner \in [Ids -> Producers]
    /\ ppc \in [Producers -> {"idle", "got", "pushed"}]
    /\ heap \subseteq Ids /\ active \subseteq Ids /\ issued \subseteq Ids
    /\ lpc \in {"idle", "merge", "collect", "fire", "wait", "joined"}
    /\ lw \in Times \cup {Inf}
    /\ ran \in [Ids -> Nat]

(* Every id handed to a producer whose scheduleAbs has returned, and not   *)
(* yet run: queued in its container or merged into the heap.               *)
Pending ==
    (heap \cup UNION {ToSet(tq[p]) : p \in Producers})
      \ {pcur[p] : p \in {q \in Producers : ppc[q] /= "idle"}}

(* loopOnce never goes to sleep past a pending task: while the loop thread *)
(* waits and nobody has lowered _nearest_run_time since, the time it       *)
(* sleeps on is no later than the time of any task scheduled so far.       *)
NoOversleep ==
    (lpc = "wait" /\ nearest = lw) => \A i \in Pending : lw <= absTime[i]

(* A task's fn runs at most once: popped from the heap before it runs and  *)
(* erased from _active_ids after, also by destroy().                       *)
RunsAtMostOnce == \A i \in Ids : ran[i] <= 1

(* unschedule(id) returning true means the task will not run (Session      *)
(* relies on it after a failed write, session.cpp:182).                    *)
CancelledNeverRuns == late = {}

(* Every task scheduleAbs accepted eventually runs, unless cancelled.      *)
EveryTaskRuns ==
    \A i \in Ids : i \in issued ~> (ran[i] >= 1 \/ i \in cancelled)

=============================================================================
