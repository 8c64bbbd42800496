----------------------------- MODULE ThreadPool -----------------------------
(***************************************************************************)
(* ThreadPool of include/common/thread_pool.h with the SPMCQueue of        *)
(* include/common/lockfree_queue.h that each worker owns.                  *)
(*                                                                         *)
(* A submitting thread is paired (pthread key _paired_thread) with the     *)
(* first STANDBY worker and pushes its tasks into that worker's queue; a   *)
(* task that finds no worker or a full queue runs inline.  Workers drain   *)
(* their own queue, steal from the queues of the first _active_td_size     *)
(* workers, and otherwise wait on _td_wakeup with a predicate that uses    *)
(* the status they read at the top of their loop.  When a submitting       *)
(* thread exits, the key destructor marks its worker INACTIVE; the worker  *)
(* drains its queue and goes back to STANDBY.                              *)
(*                                                                         *)
(* Tasks are numbered 1..MaxTasks in submission order.  The destructor     *)
(* (~ThreadPool, _exit) is not modelled.                                   *)
(***************************************************************************)
EXTENDS Integers, FiniteSets, FiniteSetsExt

CONSTANTS
    W,          \* _td_capacity
    Submitters, \* threads calling submit
    QSize,      \* _queue_size of each SPMCQueue (a power of 2)
    MaxTasks,   \* tasks submitted in a behaviour
    MaxExits,   \* bound on the submitting threads that exit
    None

Workers == 0 .. W - 1
Tasks == 1 .. MaxTasks

-----------------------------------------------------------------------------
(* SPMCQueue, lines 115-159.  _read_idx and _write_idx only grow, so the   *)
(* compare-exchange loop of pop has no ABA: a failed CAS discards its copy *)
(* and the successful one is the pop's single linearization point.         *)
SPMCEmpty == [buf |-> [i \in 0 .. QSize - 1 |-> 0], r |-> 0, w |-> 0]

(* A push that does not test for a full queue.                           *)
SPMCPushIgnoringFull(qu, v) ==
    [ok |-> TRUE, q |-> [qu EXCEPT !.buf[qu.w % QSize] = v, !.w = qu.w + 1]]

(* push: full when write >= read + capacity, else store, then publish.     *)
SPMCPush(qu, v) ==
    IF qu.w >= qu.r + QSize
    THEN [ok |-> FALSE, q |-> qu]
    ELSE [ok |-> TRUE,
          q |-> [qu EXCEPT !.buf[qu.w % QSize] = v, !.w = qu.w + 1]]

(* pop: empty when read = write, else copy the slot and claim it.          *)
SPMCPop(qu) ==
    IF qu.r = qu.w
    THEN [ok |-> FALSE, val |-> 0, q |-> qu]
    ELSE [ok |-> TRUE, val |-> qu.buf[qu.r % QSize], q |-> [qu EXCEPT !.r = @ + 1]]

SPMCContents(qu) == {qu.buf[i % QSize] : i \in qu.r .. qu.w - 1}

-----------------------------------------------------------------------------
VARIABLES
    status,     \* SingleThread::status
    q,          \* SingleThread::tasks
    active,     \* _active_td_size
    needWakeup, \* _need_wakeup
    paired,     \* the pthread key of each submitting thread
    spc,        \* submitter: "idle", "wake" (inside submit), "exiting", "gone"
    next,       \* the next task to submit
    xtd,        \* submitter: the worker its key destructor was called on
    xexp,       \* submitter: the destructor's expected status
    wpc,        \* worker: "top", "consume", "steal", "wait", "blocked", "woken"
    snap,       \* worker: the status it read at the top of its loop
    ranCount    \* history: how often each task has run

workerVars == <<wpc, snap>>
vars == <<status, q, active, needWakeup, paired, spc, next, xtd, xexp, wpc, snap,
          ranCount>>
exitVars == <<xtd, xexp>>

Run(n) == ranCount' = [ranCount EXCEPT ![n] = @ + 1]

(* The workers the scans of tryStealOne and tryGetOne(task) look at: the   *)
(* first _active_td_size entries of _tds that are not STANDBY and hold a   *)
(* task; the scan takes the first.                                         *)
Stealable == {i \in 0 .. active - 1 : status[i] /= "STANDBY" /\ q[i].r /= q[i].w}

(* Pop a task from worker i's queue and run it.                             *)
PopRun(i) ==
    LET p == SPMCPop(q[i])
    IN  /\ q' = [q EXCEPT ![i] = p.q]
        /\ Run(p.val)

-----------------------------------------------------------------------------
(* submit, lines 123-130, with getActiveThread (172-206): no worker when   *)
(* all are active; an unpaired thread pairs, under _td_mtx, with the first *)
(* STANDBY worker (ACTIVE, _active_td_size + 1).  The task is pushed, or   *)
(* run inline when there is no worker or the queue is full.               *)
Submit(s) ==
    /\ spc[s] = "idle" /\ next <= MaxTasks
    /\ LET standby == {w \in Workers : status[w] = "STANDBY"}
           td == IF active = W THEN None
                 ELSE IF paired[s] /= None THEN paired[s]
                 ELSE IF standby = {} THEN None ELSE Min(standby)
           pairs == active /= W /\ paired[s] = None /\ td /= None
           pu == SPMCPush(q[td], next)
       IN  /\ IF pairs
              THEN /\ status' = [status EXCEPT ![td] = "ACTIVE"]
                   /\ active' = active + 1
                   /\ paired' = [paired EXCEPT ![s] = td]
              ELSE UNCHANGED <<status, active, paired>>
           /\ IF td /= None /\ pu.ok
              THEN /\ q' = [q EXCEPT ![td] = pu.q]
                   /\ UNCHANGED ranCount
              ELSE /\ Run(next)
                   /\ UNCHANGED q
    /\ next' = next + 1
    /\ spc' = [spc EXCEPT ![s] = "wake"]
    /\ UNCHANGED <<needWakeup, workerVars, exitVars>>

(* Lines 132-135: notify_all under _td_wakeup_mtx if a worker waits.       *)
Wake(s) ==
    /\ spc[s] = "wake"
    /\ wpc' = IF needWakeup > 0
              THEN [w \in Workers |-> IF wpc[w] = "blocked" THEN "woken" ELSE wpc[w]]
              ELSE wpc
    /\ spc' = [spc EXCEPT ![s] = "idle"]
    /\ UNCHANGED <<status, q, active, needWakeup, paired, next, exitVars, snap,
                   ranCount>>

(* The thread exits.  An unpaired thread has no key value and no          *)
(* destructor call; a paired one has its key cleared and                   *)
(* deleteThreadLocalPairThread (157-170) called on its worker, which       *)
(* loads the status (RECLAIMED, which nothing sets, would delete it).      *)
Exit(s) ==
    /\ spc[s] = "idle"
    /\ Cardinality({u \in Submitters : spc[u] \in {"exiting", "gone"}}) < MaxExits
    /\ IF paired[s] = None
       THEN spc' = [spc EXCEPT ![s] = "gone"] /\ UNCHANGED <<xtd, xexp>>
       ELSE /\ xtd' = [xtd EXCEPT ![s] = paired[s]]
            /\ xexp' = [xexp EXCEPT ![s] = status[paired[s]]]
            /\ spc' = [spc EXCEPT ![s] = "exiting"]
    /\ paired' = [paired EXCEPT ![s] = None]
    /\ UNCHANGED <<status, q, active, needWakeup, next, workerVars, ranCount>>

(* do { ... } while (compare_exchange_strong(status, INACTIVE)): a         *)
(* successful exchange keeps the expected value and loops to exchange      *)
(* again; only a failed one, which loads the current status, ends it.      *)
ExitCas(s) ==
    /\ spc[s] = "exiting"
    /\ IF status[xtd[s]] = xexp[s]
       THEN /\ status' = [status EXCEPT ![xtd[s]] = "INACTIVE"]
            /\ UNCHANGED <<spc, xexp>>
       ELSE /\ xexp' = [xexp EXCEPT ![s] = status[xtd[s]]]
            /\ spc' = [spc EXCEPT ![s] = "gone"]
            /\ UNCHANGED status
    /\ UNCHANGED <<q, active, needWakeup, paired, next, workerVars, ranCount, xtd>>

-----------------------------------------------------------------------------
(* The worker loop, lines 87-115.                                          *)

(* Line 88: read the status; ACTIVE and INACTIVE drain the own queue.      *)
Top(w) ==
    /\ wpc[w] = "top"
    /\ snap' = [snap EXCEPT ![w] = status[w]]
    /\ wpc' = [wpc EXCEPT ![w] = IF status[w] = "STANDBY" THEN "steal" ELSE "consume"]
    /\ UNCHANGED <<status, q, active, needWakeup, paired, spc, next, exitVars, ranCount>>

(* tryConsume (239-243), one tryConsumeOne per step; once the queue is     *)
(* empty an INACTIVE worker becomes STANDBY and leaves the active count    *)
(* (lines 92-94).                                                          *)
ConsumeOne(w) ==
    /\ wpc[w] = "consume"
    /\ IF q[w].r /= q[w].w
       THEN /\ PopRun(w)
            /\ UNCHANGED <<status, active, wpc>>
       ELSE /\ IF snap[w] = "INACTIVE"
               THEN /\ status' = [status EXCEPT ![w] = "STANDBY"]
                    /\ active' = active - 1
               ELSE UNCHANGED <<status, active>>
            /\ wpc' = [wpc EXCEPT ![w] = "steal"]
            /\ UNCHANGED <<q, ranCount>>
    /\ UNCHANGED <<needWakeup, paired, spc, next, exitVars, snap>>

(* tryStealOne (245-260): run one task of the first active worker that     *)
(* has one, else go and wait.                                              *)
Steal(w) ==
    /\ wpc[w] = "steal"
    /\ IF Stealable /= {}
       THEN /\ PopRun(Min(Stealable))
            /\ wpc' = [wpc EXCEPT ![w] = "top"]
       ELSE /\ wpc' = [wpc EXCEPT ![w] = "wait"]
            /\ UNCHANGED <<q, ranCount>>
    /\ UNCHANGED <<status, active, needWakeup, paired, spc, next, exitVars, snap>>

(* The wait predicate (101-107): with the status read at the top of the    *)
(* loop, a STANDBY worker scans like tryStealOne (tryGetOne(task)), any    *)
(* other pops its own queue (tryGetOne(td, task)).                         *)
Found(w) == IF snap[w] = "STANDBY" THEN Stealable
            ELSE IF q[w].r /= q[w].w THEN {w} ELSE {}

(* Evaluate the predicate: take a task and leave the wait (need_wakeup - 1, *)
(* run it), or block until notified.                                       *)
Predicate(w, nw) ==
    IF Found(w) /= {}
    THEN /\ PopRun(Min(Found(w)))
         /\ needWakeup' = nw - 1
         /\ wpc' = [wpc EXCEPT ![w] = "top"]
    ELSE /\ needWakeup' = nw
         /\ wpc' = [wpc EXCEPT ![w] = "blocked"]
         /\ UNCHANGED <<q, ranCount>>

(* Lines 98-101: under _td_wakeup_mtx, need_wakeup + 1, then wait.         *)
WaitBegin(w) ==
    /\ wpc[w] = "wait"
    /\ Predicate(w, needWakeup + 1)
    /\ UNCHANGED <<status, active, paired, spc, next, exitVars, snap>>

(* A wakeup that counts the waiter in need_wakeup again.                   *)
RecheckCountingAgain(w) ==
    /\ wpc[w] = "woken"
    /\ Predicate(w, needWakeup + 1)
    /\ UNCHANGED <<status, active, paired, spc, next, exitVars, snap>>

(* notify_all woke the worker: the predicate is evaluated again.           *)
Recheck(w) ==
    /\ wpc[w] = "woken"
    /\ Predicate(w, needWakeup)
    /\ UNCHANGED <<status, active, paired, spc, next, exitVars, snap>>

-----------------------------------------------------------------------------
Init ==
    /\ status = [w \in Workers |-> "STANDBY"]
    /\ q = [w \in Workers |-> SPMCEmpty]
    /\ active = 0 /\ needWakeup = 0
    /\ paired = [s \in Submitters |-> None]
    /\ spc = [s \in Submitters |-> "idle"]
    /\ next = 1
    /\ xtd = [s \in Submitters |-> None]
    /\ xexp = [s \in Submitters |-> "ACTIVE"]
    /\ wpc = [w \in Workers |-> "top"]
    /\ snap = [w \in Workers |-> "STANDBY"]
    /\ ranCount = [n \in Tasks |-> 0]

Worker(w) == Top(w) \/ ConsumeOne(w) \/ Steal(w) \/ WaitBegin(w) \/ Recheck(w)
Submitter(s) == Submit(s) \/ Wake(s) \/ Exit(s) \/ ExitCas(s)

Next == (\E w \in Workers : Worker(w)) \/ (\E s \in Submitters : Submitter(s))

(* Worker threads run their loop; a thread inside submit or inside its     *)
(* key destructor finishes it.  Submitting and exiting are not forced.     *)
Spec ==
    /\ Init /\ [][Next]_vars
    /\ \A w \in Workers : WF_vars(Worker(w))
    /\ \A s \in Submitters : WF_vars(Wake(s)) /\ WF_vars(ExitCas(s))

-----------------------------------------------------------------------------
(* Properties.                                                             *)

TypeOK ==
    /\ status \in [Workers -> {"ACTIVE", "STANDBY", "INACTIVE"}]
    /\ active \in 0 .. W
    /\ needWakeup \in 0 .. W
    /\ paired \in [Submitters -> Workers \cup {None}]
    /\ spc \in [Submitters -> {"idle", "wake", "exiting", "gone"}]
    /\ xtd \in [Submitters -> Workers \cup {None}]
    /\ wpc \in [Workers -> {"top", "consume", "steal", "wait", "blocked", "woken"}]
    /\ ranCount \in [Tasks -> Nat]

Queued == UNION {SPMCContents(q[w]) : w \in Workers}
Occupied == UNION {{<<w, i>> : i \in q[w].r .. q[w].w - 1} : w \in Workers}

(* No task is lost or run twice: each submitted task either sits in        *)
(* exactly one queue slot or has run exactly once (inline or by a worker). *)
TaskAccounted ==
    \A n \in 1 .. next - 1 :
        \/ ranCount[n] = 1 /\ n \notin Queued
        \/ /\ ranCount[n] = 0
           /\ Cardinality({<<w, i>> \in Occupied : q[w].buf[i % QSize] = n}) = 1

(* Every task submit() queued eventually runs: the future it returned      *)
(* becomes ready.                                                          *)
EveryTaskRuns == \A n \in Tasks : n < next ~> ranCount[n] > 0
(* _active_td_size counts the workers that are not STANDBY: getActiveThread *)
(* compares it with _td_capacity to tell that every worker is taken, and   *)
(* tryGetOne(task) scans that many entries of _tds.  The size_t count is   *)
(* kept as an integer, so a count below zero is the wrap to SIZE_MAX.      *)
ActiveCount == active = Cardinality({w \in Workers : status[w] /= "STANDBY"})

(* SPMCQueue has a single producer: two live submitting threads are never *)
(* paired with the same worker (getActiveThread only takes a STANDBY       *)
(* worker, and a worker is meant to be STANDBY again only after the key    *)
(* destructor of its thread marked it INACTIVE).                           *)
SingleProducer ==
    \A s, t \in Submitters : s /= t /\ paired[s] /= None => paired[s] /= paired[t]
====
