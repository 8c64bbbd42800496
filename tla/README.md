# TLA+ models of sofa-bolt-cpp

These TLA+ modules model the concurrent core of the sofa-bolt-cpp RPC
client (sources under `src/`). The TLC configurations check the models.
Every definition is translated from the C++ source. `PROJECT.json` maps
each definition to the lines it models.

## The system

A user thread builds a `Session` and calls `sync()` or `async(cb)`.
`Session::sendInternal` (`src/src/session/session.cpp`) does these steps
in order:

1. Gets a `Socket` from a `Channel`.
2. Assembles the request.
3. Allocates a `SocketReadSession`.
4. Pushes the session onto the socket's MPSC queue `_session_info`.
5. Schedules a timeout task on the `TimeThread`.
6. Writes the request to the fd.
7. For `sync`, blocks on the session's promise.

Three threads then race on the session:

- **The reactor thread.** It owns the fd (epoll, edge-triggered) and runs
  `Socket::onRead`. `cutIntoMessage` cuts each frame, drains the queue
  into `_session_map`, finds the session, and calls `notify(SESSION_OK)`.
  At the end of `onRead`, `tryReclaimSessionMap` frees every session
  whose lock can be made exclusive.
- **The timer thread.** It runs the timeout lambda, which calls
  `notify(READ_TIMEOUT)` and then releases the share the session was
  created with.
- **The caller.** In the sync case it owns a share handed over by the
  notifier, and releases it after `postProcess`.

`SocketReadSession::notify` (`socket.h`) uses a `LifeCycleLock`:

- `tryShared` takes a share.
- `tryUpgradeNonReEntrant` lets exactly one notifier win.
- The reclaim sweep frees the session only when the word is exactly
  UPGRADED, that is, when no share is held.

Around this core:

- `SocketManager` watches sockets. It claims failed sockets, reclaims
  them through a wakeup on their reactor, and sends heartbeats.
- `Channel` hands out sockets under three policies: single, short or
  pooled.
- `PipelineSession` fans N async legs into one promise.

### Inventory

| Part | State | Operations | Hard behaviour |
|---|---|---|---|
| LifeCycleLock | int32 `_bits` | tryShared, tryUpgrade(NonReEntrant), tryExclusive, release* | atomic RMW semantics, backout |
| SocketReadSession | owners, promise, callback | notify, postProcess | two notifiers, reclaim |
| Session | error code, retry, callback | sync, async, sendInternal(WithRetry) | moved callback, error exits, retry |
| Socket | `_session_info`, `_session_map`, status | prepareRead, write, onRead, cutIntoMessage, tryReclaimSessionMap | correlation, bounded queue, partial writes |
| TimeThread | per-thread SPSC task/abandon queues, heap, active ids | scheduleAbs, unschedule, loopOnce, destroy | lost cancellation, late fire |
| Schedule / reactors | N loop threads | addSchedule, removeSchedule | fd routing (`idx > 0`) |
| Channel | socket or pool, channel lock | getSocketInternal, tryConnect, getSubSocketInternal | ownership hand-over, pool counts |
| SocketManager | list, reclaim list, flags | addWatch, watchConnections | reclaim barrier, heartbeat |
| PipelineSession | received_size, promise | sync | unsynchronised counter |
| Bolt / HTTP protocol | — | serialize, checkHeader, deserialize, converseBoltRequest | frame boundaries, 32-bit id wrap, HTTP correlation |
| IOBuffer | `_ref` slices over shared blocks, thread-local block chains | append, pop_front, cut, copy_to, cut_into_file_descriptor, append_from_file_descriptor | partial reads and writes, block sharing, the release loop |
| IntrusiveList | `prev`/`next` atomics, `_size` | push_front, push_back, remove, pop_front, pop_back | lock-free CAS steps, undo paths |
| LRUCache over ConcurrentHashMap | buckets, per-bucket LifeCycleLock, `_list`, `_mem_size_used` | put, exchange, get, erase, release_nodes | eviction across buckets, linking after unlock |

Not modelled:

- Logging, URI and endpoint parsing, the HTTP text parser, the non-intrusive half of the concurrent hash map, and the
  examples.
- These are byte layout or string handling, or they are not on the RPC
  paths.
- `PROJECT.json` lists each part with its status.

## Modules

- `LifeCycleLock.tla` models `include/common/life_cycle_lock.h`.
  - Every int32 is uniquely `4*q + r` with `r` in 0..3, so the lock word
    is a record `[sh, up, ex]`. The record is exact, including a negative
    share count.
  - Each operator is one atomic read-modify-write and returns
    `[ok, lock]`.
  - `TryExclusiveIgnoringShares` is a faulty variant. It is used only as a
    mutant.
- `ReadSession.tla` models one socket with its callers, its reactor and
  the timer thread. Its state:
  - Callers: `pc` (position in `sendInternal`), `att`, `err`, and
    `cbMoved` (the std::function was moved out).
  - One record per ReadSession `<<call, attempt>>`: `st`
    (none, live or freed), `lk`, `hasCb`, `timer` and `promise`.
  - The socket: `queue` (`_session_info`), `smap` (`_session_map`) and
    `wire` (requests written and not yet answered).
  - The reactor's and the timer thread's position inside `notify`:
    `rpc`/`rcur` and `tpc`/`tcur`.
  - History variables: `wins`, `uaf`, `answered`, `cbCalls`,
    `threw`.

  How the actions correspond to the code:
  - Each step of `sendInternal` is one action, in code order, with its
    error exit: `SocketLost`, `AssembleFail`, `NewReadSession`
    (SOCKET_BUSY), `ScheduleTimeout` (TIMER_BUSY), `WriteRequest`,
    `WriteFailCleanup`, `AfterWrite` and `SyncWake`.
  - `EndAttempt` is the retry loop.
  - `ReturnToUser` is the tail of `Session::async`.
  - `OnFrame` is one cut frame.
    - It drains the queue and looks the session up. Bolt looks it up by
      id. HTTP uses `begin()`.
    - It then performs the first step (`tryShared`) of `notify`.
    - A frame whose session is missing is dropped.
  - `ReactorUpgrade` and `ReactorCallback` are the rest of `notify`.
  - `Reclaim(r)` is one iteration of the sweep.
  - `TimerFire`, `TimerUpgrade`, `TimerCallback` and `TimerRelease` are
    the timeout lambda.
  - Every access to a session's memory goes through `Touch`, which
    records whether the session was already freed.
- `TimeThread.tla` models `src/src/schedule/time_thread.cpp`. Its state:
  - `tq` and `aq`: each producer's SPSC queues.
  - `reg`: `_containers`.
  - `heap`, `active` and `nearest`: `_tasks`, `_active_ids` and
    `_nearest_run_time`.
  - `lpc`, `li`, `lsize` and `lw`: the loop thread's position in
    `loopOnce`.
  - `now`: a discrete clock.

  Its actions:
  - Producers: `ScheduleBegin`, `SchedulePush`, `ScheduleNearest` and
    `Unschedule`.
  - The loop thread: `LoopBegin`, `Merge`, `Collect`, `MergeDone`, `Fire`,
    `Settle` and `Wake`.
  - Shutdown: `Exit` and `Destroy`.

  The one-hour cap on the wait when nothing is scheduled lies beyond every
  deadline of the model. A sleep on "max" therefore ends only on a notify
  or on exit.
- `BoundedFIFO.tla` is the abstract specification of a bounded FIFO queue:
  `Put(v)` when not full, `Get` moves the head to the output history `out`.
  It models no code; it states what the lock-free queues promise.
- `MPSCQueue.tla` models `MPSCQueue` of `include/common/lockfree_queue.h`.
  - State: the ring `buf`, the indices `_read_idx` (`ridx`),
    `_write_prepare_idx` (`wpidx`) and `_write_idx` (`widx`), and per
    producer its position in `push` (`ppc`) with its local `write` and
    `write_commit` copies (`commit`).
  - Actions: `PushBegin`, `Reserve` (the full check and the CAS loop on
    `_write_prepare_idx`), `Store`, `Commit` (the CAS loop on `_write_idx`) and
    `Pop` (the single consumer).
  - `AbsQueue` maps the committed, unread slots to a sequence, and
    `FIFO == INSTANCE BoundedFIFO WITH q <- AbsQueue, out <- got` makes the
    abstract queue a PROPERTY (`ImplementsFIFO`).
- `SocketLifecycle.tla` models the life of a socket between a SINGLE or
  SHORT `Channel` (`src/src/channel/channel.cpp`), the reactor threads
  (`schedule.cpp` routing, `epoll_loop.cpp` `loop_once`) and the
  `SocketManager` thread (`socket_manager.cpp`).
  - A socket is identified by its fd: the kernel hands out the lowest free
    fd, and the reactor of a socket is `fd % N`, as in the code.
  - Channel state: the channel `LifeCycleLock` (`chLock`), `_socket`
    (`chSocket`), each user thread's position in `getSocketInternal`
    (`tpc`) and the socket it was handed (`got`).
  - Socket state per fd: `status`, `_sharers` (`own`), whether `_on_read`
    and `on_connection` are set (`onRead`, `connCb`: both hold `self`).
  - Reactor state: the registered interests `reg` and the batch
    `epoll_wait` returned and not yet dispatched (`batch`, a set: the
    order of epoll's ready list is not fixed).
  - Manager state: its position in `watchConnections` (`mpc`), `_list`,
    `_reclaim_list` (`rlist`), the local `sockets` vector (`hbs`), the
    collect loop's remaining sockets (`todo`), `_reclaim_counter % N`,
    `cur_idx` and `_reclaim_notify_flag`.
  - Channel actions, in code order: `TryShare`, `Check`, `Copy`,
    `Upgrade`, `Exclusive`, `Surrender`, `Connect` (with `SocketConnect`
    for the three outcomes of `Socket::connect`), and `Done` (a session
    drops its `shared_ptr`).
  - Reactor actions: `EpollWait`, `DispatchRead` (`Socket::onRead` may
    find the connection closed), `DispatchConn` (a late `on_connection`)
    and `DispatchWake` (`_on_reclaim[i]`).
  - Manager actions: `MBegin`, `MCollect` (one socket of `_list`),
    `MBarrier`, `MNoReclaim`, `MAcked`, `MTimeout` (the 500 ms wait gave
    up) and `MHeartbeat`.
  - `Destroy` is `~Socket`: the fd becomes free when nothing references
    the socket any more.
- `ThreadPool.tla` models `ThreadPool` of `include/common/thread_pool.h`
  with the `SPMCQueue` of `lockfree_queue.h` that each worker owns.
  - The SPMC queue is a record `[buf, r, w]`. `SPMCPush` fails when the
    queue is full. `SPMCPop` is one successful CAS on `_read_idx`.
  - Pool state: each worker's `status` (STANDBY, ACTIVE or INACTIVE),
    its queue `q`, `_active_td_size` (`active`), `_need_wakeup`
    (`needWakeup`), and the worker each submitting thread is paired with
    (`paired`, the pthread key).
  - Each worker's position in its loop (`wpc`) and the status it read at
    the top of the loop (`snap`). Each submitter's next task (`next`) and
    position (`spc`). A history variable `ranCount` counts the runs of
    each task.
  - Submitter actions: `Submit` (`getActiveThread` and a push, or inline
    execution when no worker is free or the queue is full), `Wake` (the
    `notify_all` after a push while `_need_wakeup > 0`), `Exit` (the
    thread ends; a paired thread's key is cleared and the destructor
    loads its worker's status into `xexp`) and `ExitCas` (one
    `compare_exchange_strong(status, INACTIVE)` of the destructor's
    do/while: a success keeps `xexp` and exchanges again, a failure
    loads the status and ends the destructor; `xtd` is its worker).
  - Worker actions: `Top` (reads the status), `ConsumeOne` (runs one task
    of its own queue, or returns to STANDBY when the queue of an INACTIVE
    worker is empty), `Steal` (tries the queues of the first `active`
    workers), `WaitBegin` and `Recheck` (the predicate of
    `_td_wakeup.wait`, evaluated with the snapshot).
- `IntrusiveList.tla` models the lock-free list of
  `include/common/intrusive_list.h`, one step per load and CAS.
  - State: the `prev` and `next` links (`prv`, `nxt`) of the nodes and
    of the sentinels `H` and `T`, `_size`, and each thread's position
    (`pc`), operation and local copies of the links it read.
  - The caller actions start a push, remove or pop on a node the thread
    owns. The push actions are `PushCheck`, `PushRead` and the steps of
    `insert_once` (`IS1` to `IS3`, with undo). The remove actions are
    the steps of `remove_once` (`RS1` to `RS6`, with undo). The pop
    actions read the end node and then call `remove_once`.
  - `AbstractDeque.tla` says what the list promises: a sequence of
    distinct nodes changed at one end, or by removing one node, at a
    single instant. `IntrusiveList` maps its forward walk from `H` to
    that sequence (`Walk`, with the node a thread is unlinking in RS5
    still counted). `ImplementsDeque` checks the refinement.
- `ConcurrentLRU.tla` models `LRUCache` of `include/common/lru_cache.h`
  over the intrusive half of `ConcurrentHashMap` of
  `include/common/concurrent_hash_map.h`.
  - State: the bucket lock words (`LifeCycleLock` operators), the map as
    a function from key to node (`mp`), `_list` as a sequence (`lst`),
    `_mem_size_used` modulo `MemMod` (`used`), each node's key and
    `used_mem`, and a count of the deletes of each node (`frees`). Node
    ids are never reused, although the heap reuses addresses: the model
    cannot show exchange's late `_list.remove(old)` (`lru_cache.h:140`)
    unlinking and deleting a newer node that got old's address and that
    a bucket still holds.
  - Each list call is one atomic step. The `intrusive_list` run shows
    that the list implements `AbstractDeque` for the calls the cache
    makes.
  - Per thread: its position (`pc`), key, the node it allocated, the node
    it found or swapped out, and release_nodes' popped node, remaining
    `mem` and return point.
  - Actions follow the code: the spin for the bucket lock
    (`SpinExclusive`, or `GetLock` for the shared one), the map operation
    with its callback, and the list calls made after unlocking (`PutPush`,
    `ExRemove`, `ExPush`). release_nodes is `RnPop`, `RnDone`, `RnSame`
    (same bucket: `erase_nolock`), and `RnLock`, `RnErase`/`RnEraseMiss`
    and `RnAfter` (other bucket: a locked erase).
  - The statistics counters and `_element_size` are left out; they
    decide nothing.
- `IOBuffer.tla` models `src/src/common/io_buffer.{h,cpp}` as pure
  operators, with no variables of its own.
  - Memory is one record `m`: `data` (the bytes of each block), `next`
    (the block chain links), `tls` (each thread's chain head), and per
    buffer `refs` (its `_ref` slices `[block, offset, length]`) and `roff`
    (`_ref_offset`). A block lives while a buffer slice, a chain head or
    a live block's `next` reaches it (`Collect`), which is what the
    `shared_ptr`s do. `CreateBlock` takes the least free block.
  - Every loop of the code is a RECURSIVE operator, so its order of steps
    is kept: `AppendLoop` (append), `FrontLoop` (the walk of pop_front,
    cut and copy_to), `AcquireLoop`, `FillLoop` and `ReleaseLoop` (the
    three loops of append_from_file_descriptor).
  - `ReleaseLoop` follows `block->next` after `releaseBlockToTLSChain`
    has rewritten it, as the code does. It keeps the blocks it has seen,
    and a repeat is returned as `spins` (the loop would run for ever).
  - `Cap` is the block capacity and `SliceRefSize` the compaction
    threshold of tryReleaseBlock (4 in the code, 1 in the runs so that
    compaction happens on short frames).
- `SocketIO.tla` composes IOBuffer with one Bolt connection: caller
  threads that serialise a request (`Serialize`, `Assemble`), write it
  under `_write_mtx` (`WriteLock`, `WriteStep` over `Writev`), and parse
  their response (`Deserialize`) or time out (`Timeout`); a reactor that
  runs `onRead` (`OnReadStart`, `ReadStep`: one readv into `_read_buf`
  and the cut loop `CutLoop` over `CheckHeader`); and the server
  (`Serve`, not code of this repository), which answers each whole
  request frame.
  - The kernel is two byte sequences: `wire` (bounded by `SndBuf`) and
    `rwire`. A frame is `<<request id, body length>>` followed by the
    body, whose bytes all equal the id.
  - `cur_size` is kept modulo `WordMod` (2^64 in the code, 1024 in the
    runs), which is how the EAGAIN wrap is found.
  - The session map is abstracted: a session is found by its request id
    until its caller has gone. ReadSession models the map and notify.
- `Pipeline.tla` models `PipelineSession::sync` (`session.cpp`
  203-272). The pipeline thread's `pc` walks `SyncStart`, `Issue` (one
  leg: reset, send, to, receiveTo, async), `Wait` and `Check`. `Issue`
  either sends the leg, which moves its callback into a
  SocketReadSession (`sent`), or fails early (SOCKET_LOST,
  ASSEMBLE_REQUEST_FAIL), in which case `Session::async` runs the
  callback inline and the thread finishes it in `InlineFinish`.
  - A sent leg's callback is started by `Deliver` in the reactor
    (SESSION_OK or PARSE_RESPONSE_FAIL after postProcess) or, when the
    timeout is positive, in the timer thread (READ_TIMEOUT). Only one of
    them runs it, as notify's upgrade decides.
  - Each callback has two steps. `Begin` writes `status[i]` and loads
    `received_size` into the thread's `th`. `Finish` stores the loaded
    value plus one and sets the promise when that equals `total_size`.
    This split is the plain `size_t` increment.
  - `Timeout` is `Session::to`'s choice: the session's own `_timeout`,
    or the channel's `timeout_ms` when it is negative. A positive timeout
    gives `wait_for`; zero or less gives `wait()`.
  - Late failures (SOCKET_BUSY, TIMER_BUSY, WRITE_FAIL) call a moved-from
    callback and are left to ReadSession.
- `ChannelPool.tla` models the pooled `Channel` (`channel.cpp` 15-34,
  80-110, 231-316). Per sub channel it keeps `shared` (`shared_num`),
  `active` (`is_active`), `up` (its socket is `active()`) and `holder`
  (the thread holding its lock to reconnect). Per thread it keeps `idx`
  (the thread-local sub channel) and the locals of the scan (`i`,
  `best`, `minus`).
  - `Call` is the start of `getSubSocketInternal`. It tries the thread's
    own sub channel and on failure runs `FirstFail`: clear `is_active`
    and `fetch_sub`. `Scan` is one iteration of the `for` loop.
    `ScanEnd` picks a random sub channel when none is active and sets
    `idx`. `Cas` binds, or starts the `while (true)` loop again.
    `Second` tries the new sub channel and on failure runs `SecondFail`.
  - `GetSocketInternal` is the result of `Channel::getSocketInternal`,
    which SocketLifecycle models step by step. It returns the socket
    when it is up. It returns false while another thread holds the lock.
    Otherwise the thread takes the lock, and `Reconnect` is its
    `tryConnect`.
  - `ThreadExit` is `deleteThreadLocalSubChannel`. `SocketError` is any
    read or write error that sets the socket's status.
- `MC_ReadSession.tla` instantiates the model with two caller model
  values: `c1` is sync and `c2` is async. `MC_TimeThread`,
  `MC_MPSCQueue`, `MC_SocketLifecycle`, `MC_ThreadPool`,
  `MC_IntrusiveList`, `MC_ConcurrentLRU`, `MC_SocketIO`, `MC_Pipeline` and `MC_ChannelPool` instantiate the
  others.

## Runs

| Run | Config | Expect | Shows |
|---|---|---|---|
| readsession | MC_ReadSession.cfg | pass | TypeOK; AtMostOnceNotify; NoUseAfterFree; SyncCallReturns hold for Bolt when deadlines fall after the send path (97k states) |
| timethread | MC_TimeThread.cfg | pass | TypeOK; NoOversleep; RunsAtMostOnce; EveryTaskRuns with two producers, two tasks and clock 0..3 (746k states) |
| mpsc_race | MC_MPSCQueue_race.cfg | violation | The queue does not implement BoundedFIFO: a failed commit CAS makes a later producer commit an earlier producer's unstored slot |
| socket_lifecycle | MC_SocketLifecycle.cfg | pass | TypeOK; OkSocketWatched; HandsOutOwned; ReclaimEventually with two threads, two reactors, fds 5 and 6 and reclaim waits that may time out (428k states) |
| threadpool | MC_ThreadPool.cfg | pass | TypeOK; TaskAccounted (every submitted task is queued exactly once or has run exactly once); with two workers, two submitters of which one may exit, queue size 1 and four tasks (148k states) |
| threadpool_aba | MC_ThreadPool_aba.cfg | violation | ActiveCount: when both submitters exit, `_active_td_size` goes below zero (finding 6 below) |
| intrusive_list | MC_IntrusiveList.cfg | pass | TypeOK; LinkedAtRest (when every thread is idle, the links form one doubly linked list and `_size` is its length); ImplementsDeque; CallsReturn, with two threads calling push_front, remove, pop_front and pop_back on three nodes (1.23M states) |
| socket_io | MC_SocketIO.cfg | pass | TypeOK; ReleaseLoopEnds (the release loop of append_from_file_descriptor ends); RequestsIntact (the server reads every request frame byte for byte); ResponsesIntact (a caller gets its whole response body); CallsReturn (every caller whose write returned is answered), with two callers, bodies of 1 or 2 bytes, 3-byte blocks and an 8-byte send buffer (101k states) |
| socket_write_eagain | MC_SocketIO_eagain.cfg | violation | WriteSendsAll: with a 3-byte send buffer, `Socket::write` returns true although its request was never sent (finding 4 below) |
| pipeline | MC_Pipeline.cfg | pass | TypeOK; OkOnlyIfAllOk (sync reports success only after every leg's callback returned SESSION_OK), with up to three legs (3.3k states) |
| channel_pool | MC_ChannelPool.cfg | pass | TypeOK; CountsExact (every sub channel's `shared_num` equals the number of threads bound to it, through CAS retries, both unbind paths and the thread-local destructor), with two threads, a pool of two, socket errors and reconnects that may fail (28k states) |
| concurrent_lru | MC_ConcurrentLRU.cfg | pass | TypeOK (among others, no bucket lock is released more often than it was taken); FreedOnce (no node is deleted twice), with two threads calling put, exchange, get and erase on a full two-bucket cache (2.44M states) |

### Findings

Each violation run shows one disagreement between the code and what its
comments, tests or callers expect. `PROJECT.json` gives the details of
the findings that still have a run (2, 4, 6). Findings 1, 3 and 5 lost their
runs to the twelve-run limit; the list of retired runs below says how to
reproduce them.

1. `time_thread.cpp:269`: an unschedule that races `loopOnce`'s merge of
   its container is lost.
2. `lockfree_queue.h:58`: a failed commit CAS in `MPSCQueue::push`
   publishes another producer's slot before that producer has stored it.
3. `schedule.cpp:64`: the reclaim wakeup for reactor 0 is routed to
   another reactor.
4. `socket.cpp:157`: `Socket::write` adds writev's -1 (EAGAIN on the
   non-blocking socket) to the `size_t` counter `cur_size`. From 0 it
   wraps to 2^64-1, the loop ends and write returns true with nothing
   sent. The caller then waits for an answer to a request the server
   never received, until its timeout. After a partial write the count
   comes out short instead, and the next `cut_into_file_descriptor` runs
   on an empty buffer (it reads `_ref` past its end). TLC shows the first
   case in 7 states.
5. `session.cpp:239`: the pipeline callback increments the plain
   `size_t` `received_size` in the reactor, the timer thread and the
   pipeline thread (the inline callback of a leg that failed early).
   TLC shows two legs where the reactor runs leg 1's callback while leg 2
   fails with SOCKET_LOST. Both load 0 and both store 1, so the count
   never reaches 2. With `timeout(0)`, sync() waits for ever. With a
   positive timeout it reports READ_FAIL after every leg succeeded.
6. `thread_pool.h:165`: the key destructor `deleteThreadLocalPairThread`
   loops `while (compare_exchange_strong(status, INACTIVE))`, so a
   successful exchange is tried again with the same expected value.
   - Thread 1 exits and marks its worker INACTIVE. The worker drains and
     goes STANDBY, thread 2 pairs it ACTIVE, and thread 1's second
     exchange marks it INACTIVE again. The worker goes STANDBY with
     thread 2 still paired.
   - When thread 2 exits, its destructor loads STANDBY, and the exchange
     STANDBY to INACTIVE succeeds. The worker then runs
     `_active_td_size.fetch_sub(1)` for a pairing that was never
     counted. TLC shows this in 17 states (`ActiveCount`).
   - The `size_t` count wraps to SIZE_MAX. `getActiveThread` no longer
     sees a full pool, and `tryGetOne(task)` scans `_tds[i]` past the
     end of the vector.
   - With a third thread, the same loop lets two live threads pair one
     worker, whose SPMCQueue is single-producer (`SingleProducer`, 14
     states; reproduction below).
   - A destructor that loads INACTIVE spins until the worker stores
     STANDBY.

### Pool flags

`is_active` in the pooled channel does not follow the sockets, and no
run checks it, because it affects only load balance. Thread A is bound
to a sub channel whose socket has failed, and holds its lock to
reconnect. Thread B, bound to the same sub channel, fails to take a
share and clears `is_active`. A's reconnect succeeds, but the
first-try path returns without setting `is_active` again. The sub
channel then has a working socket and a bound thread, but every later
scan skips it. TLC reaches that state in 24 steps with two threads, on
an invariant written for the purpose (`channel.cpp:246-253`).

### Sequential defects

These were seen while modelling. Each shows on the first call that takes
the path, so a unit test reaches it and no run checks it:

- `bolt_protocol.cpp:156`: a CSTRING body is appended before the header.
- `io_buffer.cpp:132`: move assignment keeps the target's `_ref_offset`.
- `io_buffer.cpp:202`: `append(const IOBuffer&)` ignores
  `other._ref_offset`, so popped bytes reappear.
- `http_protocol.cpp:78`: the attachment is moved into the first
  attempt's buffer, so a retried HTTP request has no body.
- `session.cpp:88`: a retry after a parse failure re-sends a request the
  server has already executed.
- `session.cpp:137`: `_timeout * 1000` is computed in int32.
- `session.cpp:180`: a negative timeout makes every write fail at once.
- `lru_cache.h:91`: erase reads `p->used_mem` after `delete p`.

### Bounds

The bounds are: two callers, two attempts each, and an MPSC capacity of 1.

- Two callers make every pair of session interleavings possible.
- Two attempts exercise the retry and the moved callback.
- A capacity of 1 makes SOCKET_BUSY reachable.

For TimeThread the bounds are two producers, two tasks, times 0..3 and
queue capacity 1.

- Two producers put two containers in `_containers`.
- Tasks can be due at different times, before or after each other.
- The loop can sleep, and a producer can lower the time during the sleep.

For MPSCQueue the bounds are two producers, capacity 2 and two pushes
each. The queue fills up, both producers race on both CAS loops, and the
indices wrap the ring once.

For SocketLifecycle the bounds are two threads on one channel, two
reactors and two fds, one on each reactor.

- Two threads race on the channel lock: one reconnects while the other
  holds a share.
- With two fds, a reconnect can happen while the old socket is still
  being reclaimed, and the two reactors make the routing and
  `cur_idx` rotation matter.
- The reclaim fd is 4 (reactor 0) in the pass run and 3 in the routing
  run.
- `Short` is FALSE in every run (see the hazards).

For ThreadPool the bounds are two workers, two submitters, queue size 1
and four tasks. In the pass run at most one submitter exits
(`MaxExits = 1`): its destructor's second exchange already happens, and
the underflow needs a second exit, which the violation run allows (three
tasks). With two workers the second can be paired while the
first is back in STANDBY, which is the stranded case. A queue of size 1
fills after one push, so the inline path runs. Four tasks let one
submitter submit and exit and the other submit again to the re-paired
worker.

For IntrusiveList the bounds are two threads, three nodes and two calls
per thread. Two threads give every pair of CAS interleavings, including a
push racing the remove of its neighbour. Three nodes let two operations
touch adjacent nodes while a third stays linked.

For ConcurrentLRU the bounds are two threads with two calls each, three
keys in two buckets (k1 and k3 share bucket 0), and capacity 2. The
cache starts full with k1 at the back. Every call allocates at most two
fresh nodes in total (`MaxNodes = 4`), and `used_mem` is 1 or 3. Under
these bounds:
- an eviction takes both the same-bucket and the other-bucket branch of
  release_nodes;
- a put of 3 is refused;
- an exchange of 3 evicts the whole cache;
- `mem -= p->used_mem` can wrap.

For SocketIO the bounds are two callers, request and response bodies of
1 or 2 bytes, 8 blocks of 3 bytes, MIN_ONCE_READ 2 and an 8-byte send
buffer (3 bytes in the EAGAIN run).
- Frames of 3 or 4 bytes on 3-byte blocks make every frame cross a block
  boundary, and two frames share a block.
- MIN_ONCE_READ 2 makes the reactor skip a full chain head and take
  blocks from the thread-local chain, and reads come 1 byte at a time or
  more, so frames arrive split.
- The two requests fit into 8 bytes, so the pass run never sees EAGAIN;
  with 3 bytes the second writer meets a full send buffer.
- 8 blocks are enough for every state; fewer make `CreateBlock` fail.

Every error exit of `sendInternal` is reachable under these bounds.
Every interleaving of the three notify and reclaim actors is explored.

For Pipeline the bound is up to three legs (`total` is chosen in
`Init` from 0..3, and the channel may be missing).

- Two legs are enough for a lost increment. The third leg lets a lost
  increment happen while the count is not at 0, and lets the timer and
  the reactor both hold callbacks.
- The timeout is the channel default, SOCKET_TIMEOUT_MS = 500, in the
  pass run (`timeout(0)` in the retired hang reproduction). Only its sign matters
  to the code paths: it decides whether leg timers fire and whether
  sync uses `wait_for`.

For ChannelPool the bounds are two threads and a pool of two.

- Two threads are enough for a CAS to fail: one thread binds between
  the other's scan and its CAS.
- Two threads also let one thread find the lock held while the other
  reconnects.
- With two sub channels, the scan has a choice to make, and a failed
  sub channel has somewhere to fail over to.
- Three threads give 8.8M states and the same result.

### Fairness

- Caller steps, the reactor's steps inside `notify`, and the timer thread
  have weak fairness. They are threads that run to completion once they
  have work.
- In TimeThread, the loop thread, time and `destroy()` are weakly fair,
  and so is a producer inside `scheduleAbs`. Scheduling, cancelling and
  shutdown themselves are not forced.
- The server is not fair: a response may never come.
- Reclaim is not fair. The sweep runs only when the socket is readable,
  so no property depends on it.

- ChannelPool checks only invariants and states no fairness. The loop
  in `getSubSocketInternal` is lock-free, not wait-free: a thread's CAS
  can keep failing while other threads bind and unbind.
- In Pipeline, the pipeline thread is weakly fair, and so is each
  thread inside a callback. The reactor's delivery of every sent leg is
  weakly fair too: the run assumes that the server answers. The timer's
  delivery is not forced. `wait_for` returning at its deadline is part
  of the pipeline thread's `Wait`.
- In MPSCQueue, each producer inside `push` and the consumer are weakly
  fair. Starting a push is not forced.
- In SocketLifecycle, these are weakly fair:
  - a user thread inside `getSocketInternal`;
  - a reactor dispatching what `epoll_wait` returned;
  - a reactor reporting a pending wakeup, since the pipe is writable, so
    the wakeup is ready as soon as it is added;
  - the manager thread, which ticks once a second.

  Calling `getSocket`, ending a session, network readiness and failures
  are not forced.
- In ThreadPool, every worker step, the `notify_all` after a push and
  each exchange of a running key destructor are weakly fair. Submitting and exiting are not forced. The pool may idle
  with every worker waiting, so the runs do not check deadlock.
  `EveryTaskRuns` holds when no submitter exits (`MaxExits = 0`, 22k
  states). It fails only through the INACTIVE-to-STANDBY transition.
- In SocketLifecycle, `ReclaimEventually` holds unless the 500 ms wait
  keeps timing out for ever, which is the disjunct
  `[]<><<MTimeout>>_vars`.
- In IntrusiveList and ConcurrentLRU, each thread inside a call is
  weakly fair: it is a running thread. Calls are not forced. The callers
  stop after their calls, so these runs do not check deadlock.

- In SocketIO, a caller that has assembled its request (taking
  `_write_mtx`, each writev round, parsing once notified), the reactor
  inside `onRead` and the server are weakly fair. The reactor starting `onRead`
  is weakly fair too: the socket is edge-triggered, and `onRead` reads
  until EAGAIN, so bytes that arrive while it is idle raise a new edge.
  Assembling a request and timeouts are not forced. The callers stop after one call, so the runs
  do not check deadlock. Weak fairness of the steps that evaluate the
  IOBuffer operators is written as `<>[]P => []<><<A>>_vars`, with `P`
  the state predicate under which `A` is enabled, because TLC would
  evaluate `ENABLED A` by running the recursive operators.

### Timing

`EarlyDeadline` decides whether a timeout may fire before the caller has
left its send path.

- The pass run sets it FALSE.
- Setting it TRUE is realistic: `Socket::write` spins on EAGAIN for as
  long as the peer does not read, so a deadline can pass during the
  write. With it TRUE TLC finds `NoUseAfterFree` violated
  (`session.cpp:189`); that run was retired for the run budget.

## Plan (next modules)

1. Compose ChannelPool with SocketLifecycle, so that each sub channel's
   getSocketInternal runs its LifeCycleLock steps.
2. The HTTP response parser over IOBuffer slices, composed into
   SocketIO (`http_response.cpp:104`).
3. Compose TimeThread's lost cancellation into ReadSession.

PROJECT.json is limited to twelve runs. Some violations are still
modelled but no longer have a run of their own:

- the MPSCQueue pass run: MC_MPSCQueue_race.cfg with `INVARIANT TypeOK`
  and `PROPERTY PushReturns` in place of `ImplementsFIFO` passes (every
  push returns);
- two producers on one SPMCQueue (`thread_pool.h:165`):
  MC_ThreadPool_aba.cfg with `Submitters <- MC_Three`, `MaxExits = 1` and
  `INVARIANT SingleProducer`;
- the pipeline hang (`session.cpp:239`): MC_Pipeline.cfg with
  `SessionTimeout <- MC_NoTimeout`, no INVARIANTS and `PROPERTY SyncReturns`;
- the lost cancellation (`time_thread.cpp:269`): MC_TimeThread.cfg with
  `MaxTime = 2` and `INVARIANT CancelledNeverRuns`;
- the reclaim wakeup routed to another reactor (`schedule.cpp:64`):
  MC_SocketLifecycle.cfg with `RFd = 3`, `MayTimeOut = FALSE` and
  `INVARIANT NoHandlerAfterReclaim`;
- sessions that are never reclaimed after TIMER_BUSY or WRITE_FAIL
  (`session.cpp:172`);
- the moved-from callback on an error path (`session.cpp:142`);
- the shutdown crash (`time_thread.cpp:187`);
- a stale reclaim acknowledgement (`socket_manager.cpp:118`);
- push_back linking a node to itself (`intrusive_list.h:96`);
- exchange at capacity erasing its own new node (`lru_cache.h:178`);
- the release_nodes lock-order deadlock (`lru_cache.h:184`);
- a deadline during the write leading to a use after free
  (`session.cpp:189`);
- a paired worker that slept as STANDBY and is skipped by the steal
  scan, so its queued task never runs (`thread_pool.h:103`).

Their hazards say so.
