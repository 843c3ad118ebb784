# Verification of bfc

bfc is a header-only C++17 library for event-driven programs (`src/src/bfc`).
This directory holds TLA+ models of the parts of it that carry concurrency or
non-trivial state, TLC configurations that check them on small instances, and
TLAPS proofs of their safety properties for every instance. `PROJECT.json` maps
every definition to the lines it models and lists runs, mutants, hazards,
findings and theorems.

    tlc -workers 2 -config CvReactor.cfg CvReactor         # model-check a run
    tlapm CvReactor_proofs.tla                             # check proofs

## The system

| part | state | operations | talks to |
|---|---|---|---|
| `cv_reactor` | `m_running`, `m_wakeup_req`, `m_contexts`, `m_wake_up_cb`, timer | `run`, `stop`, `wake_up`, `add_read_rdy`, `remove_read_rdy` | calls `has_data`/`notify_callback` of queues; woken by their `push` |
| `reactive_event_queue`, `reactive_circular_lossy_queue` | elements, callback, binding to a reactor | `push`, `pop`, `set_callback`, `set_reactor`, `set_capacity` | `push` calls `wake_up` of the bound reactor |
| `poll_reactor`, `epoll_reactor` | fd table, poll set, wake fd, posted callbacks, deferred removals, queues | `run`, `stop`, `wake_up`, `add_*`, `rem_*`, `req_write` | kernel; `reactor_queues`; `timer` |
| `reactor_queues` | registered queues | `add`, `rem`, `notify` | queues |
| `thread_pool` | free list, one functor per worker | `execute`, destructor | its threads |
| `timer` | map from deadline to callback | `wait_us`, `cancel`, `schedule` | called by reactors |
| `metric`, `monitor` | an atomic double; a thread that logs | `store`, `fetch_add`, `fetch_sub` | |
| `event_queue` | elements | blocking `pop`, `push`, `wake_up` | |
| `shared_sized_buffer`, `sized_buffer`, `buffer`, `memory_pool` | bytes and who owns them | copy, move, resize, allocate, free | |
| `function` | a callable kept in place | copy, move, reset, call | callbacks of everything above |
| `socket`, `object_registry`, `default_reactor`, `command_manager`, `configuration_parser` | little or none | | |

What is hard here is what happens between threads and between a callback and
its caller:

* a reactor blocks, and any other thread must be able to wake it: wakes
  coalesce, flags are cleared before or after work is looked at, the flag that
  ends the loop is written without a lock;
* callbacks run in the middle of loops over the very tables they change: they
  add, remove, re-add and close fds, post further callbacks and stop the loop;
* work is handed over between threads (tasks to workers, removals to the
  reactor thread, elements through queues) and must arrive once and in order;
* destruction races with use.

What makes each part correct: no element, callback, removal or task is lost,
repeated or reordered; nothing sleeps while there is work; what was removed is
not called; what is asked to stop stops; the data structures stay consistent
under every sequence of calls.

## Modules

| module | models | checked by | proofs |
|---|---|---|---|
| `CvReactor` | `cv_reactor` with the queues it serves and any number of other threads | `cv` | `CvReactor_proofs` |
| `LossyFifo` | abstract specification: a bounded FIFO that drops the oldest | (refined by `LossyQueue`) | |
| `LossyQueue` | the ring of `reactive_circular_lossy_queue` | `event_queues` | `EventQueue_proofs` |
| `ThreadPool` | `thread_pool`, its clients and its destructor | `pool`, `pool_destructor` | `ThreadPool_proofs` |
| `Metric` | `metric` | `metric` | |
| `SharedBuffer` | `shared_sized_buffer` and the threads that share storage | `shared_buffer` | `SharedBuffer_proofs` |
| `FdReactor` | what `poll_reactor`, `epoll_reactor` and `reactor_queues` share with other threads | `fd_safety`, `fd_liveness` | `FdReactor_proofs` |
| `PollTable` | the fd table and dispatch of `poll_reactor`, on its thread | `poll_table`, `poll_retire` | `PollTable_proofs` |
| `EpollTable` | the fd table and dispatch of `epoll_reactor`, with the kernel's epoll set | `epoll_table` | `EpollTable_proofs` |
| `Timer` | `timer`, the threads that use it and the waits of the three reactors | `timer` | `Timer_proofs` |
| `BufferQueue` | `memory_pool`, `buffer` and `sized_buffer` objects that travel through an `event_queue` | `event_queues` | `EventQueue_proofs` |

The `MC*` modules add symmetry sets and the owners of views, and `MCEventQueue` puts the
two models of `event_queue.hpp` into one run, a behaviour being about one of them; the
other runs use the module itself. What the parts share is composed where it matters: `CvReactor` and
`FdReactor` include the queues they serve, `Timer` the loops that drive it,
`BufferQueue` the pool, the buffers and the queue. The type invariant of a module is
the first conjunct of its main invariant (`OneWakeToken`, `TableMatches`,
`NoDangling`, `OneFate`, `OneOwner`, `WorkersAccounted`, `RefsExact`); it is proved
wherever there are proofs. Definitions whose comment begins with
"Mutant" are faulty variants of the definition that follows; they show that a
property would notice the fault and take no part in any specification.

Variables and actions keep the names of the code. The conventions:

* **Grain.** A step is one critical section, one atomic operation or one system
  call. Where a mutex is held across user code or across a second lock it is
  explicit: `CbMtxHeld` in `CvReactor`, `m_free_mtx` and `entry_held` in
  `ThreadPool`. A condition variable's wait is a test of the predicate and an
  atomic release-and-block; in `ThreadPool` these are separate steps because the
  predicate reads `m_is_running`, which the mutex does not protect.
* **run().** `pc` (or `phase`) is the place in the loop. In the places called
  `UserCode` (fd callbacks, posted callbacks, queue handlers, timer callbacks)
  the reactor thread may call any operation, any number of times.
* **Data.** Queue contents are a number, except in `LossyQueue`; callbacks,
  tasks, removals and fds are model values. `m_contexts`, `m_entries` and
  `m_pending_cleanup` are sets: nothing depends on their order.
* **History.** Variables marked so (`posted`, `ran`, `requested`, `removed`,
  `before`, `fresh`, `dups`, `wanted`, ...) only record what happened, so that a
  property can compare it with the state.

### CvReactor

A thread that calls an operation of several critical sections keeps the rest of
it in `op`/`opq`: `push` is `Push`, `NotifyPush`, `WakeUp`; `stop` is `Stop`,
`WakeUp`; registration is `AddReadRdy`, `AddContext`. `Pinned` queues are
registered and bound before the start and stay so, as the library's README asks
of a consumer; the others are registered, removed and rebound at any moment, and
put the same pressure on the reactor. Handlers drain their queue, which the
README demands too. The timeout of `wait_for` may expire at any moment
(`Timeout`) or never.

### LossyQueue

Every operation is one critical section. `out` records what the call returned,
which elements it released and whether it signals. Refinement: the FIFO's
contents are the slots from `m_head` on.

### FdReactor

`backend` says which of the two classes it is; they differ in the wake fd.
`poll_reactor` has a pipe and `m_wake_pending`, set before the write (`ClaimWake`)
and cleared after the drain (`ClearPending`); `epoll_reactor` counts in an
eventfd, one read per pass (`ReadEventFd`), and its bounded batch may leave the
wake event out (`PollOther`). A removal asked from another thread is
`DeferRemoval`, `PostRemoval`, then the wake. `WritePipeFails` is a write that
fails unexpectedly; the properties about lost work are stated for executions
without such a failure, `OneWakeToken` for all.

### PollTable

One registration is an fd and a kind. `poll()` may report any entry, because
errors are reported whatever was asked for. `m_dispatch` holds the reported entries
that the loop has yet to come to, under their index in the snapshot, and `Visit`
takes the one of the lowest index. `callable` follows the callable that
is being executed. `InPlace` selects what the move of a `cb_t` does: with
`std::function` and a large callable the object stays where it is, with
`bfc::function` it is moved to a new address and the old one is destroyed.

Removals from another thread are not calls here: they reach the table through a
posted callback, as `FdReactor` shows, and so `RemRead` and `RemWrite` need
`OnReactor`. Before `run()` fds can be added only.

### EpollTable

The kernel stores a pointer to the context of every registration and hands it back
with the event; a pointer is written as the registration it points to. `item` is
the kernel's item: absent, level-triggered, armed for one write event, or disabled
after it. `epoll_ctl` may refuse an addition, because the item exists or for a
reason of its own, after the context has been written and the fd duplicated; the
entry then stays in the table until a removal (`refused`) and the callback in its
context (`left`), where a removal does not clear it because nothing is active. `removed`
records what was removed while the batch held its event. A batch holds at most
`CacheSize` events and is dispatched in any order. Callers remove an fd before
they close it, and an item with no events asked for still reports errors.

### Timer

`wait_us` is two steps, because its default argument reads the clock before the
lock. The loop reads the deadline (`ReadDeadline`), then the clock
(`ComputeTimeout`), then blocks; timers are set and cancelled in between. `Timeout`
is the arithmetic of the four ways of waiting: `cv_reactor` (bounded by
`m_timeout_ms`), `poll()` (rounded down to milliseconds), `epoll_wait()` (rounded
up) and `epoll_pwait2()` (exact), with the limit of `int`. The wake is a flag here;
that wakes get through is `CvReactor`'s and `FdReactor`'s business. `Known` is what
the caller owes the reactor: a timer set from another thread is followed by
`wake_up()`. `InKeyOrder` says that a sequence lists a set of timers in the order of the map's keys;
`Extract` takes the due ones in that order and `ReadDeadline` the deadline of the first.

### BufferQueue

A block is an address with a home: one of the pools or the heap. `memory` says what
is allocated, `m_allocations` what waits on the free lists. Each thread has a
`buffer`, a `sized_buffer` and what is left of the vector its last `pop()` returned.
A deleter is the home it gives the block back to; `FreeLists` and `MemoryWithout`
are `reset()`. `Index(n, k)` says that `k` is the index that `allocate(n)` computes with
`log2` and `ceil`, and `PoolSize` is the code's table of pools, of which the first
`NumPools` exist. The event queue's wait has no predicate: `PopReturns` takes whatever
there is, perhaps nothing. A `sized_buffer` that was moved from keeps its size
(`moved`) and is assigned, cleared or resized before it is used.

### ThreadPool, Metric

`ThreadPool` separates the test of a worker's wait predicate (`Pred`) from the
wait (`Block`). The destructor starts when no client is inside `execute`; tasks
that still run may call it: it hands their task to a worker that may already have
left (`Stranded`), or waits for a worker. When every worker that is left waits like this
the pool is blocked (`Exhausted`); a pool of one worker needs one nested call for it, a
pool of two needs two at the same time. `Metric` has one step per atomic operation; `total`
is the sum of the calls made.

### SharedBuffer

A view belongs to one thread; others copy it or take a subview of it while its
owner is not changing it, as for any C++ object. Every operation ends by
dropping the storage the view had before: `ReleaseRef`, and `Delete` if that was
the last reference. `clear` resets offset and size, and `resize` sets the size,
only after that, so a release callback sees the old ones. Size arithmetic is
modulo `Word`.

## Runs

| run | instance | shows |
|---|---|---|
| `cv` | 1 thread and the reactor's user code, a pinned lossy queue, an unpinned vector queue, 2 callbacks, 1 push | `NoLostWakeup`, `NoLostCallback`, `CallbacksInOrder`, `RemovedIsQuiet`, `Served`, `CallbackRuns`, `StopTerminates` |
| `event_queues` | the ring: 4 elements, capacities 0 to 5; the blocking queue: 3 threads, 2 addresses, sizes 8, 16, 17, 2 pools, blocking and not | `SlotsMatch`, refinement of `LossyFifo`; `OneOwner`, `SizeFits`, `NoSleepOnElement` |
| `pool` | 2 workers, 2 clients, 4 tasks of which two are submitted by tasks | `WorkersAccounted`, `TasksConserved`, `NoSleepOnTask`, `TaskRuns` |
| `pool_destructor` | 1 worker | violation of `DestructorReturns` |
| `metric` | 2 updaters | violation of `AddedOnce` |
| `fd_safety` | both backends, 2 threads, 1 queue, 2 removals, 1 failed write | `OneWakeToken`, `NoLostCallback`, `NoLostWakeup`, `InOrder` |
| `fd_liveness` | both backends, 1 thread, 2 pushes | `Served`, `PostedRuns`, `StopTerminates` |
| `poll_table` | 2 fds, 4 registrations in all | `TableMatches`, `ArmedAsAsked`, `DupsOwned`, `NoStaleCallback` |
| `poll_retire` | the same, with a `cb_t` that holds its callable in place | violation of `RunningKept` |
| `shared_buffer` | 2 threads, 3 views, 2 storages, capacities to 2, `size_t` of 2 bits | `RefsExact`, `NoUseAfterFree`, `ViewsInRange`, `LastViewDeletes` |
| `epoll_table` | 2 fds of 2 kinds, batches of up to 3 | `NoDangling`, `DupsOwned`, `WriteRequestKept`, `RemovedSilent` |
| `timer` | 1 thread and the reactor, 2 timers with delays 0 and 3, all four waits, milliseconds of 2 ticks, time to 3 | `OneFate`, `InOrder`, `WaitFits`, `TimerRuns` |

Bounds and why they are enough. In `cv` the reactor's user code is the second
caller, and a push, two posts and bare wakes coalesce in every way, before and after
a queue is looked at; its safety properties are proved for any number of threads and
pushes, and so are those of most other runs: see Proofs. In `fd_safety` two threads besides the reactor are what it takes for two
removals to overtake each other. Capacities up to 5 with 4
elements wrap a ring whose head is anywhere, shrink it and grow it, through zero.
Two workers with two client tasks and two nested ones make clients and running tasks
wait for a worker, in turn and all at once: both exceptions of `TaskRuns`, `Exhausted`
(before the destructor and after it has begun) and `Stranded`, are reached. Two fds of
two kinds give up to four entries behind the wake pipe, so that an entry other
than the last is removed and another moves; `MaxGen` of 4 allows re-registration
of a number in the same batch. `MaxWakes` bounds the eventfd: calls that would
exceed it wait. Three views of two storages let two threads drop the last two
references at the same time while a storage is replaced by a larger one; a
capacity of 2 has subviews of subviews, and every argument below `Word` is tried.
A batch of 3 of the 4 registrations leaves one out. Two timers are one that is taken
while the other is set, cancelled or due at the same moment; a delay of 3 with a
millisecond of 2 ticks rounds differently up and down and exceeds both `MaxWait`
and `CvTimeout`, so that one wait is not enough. The clock stops at `MaxTime`,
which then stands for every later time: a finite wait ends there. Three threads are
a producer and two consumers that wait; sizes 16 and 17 are either side of a class
limit and 8 is what the pool refuses; two addresses are reused by whichever of the
pools and the heap asks next.
Deadlock is checked except where the program may really stop:
the pool after its destructor, and a reactor whose `run()` has returned with the
bounded calls used up.

### Fairness

* A thread inside an operation goes on (`WF` of `Continue`): its critical
  sections are short and nothing in them blocks.
* `run()` goes on (`SF` of `RunStep`). Strong, because the step is disabled
  while user code on the reactor thread is inside an operation; the assumption
  is that user code makes finitely many calls and returns.
* No fairness for timeouts, timers, other fds or signals: what is shown to
  happen happens without them.
* `ThreadPool` assumes strong fairness of each caller and worker: the mutexes
  they contend for are free again and again, and do not starve one thread. Tasks
  return.
* `SharedBuffer`: a thread inside a call takes its next step; the calls do not block.
* `Timer`: time passes (`WF` of `Tick`), a thread inside `wait_us` gets the lock (`WF`
  of `Emplace`), `run()` goes on (`SF` of `RunStep`, as above). Other events
  (`WaitOther`, `WaitInterrupted`) have no fairness.

### Findings

* **thread_pool.hpp:64-68.** The destructor stores `m_is_running` and notifies
  without the worker's mutex. Between the worker's test and its wait the
  notification is lost and `join()` never returns.
* **metric.hpp:45, 57.** The compare-exchange loop repeats on success and stops
  on failure. One updater is served correctly; with two, an addition is lost.
* **poll_reactor.hpp:457-466.** `retire_cb` keeps a removed callback alive by
  moving it. The default callback type `light_function` holds the callable in place, so
  the move destroys the one that is running. The test of this case
  (`src/tests/e2e/poll_reactor_tests.cpp:575`) uses `std::function`; with
  `InPlace = FALSE` TLC finds no violation.

Four more weaknesses are recorded as hazards in `PROJECT.json`, without a run of their own:

* **poll_reactor.hpp:256** (and the same line in the other reactors). `run()`
  overwrites a `stop()` that came after the call of `run()` and before the store.
* **thread_pool.hpp:75.** `execute()` called by tasks on every worker at once blocks the
  pool for ever. No document of the repository says that tasks may do this; `TaskRuns`
  names it as its exception.
* **epoll_reactor.hpp:117, 289.** `add_read` and `add_write` store the callback before
  `epoll_ctl`, and a refused addition leaves it there. If the fd was removed while the
  batch held its event, the dispatch calls it: nothing is registered, `add_*` has
  returned false, and a further removal does not help. The test at
  `src/tests/e2e/epoll_reactor_tests.cpp:555-557` asks that a removed fd's callback not run
  afterwards; it has no refused addition. TLC finds the trace when `left \cap removed` is
  taken out of `RemovedSilent`: two events in the batch, the first callback removes the
  other fd and adds it again without success, the second event is dispatched.
  `RemovedSilent` says that this is the only way and that it ends with the batch.
* **epoll_reactor.hpp:142.** A callback that removes its own fd destroys its own callable,
  whatever the `cb_t`.

## Proofs

Assumptions: only the `ASSUME`s on the constants, next to their declaration. Numbers
of threads, workers, queues, fds, views, timers, callbacks and pushes, capacities,
delays and the width of `size_t` are arbitrary; where something is counted the set is
finite. A proof goes through an inductive invariant: it holds in the initial states,
every action keeps it, and the theorems follow from it. The inductive invariants of the
proof modules were checked by TLC on the instance of the run as well.

`CvReactor_proofs`
* `TypeCorrect`: `TypeOK` and `OpsValid` (a thread that is inside an operation
  about a queue has a queue), by induction over the actions.
* `BindingKept`: a pinned queue stays registered, bound and with its callback.
* `WakeupNotLost`: `NoLostWakeup`. The invariant is inductive only together with
  `BindingKept`: `NotifyPush` may go idle only for an unbound queue, `Snapshot`
  must include the queue, and `NotifyCallback` must find a callback. The step
  that matters is `Wait`: it clears the request and enters "snapshot", from
  where every registered queue is looked at.
* `CallbackNotLost`, `CallbackOrder`: `NoLostCallback` and `CallbacksInOrder`;
  the latter with the fact that a batch is taken only when the last is done
  (`BatchDone`).
* `RemovedQuiet`: `RemovedIsQuiet`, from `cb_mtx` being held across the handler.

`EventQueue_proofs`, about the queues of `event_queue.hpp`
* `RingInvariant`: `RingTypeOK` and `SlotsMatch` of `LossyQueue` for every capacity; one lemma
  per operation, on `SlotIndex` (every slot is some number of places after the head).
* `ImplementsFifo`: `RingSpec => FifoSpec`. Each operation maps to the FIFO's, with
  the lemmas `Refine*` that compute the contents after it.
* `BlockOwnedOnce`: `OneOwner` of `BufferQueue`. The counts are replaced by facts about
  the cells that hold buffers and the places on free lists: no two hold the same block,
  each agrees with `memory`, and a block in use is in one of them (`Owned`). The
  invariant needs more than `OneOwner` says: a buffer that goes back to a pool has that
  pool's size, or the next `allocate()` would hand out a block of another size, and a
  thread inside `pop()` has no elements that the vector it is given would overwrite
  (`PopEmptyHanded`). Every operation is made of four moves, each with a lemma: a cell
  drops its block (`Drop`), gets a new one (`PutNew`) or one from a free list (`Reuse`),
  or blocks change cells one to one (`Move`, `Transfer`). `OwnedCounts` derives the counts.
* `SizeBacked`: `SizeFits`, with `MovedEmpty`: a `sized_buffer` that was moved from has no
  storage, so its stale size never gets into the queue. `PoolSizes` relates the table of
  the pools to the powers of two that `Index` compares with.
* `ElementNotSleptOn`: `NoSleepOnElement`, with `WaitBlocks`: only a blocking queue, whose
  `push()` notifies, is waited on.

`FdReactor_proofs`
* `WakeToken`: `OneWakeToken`, with `PipeDrained` (nothing is written between the last
  `read()` and the store that clears `m_wake_pending`). The proof counts the threads
  between the `compare_exchange` and the write: the flag admits one at a time.
* `CallbackNotLost`, `WakeupNotLost`: `NoLostCallback` and `NoLostWakeup`, for both wake
  fds. The steps that matter are the two that clear a signal (`ClearPending`,
  `ReadEventFd`), both followed by a place from which callbacks are taken and queues
  looked at, and the end of the scan, which replaces the backlog flag.
* `CallbackOrder`: `InOrder`. That a removal is never later than a callback posted after
  it is not inductive: it needs `RemovalPosted` (a removal in `m_removals` has a
  `RunRemovals` callback to come or its thread is about to post it) and `RemovalAhead`
  (for a callback that has not started, every removal asked for before it is done, in the
  batch, or has a `RunRemovals` ahead of the callback). The steps that move a callback or
  a removal along use `ElemsConcat` and `MoveHead`.

`PollTable_proofs`
* `TableConsistent`, `WriteArmed`, `DuplicatesClosed`: `TableMatches`, `ArmedAsAsked`,
  `DupsOwned`. The agreement has to be stated in both directions, from the registration
  to its entry and back (`EntriesOwned`), or the entry that the swap removal moves would
  belong to nobody.
* `CallbackNotStale`: the action property `NoStaleCallback`, from `DispatchFresh`: the
  entries not visited yet are of different registrations, none of a generation still to
  come, and one that is still current was reported by this `poll()` and has not been
  called for it.

`EpollTable_proofs`
* `PointersValid`, `DuplicatesClosed`, `RequestNotLost`: `NoDangling`, `DupsOwned`,
  `WriteRequestKept`, together with `BatchOver` (events and a running callback exist only
  during a dispatch, so `EraseUnused` frees nothing they point to) and `WantedActive`.
* `RemovedNotCalled`: the action property `RemovedSilent`, from `CallbackSource`: a
  callback in a context is that of an active registration or came with a refused `add_*`,
  and an event in the batch is for a registration that is active or was removed under it.

`ThreadPool_proofs`
* `WorkerNotLost`: `WorkersAccounted`, with who holds `m_free_mtx` and the `entry_mtx`
  across steps (`MutexHeld`, `EntryHeld`).
* `TaskNotLost`: `TasksConserved`. The counting is replaced by four facts that the actions
  keep: a task is in one hand (`InHand`), in one worker (`AtWorker`), not in both, and
  somewhere (`Somewhere`); `PlacesCounted` derives the count.
* `TaskNotSleptOn`: `NoSleepOnTask`, with `Stopping`: once the destructor has begun
  clients are idle, and what is still submitted comes from running tasks.
* `ExhaustedForEver`: `Exhausted`, the exception of `TaskRuns`, is final: no step of anyone
  ends it and no task runs in it. It needs `CallsRunning`: a worker is in `execute()` only
  while its functor runs.

`SharedBuffer_proofs`
* `CountExact`, `StorageOutlivesViews`: `RefsExact` and `NoUseAfterFree`. The count is the
  number of views and of pending releases that map to a storage; `CountChange` says what
  changing one of them does to it, and `DeletesLast` that the thread that deletes found
  the count at zero, alone.
* `ViewInside`: `ViewsInRange`, with `PendingFits`: the size that `clear`, `reserve` and
  `resize` set only after `release_ref` fits the storage the view has by then.

`Timer_proofs`
* `TimerFate`: `OneFate`, from `Fates` and `SetOnce` (a callback is given to one `wait_us`).
* `TimerOrder`: `InOrder`, with the id that `schedule()` saw when it took the timers.
* `WaitNotTooLong`: `WaitFits`, with `DeadlineFits`: the deadline read before the clock is
  early enough for every timer the reactor knows of, or a wake is pending. The rounding
  of the four timeouts is in the lemmas `WholeMilliseconds` and `TimeoutFits`.

Only model-checked:
* All liveness properties: fairness and `ENABLED` are out of the prover's reach.
* `Metric`, whose run is a counterexample.

## Not modelled

* `socket`, `command_manager`, `configuration_parser`, `monitor`: system calls,
  text and files. `object_registry`, `default_reactor`: compile-time selection.
* gtest and gmock under `src/gtest`: the vendored test framework, 48 435 of the
  repository's 52 376 lines of code. It is third-party code that only the tests use.
* The views of `buffer.hpp`, which own nothing; `log2_memory_pool::free` and the pool's
  destructor; copying and swapping of `function`.
* `stop()` in `Timer`, and wakes that get lost there: see `CvReactor` and `FdReactor`.
* In `CvReactor`: values of timeouts, which `Timer` has; handlers that leave elements behind in a `cv_reactor`
  queue, and handlers of a `reactive_event_queue` that lock their own `cb_mtx`
  (both excluded by the library's documentation or by a self-deadlock).
* Failures to allocate memory, exceptions thrown by callbacks, and system calls
  that throw from `run()`.

## Plan

The parts of the library that keep state across calls or threads are modelled. Every
invariant and action property that a run checks and finds true is proved; liveness stays
with TLC. When the code changes, the order of work is: the module, its run and the
mutants, then the lemma of the action that changed.
