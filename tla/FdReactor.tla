------------------------------- MODULE FdReactor -------------------------------
(***************************************************************************)
(* The part of poll_reactor and epoll_reactor that other threads reach:    *)
(* wake_up(), posted callbacks, stop(), the reactive queues of             *)
(* reactor_queues, and removals of fds deferred to the reactor thread.     *)
(* What the two do with fds on the reactor thread is left out: an fd       *)
(* callback is user code run in state "fds", a deferred removal is a step. *)
(*                                                                         *)
(* The two classes differ in the wake fd.  poll_reactor has a pipe, and    *)
(* m_wake_pending to put at most one byte into it; epoll_reactor has an    *)
(* eventfd semaphore that counts every wake.                               *)
(*                                                                         *)
(* Every queue is bound to the reactor (CvReactor models rebinding), so    *)
(* push() goes on into wake_up().  One step is one critical section, one   *)
(* atomic operation or one system call.                                    *)
(***************************************************************************)
EXTENDS Naturals, Sequences, FiniteSets

CONSTANTS Backends,    \* the classes of interest: "poll", "epoll"
          Threads,     \* the threads that use the reactor
          Reactor,     \* the thread that executes run()
          Queues,      \* the reactive queues
          Callbacks,   \* wake_up callbacks, each posted at most once
          Removals,    \* removals of an fd from another thread, each asked once
          RunRemovals, \* the callback posted for a removal
          Nothing,     \* no queue, no removal
          MaxPushes,   \* bound: push() calls
          MaxFailures, \* bound: unexpected failures of write() to the wake fd
          MaxWakes,    \* bound: value of the eventfd
          MaxRuns      \* bound: run() calls

ASSUME FdAssumption ==
    /\ Backends \subseteq {"poll", "epoll"}
    /\ Reactor \notin Threads
    /\ IsFiniteSet(Threads)
    /\ RunRemovals \notin Callbacks
    /\ Nothing \notin Queues \cup Removals
    /\ MaxPushes \in Nat /\ MaxFailures \in Nat /\ MaxWakes \in Nat /\ MaxRuns \in Nat

Callers == Threads \cup {Reactor}

VARIABLES
    backend,         \* the class of this reactor; never changes
    pc,              \* where run() is; "off" outside run()
    m_running,
    m_wake_pending,
    wake_fd,         \* bytes in the pipe, or the eventfd's counter
    m_wake_up_cb,    \* posted callbacks, in order
    cbl,             \* the callbacks taken by this pass that have not returned
    m_removals,      \* removals asked for
    batch,           \* removals taken by run_removals()
    m_entries,       \* registered queues
    m_snapshot,      \* what is left to visit of this pass's copy
    ctx,             \* the queue whose callback runs
    backlog,         \* the local of notify()
    m_queue_backlog,
    items,           \* number of elements in each queue
    op,              \* what is left of the operation a thread has called
    pushes, failures, runs,      \* bounded
    asked,           \* history: stop() was called since run() was called
    posted, ran,     \* history: callbacks in the order posted, in the order run
    requested, removed, \* history: removals in the order asked, in the order done
    asking,          \* history: the removal a thread is asking for
    before           \* history: removals whose callback was posted ahead of c

wakeVars == <<m_wake_pending, wake_fd, failures>>
postVars == <<m_wake_up_cb, posted>>
batchVars == <<cbl, batch, ran, removed>>
scanVars == <<m_snapshot, ctx, backlog, m_queue_backlog>>
queueVars == <<items, pushes>>
removalVars == <<m_removals, requested, asking, before>>
runVars == <<m_running, runs, asked>>
vars == <<backend, pc, runVars, wakeVars, postVars, batchVars, scanVars, m_entries,
          queueVars, removalVars, op>>

UserCode == {"fds", "callback", "removing", "handler", "timers"}
RunStates == {"enter", "loop", "poll", "drain", "unpend", "take", "snapshot",
              "scan"} \cup UserCode
OpStates == {"idle", "post_removal", "wake", "write"}

TypeOK ==
    /\ backend \in Backends
    /\ pc \in RunStates \cup {"off"}
    /\ m_running \in BOOLEAN /\ asked \in BOOLEAN
    /\ m_wake_pending \in BOOLEAN
    /\ wake_fd \in Nat
    /\ m_wake_up_cb \in Seq(Callbacks \cup {RunRemovals})
    /\ cbl \in Seq(Callbacks \cup {RunRemovals})
    /\ posted \in Seq(Callbacks \cup {RunRemovals})
    /\ ran \in Seq(Callbacks \cup {RunRemovals})
    /\ m_removals \in Seq(Removals) /\ batch \in Seq(Removals)
    /\ requested \in Seq(Removals) /\ removed \in Seq(Removals)
    /\ asking \in [Threads -> Removals \cup {Nothing}]
    /\ before \in [Callbacks -> SUBSET Removals]
    /\ m_entries \subseteq Queues /\ m_snapshot \subseteq Queues
    /\ ctx \in Queues \cup {Nothing}
    /\ backlog \in BOOLEAN /\ m_queue_backlog \in BOOLEAN
    /\ items \in [Queues -> Nat]
    /\ op \in [Callers -> OpStates]
    /\ pushes \in 0..MaxPushes /\ failures \in 0..MaxFailures /\ runs \in 0..MaxRuns

Init ==
    /\ backend \in Backends
    /\ pc = "off"
    /\ m_running = FALSE /\ asked = FALSE
    /\ m_wake_pending = FALSE
    /\ wake_fd = 0
    /\ m_wake_up_cb = <<>> /\ cbl = <<>> /\ posted = <<>> /\ ran = <<>>
    /\ m_removals = <<>> /\ batch = <<>> /\ requested = <<>> /\ removed = <<>>
    /\ asking = [t \in Threads |-> Nothing]
    /\ before = [c \in Callbacks |-> {}]
    /\ m_entries = {} /\ m_snapshot = {}
    /\ ctx = Nothing
    /\ backlog = FALSE /\ m_queue_backlog = FALSE
    /\ items = [q \in Queues |-> 0]
    /\ op = [t \in Callers |-> "idle"]
    /\ pushes = 0 /\ failures = 0 /\ runs = 0

Elems(s) == {s[i] : i \in DOMAIN s}

-----------------------------------------------------------------------------
(* Operations.                                                              *)

\* The reactor thread calls them from the user code it runs; epoll_reactor may
\* reach the wake event after fd callbacks of the same batch.
MayCall(t) ==
    /\ op[t] = "idle"
    /\ backend = "epoll" =>
          wake_fd + Cardinality({u \in Callers : op[u] # "idle"}) < MaxWakes
    /\ t = Reactor => pc \in UserCode \/ (backend = "epoll" /\ pc = "drain")

Becomes(t, state) == op' = [op EXCEPT ![t] = state]

\* push(): the element goes in, then notify_push() calls wake_up().
Push(t, q) ==
    /\ MayCall(t)
    /\ pushes < MaxPushes
    /\ pushes' = pushes + 1
    /\ items' = [items EXCEPT ![q] = @ + 1]
    /\ Becomes(t, "wake")
    /\ UNCHANGED <<pc, runVars, wakeVars, postVars, batchVars, scanVars, m_entries,
                   removalVars>>

\* wake_up(cb), up to the wake fd.
Post(t, c) ==
    /\ MayCall(t)
    /\ c \notin Elems(posted)
    /\ m_wake_up_cb' = Append(m_wake_up_cb, c)
    /\ posted' = Append(posted, c)
    /\ before' = [before EXCEPT ![c] =
                     Elems(requested) \ {asking[u] : u \in Threads}]
    /\ Becomes(t, "wake")
    /\ UNCHANGED <<pc, runVars, wakeVars, batchVars, scanVars, m_entries, queueVars,
                   m_removals, requested, asking>>

\* Mutant: registration does not wake.
AddQueue_NoWake(t, q) ==
    /\ MayCall(t)
    /\ m_entries' = m_entries \cup {q}
    /\ UNCHANGED <<pc, runVars, wakeVars, postVars, batchVars, scanVars, queueVars,
                   removalVars, op>>

\* add_read_rdy(queue): register, then wake_up() for data queued before.
AddQueue(t, q) ==
    /\ MayCall(t)
    /\ m_entries' = m_entries \cup {q}
    /\ Becomes(t, "wake")
    /\ UNCHANGED <<pc, runVars, wakeVars, postVars, batchVars, scanVars, queueVars,
                   removalVars>>

\* rem_read_rdy(queue).
RemQueue(t, q) ==
    /\ MayCall(t)
    /\ m_entries' = m_entries \ {q}
    /\ UNCHANGED <<pc, runVars, wakeVars, postVars, batchVars, scanVars, queueVars,
                   removalVars, op>>

\* Mutant: stop() only clears the flag.
Stop_NoWake(t) ==
    /\ MayCall(t)
    /\ m_running' = FALSE
    /\ asked' = (asked \/ pc # "off")
    /\ UNCHANGED <<pc, runs, wakeVars, postVars, batchVars, scanVars, m_entries,
                   queueVars, removalVars, op>>

\* stop(): clear the flag, then wake_up().
Stop(t) ==
    /\ MayCall(t)
    /\ m_running' = FALSE
    /\ asked' = (asked \/ pc # "off")
    /\ Becomes(t, "wake")
    /\ UNCHANGED <<pc, runs, wakeVars, postVars, batchVars, scanVars, m_entries,
                   queueVars, removalVars>>

\* defer_removal(): queue the removal under m_removals_mtx ...
DeferRemoval(t, x) ==
    /\ t \in Threads
    /\ MayCall(t)
    /\ x \notin Elems(requested)
    /\ m_removals' = Append(m_removals, x)
    /\ requested' = Append(requested, x)
    /\ asking' = [asking EXCEPT ![t] = x]
    /\ Becomes(t, "post_removal")
    /\ UNCHANGED <<pc, runVars, wakeVars, postVars, batchVars, scanVars, m_entries,
                   queueVars, before>>

\* ... then wake_up() with a callback for it.
PostRemoval(t) ==
    /\ op[t] = "post_removal"
    /\ m_wake_up_cb' = Append(m_wake_up_cb, RunRemovals)
    /\ posted' = Append(posted, RunRemovals)
    /\ asking' = [asking EXCEPT ![t] = Nothing]
    /\ Becomes(t, "wake")
    /\ UNCHANGED <<pc, runVars, wakeVars, batchVars, scanVars, m_entries, queueVars,
                   m_removals, requested, before>>

\* poll_reactor::wake_up() claims the wake: compare_exchange on m_wake_pending.
ClaimWake(t) ==
    /\ backend = "poll"
    /\ op[t] = "wake"
    /\ m_wake_pending' = TRUE
    /\ Becomes(t, IF m_wake_pending THEN "idle" ELSE "write")
    /\ UNCHANGED <<pc, runVars, wake_fd, failures, postVars, batchVars, scanVars,
                   m_entries, queueVars, removalVars>>

\* The byte goes into the pipe; EAGAIN cannot happen, see OneWakeToken.
WritePipe(t) ==
    /\ op[t] = "write"
    /\ wake_fd' = wake_fd + 1
    /\ Becomes(t, "idle")
    /\ UNCHANGED <<pc, runVars, m_wake_pending, failures, postVars, batchVars,
                   scanVars, m_entries, queueVars, removalVars>>

\* Mutant: a failed write leaves m_wake_pending set.
WritePipeFails_StaysPending(t) ==
    /\ op[t] = "write"
    /\ failures < MaxFailures
    /\ failures' = failures + 1
    /\ Becomes(t, "idle")
    /\ UNCHANGED <<pc, runVars, m_wake_pending, wake_fd, postVars, batchVars,
                   scanVars, m_entries, queueVars, removalVars>>

\* An unexpected failure gives the claim back.
WritePipeFails(t) ==
    /\ op[t] = "write"
    /\ failures < MaxFailures
    /\ failures' = failures + 1
    /\ m_wake_pending' = FALSE
    /\ Becomes(t, "idle")
    /\ UNCHANGED <<pc, runVars, wake_fd, postVars, batchVars, scanVars, m_entries,
                   queueVars, removalVars>>

\* epoll_reactor::wake_up() adds one to the eventfd.
WriteEventFd(t) ==
    /\ backend = "epoll"
    /\ op[t] = "wake"
    /\ wake_fd' = wake_fd + 1
    /\ Becomes(t, "idle")
    /\ UNCHANGED <<pc, runVars, m_wake_pending, failures, postVars, batchVars,
                   scanVars, m_entries, queueVars, removalVars>>

Call(t) ==
    \/ Stop(t)
    \/ \E q \in Queues : Push(t, q) \/ AddQueue(t, q) \/ RemQueue(t, q)
    \/ \E c \in Callbacks : Post(t, c)
    \/ \E x \in Removals : DeferRemoval(t, x)

Continue(t) ==
    /\ PostRemoval(t) \/ ClaimWake(t) \/ WritePipe(t) \/ WriteEventFd(t)
    /\ UNCHANGED backend

-----------------------------------------------------------------------------
(* run().                                                                   *)

\* The reactor is in run() at the given place, and not inside an operation.
At(state) == pc = state /\ op[Reactor] = "idle"
Goto(state) == pc' = state

\* A thread calls run() ...
CallRun ==
    /\ At("off")
    /\ runs < MaxRuns
    /\ runs' = runs + 1
    /\ asked' = FALSE
    /\ Goto("enter")
    /\ UNCHANGED <<m_running, wakeVars, postVars, batchVars, scanVars, m_entries,
                   queueVars, removalVars, op>>

\* ... which stores true in m_running, whatever stop() has stored there.
RunEnter ==
    /\ At("enter")
    /\ m_running' = TRUE
    /\ Goto("loop")
    /\ UNCHANGED <<runs, asked, wakeVars, postVars, batchVars, scanVars, m_entries,
                   queueVars, removalVars, op>>

LoopTest ==
    /\ At("loop")
    /\ Goto(IF m_running THEN "poll" ELSE "off")
    /\ UNCHANGED <<runVars, wakeVars, postVars, batchVars, scanVars, m_entries,
                   queueVars, removalVars, op>>

\* poll() or epoll_wait() reports the wake fd, or does not block because of a
\* backlog.
PollReturns ==
    /\ At("poll")
    /\ \/ wake_fd > 0 /\ Goto("drain")
       \/ wake_fd = 0 /\ m_queue_backlog /\ Goto("fds")
    /\ UNCHANGED <<runVars, wakeVars, postVars, batchVars, scanVars, m_entries,
                   queueVars, removalVars, op>>

\* It returns for an fd or at a timer's deadline.  The batch of epoll_wait() is
\* bounded and may leave the wake event out.
PollOther ==
    /\ At("poll")
    /\ wake_fd = 0 \/ backend = "epoll"
    /\ Goto("fds")
    /\ UNCHANGED <<runVars, wakeVars, postVars, batchVars, scanVars, m_entries,
                   queueVars, removalVars, op>>

\* A blocked poll() is interrupted: EINTR, continue.
PollInterrupted ==
    /\ At("poll")
    /\ wake_fd = 0
    /\ ~m_queue_backlog
    /\ Goto("loop")
    /\ UNCHANGED <<runVars, wakeVars, postVars, batchVars, scanVars, m_entries,
                   queueVars, removalVars, op>>

\* m_wake_cb of poll_reactor: read() until the pipe is empty ...
DrainPipe ==
    /\ backend = "poll"
    /\ At("drain")
    /\ wake_fd' = 0
    /\ Goto(IF wake_fd > 0 THEN "drain" ELSE "unpend")
    /\ UNCHANGED <<runVars, m_wake_pending, failures, postVars, batchVars, scanVars,
                   m_entries, queueVars, removalVars, op>>

\* Mutant: m_wake_pending is never cleared.
ClearPending_Missing ==
    /\ At("unpend")
    /\ Goto("fds")
    /\ UNCHANGED <<runVars, wakeVars, postVars, batchVars, scanVars, m_entries,
                   queueVars, removalVars, op>>

\* ... then allow the next wake.
ClearPending ==
    /\ At("unpend")
    /\ m_wake_pending' = FALSE
    /\ Goto("fds")
    /\ UNCHANGED <<runVars, wake_fd, failures, postVars, batchVars, scanVars,
                   m_entries, queueVars, removalVars, op>>

\* The eventfd's callback in epoll_reactor: one read() takes one from the counter.
ReadEventFd ==
    /\ backend = "epoll"
    /\ At("drain")
    /\ wake_fd' = wake_fd - 1
    /\ Goto("fds")
    /\ UNCHANGED <<runVars, m_wake_pending, failures, postVars, batchVars, scanVars,
                   m_entries, queueVars, removalVars, op>>

FdsDone ==
    /\ At("fds")
    /\ Goto("take")
    /\ UNCHANGED <<runVars, wakeVars, postVars, batchVars, scanVars, m_entries,
                   queueVars, removalVars, op>>

\* auto cbl = std::move(m_wake_up_cb), under m_wake_up_cb_mtx.
TakeCallbacks ==
    /\ At("take")
    /\ cbl' = m_wake_up_cb
    /\ m_wake_up_cb' = <<>>
    /\ Goto("callback")
    /\ UNCHANGED <<runVars, wakeVars, posted, batch, ran, removed, scanVars,
                   m_entries, queueVars, removalVars, op>>

CallbackReturn ==
    /\ At("callback")
    /\ cbl # <<>>
    /\ Head(cbl) # RunRemovals
    /\ ran' = Append(ran, Head(cbl))
    /\ cbl' = Tail(cbl)
    /\ UNCHANGED <<pc, runVars, wakeVars, postVars, batch, removed, scanVars,
                   m_entries, queueVars, removalVars, op>>

\* Mutant: run_removals() takes one removal, its own.
TakeRemovals_OnlyOne ==
    /\ At("callback")
    /\ cbl # <<>>
    /\ Head(cbl) = RunRemovals
    /\ batch' = IF m_removals = <<>> THEN <<>> ELSE <<m_removals[Len(m_removals)]>>
    /\ m_removals' = IF m_removals = <<>> THEN <<>>
                     ELSE SubSeq(m_removals, 1, Len(m_removals) - 1)
    /\ Goto("removing")
    /\ UNCHANGED <<runVars, wakeVars, postVars, cbl, ran, removed, scanVars,
                   m_entries, queueVars, requested, asking, before, op>>

\* run_removals(): batch.swap(m_removals), under m_removals_mtx ...
TakeRemovals ==
    /\ At("callback")
    /\ cbl # <<>>
    /\ Head(cbl) = RunRemovals
    /\ batch' = m_removals
    /\ m_removals' = <<>>
    /\ Goto("removing")
    /\ UNCHANGED <<runVars, wakeVars, postVars, cbl, ran, removed, scanVars,
                   m_entries, queueVars, requested, asking, before, op>>

\* ... then each: rem_read() or rem_write(), and done_cb().
Remove ==
    /\ At("removing")
    /\ batch # <<>>
    /\ removed' = Append(removed, Head(batch))
    /\ batch' = Tail(batch)
    /\ UNCHANGED <<pc, runVars, wakeVars, postVars, cbl, ran, scanVars, m_entries,
                   queueVars, removalVars, op>>

RemovalsDone ==
    /\ At("removing")
    /\ batch = <<>>
    /\ ran' = Append(ran, Head(cbl))
    /\ cbl' = Tail(cbl)
    /\ Goto("callback")
    /\ UNCHANGED <<runVars, wakeVars, postVars, batch, removed, scanVars, m_entries,
                   queueVars, removalVars, op>>

EndCallbacks ==
    /\ At("callback")
    /\ cbl = <<>>
    /\ Goto("snapshot")
    /\ UNCHANGED <<runVars, wakeVars, postVars, batchVars, scanVars, m_entries,
                   queueVars, removalVars, op>>

\* reactor_queues::notify(): the copy of m_entries, under m_mtx.
Snapshot ==
    /\ At("snapshot")
    /\ m_snapshot' = m_entries
    /\ backlog' = FALSE
    /\ Goto("scan")
    /\ UNCHANGED <<runVars, wakeVars, postVars, batchVars, ctx, m_queue_backlog,
                   m_entries, queueVars, removalVars, op>>

\* The next entry of the copy: its callback runs if the queue has data.
Visit(q) ==
    /\ At("scan")
    /\ q \in m_snapshot
    /\ m_snapshot' = m_snapshot \ {q}
    /\ IF items[q] = 0 THEN UNCHANGED <<pc, ctx>>
                       ELSE Goto("handler") /\ ctx' = q
    /\ UNCHANGED <<runVars, wakeVars, postVars, batchVars, backlog, m_queue_backlog,
                   m_entries, queueVars, removalVars, op>>

\* The callback may take any part of the queue, at any time before it returns.
HandlerPop ==
    /\ At("handler")
    /\ \E n \in 0..(items[ctx] - 1) : items' = [items EXCEPT ![ctx] = n]
    /\ UNCHANGED <<pc, runVars, wakeVars, postVars, batchVars, scanVars, m_entries,
                   pushes, removalVars, op>>

\* Mutant: what the callback leaves behind waits for the next wake.
HandlerReturn_NoBacklog ==
    /\ At("handler")
    /\ ctx' = Nothing
    /\ Goto("scan")
    /\ UNCHANGED <<runVars, wakeVars, postVars, batchVars, m_snapshot, backlog,
                   m_queue_backlog, m_entries, queueVars, removalVars, op>>

HandlerReturn ==
    /\ At("handler")
    /\ backlog' = (backlog \/ items[ctx] > 0)
    /\ ctx' = Nothing
    /\ Goto("scan")
    /\ UNCHANGED <<runVars, wakeVars, postVars, batchVars, m_snapshot,
                   m_queue_backlog, m_entries, queueVars, removalVars, op>>

\* m_queue_backlog = m_queues.notify()
EndScan ==
    /\ At("scan")
    /\ m_snapshot = {}
    /\ m_queue_backlog' = backlog
    /\ Goto("timers")
    /\ UNCHANGED <<runVars, wakeVars, postVars, batchVars, m_snapshot, ctx, backlog,
                   m_entries, queueVars, removalVars, op>>

\* m_timer.schedule() has run the due timers.
Schedule ==
    /\ At("timers")
    /\ Goto("loop")
    /\ UNCHANGED <<runVars, wakeVars, postVars, batchVars, scanVars, m_entries,
                   queueVars, removalVars, op>>

RunStep ==
    /\ \/ RunEnter \/ LoopTest \/ PollReturns
       \/ DrainPipe \/ ClearPending \/ ReadEventFd \/ FdsDone
       \/ TakeCallbacks \/ CallbackReturn \/ EndCallbacks
       \/ TakeRemovals \/ Remove \/ RemovalsDone
       \/ Snapshot \/ (\E q \in Queues : Visit(q)) \/ HandlerReturn \/ EndScan
       \/ Schedule
    /\ UNCHANGED backend

Next ==
    \/ RunStep
    \/ \E t \in Callers : Continue(t)
    \/ /\ \/ CallRun \/ PollOther \/ PollInterrupted \/ HandlerPop
          \/ \E t \in Callers : Call(t) \/ WritePipeFails(t)
       /\ UNCHANGED backend

\* A thread inside an operation gets on with it, and so does run(): strong
\* fairness, because RunStep is disabled while user code is inside an operation
\* and user code makes finitely many calls.  None for PollOther: nothing below
\* depends on a timer or on another fd.
Fairness ==
    /\ SF_vars(RunStep)
    /\ \A t \in Callers : WF_vars(Continue(t))

Spec == Init /\ [][Next]_vars /\ Fairness

-----------------------------------------------------------------------------
(* Safety.                                                                  *)

\* A wake is on its way: a thread is in wake_up() or the wake fd is readable.
Signalled ==
    \/ \E t \in Callers : op[t] \in {"wake", "write"}
    \/ wake_fd > 0

\* m_wake_pending of poll_reactor stands for exactly one wake: a thread between
\* the compare_exchange and the write, the one byte in the pipe, or the reactor
\* between reading it and clearing the flag.  So the pipe never fills up, and the
\* flag is never left set with nothing to clear it, which would lose every later
\* wake.
OneWakeToken ==
    /\ TypeOK
    /\ backend = "poll" =>
          (IF m_wake_pending THEN 1 ELSE 0)
            = wake_fd + Cardinality({t \in Callers : op[t] = "write"})
              + (IF pc \in {"drain", "unpend"} /\ wake_fd = 0 THEN 1 ELSE 0)

\* No posted callback is forgotten, unless a write to the wake fd has failed; and a
\* removal waits only while a callback that will take it is posted or about to be.
NoLostCallback ==
    /\ m_wake_up_cb # <<>> /\ failures = 0 =>
          Signalled \/ pc \in {"drain", "unpend", "fds", "take"}
    /\ m_removals # <<>> =>
          \/ \E t \in Threads : op[t] = "post_removal"
          \/ RunRemovals \in Elems(m_wake_up_cb)
          \/ RunRemovals \in Elems(IF pc = "removing" THEN Tail(cbl) ELSE cbl)

\* No element of a registered queue is forgotten, also when it was pushed before
\* the registration or left behind by a callback that took only a part.
NoLostWakeup ==
    \A q \in m_entries : items[q] > 0 /\ failures = 0 =>
        \/ Signalled
        \/ pc \in {"drain", "unpend", "fds", "take", "callback", "removing", "snapshot"}
        \/ pc = "scan" /\ (q \in m_snapshot \/ backlog)
        \/ pc = "handler" /\ (q \in m_snapshot \/ backlog \/ ctx = q)
        \/ pc \in {"timers", "off", "enter", "loop", "poll"} /\ m_queue_backlog

\* Callbacks run at most once, in the order posted, and removals are done once, in
\* the order they were asked for: perhaps earlier than callbacks posted ahead of
\* them, never later than one posted after they were asked for.
InOrder ==
    /\ posted = ran \o cbl \o m_wake_up_cb
    /\ requested = removed \o batch \o m_removals
    /\ \A c \in Callbacks \cap Elems(ran) : before[c] \subseteq Elems(removed)

-----------------------------------------------------------------------------
(* Liveness.                                                                *)

\* Data in a registered queue reaches its callback, unless stop() or rem().
Served ==
    \A q \in Queues : (q \in m_entries /\ items[q] > 0)
        ~> ((pc = "handler" /\ ctx = q) \/ q \notin m_entries \/ ~m_running)

\* A posted callback runs, and a removal asked for is done, unless stop().
PostedRuns ==
    /\ \A c \in Callbacks : c \in Elems(posted) ~> (c \in Elems(ran) \/ ~m_running)
    /\ \A x \in Removals : x \in Elems(requested) ~> (x \in Elems(removed) \/ ~m_running)

\* Once stop() has cleared m_running inside the loop, run() returns.
StopTerminates == (asked /\ ~m_running) ~> (pc = "off" \/ m_running)
=============================================================================
