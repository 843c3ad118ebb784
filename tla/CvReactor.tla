------------------------------ MODULE CvReactor ------------------------------
(***************************************************************************)
(* bfc::cv_reactor with the reactive queues it serves: one thread executes *)
(* run(), every other thread may push to a queue, call wake_up() or        *)
(* stop(), register, remove or (un)bind queues, all at any moment.  A      *)
(* handler, a wake_up callback or a timer callback runs on the reactor     *)
(* thread and may call the same operations.                                *)
(*                                                                         *)
(* One step is one critical section: m_wakeup_mtx, m_ctx_mtx, m_queue_mtx, *)
(* m_reactor_mtx and m_wake_up_cb_mtx are each taken and released inside   *)
(* one step.  cb_mtx is held across the handler of a reactive_event_queue  *)
(* (CbMtxHeld), and only there.                                            *)
(*                                                                         *)
(* Queue contents are abstracted to their number; m_contexts is a list     *)
(* without duplicates whose order no property depends on, hence a set.     *)
(***************************************************************************)
EXTENDS Naturals, Sequences

CONSTANTS Threads,      \* the threads that use the reactor
          Reactor,      \* the thread that executes run()
          Queues,       \* the reactive queues
          VectorQueues, \* those that are reactive_event_queue; the others are lossy
          Pinned,       \* queues registered and bound before the start, for good
          Callbacks,    \* wake_up callbacks, each posted at most once
          NoQueue,      \* the absent queue
          Capacity,     \* capacity of a lossy queue
          MaxPushes,    \* bound: push() calls
          MaxRuns       \* bound: run() calls

ASSUME CvAssumption ==
    /\ Reactor \notin Threads
    /\ VectorQueues \subseteq Queues
    /\ Pinned \subseteq Queues
    /\ NoQueue \notin Queues
    /\ Capacity \in Nat \ {0}
    /\ MaxPushes \in Nat
    /\ MaxRuns \in Nat

Callers == Threads \cup {Reactor}

VARIABLES
    pc,              \* where run() is; "off" outside run()
    m_running,
    m_wakeup_req,
    m_contexts,      \* registered queues
    m_ctx_snapshot,  \* what is left to visit of this wake's copy of m_contexts
    ctx,             \* the queue being notified
    m_wake_up_cb,    \* posted callbacks, in order
    cbl,             \* the callbacks taken by this pass that have not returned
    m_cb,            \* does the queue have its callback set?
    m_wake_callback, \* is the queue bound to this reactor?
    items,           \* number of elements in the queue
    op,              \* what is left of the operation a thread has called
    opq,             \* the queue that operation is about
    pushes, runs,    \* calls made so far (bounded)
    posted, ran      \* history: callbacks in the order posted, in the order run

reactorVars == <<m_contexts, m_ctx_snapshot, ctx, cbl, runs>>
queueVars == <<m_cb, m_wake_callback, items, pushes>>
postVars == <<m_wake_up_cb, posted>>
opVars == <<op, opq>>
vars == <<pc, m_running, m_wakeup_req, reactorVars, queueVars, postVars,
          opVars, ran>>

OpStates == {"idle", "notify_push", "wake_up", "add_ctx", "rem_ctx"}
HandlerStates == {"handler", "drained"}
ScanStates == {"scan", "notify"} \cup HandlerStates
UserCode == HandlerStates \cup {"callback", "timers"}
PassStates == {"snapshot", "take"} \cup ScanStates \cup UserCode
RunStates == {"loop", "wait", "blocked"} \cup PassStates

\* Is the handler of q executing?
InHandler(q) == pc \in HandlerStates /\ ctx = q

\* Mutant: the callback runs after cb_mtx is released.
CbMtxHeld_Copied(q) == FALSE

\* reactive_event_queue::notify_callback holds cb_mtx while m_cb() runs;
\* reactive_circular_lossy_queue runs a copy without it.
CbMtxHeld(q) == q \in VectorQueues /\ InHandler(q)

TypeOK ==
    /\ pc \in RunStates \cup {"off"}
    /\ m_running \in BOOLEAN
    /\ m_wakeup_req \in BOOLEAN
    /\ m_contexts \subseteq Queues
    /\ m_ctx_snapshot \subseteq Queues
    /\ ctx \in Queues \cup {NoQueue}
    /\ m_wake_up_cb \in Seq(Callbacks)
    /\ cbl \in Seq(Callbacks)
    /\ m_cb \in [Queues -> BOOLEAN]
    /\ m_wake_callback \in [Queues -> BOOLEAN]
    /\ items \in [Queues -> Nat]
    /\ op \in [Callers -> OpStates]
    /\ opq \in [Callers -> Queues \cup {NoQueue}]
    /\ pushes \in 0..MaxPushes
    /\ runs \in 0..MaxRuns
    /\ posted \in Seq(Callbacks)
    /\ ran \in Seq(Callbacks)

Init ==
    /\ pc = "off"
    /\ m_running = FALSE
    /\ m_wakeup_req = FALSE
    /\ m_contexts = Pinned
    /\ m_ctx_snapshot = {}
    /\ ctx = NoQueue
    /\ m_wake_up_cb = <<>> /\ cbl = <<>>
    /\ m_cb = [q \in Queues |-> q \in Pinned]
    /\ m_wake_callback = [q \in Queues |-> q \in Pinned]
    /\ items = [q \in Queues |-> 0]
    /\ op = [t \in Callers |-> "idle"]
    /\ opq = [t \in Callers |-> NoQueue]
    /\ pushes = 0 /\ runs = 0
    /\ posted = <<>> /\ ran = <<>>

-----------------------------------------------------------------------------
(* Operations.  A thread calls one at a time; the reactor thread calls them *)
(* from the user code it is running.                                        *)

MayCall(t) == op[t] = "idle" /\ (t = Reactor => pc \in UserCode)

Becomes(t, state, q) ==
    /\ op' = [op EXCEPT ![t] = state]
    /\ opq' = [opq EXCEPT ![t] = q]

\* push(): the element goes in under m_queue_mtx (a full lossy queue drops its
\* oldest), then notify_push() runs with no queue lock held.
Push(t, q) ==
    /\ MayCall(t)
    /\ pushes < MaxPushes
    /\ pushes' = pushes + 1
    /\ items' = [items EXCEPT ![q] =
                    IF q \in VectorQueues \/ @ < Capacity THEN @ + 1 ELSE @]
    /\ Becomes(t, "notify_push", q)
    /\ UNCHANGED <<pc, m_running, m_wakeup_req, reactorVars, m_cb,
                   m_wake_callback, postVars, ran>>

\* notify_push(): copy the binding under m_reactor_mtx; call it if there is one.
NotifyPush(t) ==
    /\ op[t] = "notify_push"
    /\ Becomes(t, IF m_wake_callback[opq[t]] THEN "wake_up" ELSE "idle", NoQueue)
    /\ UNCHANGED <<pc, m_running, m_wakeup_req, reactorVars, queueVars,
                   postVars, ran>>

\* wake_up() without a callback.
CallWakeUp(t) ==
    /\ MayCall(t)
    /\ Becomes(t, "wake_up", NoQueue)
    /\ UNCHANGED <<pc, m_running, m_wakeup_req, reactorVars, queueVars,
                   postVars, ran>>

\* Mutant: a posted callback waits for somebody else's wake.
Post_NoSignal(t, c) ==
    /\ MayCall(t)
    /\ \A i \in DOMAIN posted : posted[i] # c
    /\ m_wake_up_cb' = Append(m_wake_up_cb, c)
    /\ posted' = Append(posted, c)
    /\ UNCHANGED <<pc, m_running, m_wakeup_req, reactorVars, queueVars, opVars,
                   ran>>

\* wake_up(cb): queue cb under m_wake_up_cb_mtx, then signal.
Post(t, c) ==
    /\ MayCall(t)
    /\ \A i \in DOMAIN posted : posted[i] # c
    /\ m_wake_up_cb' = Append(m_wake_up_cb, c)
    /\ posted' = Append(posted, c)
    /\ Becomes(t, "wake_up", NoQueue)
    /\ UNCHANGED <<pc, m_running, m_wakeup_req, reactorVars, queueVars, ran>>

\* Mutant: the request is raised and nobody is notified.
WakeUp_NoNotify(t) ==
    /\ op[t] = "wake_up"
    /\ m_wakeup_req' = TRUE
    /\ Becomes(t, "idle", NoQueue)
    /\ UNCHANGED <<pc, m_running, reactorVars, queueVars, postVars, ran>>

\* The signalling half of wake_up(): under m_wakeup_mtx, raise the request and
\* notify; a reactor blocked in wait_for re-evaluates its predicate.
WakeUp(t) ==
    /\ op[t] = "wake_up"
    /\ m_wakeup_req' = TRUE
    /\ pc' = IF pc = "blocked" THEN "wait" ELSE pc
    /\ Becomes(t, "idle", NoQueue)
    /\ UNCHANGED <<m_running, reactorVars, queueVars, postVars, ran>>

\* Mutant: stop() only clears the flag.
Stop_NoWake(t) ==
    /\ MayCall(t)
    /\ m_running' = FALSE
    /\ UNCHANGED <<pc, m_wakeup_req, reactorVars, queueVars, postVars, opVars, ran>>

\* stop(): clear the flag without any lock, then wake_up().
Stop(t) ==
    /\ MayCall(t)
    /\ m_running' = FALSE
    /\ Becomes(t, "wake_up", NoQueue)
    /\ UNCHANGED <<pc, m_wakeup_req, reactorVars, queueVars, postVars, ran>>

\* add_read_rdy() and remove_read_rdy(): set_callback() under cb_mtx first ...
\* A handler that does this to its own reactive_event_queue waits for the
\* cb_mtx its caller holds and never returns: the guard leaves such handlers out.
AddReadRdy(t, q) ==
    /\ MayCall(t)
    /\ q \notin Pinned
    /\ ~CbMtxHeld(q)
    /\ m_cb' = [m_cb EXCEPT ![q] = TRUE]
    /\ Becomes(t, "add_ctx", q)
    /\ UNCHANGED <<pc, m_running, m_wakeup_req, reactorVars, m_wake_callback,
                   items, pushes, postVars, ran>>

RemoveReadRdy(t, q) ==
    /\ MayCall(t)
    /\ q \notin Pinned
    /\ ~CbMtxHeld(q)
    /\ m_cb' = [m_cb EXCEPT ![q] = FALSE]
    /\ Becomes(t, "rem_ctx", q)
    /\ UNCHANGED <<pc, m_running, m_wakeup_req, reactorVars, m_wake_callback,
                   items, pushes, postVars, ran>>

\* ... then the list of contexts under m_ctx_mtx.
AddContext(t) ==
    /\ op[t] = "add_ctx"
    /\ m_contexts' = m_contexts \cup {opq[t]}
    /\ Becomes(t, "idle", NoQueue)
    /\ UNCHANGED <<pc, m_running, m_wakeup_req, m_ctx_snapshot, ctx, cbl, runs,
                   queueVars, postVars, ran>>

RemoveContext(t) ==
    /\ op[t] = "rem_ctx"
    /\ m_contexts' = m_contexts \ {opq[t]}
    /\ Becomes(t, "idle", NoQueue)
    /\ UNCHANGED <<pc, m_running, m_wakeup_req, m_ctx_snapshot, ctx, cbl, runs,
                   queueVars, postVars, ran>>

\* set_reactor(reactor) and set_reactor(nullptr).
SetReactor(t, q) ==
    /\ MayCall(t)
    /\ q \notin Pinned
    /\ m_wake_callback' = [m_wake_callback EXCEPT ![q] = ~@]
    /\ UNCHANGED <<pc, m_running, m_wakeup_req, reactorVars, m_cb, items,
                   pushes, postVars, opVars, ran>>

Call(t) ==
    \/ CallWakeUp(t)
    \/ Stop(t)
    \/ \E q \in Queues : \/ Push(t, q)
                         \/ AddReadRdy(t, q)
                         \/ RemoveReadRdy(t, q)
                         \/ SetReactor(t, q)
    \/ \E c \in Callbacks : Post(t, c)

Continue(t) == NotifyPush(t) \/ WakeUp(t) \/ AddContext(t) \/ RemoveContext(t)

-----------------------------------------------------------------------------
(* run().                                                                   *)

Goto(state) == pc' = state

\* The reactor is in run() at the given place, and not inside an operation.
At(state) == pc = state /\ op[Reactor] = "idle"

\* run() stores true in m_running, whatever stop() has stored there before.
RunEnter ==
    /\ At("off")
    /\ runs < MaxRuns
    /\ runs' = runs + 1
    /\ m_running' = TRUE
    /\ Goto("loop")
    /\ UNCHANGED <<m_wakeup_req, m_contexts, m_ctx_snapshot, ctx, cbl,
                   queueVars, postVars, opVars, ran>>

LoopTest ==
    /\ At("loop")
    /\ Goto(IF m_running THEN "wait" ELSE "off")
    /\ UNCHANGED <<m_running, m_wakeup_req, reactorVars, queueVars, postVars,
                   opVars, ran>>

\* What run() does when wait_for() returns, still under m_wakeup_mtx.
AfterWait ==
    /\ m_wakeup_req' = (m_wakeup_req /\ ~m_running)
    /\ Goto(IF ~m_running THEN "off"
            ELSE IF m_wakeup_req THEN "snapshot" ELSE "take")
    /\ UNCHANGED <<m_running, reactorVars, queueVars, postVars, opVars, ran>>

\* wait_for() evaluates its predicate under m_wakeup_mtx: it returns, or it
\* blocks and releases the mutex in one step.
Wait ==
    /\ At("wait")
    /\ IF m_wakeup_req \/ ~m_running
       THEN AfterWait
       ELSE /\ Goto("blocked")
            /\ UNCHANGED <<m_running, m_wakeup_req, reactorVars, queueVars,
                           postVars, opVars, ran>>

\* The idle timeout or a timer's deadline ends the wait.
Timeout == At("blocked") /\ AfterWait

\* The copy of m_contexts, under m_ctx_mtx.
Snapshot ==
    /\ At("snapshot")
    /\ m_ctx_snapshot' = m_contexts
    /\ Goto("scan")
    /\ UNCHANGED <<m_running, m_wakeup_req, m_contexts, ctx, cbl, runs,
                   queueVars, postVars, opVars, ran>>

\* The next context of the copy: skipped unless has_data().
Visit(q) ==
    /\ At("scan")
    /\ q \in m_ctx_snapshot
    /\ m_ctx_snapshot' = m_ctx_snapshot \ {q}
    /\ IF items[q] = 0 THEN UNCHANGED <<pc, ctx>>
                       ELSE Goto("notify") /\ ctx' = q
    /\ UNCHANGED <<m_running, m_wakeup_req, m_contexts, cbl, runs, queueVars,
                   postVars, opVars, ran>>

\* notify_callback(): the callback that cb_mtx protects now, if any.
NotifyCallback ==
    /\ At("notify")
    /\ Goto(IF m_cb[ctx] THEN "handler" ELSE "scan")
    /\ UNCHANGED <<m_running, m_wakeup_req, reactorVars, queueVars, postVars,
                   opVars, ran>>

\* The handler drains its queue, as the README asks: pop() of a
\* reactive_event_queue takes everything, a lossy queue is popped until
\* pop() returns nullopt.
HandlerPop ==
    /\ At("handler")
    /\ items' = [items EXCEPT ![ctx] =
                    IF ctx \in VectorQueues \/ @ = 0 THEN 0 ELSE @ - 1]
    /\ Goto(IF ctx \in VectorQueues \/ items[ctx] = 0 THEN "drained" ELSE "handler")
    /\ UNCHANGED <<m_running, m_wakeup_req, reactorVars, m_cb, m_wake_callback,
                   pushes, postVars, opVars, ran>>

HandlerReturn ==
    /\ At("drained")
    /\ Goto("scan")
    /\ ctx' = NoQueue
    /\ UNCHANGED <<m_running, m_wakeup_req, m_contexts, m_ctx_snapshot, cbl,
                   runs, queueVars, postVars, opVars, ran>>

\* Mutant: the request is cleared after the queues were looked at.
EndScan_ClearsLate ==
    /\ At("scan")
    /\ m_ctx_snapshot = {}
    /\ Goto("take")
    /\ m_wakeup_req' = FALSE
    /\ UNCHANGED <<m_running, reactorVars, queueVars, postVars, opVars, ran>>

EndScan ==
    /\ At("scan")
    /\ m_ctx_snapshot = {}
    /\ Goto("take")
    /\ UNCHANGED <<m_running, m_wakeup_req, reactorVars, queueVars, postVars,
                   opVars, ran>>

\* auto cbl = std::move(m_wake_up_cb), under m_wake_up_cb_mtx.
TakeCallbacks ==
    /\ At("take")
    /\ cbl' = m_wake_up_cb
    /\ m_wake_up_cb' = <<>>
    /\ Goto("callback")
    /\ UNCHANGED <<m_running, m_wakeup_req, m_contexts, m_ctx_snapshot, ctx,
                   runs, queueVars, posted, opVars, ran>>

\* The callback at the head of the batch has run and returns.
CallbackReturn ==
    /\ At("callback")
    /\ cbl # <<>>
    /\ ran' = Append(ran, Head(cbl))
    /\ cbl' = Tail(cbl)
    /\ UNCHANGED <<pc, m_running, m_wakeup_req, m_contexts, m_ctx_snapshot, ctx,
                   runs, queueVars, postVars, opVars>>

\* Mutant: m_wake_up_cb is cleared after the batch instead of moved from.
EndCallbacks_ClearsLate ==
    /\ At("callback")
    /\ cbl = <<>>
    /\ m_wake_up_cb' = <<>>
    /\ Goto("timers")
    /\ UNCHANGED <<m_running, m_wakeup_req, reactorVars, queueVars, posted,
                   opVars, ran>>

EndCallbacks ==
    /\ At("callback")
    /\ cbl = <<>>
    /\ Goto("timers")
    /\ UNCHANGED <<m_running, m_wakeup_req, reactorVars, queueVars, postVars,
                   opVars, ran>>

\* m_timer.schedule() has run the due timers.
Schedule ==
    /\ At("timers")
    /\ Goto("loop")
    /\ UNCHANGED <<m_running, m_wakeup_req, reactorVars, queueVars, postVars,
                   opVars, ran>>

RunStep ==
    \/ LoopTest \/ Wait \/ Snapshot \/ EndScan
    \/ \E q \in Queues : Visit(q)
    \/ NotifyCallback \/ HandlerPop \/ HandlerReturn
    \/ TakeCallbacks \/ CallbackReturn \/ EndCallbacks \/ Schedule

Next ==
    \/ RunEnter
    \/ Timeout
    \/ RunStep
    \/ \E t \in Callers : Call(t) \/ Continue(t)

\* A thread inside an operation gets on with it, and so does run().  Fairness of
\* run() is strong because RunStep is disabled while user code is inside an
\* operation: user code makes finitely many calls and returns.  No fairness for
\* Timeout: the idle timeout is a parameter and may be as long as one likes, so
\* nothing below depends on it.
Fairness ==
    /\ SF_vars(RunStep)
    /\ \A t \in Callers : WF_vars(Continue(t))

Spec == Init /\ [][Next]_vars /\ Fairness

-----------------------------------------------------------------------------
(* Safety.                                                                  *)

\* A wake is on its way: requested, or about to be by a thread in wake_up().
Signalled == m_wakeup_req \/ \E t \in Callers : op[t] = "wake_up"

\* This pass has still to look at q, or q's handler has still to drain it.
WillVisit(q) ==
    \/ pc = "snapshot"
    \/ pc \in ScanStates /\ q \in m_ctx_snapshot
    \/ pc \in {"notify", "handler"} /\ ctx = q

\* No element of a queue that is registered and bound is forgotten: as long as
\* the queue has data, a wake is on its way, a push() is about to signal, or the
\* current pass will come to it.  In particular the reactor never blocks on
\* m_cv over data nobody will signal (wakeups coalesce in m_wakeup_req, which
\* run() clears before it copies the contexts and looks at the queues).
NoLostWakeup ==
    \A q \in Pinned : items[q] > 0 =>
        \/ Signalled
        \/ \E t \in Callers : op[t] = "notify_push" /\ opq[t] = q
        \/ WillVisit(q)

\* No posted callback is forgotten: while m_wake_up_cb is not empty a wake is
\* on its way or the current pass has still to take the callbacks.
NoLostCallback ==
    m_wake_up_cb # <<>> =>
        Signalled \/ pc \in {"snapshot", "take"} \cup ScanStates

\* Every callback given to wake_up() runs at most once and in the order of the
\* calls, including callbacks posted while a batch is running.
CallbacksInOrder == posted = ran \o cbl \o m_wake_up_cb

\* set_callback(nullptr) on a reactive_event_queue waits for a running handler:
\* once it has returned, the handler is not executing and what it captured may
\* be released.  (A lossy queue gives no such guarantee.)
RemovedIsQuiet == \A q \in VectorQueues : InHandler(q) => m_cb[q]

-----------------------------------------------------------------------------
(* Liveness.                                                                *)

\* Data in a registered and bound queue reaches its handler, unless stop().
Served == \A q \in Pinned : items[q] > 0 ~> (InHandler(q) \/ ~m_running)

\* A posted callback runs, unless stop().
CallbackRuns ==
    \A c \in Callbacks : (\E i \in DOMAIN posted : posted[i] = c)
        ~> ((\E i \in DOMAIN ran : ran[i] = c) \/ ~m_running)

\* Once stop() has cleared m_running, run() returns without waiting for a
\* timeout.
StopTerminates == ~m_running ~> pc = "off"
=============================================================================
