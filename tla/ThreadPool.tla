------------------------------ MODULE ThreadPool ------------------------------
(***************************************************************************)
(* bfc::thread_pool: workers that each own an entry (functor, thread_cv,   *)
(* entry_mtx), a LIFO of free workers under m_free_mtx, callers of         *)
(* execute(), and the destructor.  A task may call execute() itself.       *)
(*                                                                         *)
(* A critical section that takes no second lock and does not outlive its   *)
(* block is one step.  The two that do are explicit: execute() keeps       *)
(* m_free_mtx while it waits for an entry_mtx, and a worker keeps its      *)
(* entry_mtx while its functor runs and between the test of the wait       *)
(* predicate and the wait itself.                                          *)
(***************************************************************************)
EXTENDS Naturals, Sequences, FiniteSets

CONSTANTS NumWorkers,  \* p_max_size
          Clients,     \* threads that call execute() from outside
          Tasks,       \* functors, each submitted at most once
          Nested,      \* those submitted by a running task
          NoTask,      \* the empty functor
          NoOne        \* nobody holds the mutex

Workers == 1..NumWorkers
Callers == Clients \cup Workers

ASSUME PoolAssumption ==
    /\ NumWorkers \in Nat \ {0}
    /\ Clients \cap (1..NumWorkers) = {}
    /\ Nested \subseteq Tasks
    /\ NoTask \notin Tasks
    /\ NoOne \notin Clients \cup (1..NumWorkers)

VARIABLES
    m_is_running,
    m_free,       \* free workers, the last is taken first
    m_free_mtx,   \* who holds it across steps
    functor,      \* each worker's functor
    entry_held,   \* is the worker holding its entry_mtx between steps?
    pc,           \* where each worker's loop is
    call,         \* where each caller is in execute()
    arg,          \* its argument
    use_index,    \* the worker it has taken from m_free
    submitted,    \* tasks given to execute() so far
    done,         \* tasks that have run
    dtor,         \* where the destructor is
    joining       \* the worker it is at

poolVars == <<m_is_running, m_free, m_free_mtx>>
workerVars == <<functor, entry_held, pc>>
callVars == <<call, arg, use_index>>
dtorVars == <<dtor, joining>>
vars == <<poolVars, workerVars, callVars, submitted, done, dtorVars>>

TypeOK ==
    /\ m_is_running \in BOOLEAN
    /\ m_free \in Seq(Workers)
    /\ m_free_mtx \in Callers \cup {NoOne}
    /\ functor \in [Workers -> Tasks \cup {NoTask}]
    /\ entry_held \in [Workers -> BOOLEAN]
    /\ pc \in [Workers -> {"top", "run", "release", "notify", "pred", "block",
                           "blocked", "woken", "exit"}]
    /\ call \in [Callers -> {"idle", "lock", "waiting", "assign"}]
    /\ arg \in [Callers -> Tasks \cup {NoTask}]
    /\ use_index \in [Callers -> Workers \cup {0}]
    /\ submitted \subseteq Tasks
    /\ done \subseteq Tasks
    /\ dtor \in {"no", "notify", "join", "done"}
    /\ joining \in 1..(NumWorkers + 1)

\* The constructor fills m_free while it holds m_free_mtx, then starts threads.
Init ==
    /\ m_is_running = TRUE
    /\ m_free = [i \in 1..NumWorkers |-> i]
    /\ m_free_mtx = NoOne
    /\ functor = [w \in Workers |-> NoTask]
    /\ entry_held = [w \in Workers |-> FALSE]
    /\ pc = [w \in Workers |-> "top"]
    /\ call = [c \in Callers |-> "idle"]
    /\ arg = [c \in Callers |-> NoTask]
    /\ use_index = [c \in Callers |-> 0]
    /\ submitted = {} /\ done = {}
    /\ dtor = "no" /\ joining = 1

-----------------------------------------------------------------------------
(* execute().                                                               *)

\* A client calls it while the pool exists; a running task calls it too.
Execute(c, t) ==
    /\ call[c] = "idle"
    /\ t \notin submitted
    /\ IF c \in Clients THEN t \notin Nested /\ dtor = "no"
                        ELSE t \in Nested /\ pc[c] = "run"
    /\ call' = [call EXCEPT ![c] = "lock"]
    /\ arg' = [arg EXCEPT ![c] = t]
    /\ submitted' = submitted \cup {t}
    /\ UNCHANGED <<poolVars, workerVars, use_index, done, dtorVars>>

\* Mutant: the worker taken stays in the free list.
TakeWorker_NotPopped(c) ==
    /\ call[c] = "lock"
    /\ m_free_mtx = NoOne
    /\ m_free # <<>>
    /\ use_index' = [use_index EXCEPT ![c] = m_free[Len(m_free)]]
    /\ m_free_mtx' = c
    /\ call' = [call EXCEPT ![c] = "assign"]
    /\ UNCHANGED <<m_is_running, m_free, workerVars, arg, submitted, done, dtorVars>>

\* Holding m_free_mtx, take the worker at the back.
TakeWorker(c) ==
    /\ call[c] = "lock"
    /\ m_free_mtx = NoOne
    /\ m_free # <<>>
    /\ use_index' = [use_index EXCEPT ![c] = m_free[Len(m_free)]]
    /\ m_free' = SubSeq(m_free, 1, Len(m_free) - 1)
    /\ m_free_mtx' = c
    /\ call' = [call EXCEPT ![c] = "assign"]
    /\ UNCHANGED <<m_is_running, workerVars, arg, submitted, done, dtorVars>>

\* There is none: wait on m_worker_available_cv, releasing m_free_mtx.
WaitForWorker(c) ==
    /\ call[c] = "lock"
    /\ m_free_mtx = NoOne
    /\ m_free = <<>>
    /\ call' = [call EXCEPT ![c] = "waiting"]
    /\ UNCHANGED <<poolVars, workerVars, arg, use_index, submitted, done, dtorVars>>

\* Lock the worker's entry_mtx, hand the task over, notify and return.
Assign(c) ==
    LET w == use_index[c] IN
    /\ call[c] = "assign"
    /\ ~entry_held[w]
    /\ functor' = [functor EXCEPT ![w] = arg[c]]
    /\ pc' = IF pc[w] = "blocked" THEN [pc EXCEPT ![w] = "woken"] ELSE pc
    /\ m_free_mtx' = NoOne
    /\ call' = [call EXCEPT ![c] = "idle"]
    /\ arg' = [arg EXCEPT ![c] = NoTask]
    /\ use_index' = [use_index EXCEPT ![c] = 0]
    /\ UNCHANGED <<m_is_running, m_free, entry_held, submitted, done, dtorVars>>

-----------------------------------------------------------------------------
(* A worker's loop.                                                         *)

WorkerGoes(w, state, holds) ==
    /\ pc' = [pc EXCEPT ![w] = state]
    /\ entry_held' = [entry_held EXCEPT ![w] = holds]

\* Mutant: a worker that finds the pool stopping leaves before its functor ran.
Top_StopFirst(w) ==
    /\ pc[w] = "top"
    /\ \/ /\ ~m_is_running
          /\ WorkerGoes(w, "exit", FALSE)
       \/ /\ m_is_running
          /\ WorkerGoes(w, IF functor[w] # NoTask THEN "run" ELSE "pred", TRUE)
    /\ UNCHANGED <<poolVars, functor, callVars, submitted, done, dtorVars>>

\* Lock entry_mtx; a functor runs, a stopped pool ends the thread, otherwise
\* wait().
Top(w) ==
    /\ pc[w] = "top"
    /\ \/ /\ functor[w] # NoTask
          /\ WorkerGoes(w, "run", TRUE)
       \/ /\ functor[w] = NoTask
          /\ ~m_is_running
          /\ WorkerGoes(w, "exit", FALSE)
       \/ /\ functor[w] = NoTask
          /\ m_is_running
          /\ WorkerGoes(w, "pred", TRUE)
    /\ UNCHANGED <<poolVars, functor, callVars, submitted, done, dtorVars>>

\* The predicate of wait(), under entry_mtx; m_is_running is not protected by it.
Pred(w) ==
    /\ pc[w] = "pred"
    /\ IF functor[w] # NoTask \/ ~m_is_running
       THEN WorkerGoes(w, "top", FALSE)
       ELSE WorkerGoes(w, "block", TRUE)
    /\ UNCHANGED <<poolVars, functor, callVars, submitted, done, dtorVars>>

\* Release entry_mtx and block on thread_cv, atomically.
Block(w) ==
    /\ pc[w] = "block"
    /\ WorkerGoes(w, "blocked", FALSE)
    /\ UNCHANGED <<poolVars, functor, callVars, submitted, done, dtorVars>>

\* Notified: lock entry_mtx again and test the predicate.
Woken(w) ==
    /\ pc[w] = "woken"
    /\ WorkerGoes(w, "pred", TRUE)
    /\ UNCHANGED <<poolVars, functor, callVars, submitted, done, dtorVars>>

\* Mutant: the functor is not reset.
Finish_NoReset(w) ==
    /\ pc[w] = "run"
    /\ call[w] = "idle"
    /\ done' = done \cup {functor[w]}
    /\ WorkerGoes(w, "release", FALSE)
    /\ UNCHANGED <<poolVars, functor, callVars, submitted, dtorVars>>

\* functor() returns and is reset, then entry_mtx is released.
Finish(w) ==
    /\ pc[w] = "run"
    /\ call[w] = "idle"
    /\ done' = done \cup {functor[w]}
    /\ functor' = [functor EXCEPT ![w] = NoTask]
    /\ WorkerGoes(w, "release", FALSE)
    /\ UNCHANGED <<poolVars, callVars, submitted, dtorVars>>

\* Back into m_free, under m_free_mtx ...
Release(w) ==
    /\ pc[w] = "release"
    /\ m_free_mtx = NoOne
    /\ m_free' = Append(m_free, w)
    /\ pc' = [pc EXCEPT ![w] = "notify"]
    /\ UNCHANGED <<m_is_running, m_free_mtx, functor, entry_held, callVars,
                   submitted, done, dtorVars>>

\* Mutant: nobody is told that a worker is available.
Notify_Nobody(w) ==
    /\ pc[w] = "notify"
    /\ pc' = [pc EXCEPT ![w] = "top"]
    /\ UNCHANGED <<poolVars, functor, entry_held, callVars, submitted, done, dtorVars>>

\* ... then m_worker_available_cv.notify_one(): any one of the waiters.
Notify(w) ==
    /\ pc[w] = "notify"
    /\ pc' = [pc EXCEPT ![w] = "top"]
    /\ IF \E c \in Callers : call[c] = "waiting"
       THEN \E c \in Callers : /\ call[c] = "waiting"
                               /\ call' = [call EXCEPT ![c] = "lock"]
       ELSE UNCHANGED call
    /\ UNCHANGED <<poolVars, functor, entry_held, arg, use_index, submitted, done,
                   dtorVars>>

-----------------------------------------------------------------------------
(* The destructor; no client may be using the pool any more.                *)

Destroy ==
    /\ dtor = "no"
    /\ \A c \in Clients : call[c] = "idle"
    /\ m_is_running' = FALSE
    /\ dtor' = "notify"
    /\ UNCHANGED <<m_free, m_free_mtx, workerVars, callVars, submitted, done, joining>>

\* notify_one() of the next worker, without its entry_mtx ...
DestroyNotify ==
    /\ dtor = "notify"
    /\ pc' = IF pc[joining] = "blocked" THEN [pc EXCEPT ![joining] = "woken"] ELSE pc
    /\ dtor' = "join"
    /\ UNCHANGED <<poolVars, functor, entry_held, callVars, submitted, done, joining>>

\* ... and join().
DestroyJoin ==
    /\ dtor = "join"
    /\ pc[joining] = "exit"
    /\ joining' = joining + 1
    /\ dtor' = IF joining = NumWorkers THEN "done" ELSE "notify"
    /\ UNCHANGED <<poolVars, workerVars, callVars, submitted, done>>

CallerStep(c) == TakeWorker(c) \/ WaitForWorker(c) \/ Assign(c)

WorkerStep(w) ==
    \/ Top(w) \/ Pred(w) \/ Block(w) \/ Woken(w)
    \/ Finish(w) \/ Release(w) \/ Notify(w)

DestroyStep == DestroyNotify \/ DestroyJoin

Next ==
    \/ \E c \in Callers : CallerStep(c) \/ \E t \in Tasks : Execute(c, t)
    \/ \E w \in Workers : WorkerStep(w)
    \/ Destroy
    \/ DestroyStep

\* Threads run and tasks return.  A caller contends for m_free_mtx and a worker
\* for its entry_mtx, which are free infinitely often: strong fairness is the
\* assumption that a mutex does not starve one thread for ever.
Fairness ==
    /\ \A c \in Callers : SF_vars(CallerStep(c))
    /\ \A w \in Workers : SF_vars(WorkerStep(w))
    /\ WF_vars(DestroyStep)

Spec == Init /\ [][Next]_vars /\ Fairness

-----------------------------------------------------------------------------
(* Safety.                                                                  *)

IsFree(w) == \E i \in DOMAIN m_free : m_free[i] = w

Taken(w) == \E c \in Callers : call[c] = "assign" /\ use_index[c] = w

Busy(w) == functor[w] # NoTask \/ pc[w] = "release"

\* No worker is lost or handed out twice: each is exactly one of listed in
\* m_free (once), taken by one execute(), or busy with a task.  In particular
\* execute(), which holds m_free_mtx, never waits for the entry_mtx of a worker
\* that is running a task or about to lock m_free_mtx.
WorkersAccounted ==
    /\ TypeOK
    /\ \A i, j \in DOMAIN m_free : m_free[i] = m_free[j] => i = j
    /\ \A w \in Workers :
          \/ IsFree(w) /\ ~Taken(w) /\ ~Busy(w)
          \/ ~IsFree(w) /\ Taken(w) /\ ~Busy(w)
          \/ ~IsFree(w) /\ ~Taken(w) /\ Busy(w)

\* Every task given to execute() is in exactly one place: the caller's hand, one
\* worker's functor, or among those that have run.  None is overwritten, dropped
\* or run again.
TasksConserved ==
    \A t \in submitted :
        Cardinality({c \in Callers : arg[c] = t})
          + Cardinality({w \in Workers : functor[w] = t})
            = IF t \in done THEN 0 ELSE 1

\* A worker that has been given a task does not sleep on thread_cv, and it does
\* not leave with a task of a client: the destructor lets every task run that was
\* submitted before it.  (A task submitted by a running task may be handed to a
\* worker the destructor has already joined, and never run.)
NoSleepOnTask ==
    \A w \in Workers : functor[w] # NoTask =>
        /\ pc[w] \notin {"block", "blocked"}
        /\ pc[w] = "exit" => functor[w] \in Nested

-----------------------------------------------------------------------------
(* Liveness.                                                                *)

\* Every worker that has not left runs a task that waits in execute() for a worker:
\* none is ever freed again.
Exhausted ==
    /\ \A w \in Workers : pc[w] = "exit" \/ call[w] = "waiting"
    /\ \E w \in Workers : call[w] = "waiting"

\* A worker that has left was given t.
Stranded(t) == \E w \in Workers : pc[w] = "exit" /\ functor[w] = t

\* Every task given to execute() runs, also when the destructor has begun, with two
\* exceptions.  Tasks that call execute() themselves may come to wait for a worker on
\* every worker, and block the pool for ever; and a task submitted by a running task
\* may be handed to a worker that has already left.
TaskRuns ==
    \A t \in Tasks : t \in submitted ~> (t \in done \/ Stranded(t) \/ Exhausted)

\* The destructor joins every worker and returns.
DestructorReturns == dtor # "no" ~> dtor = "done"
=============================================================================
