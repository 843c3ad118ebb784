--------------------------- MODULE ThreadPool_proofs ---------------------------
(***************************************************************************)
(* The safety of thread_pool for any number of workers, clients and tasks: *)
(* no worker is lost or handed out twice, no task is lost or run twice, and *)
(* no worker sleeps on a task it has been given.                           *)
(***************************************************************************)
EXTENDS ThreadPool, SequenceTheorems, FiniteSetTheorems, TLAPS

-----------------------------------------------------------------------------
(* The inductive invariant. *)

\* m_free_mtx is held across steps by the one execute() that has taken a worker.
MutexHeld ==
    \A c \in Callers : /\ call[c] = "assign" <=> m_free_mtx = c
                       /\ call[c] = "assign" => use_index[c] \in Workers

\* A worker holds its entry_mtx while its functor runs and from the test of the
\* wait predicate to the wait; a worker that returns to m_free has no functor.
EntryHeld ==
    \A w \in Workers :
        /\ entry_held[w] <=> pc[w] \in {"run", "pred", "block"}
        /\ pc[w] = "run" => functor[w] # NoTask
        /\ pc[w] = "release" => functor[w] = NoTask

\* No worker is listed twice in m_free.
ListedOnce == \A i, j \in DOMAIN m_free : m_free[i] = m_free[j] => i = j

\* A worker is listed, taken or busy, and only one of them.
OneState ==
    \A w \in Workers :
        \/ IsFree(w) /\ ~Taken(w) /\ ~Busy(w)
        \/ ~IsFree(w) /\ Taken(w) /\ ~Busy(w)
        \/ ~IsFree(w) /\ ~Taken(w) /\ Busy(w)

\* The pool stops when the destructor begins, after the last call of a client; a
\* call after that is one of a running task.
Stopping ==
    /\ dtor = "no" <=> m_is_running
    /\ dtor # "no" => \A c \in Clients : call[c] = "idle"
    /\ dtor # "done" => joining <= NumWorkers
    /\ \A w \in Workers : /\ pc[w] = "exit" => ~m_is_running
                          /\ call[w] # "idle" => arg[w] \in Nested

\* A caller has a task in hand while it is in execute().
InHand ==
    /\ \A c \in Callers : /\ arg[c] = NoTask <=> call[c] = "idle"
                          /\ arg[c] # NoTask => arg[c] \in submitted \ done
    /\ \A c, d \in Callers : arg[c] # NoTask /\ arg[c] = arg[d] => c = d

\* A task that a worker has is in no other worker and in no caller's hand.
AtWorker ==
    /\ \A w \in Workers : functor[w] # NoTask => functor[w] \in submitted \ done
    /\ \A w, v \in Workers : functor[w] # NoTask /\ functor[w] = functor[v] => w = v
    /\ \A c \in Callers, w \in Workers : arg[c] # NoTask => functor[w] # arg[c]

\* A task that was given to execute() and has not run is somewhere.
Somewhere ==
    /\ \A t \in submitted \ done : \/ \E c \in Callers : arg[c] = t
                                   \/ \E w \in Workers : functor[w] = t
    /\ done \subseteq submitted

Inv ==
    /\ TypeOK
    /\ MutexHeld /\ EntryHeld
    /\ ListedOnce /\ OneState
    /\ Stopping
    /\ InHand /\ AtWorker /\ Somewhere
    /\ NoSleepOnTask

-----------------------------------------------------------------------------
(* The initial state. *)

\* The constructor lists every worker once, idle, and nothing is submitted.
LEMMA InitInv == Init => Inv
<1> SUFFICES ASSUME Init PROVE Inv
  OBVIOUS
<1> USE PoolAssumption
<1>1. TypeOK
  BY DEF Init, TypeOK, Workers, Callers
<1>2. MutexHeld /\ EntryHeld /\ Stopping
  BY DEF Init, MutexHeld, EntryHeld, Stopping, Callers, Workers
<1>3. ListedOnce
  BY DEF Init, ListedOnce
<1>4. OneState
  BY DEF Init, OneState, IsFree, Taken, Busy, Workers
<1>5. InHand /\ AtWorker /\ Somewhere /\ NoSleepOnTask
  BY DEF Init, InHand, AtWorker, Somewhere, NoSleepOnTask, Callers, Workers
<1> QED
  BY <1>1, <1>2, <1>3, <1>4, <1>5 DEF Inv

-----------------------------------------------------------------------------
(* The free list. *)

\* Taking the worker at the back removes it, and it alone, from m_free.
LEMMA FreePop ==
    ASSUME Inv, NEW c \in Callers, TakeWorker(c)
    PROVE  /\ m_free' \in Seq(Workers)
           /\ use_index'[c] \in Workers /\ use_index'[c] = m_free[Len(m_free)]
           /\ IsFree(m_free[Len(m_free)])
           /\ ListedOnce'
           /\ \A w \in Workers : IsFree(w)' <=> IsFree(w) /\ w # m_free[Len(m_free)]
<1> DEFINE n == Len(m_free)
<1>1. m_free \in Seq(Workers) /\ n \in Nat /\ n > 0 /\ DOMAIN m_free = 1..n
  BY DEF Inv, TypeOK, TakeWorker
<1>2. m_free[n] \in Workers
  BY <1>1
<1>3. /\ m_free' \in Seq(Workers) /\ DOMAIN m_free' = 1..(n - 1)
      /\ \A i \in 1..(n - 1) : m_free'[i] = m_free[i]
  BY <1>1 DEF TakeWorker
<1>4. use_index'[c] = m_free[n]
  BY DEF TakeWorker, Inv, TypeOK
<1>5. ListedOnce'
  BY <1>1, <1>3 DEF ListedOnce, Inv
<1>6. \A w \in Workers : IsFree(w)' <=> IsFree(w) /\ w # m_free[n]
  BY <1>1, <1>3 DEF IsFree, ListedOnce, Inv
<1>7. IsFree(m_free[n])
  BY <1>1 DEF IsFree
<1> QED
  BY <1>2, <1>3, <1>4, <1>5, <1>6, <1>7

\* A worker that returns is listed once more than before: it was not listed.
LEMMA FreePush ==
    ASSUME Inv, NEW w \in Workers, Release(w)
    PROVE  /\ m_free' \in Seq(Workers)
           /\ ~IsFree(w)
           /\ ListedOnce'
           /\ \A v \in Workers : IsFree(v)' <=> IsFree(v) \/ v = w
<1> DEFINE n == Len(m_free)
<1>1. m_free \in Seq(Workers) /\ n \in Nat /\ DOMAIN m_free = 1..n
  BY DEF Inv, TypeOK
<1>2. /\ m_free' \in Seq(Workers) /\ DOMAIN m_free' = 1..(n + 1)
      /\ \A i \in 1..n : m_free'[i] = m_free[i]
      /\ m_free'[n + 1] = w
  BY <1>1 DEF Release
<1>3. ~IsFree(w)
  BY DEF Release, Inv, OneState, Busy
<1>4. ListedOnce'
  BY <1>1, <1>2, <1>3 DEF ListedOnce, Inv, IsFree
<1>5. \A v \in Workers : IsFree(v)' <=> IsFree(v) \/ v = w
  BY <1>1, <1>2 DEF IsFree
<1> QED
  BY <1>2, <1>3, <1>4, <1>5

-----------------------------------------------------------------------------
(* Every step preserves each part. *)

\* Every variable keeps its type.
LEMMA NextType ==
    ASSUME Inv, [Next]_vars PROVE TypeOK'
<1> USE DEF Inv
<1>1. ASSUME NEW c \in Callers, NEW t \in Tasks, Execute(c, t) PROVE TypeOK'
  BY <1>1, PoolAssumption DEF Execute, TypeOK, WorkerGoes, poolVars, workerVars,
     callVars, dtorVars
<1>2. ASSUME NEW c \in Callers, TakeWorker(c) PROVE TypeOK'
  BY <1>2, FreePop DEF TakeWorker, TypeOK, workerVars, dtorVars
<1>3. ASSUME NEW c \in Callers, WaitForWorker(c) PROVE TypeOK'
  BY <1>3, PoolAssumption DEF WaitForWorker, TypeOK, WorkerGoes, poolVars, workerVars,
     callVars, dtorVars
<1>4. ASSUME NEW c \in Callers, Assign(c) PROVE TypeOK'
  BY <1>4, PoolAssumption DEF Assign, TypeOK, WorkerGoes, poolVars, workerVars,
     callVars, dtorVars
<1>5. ASSUME NEW w \in Workers, Top(w) PROVE TypeOK'
  BY <1>5, PoolAssumption DEF Top, TypeOK, WorkerGoes, poolVars, workerVars, callVars,
     dtorVars
<1>6. ASSUME NEW w \in Workers, Pred(w) PROVE TypeOK'
  BY <1>6, PoolAssumption DEF Pred, TypeOK, WorkerGoes, poolVars, workerVars, callVars,
     dtorVars
<1>7. ASSUME NEW w \in Workers, Block(w) PROVE TypeOK'
  BY <1>7, PoolAssumption DEF Block, TypeOK, WorkerGoes, poolVars, workerVars,
     callVars, dtorVars
<1>8. ASSUME NEW w \in Workers, Woken(w) PROVE TypeOK'
  BY <1>8, PoolAssumption DEF Woken, TypeOK, WorkerGoes, poolVars, workerVars,
     callVars, dtorVars
<1>9. ASSUME NEW w \in Workers, Finish(w) PROVE TypeOK'
  BY <1>9, PoolAssumption DEF Finish, TypeOK, EntryHeld, WorkerGoes, poolVars,
     callVars, dtorVars
<1>10. ASSUME NEW w \in Workers, Release(w) PROVE TypeOK'
  BY <1>10, FreePush DEF Release, TypeOK, callVars, dtorVars
<1>11. ASSUME NEW w \in Workers, Notify(w) PROVE TypeOK'
  BY <1>11, PoolAssumption DEF Notify, TypeOK, WorkerGoes, poolVars, workerVars,
     callVars, dtorVars
<1>12. CASE Destroy
  BY <1>12, PoolAssumption DEF Destroy, TypeOK, WorkerGoes, poolVars, workerVars,
     callVars, dtorVars
<1>13. CASE DestroyNotify
  BY <1>13, PoolAssumption DEF DestroyNotify, TypeOK, WorkerGoes, poolVars, workerVars,
     callVars, dtorVars
<1>14. CASE DestroyJoin
  BY <1>14, PoolAssumption DEF DestroyJoin, TypeOK, Stopping, poolVars, workerVars,
     callVars
<1>15. CASE UNCHANGED vars
  BY <1>15, PoolAssumption DEF TypeOK, vars, poolVars, workerVars, callVars, dtorVars
<1> QED
  BY <1>1, <1>2, <1>3, <1>4, <1>5, <1>6, <1>7, <1>8, <1>9, <1>10, <1>11, <1>12, <1>13,
     <1>14, <1>15
  DEF Next, CallerStep, WorkerStep, DestroyStep

\* m_free_mtx has one holder, from TakeWorker to Assign.
LEMMA NextMutex ==
    ASSUME Inv, [Next]_vars PROVE MutexHeld'
<1> USE DEF Inv, TypeOK
<1>1. ASSUME NEW c \in Callers, NEW t \in Tasks, Execute(c, t) PROVE MutexHeld'
  BY <1>1 DEF Execute, MutexHeld, WorkerGoes, poolVars, workerVars, callVars, dtorVars
<1>2. ASSUME NEW c \in Callers, TakeWorker(c) PROVE MutexHeld'
  <2>1. NoOne \notin Callers
    BY PoolAssumption DEF Callers, Workers
  <2>2. \A d \in Callers : call[d] # "assign"
    BY <2>1, <1>2 DEF TakeWorker, MutexHeld
  <2>3. use_index'[c] \in Workers
    BY <1>2, FreePop
  <2>4. /\ m_free_mtx' = c
        /\ call' = [call EXCEPT ![c] = "assign"]
    BY <1>2 DEF TakeWorker
  <2> QED
    BY <2>2, <2>3, <2>4 DEF MutexHeld
<1>3. ASSUME NEW c \in Callers, WaitForWorker(c) PROVE MutexHeld'
  BY <1>3 DEF WaitForWorker, MutexHeld, WorkerGoes, poolVars, workerVars, callVars,
     dtorVars
<1>4. ASSUME NEW c \in Callers, Assign(c) PROVE MutexHeld'
  <2>1. NoOne \notin Callers
    BY PoolAssumption DEF Callers, Workers
  <2>2. \A d \in Callers : d # c => call[d] # "assign"
    BY <1>4 DEF Assign, MutexHeld
  <2>3. /\ m_free_mtx' = NoOne
        /\ call' = [call EXCEPT ![c] = "idle"]
    BY <1>4 DEF Assign
  <2> QED
    BY <2>1, <2>2, <2>3 DEF MutexHeld
<1>5. ASSUME NEW w \in Workers, Top(w) PROVE MutexHeld'
  BY <1>5 DEF Top, MutexHeld, WorkerGoes, poolVars, workerVars, callVars, dtorVars
<1>6. ASSUME NEW w \in Workers, Pred(w) PROVE MutexHeld'
  BY <1>6 DEF Pred, MutexHeld, WorkerGoes, poolVars, workerVars, callVars, dtorVars
<1>7. ASSUME NEW w \in Workers, Block(w) PROVE MutexHeld'
  BY <1>7 DEF Block, MutexHeld, WorkerGoes, poolVars, workerVars, callVars, dtorVars
<1>8. ASSUME NEW w \in Workers, Woken(w) PROVE MutexHeld'
  BY <1>8 DEF Woken, MutexHeld, WorkerGoes, poolVars, workerVars, callVars, dtorVars
<1>9. ASSUME NEW w \in Workers, Finish(w) PROVE MutexHeld'
  BY <1>9 DEF Finish, MutexHeld, WorkerGoes, poolVars, workerVars, callVars, dtorVars
<1>10. ASSUME NEW w \in Workers, Release(w) PROVE MutexHeld'
  BY <1>10 DEF Release, MutexHeld, WorkerGoes, poolVars, workerVars, callVars, dtorVars
<1>11. ASSUME NEW w \in Workers, Notify(w) PROVE MutexHeld'
  BY <1>11 DEF Notify, MutexHeld, WorkerGoes, poolVars, workerVars, callVars, dtorVars
<1>12. CASE Destroy
  BY <1>12 DEF Destroy, MutexHeld, WorkerGoes, poolVars, workerVars, callVars, dtorVars
<1>13. CASE DestroyNotify
  BY <1>13 DEF DestroyNotify, MutexHeld, WorkerGoes, poolVars, workerVars, callVars,
     dtorVars
<1>14. CASE DestroyJoin
  BY <1>14 DEF DestroyJoin, MutexHeld, WorkerGoes, poolVars, workerVars, callVars,
     dtorVars
<1>15. CASE UNCHANGED vars
  BY <1>15 DEF MutexHeld, vars, poolVars, workerVars, callVars, dtorVars
<1> QED
  BY <1>1, <1>2, <1>3, <1>4, <1>5, <1>6, <1>7, <1>8, <1>9, <1>10, <1>11, <1>12, <1>13,
     <1>14, <1>15
  DEF Next, CallerStep, WorkerStep, DestroyStep

\* Only a worker that is listed, so not busy, is given a functor.
LEMMA NextEntry ==
    ASSUME Inv, [Next]_vars PROVE EntryHeld'
<1> USE DEF Inv, TypeOK
<1>1. ASSUME NEW c \in Callers, NEW t \in Tasks, Execute(c, t) PROVE EntryHeld'
  BY <1>1 DEF Execute, EntryHeld, WorkerGoes, poolVars, workerVars, callVars, dtorVars
<1>2. ASSUME NEW c \in Callers, TakeWorker(c) PROVE EntryHeld'
  BY <1>2 DEF TakeWorker, EntryHeld, WorkerGoes, poolVars, workerVars, callVars, dtorVars
<1>3. ASSUME NEW c \in Callers, WaitForWorker(c) PROVE EntryHeld'
  BY <1>3 DEF WaitForWorker, EntryHeld, WorkerGoes, poolVars, workerVars, callVars,
     dtorVars
<1>4. ASSUME NEW c \in Callers, Assign(c) PROVE EntryHeld'
  BY <1>4, PoolAssumption DEF Assign, EntryHeld, MutexHeld, OneState, Taken, Busy,
     InHand, dtorVars
<1>5. ASSUME NEW w \in Workers, Top(w) PROVE EntryHeld'
  BY <1>5 DEF Top, EntryHeld, WorkerGoes, poolVars, workerVars, callVars, dtorVars
<1>6. ASSUME NEW w \in Workers, Pred(w) PROVE EntryHeld'
  BY <1>6 DEF Pred, EntryHeld, WorkerGoes, poolVars, workerVars, callVars, dtorVars
<1>7. ASSUME NEW w \in Workers, Block(w) PROVE EntryHeld'
  BY <1>7 DEF Block, EntryHeld, WorkerGoes, poolVars, workerVars, callVars, dtorVars
<1>8. ASSUME NEW w \in Workers, Woken(w) PROVE EntryHeld'
  BY <1>8 DEF Woken, EntryHeld, WorkerGoes, poolVars, workerVars, callVars, dtorVars
<1>9. ASSUME NEW w \in Workers, Finish(w) PROVE EntryHeld'
  BY <1>9 DEF Finish, EntryHeld, WorkerGoes, poolVars, workerVars, callVars, dtorVars
<1>10. ASSUME NEW w \in Workers, Release(w) PROVE EntryHeld'
  BY <1>10 DEF Release, EntryHeld, WorkerGoes, poolVars, workerVars, callVars, dtorVars
<1>11. ASSUME NEW w \in Workers, Notify(w) PROVE EntryHeld'
  BY <1>11 DEF Notify, EntryHeld, WorkerGoes, poolVars, workerVars, callVars, dtorVars
<1>12. CASE Destroy
  BY <1>12 DEF Destroy, EntryHeld, WorkerGoes, poolVars, workerVars, callVars, dtorVars
<1>13. CASE DestroyNotify
  BY <1>13 DEF DestroyNotify, EntryHeld, WorkerGoes, poolVars, workerVars, callVars,
     dtorVars
<1>14. CASE DestroyJoin
  BY <1>14 DEF DestroyJoin, EntryHeld, WorkerGoes, poolVars, workerVars, callVars,
     dtorVars
<1>15. CASE UNCHANGED vars
  BY <1>15 DEF EntryHeld, vars, poolVars, workerVars, callVars, dtorVars
<1> QED
  BY <1>1, <1>2, <1>3, <1>4, <1>5, <1>6, <1>7, <1>8, <1>9, <1>10, <1>11, <1>12, <1>13,
     <1>14, <1>15
  DEF Next, CallerStep, WorkerStep, DestroyStep

\* m_free lists nobody twice.
LEMMA NextListed ==
    ASSUME Inv, [Next]_vars PROVE ListedOnce'
<1> USE DEF Inv
<1>1. ASSUME NEW c \in Callers, NEW t \in Tasks, Execute(c, t) PROVE ListedOnce'
  BY <1>1 DEF Execute, ListedOnce, WorkerGoes, poolVars, workerVars, callVars, dtorVars
<1>2. ASSUME NEW c \in Callers, TakeWorker(c) PROVE ListedOnce'
  BY <1>2, FreePop
<1>3. ASSUME NEW c \in Callers, WaitForWorker(c) PROVE ListedOnce'
  BY <1>3 DEF WaitForWorker, ListedOnce, WorkerGoes, poolVars, workerVars, callVars,
     dtorVars
<1>4. ASSUME NEW c \in Callers, Assign(c) PROVE ListedOnce'
  BY <1>4 DEF Assign, ListedOnce, WorkerGoes, poolVars, workerVars, callVars, dtorVars
<1>5. ASSUME NEW w \in Workers, Top(w) PROVE ListedOnce'
  BY <1>5 DEF Top, ListedOnce, WorkerGoes, poolVars, workerVars, callVars, dtorVars
<1>6. ASSUME NEW w \in Workers, Pred(w) PROVE ListedOnce'
  BY <1>6 DEF Pred, ListedOnce, WorkerGoes, poolVars, workerVars, callVars, dtorVars
<1>7. ASSUME NEW w \in Workers, Block(w) PROVE ListedOnce'
  BY <1>7 DEF Block, ListedOnce, WorkerGoes, poolVars, workerVars, callVars, dtorVars
<1>8. ASSUME NEW w \in Workers, Woken(w) PROVE ListedOnce'
  BY <1>8 DEF Woken, ListedOnce, WorkerGoes, poolVars, workerVars, callVars, dtorVars
<1>9. ASSUME NEW w \in Workers, Finish(w) PROVE ListedOnce'
  BY <1>9 DEF Finish, ListedOnce, WorkerGoes, poolVars, workerVars, callVars, dtorVars
<1>10. ASSUME NEW w \in Workers, Release(w) PROVE ListedOnce'
  BY <1>10, FreePush
<1>11. ASSUME NEW w \in Workers, Notify(w) PROVE ListedOnce'
  BY <1>11 DEF Notify, ListedOnce, WorkerGoes, poolVars, workerVars, callVars, dtorVars
<1>12. CASE Destroy
  BY <1>12 DEF Destroy, ListedOnce, WorkerGoes, poolVars, workerVars, callVars, dtorVars
<1>13. CASE DestroyNotify
  BY <1>13 DEF DestroyNotify, ListedOnce, WorkerGoes, poolVars, workerVars, callVars,
     dtorVars
<1>14. CASE DestroyJoin
  BY <1>14 DEF DestroyJoin, ListedOnce, WorkerGoes, poolVars, workerVars, callVars,
     dtorVars
<1>15. CASE UNCHANGED vars
  BY <1>15 DEF ListedOnce, vars, poolVars, workerVars, callVars, dtorVars
<1> QED
  BY <1>1, <1>2, <1>3, <1>4, <1>5, <1>6, <1>7, <1>8, <1>9, <1>10, <1>11, <1>12, <1>13,
     <1>14, <1>15
  DEF Next, CallerStep, WorkerStep, DestroyStep

\* A worker goes from the list to the taker, to its task and back.
LEMMA NextOneState ==
    ASSUME Inv, [Next]_vars PROVE OneState'
<1> USE DEF Inv, TypeOK
<1>1. ASSUME NEW c \in Callers, NEW t \in Tasks, Execute(c, t) PROVE OneState'
  BY <1>1 DEF Execute, OneState, IsFree, Taken, Busy, WorkerGoes, poolVars, workerVars,
     callVars, dtorVars
<1>2. ASSUME NEW c \in Callers, TakeWorker(c) PROVE OneState'
  <2> SUFFICES ASSUME NEW v \in Workers
               PROVE  \/ IsFree(v)' /\ ~Taken(v)' /\ ~Busy(v)'
                      \/ ~IsFree(v)' /\ Taken(v)' /\ ~Busy(v)'
                      \/ ~IsFree(v)' /\ ~Taken(v)' /\ Busy(v)'
    BY DEF OneState
  <2> DEFINE u == m_free[Len(m_free)]
  <2>1. IsFree(v)' <=> IsFree(v) /\ v # u
    BY <1>2, FreePop
  <2>2. Busy(v)' <=> Busy(v)
    BY <1>2 DEF TakeWorker, Busy, workerVars
  <2>3. Taken(v)' <=> Taken(v) \/ v = u
    <3>1. /\ call[c] = "lock" /\ use_index' = [use_index EXCEPT ![c] = u]
          /\ call' = [call EXCEPT ![c] = "assign"]
      BY <1>2 DEF TakeWorker
    <3> HIDE DEF u
    <3> QED
      BY <3>1 DEF Taken
  <2>4. IsFree(u) /\ u \in Workers
    BY <1>2, FreePop
  <2> QED
    BY <2>1, <2>2, <2>3, <2>4 DEF OneState
<1>3. ASSUME NEW c \in Callers, WaitForWorker(c) PROVE OneState'
  BY <1>3 DEF WaitForWorker, OneState, IsFree, Taken, Busy, WorkerGoes, poolVars,
     workerVars, callVars, dtorVars
<1>4. ASSUME NEW c \in Callers, Assign(c) PROVE OneState'
  <2> SUFFICES ASSUME NEW v \in Workers
               PROVE  \/ IsFree(v)' /\ ~Taken(v)' /\ ~Busy(v)'
                      \/ ~IsFree(v)' /\ Taken(v)' /\ ~Busy(v)'
                      \/ ~IsFree(v)' /\ ~Taken(v)' /\ Busy(v)'
    BY DEF OneState
  <2> DEFINE u == use_index[c]
  <2>1. u \in Workers /\ call[c] = "assign" /\ arg[c] # NoTask
    BY <1>4 DEF Assign, MutexHeld, InHand
  <2>2. Taken(u)
    BY <2>1 DEF Taken
  <2>3. IsFree(v)' <=> IsFree(v)
    BY <1>4 DEF Assign, IsFree
  <2>4. ~Taken(v)'
    BY <1>4 DEF Assign, Taken, MutexHeld
  <2>5. v # u => ~Taken(v)
    BY <1>4 DEF Assign, Taken, MutexHeld
  <2>6. v # u => (Busy(v)' <=> Busy(v))
    BY <1>4, <2>1 DEF Assign, Busy
  <2>7. v = u => Busy(v)'
    BY <1>4, <2>1 DEF Assign, Busy
  <2> QED
    BY <2>1, <2>2, <2>3, <2>4, <2>5, <2>6, <2>7 DEF OneState
<1>5. ASSUME NEW w \in Workers, Top(w) PROVE OneState'
  BY <1>5 DEF Top, OneState, IsFree, Taken, Busy, WorkerGoes, poolVars, workerVars,
     callVars, dtorVars
<1>6. ASSUME NEW w \in Workers, Pred(w) PROVE OneState'
  BY <1>6 DEF Pred, OneState, IsFree, Taken, Busy, WorkerGoes, poolVars, workerVars,
     callVars, dtorVars
<1>7. ASSUME NEW w \in Workers, Block(w) PROVE OneState'
  BY <1>7 DEF Block, OneState, IsFree, Taken, Busy, WorkerGoes, poolVars, workerVars,
     callVars, dtorVars
<1>8. ASSUME NEW w \in Workers, Woken(w) PROVE OneState'
  BY <1>8 DEF Woken, OneState, IsFree, Taken, Busy, WorkerGoes, poolVars, workerVars,
     callVars, dtorVars
<1>9. ASSUME NEW w \in Workers, Finish(w) PROVE OneState'
  <2>1. \A v \in Workers : (IsFree(v)' <=> IsFree(v)) /\ (Taken(v)' <=> Taken(v))
    BY <1>9 DEF Finish, IsFree, Taken, poolVars, callVars
  <2>2. \A v \in Workers : Busy(v)' <=> Busy(v)
    <3>1. /\ functor' = [functor EXCEPT ![w] = NoTask]
          /\ pc' = [pc EXCEPT ![w] = "release"]
          /\ functor[w] # NoTask
      BY <1>9 DEF Finish, WorkerGoes, EntryHeld
    <3> QED
      BY <3>1 DEF Busy
  <2> QED
    BY <2>1, <2>2 DEF OneState
<1>10. ASSUME NEW w \in Workers, Release(w) PROVE OneState'
  <2>1. \A v \in Workers : IsFree(v)' <=> IsFree(v) \/ v = w
    BY <1>10, FreePush
  <2>2. \A v \in Workers : Taken(v)' <=> Taken(v)
    BY <1>10 DEF Release, Taken, callVars
  <2>3. \A v \in Workers : Busy(v)' <=> Busy(v) /\ v # w
    BY <1>10 DEF Release, Busy, EntryHeld
  <2>4. Busy(w)
    BY <1>10 DEF Release, Busy
  <2> QED
    BY <2>1, <2>2, <2>3, <2>4 DEF OneState
<1>11. ASSUME NEW w \in Workers, Notify(w) PROVE OneState'
  BY <1>11 DEF Notify, OneState, IsFree, Taken, Busy, WorkerGoes, poolVars, workerVars,
     callVars, dtorVars
<1>12. CASE Destroy
  BY <1>12 DEF Destroy, OneState, IsFree, Taken, Busy, WorkerGoes, poolVars,
     workerVars, callVars, dtorVars
<1>13. CASE DestroyNotify
  BY <1>13 DEF DestroyNotify, OneState, IsFree, Taken, Busy, WorkerGoes, poolVars,
     workerVars, callVars, dtorVars
<1>14. CASE DestroyJoin
  BY <1>14 DEF DestroyJoin, OneState, IsFree, Taken, Busy, WorkerGoes, poolVars,
     workerVars, callVars, dtorVars
<1>15. CASE UNCHANGED vars
  BY <1>15 DEF OneState, IsFree, Taken, Busy, vars, poolVars, workerVars, callVars,
     dtorVars
<1> QED
  BY <1>1, <1>2, <1>3, <1>4, <1>5, <1>6, <1>7, <1>8, <1>9, <1>10, <1>11, <1>12, <1>13,
     <1>14, <1>15
  DEF Next, CallerStep, WorkerStep, DestroyStep

\* The destructor and the calls that may still come.
LEMMA NextStopping ==
    ASSUME Inv, [Next]_vars PROVE Stopping'
<1> USE PoolAssumption DEF Inv, TypeOK, Callers, Workers
<1>1. ASSUME NEW c \in Callers, NEW t \in Tasks, Execute(c, t) PROVE Stopping'
  BY <1>1 DEF Execute, Stopping, WorkerGoes, poolVars, workerVars, callVars, dtorVars
<1>2. ASSUME NEW c \in Callers, TakeWorker(c) PROVE Stopping'
  BY <1>2 DEF TakeWorker, Stopping, WorkerGoes, poolVars, workerVars, callVars, dtorVars
<1>3. ASSUME NEW c \in Callers, WaitForWorker(c) PROVE Stopping'
  BY <1>3 DEF WaitForWorker, Stopping, WorkerGoes, poolVars, workerVars, callVars,
     dtorVars
<1>4. ASSUME NEW c \in Callers, Assign(c) PROVE Stopping'
  BY <1>4 DEF Assign, Stopping, WorkerGoes, poolVars, workerVars, callVars, dtorVars
<1>5. ASSUME NEW w \in Workers, Top(w) PROVE Stopping'
  BY <1>5 DEF Top, Stopping, WorkerGoes, poolVars, workerVars, callVars, dtorVars
<1>6. ASSUME NEW w \in Workers, Pred(w) PROVE Stopping'
  BY <1>6 DEF Pred, Stopping, WorkerGoes, poolVars, workerVars, callVars, dtorVars
<1>7. ASSUME NEW w \in Workers, Block(w) PROVE Stopping'
  BY <1>7 DEF Block, Stopping, WorkerGoes, poolVars, workerVars, callVars, dtorVars
<1>8. ASSUME NEW w \in Workers, Woken(w) PROVE Stopping'
  BY <1>8 DEF Woken, Stopping, WorkerGoes, poolVars, workerVars, callVars, dtorVars
<1>9. ASSUME NEW w \in Workers, Finish(w) PROVE Stopping'
  BY <1>9 DEF Finish, Stopping, WorkerGoes, poolVars, workerVars, callVars, dtorVars
<1>10. ASSUME NEW w \in Workers, Release(w) PROVE Stopping'
  BY <1>10 DEF Release, Stopping, WorkerGoes, poolVars, workerVars, callVars, dtorVars
<1>11. ASSUME NEW w \in Workers, Notify(w) PROVE Stopping'
  BY <1>11 DEF Notify, Stopping, WorkerGoes, poolVars, workerVars, callVars, dtorVars
<1>12. CASE Destroy
  BY <1>12 DEF Destroy, Stopping, WorkerGoes, poolVars, workerVars, callVars, dtorVars
<1>13. CASE DestroyNotify
  BY <1>13 DEF DestroyNotify, Stopping, WorkerGoes, poolVars, workerVars, callVars,
     dtorVars
<1>14. CASE DestroyJoin
  BY <1>14 DEF DestroyJoin, Stopping, WorkerGoes, poolVars, workerVars, callVars, dtorVars
<1>15. CASE UNCHANGED vars
  BY <1>15 DEF Stopping, vars, poolVars, workerVars, callVars, dtorVars
<1> QED
  BY <1>1, <1>2, <1>3, <1>4, <1>5, <1>6, <1>7, <1>8, <1>9, <1>10, <1>11, <1>12, <1>13,
     <1>14, <1>15
  DEF Next, CallerStep, WorkerStep, DestroyStep

\* A task is in the hand of one caller.
LEMMA NextInHand ==
    ASSUME Inv, [Next]_vars PROVE InHand'
<1> USE PoolAssumption DEF Inv, TypeOK, InHand
<1>1. ASSUME NEW c \in Callers, NEW t \in Tasks, Execute(c, t) PROVE InHand'
  BY <1>1 DEF Execute, AtWorker, Somewhere, WorkerGoes, poolVars, workerVars, callVars,
     dtorVars
<1>2. ASSUME NEW c \in Callers, TakeWorker(c) PROVE InHand'
  BY <1>2 DEF TakeWorker, AtWorker, Somewhere, WorkerGoes, poolVars, workerVars,
     callVars, dtorVars
<1>3. ASSUME NEW c \in Callers, WaitForWorker(c) PROVE InHand'
  BY <1>3 DEF WaitForWorker, AtWorker, Somewhere, WorkerGoes, poolVars, workerVars,
     callVars, dtorVars
<1>4. ASSUME NEW c \in Callers, Assign(c) PROVE InHand'
  BY <1>4 DEF Assign, AtWorker, Somewhere, WorkerGoes, poolVars, workerVars, callVars,
     dtorVars
<1>5. ASSUME NEW w \in Workers, Top(w) PROVE InHand'
  BY <1>5 DEF Top, AtWorker, Somewhere, WorkerGoes, poolVars, workerVars, callVars,
     dtorVars
<1>6. ASSUME NEW w \in Workers, Pred(w) PROVE InHand'
  BY <1>6 DEF Pred, AtWorker, Somewhere, WorkerGoes, poolVars, workerVars, callVars,
     dtorVars
<1>7. ASSUME NEW w \in Workers, Block(w) PROVE InHand'
  BY <1>7 DEF Block, AtWorker, Somewhere, WorkerGoes, poolVars, workerVars, callVars,
     dtorVars
<1>8. ASSUME NEW w \in Workers, Woken(w) PROVE InHand'
  BY <1>8 DEF Woken, AtWorker, Somewhere, WorkerGoes, poolVars, workerVars, callVars,
     dtorVars
<1>9. ASSUME NEW w \in Workers, Finish(w) PROVE InHand'
  BY <1>9 DEF Finish, AtWorker, Somewhere, WorkerGoes, poolVars, workerVars, callVars,
     dtorVars
<1>10. ASSUME NEW w \in Workers, Release(w) PROVE InHand'
  BY <1>10 DEF Release, AtWorker, Somewhere, WorkerGoes, poolVars, workerVars,
     callVars, dtorVars
<1>11. ASSUME NEW w \in Workers, Notify(w) PROVE InHand'
  BY <1>11 DEF Notify, AtWorker, Somewhere, WorkerGoes, poolVars, workerVars, callVars,
     dtorVars
<1>12. CASE Destroy
  BY <1>12 DEF Destroy, AtWorker, Somewhere, WorkerGoes, poolVars, workerVars,
     callVars, dtorVars
<1>13. CASE DestroyNotify
  BY <1>13 DEF DestroyNotify, AtWorker, Somewhere, WorkerGoes, poolVars, workerVars,
     callVars, dtorVars
<1>14. CASE DestroyJoin
  BY <1>14 DEF DestroyJoin, AtWorker, Somewhere, WorkerGoes, poolVars, workerVars,
     callVars, dtorVars
<1>15. CASE UNCHANGED vars
  BY <1>15 DEF AtWorker, Somewhere, vars, poolVars, workerVars, callVars, dtorVars
<1> QED
  BY <1>1, <1>2, <1>3, <1>4, <1>5, <1>6, <1>7, <1>8, <1>9, <1>10, <1>11, <1>12, <1>13,
     <1>14, <1>15
  DEF Next, CallerStep, WorkerStep, DestroyStep

\* A task is at one worker.
LEMMA NextAtWorker ==
    ASSUME Inv, [Next]_vars PROVE AtWorker'
<1> USE PoolAssumption DEF Inv, TypeOK, AtWorker, InHand
<1>1. ASSUME NEW c \in Callers, NEW t \in Tasks, Execute(c, t) PROVE AtWorker'
  BY <1>1 DEF Execute, EntryHeld, MutexHeld, Somewhere, WorkerGoes, poolVars,
     workerVars, callVars, dtorVars
<1>2. ASSUME NEW c \in Callers, TakeWorker(c) PROVE AtWorker'
  BY <1>2 DEF TakeWorker, EntryHeld, MutexHeld, Somewhere, WorkerGoes, poolVars,
     workerVars, callVars, dtorVars
<1>3. ASSUME NEW c \in Callers, WaitForWorker(c) PROVE AtWorker'
  BY <1>3 DEF WaitForWorker, EntryHeld, MutexHeld, Somewhere, WorkerGoes, poolVars,
     workerVars, callVars, dtorVars
<1>4. ASSUME NEW c \in Callers, Assign(c) PROVE AtWorker'
  BY <1>4 DEF Assign, EntryHeld, MutexHeld, Somewhere, WorkerGoes, poolVars,
     workerVars, callVars, dtorVars
<1>5. ASSUME NEW w \in Workers, Top(w) PROVE AtWorker'
  BY <1>5 DEF Top, EntryHeld, MutexHeld, Somewhere, WorkerGoes, poolVars, workerVars,
     callVars, dtorVars
<1>6. ASSUME NEW w \in Workers, Pred(w) PROVE AtWorker'
  BY <1>6 DEF Pred, EntryHeld, MutexHeld, Somewhere, WorkerGoes, poolVars, workerVars,
     callVars, dtorVars
<1>7. ASSUME NEW w \in Workers, Block(w) PROVE AtWorker'
  BY <1>7 DEF Block, EntryHeld, MutexHeld, Somewhere, WorkerGoes, poolVars, workerVars,
     callVars, dtorVars
<1>8. ASSUME NEW w \in Workers, Woken(w) PROVE AtWorker'
  BY <1>8 DEF Woken, EntryHeld, MutexHeld, Somewhere, WorkerGoes, poolVars, workerVars,
     callVars, dtorVars
<1>9. ASSUME NEW w \in Workers, Finish(w) PROVE AtWorker'
  BY <1>9 DEF Finish, EntryHeld, MutexHeld, Somewhere, WorkerGoes, poolVars,
     workerVars, callVars, dtorVars
<1>10. ASSUME NEW w \in Workers, Release(w) PROVE AtWorker'
  BY <1>10 DEF Release, EntryHeld, MutexHeld, Somewhere, WorkerGoes, poolVars,
     workerVars, callVars, dtorVars
<1>11. ASSUME NEW w \in Workers, Notify(w) PROVE AtWorker'
  BY <1>11 DEF Notify, EntryHeld, MutexHeld, Somewhere, WorkerGoes, poolVars,
     workerVars, callVars, dtorVars
<1>12. CASE Destroy
  BY <1>12 DEF Destroy, EntryHeld, MutexHeld, Somewhere, WorkerGoes, poolVars,
     workerVars, callVars, dtorVars
<1>13. CASE DestroyNotify
  BY <1>13 DEF DestroyNotify, EntryHeld, MutexHeld, Somewhere, WorkerGoes, poolVars,
     workerVars, callVars, dtorVars
<1>14. CASE DestroyJoin
  BY <1>14 DEF DestroyJoin, EntryHeld, MutexHeld, Somewhere, WorkerGoes, poolVars,
     workerVars, callVars, dtorVars
<1>15. CASE UNCHANGED vars
  BY <1>15 DEF EntryHeld, MutexHeld, Somewhere, vars, poolVars, workerVars, callVars,
     dtorVars
<1> QED
  BY <1>1, <1>2, <1>3, <1>4, <1>5, <1>6, <1>7, <1>8, <1>9, <1>10, <1>11, <1>12, <1>13,
     <1>14, <1>15
  DEF Next, CallerStep, WorkerStep, DestroyStep

\* A task does not get lost on its way.
LEMMA NextSomewhere ==
    ASSUME Inv, [Next]_vars PROVE Somewhere'
<1> USE PoolAssumption DEF Inv, TypeOK, Somewhere
<1>1. ASSUME NEW c \in Callers, NEW t \in Tasks, Execute(c, t) PROVE Somewhere'
  BY <1>1 DEF Execute, EntryHeld, MutexHeld, OneState, Taken, Busy, InHand, WorkerGoes,
     poolVars, workerVars, callVars, dtorVars
<1>2. ASSUME NEW c \in Callers, TakeWorker(c) PROVE Somewhere'
  BY <1>2 DEF TakeWorker, EntryHeld, MutexHeld, OneState, Taken, Busy, InHand,
     WorkerGoes, poolVars, workerVars, callVars, dtorVars
<1>3. ASSUME NEW c \in Callers, WaitForWorker(c) PROVE Somewhere'
  BY <1>3 DEF WaitForWorker, EntryHeld, MutexHeld, OneState, Taken, Busy, InHand,
     WorkerGoes, poolVars, workerVars, callVars, dtorVars
<1>4. ASSUME NEW c \in Callers, Assign(c) PROVE Somewhere'
  BY <1>4 DEF Assign, EntryHeld, MutexHeld, OneState, Taken, Busy, InHand, WorkerGoes,
     poolVars, workerVars, callVars, dtorVars
<1>5. ASSUME NEW w \in Workers, Top(w) PROVE Somewhere'
  BY <1>5 DEF Top, EntryHeld, MutexHeld, OneState, Taken, Busy, InHand, WorkerGoes,
     poolVars, workerVars, callVars, dtorVars
<1>6. ASSUME NEW w \in Workers, Pred(w) PROVE Somewhere'
  BY <1>6 DEF Pred, EntryHeld, MutexHeld, OneState, Taken, Busy, InHand, WorkerGoes,
     poolVars, workerVars, callVars, dtorVars
<1>7. ASSUME NEW w \in Workers, Block(w) PROVE Somewhere'
  BY <1>7 DEF Block, EntryHeld, MutexHeld, OneState, Taken, Busy, InHand, WorkerGoes,
     poolVars, workerVars, callVars, dtorVars
<1>8. ASSUME NEW w \in Workers, Woken(w) PROVE Somewhere'
  BY <1>8 DEF Woken, EntryHeld, MutexHeld, OneState, Taken, Busy, InHand, WorkerGoes,
     poolVars, workerVars, callVars, dtorVars
<1>9. ASSUME NEW w \in Workers, Finish(w) PROVE Somewhere'
  <2>1. /\ functor[w] \in submitted /\ functor[w] # NoTask
        /\ done' = done \cup {functor[w]} /\ submitted' = submitted /\ arg' = arg
        /\ functor' = [functor EXCEPT ![w] = NoTask]
    BY <1>9 DEF Finish, EntryHeld, AtWorker, callVars
  <2>2. \A t \in submitted' \ done' : \/ \E c \in Callers : arg'[c] = t
                                      \/ \E v \in Workers : functor'[v] = t
    BY <2>1
  <2> QED
    BY <2>1, <2>2
<1>10. ASSUME NEW w \in Workers, Release(w) PROVE Somewhere'
  BY <1>10 DEF Release, EntryHeld, MutexHeld, OneState, Taken, Busy, InHand,
     WorkerGoes, poolVars, workerVars, callVars, dtorVars
<1>11. ASSUME NEW w \in Workers, Notify(w) PROVE Somewhere'
  BY <1>11 DEF Notify, EntryHeld, MutexHeld, OneState, Taken, Busy, InHand, WorkerGoes,
     poolVars, workerVars, callVars, dtorVars
<1>12. CASE Destroy
  BY <1>12 DEF Destroy, EntryHeld, MutexHeld, OneState, Taken, Busy, InHand,
     WorkerGoes, poolVars, workerVars, callVars, dtorVars
<1>13. CASE DestroyNotify
  BY <1>13 DEF DestroyNotify, EntryHeld, MutexHeld, OneState, Taken, Busy, InHand,
     WorkerGoes, poolVars, workerVars, callVars, dtorVars
<1>14. CASE DestroyJoin
  BY <1>14 DEF DestroyJoin, EntryHeld, MutexHeld, OneState, Taken, Busy, InHand,
     WorkerGoes, poolVars, workerVars, callVars, dtorVars
<1>15. CASE UNCHANGED vars
  BY <1>15 DEF EntryHeld, MutexHeld, OneState, Taken, Busy, InHand, vars, poolVars,
     workerVars, callVars, dtorVars
<1> QED
  BY <1>1, <1>2, <1>3, <1>4, <1>5, <1>6, <1>7, <1>8, <1>9, <1>10, <1>11, <1>12, <1>13,
     <1>14, <1>15
  DEF Next, CallerStep, WorkerStep, DestroyStep

\* A task is handed over under entry_mtx, so not between the test and the wait.
LEMMA NextNoSleep ==
    ASSUME Inv, [Next]_vars PROVE NoSleepOnTask'
<1> USE PoolAssumption DEF Inv, TypeOK, NoSleepOnTask
<1>1. ASSUME NEW c \in Callers, NEW t \in Tasks, Execute(c, t) PROVE NoSleepOnTask'
  BY <1>1 DEF Execute, EntryHeld, MutexHeld, Stopping, InHand, Callers, WorkerGoes,
     poolVars, workerVars, callVars, dtorVars
<1>2. ASSUME NEW c \in Callers, TakeWorker(c) PROVE NoSleepOnTask'
  BY <1>2 DEF TakeWorker, EntryHeld, MutexHeld, Stopping, InHand, Callers, WorkerGoes,
     poolVars, workerVars, callVars, dtorVars
<1>3. ASSUME NEW c \in Callers, WaitForWorker(c) PROVE NoSleepOnTask'
  BY <1>3 DEF WaitForWorker, EntryHeld, MutexHeld, Stopping, InHand, Callers,
     WorkerGoes, poolVars, workerVars, callVars, dtorVars
<1>4. ASSUME NEW c \in Callers, Assign(c) PROVE NoSleepOnTask'
  BY <1>4 DEF Assign, EntryHeld, MutexHeld, Stopping, InHand, Callers, WorkerGoes,
     poolVars, workerVars, callVars, dtorVars
<1>5. ASSUME NEW w \in Workers, Top(w) PROVE NoSleepOnTask'
  BY <1>5 DEF Top, EntryHeld, MutexHeld, Stopping, InHand, Callers, WorkerGoes,
     poolVars, workerVars, callVars, dtorVars
<1>6. ASSUME NEW w \in Workers, Pred(w) PROVE NoSleepOnTask'
  BY <1>6 DEF Pred, EntryHeld, MutexHeld, Stopping, InHand, Callers, WorkerGoes,
     poolVars, workerVars, callVars, dtorVars
<1>7. ASSUME NEW w \in Workers, Block(w) PROVE NoSleepOnTask'
  BY <1>7 DEF Block, EntryHeld, MutexHeld, Stopping, InHand, Callers, WorkerGoes,
     poolVars, workerVars, callVars, dtorVars
<1>8. ASSUME NEW w \in Workers, Woken(w) PROVE NoSleepOnTask'
  BY <1>8 DEF Woken, EntryHeld, MutexHeld, Stopping, InHand, Callers, WorkerGoes,
     poolVars, workerVars, callVars, dtorVars
<1>9. ASSUME NEW w \in Workers, Finish(w) PROVE NoSleepOnTask'
  BY <1>9 DEF Finish, EntryHeld, MutexHeld, Stopping, InHand, Callers, WorkerGoes,
     poolVars, workerVars, callVars, dtorVars
<1>10. ASSUME NEW w \in Workers, Release(w) PROVE NoSleepOnTask'
  BY <1>10 DEF Release, EntryHeld, MutexHeld, Stopping, InHand, Callers, WorkerGoes,
     poolVars, workerVars, callVars, dtorVars
<1>11. ASSUME NEW w \in Workers, Notify(w) PROVE NoSleepOnTask'
  BY <1>11 DEF Notify, EntryHeld, MutexHeld, Stopping, InHand, Callers, WorkerGoes,
     poolVars, workerVars, callVars, dtorVars
<1>12. CASE Destroy
  BY <1>12 DEF Destroy, EntryHeld, MutexHeld, Stopping, InHand, Callers, WorkerGoes,
     poolVars, workerVars, callVars, dtorVars
<1>13. CASE DestroyNotify
  BY <1>13 DEF DestroyNotify, EntryHeld, MutexHeld, Stopping, InHand, Callers,
     WorkerGoes, poolVars, workerVars, callVars, dtorVars
<1>14. CASE DestroyJoin
  BY <1>14 DEF DestroyJoin, EntryHeld, MutexHeld, Stopping, InHand, Callers,
     WorkerGoes, poolVars, workerVars, callVars, dtorVars
<1>15. CASE UNCHANGED vars
  BY <1>15 DEF EntryHeld, MutexHeld, Stopping, InHand, Callers, vars, poolVars,
     workerVars, callVars, dtorVars
<1> QED
  BY <1>1, <1>2, <1>3, <1>4, <1>5, <1>6, <1>7, <1>8, <1>9, <1>10, <1>11, <1>12, <1>13,
     <1>14, <1>15
  DEF Next, CallerStep, WorkerStep, DestroyStep

\* The invariant is inductive.
LEMMA NextInv == Inv /\ [Next]_vars => Inv'
BY NextType, NextMutex, NextEntry, NextListed, NextOneState, NextStopping,
   NextInHand, NextAtWorker, NextSomewhere, NextNoSleep DEF Inv

-----------------------------------------------------------------------------
(* The theorems. *)

\* A task that is in one place is counted there once and nowhere else.
LEMMA PlacesCounted == Inv => TasksConserved
<1> SUFFICES ASSUME Inv, NEW t \in submitted
             PROVE  Cardinality({c \in Callers : arg[c] = t})
                      + Cardinality({w \in Workers : functor[w] = t})
                        = IF t \in done THEN 0 ELSE 1
  BY DEF TasksConserved
<1> DEFINE A == {c \in Callers : arg[c] = t}
           F == {w \in Workers : functor[w] = t}
<1> SUFFICES Cardinality(A) + Cardinality(F) = IF t \in done THEN 0 ELSE 1
  OBVIOUS
<1>1. t \in Tasks /\ t # NoTask
  BY PoolAssumption DEF Inv, TypeOK
<1>2. CASE t \in done
  <2>1. A = {} /\ F = {}
    BY <1>1, <1>2 DEF Inv, InHand, AtWorker
  <2> HIDE DEF A, F
  <2>2. Cardinality(A) = 0
    BY <2>1, FS_EmptySet
  <2>3. Cardinality(F) = 0
    BY <2>1, FS_EmptySet
  <2> QED
    BY <1>2, <2>2, <2>3
<1>3. CASE t \notin done /\ \E c \in Callers : arg[c] = t
  <2> PICK c \in Callers : arg[c] = t
    BY <1>3
  <2>1. A = {c} /\ F = {}
    BY <1>1 DEF Inv, InHand, AtWorker
  <2> HIDE DEF A, F
  <2>2. Cardinality(A) = 1
    BY <2>1, FS_Singleton
  <2>3. Cardinality(F) = 0
    BY <2>1, FS_EmptySet
  <2> QED
    BY <1>3, <2>2, <2>3
<1>4. CASE t \notin done /\ \E w \in Workers : functor[w] = t
  <2> PICK w \in Workers : functor[w] = t
    BY <1>4
  <2>1. A = {} /\ F = {w}
    BY <1>1 DEF Inv, InHand, AtWorker
  <2> HIDE DEF A, F
  <2>2. Cardinality(A) = 0
    BY <2>1, FS_EmptySet
  <2>3. Cardinality(F) = 1
    BY <2>1, FS_Singleton
  <2> QED
    BY <1>4, <2>2, <2>3
<1> QED
  BY <1>2, <1>3, <1>4 DEF Inv, Somewhere

\* Every reachable state satisfies the inductive invariant.
LEMMA InvHolds == Spec => []Inv
BY InitInv, NextInv, PTL DEF Spec

\* For any number of workers, clients and tasks, a worker is listed in m_free
\* once, or taken by one execute(), or busy, and only one of them: execute(),
\* which waits for an entry_mtx under m_free_mtx, never waits for the entry_mtx of
\* a worker that waits for m_free_mtx.
THEOREM WorkerNotLost == Spec => []WorkersAccounted
<1>1. Inv => WorkersAccounted
  BY DEF Inv, WorkersAccounted, ListedOnce, OneState
<1> QED
  BY <1>1, InvHolds, PTL

\* Every task given to execute() is in one caller's hand, in one worker's functor,
\* or has run: none is overwritten, dropped or run twice.
THEOREM TaskNotLost == Spec => []TasksConserved
BY PlacesCounted, InvHolds, PTL

\* execute() hands the task over under entry_mtx and notifies: no worker sleeps on
\* a task, and none leaves with a task of a client.
THEOREM TaskNotSleptOn == Spec => []NoSleepOnTask
<1>1. Inv => NoSleepOnTask
  BY DEF Inv
<1> QED
  BY <1>1, InvHolds, PTL

-----------------------------------------------------------------------------
(* execute() called by tasks. *)

\* A worker is inside execute() only while its functor runs.
CallsRunning == \A w \in Workers : call[w] # "idle" => pc[w] = "run"

\* A task that calls execute() returns from it before its functor does.
LEMMA CallsRunningHolds == Spec => []CallsRunning
<1>1. Init => CallsRunning
  BY DEF Init, CallsRunning, Callers
<1>2. Inv /\ CallsRunning /\ [Next]_vars => CallsRunning'
  <2> SUFFICES ASSUME Inv, CallsRunning, [Next]_vars,
                      NEW w \in Workers, call'[w] # "idle"
               PROVE  pc'[w] = "run"
    BY DEF CallsRunning
  <2> USE DEF Inv, TypeOK, CallsRunning, Callers, workerVars, callVars
  <2>1. ASSUME NEW c \in Callers, NEW t \in Tasks, Execute(c, t) PROVE pc'[w] = "run"
    BY <2>1, PoolAssumption DEF Execute, Workers
  <2>2. ASSUME NEW c \in Callers, CallerStep(c) PROVE pc'[w] = "run"
    <3>1. call[w] # "idle"
      BY <2>2 DEF CallerStep, TakeWorker, WaitForWorker, Assign
    <3> QED
      BY <2>2, <3>1 DEF CallerStep, TakeWorker, WaitForWorker, Assign
  <2>3. ASSUME NEW v \in Workers, WorkerStep(v) PROVE pc'[w] = "run"
    <3>1. call[w] # "idle"
      BY <2>3 DEF WorkerStep, Top, Pred, Block, Woken, Finish, Release, Notify
    <3> QED
      BY <2>3, <3>1 DEF WorkerStep, WorkerGoes, Top, Pred, Block, Woken, Finish, Release,
                        Notify
  <2>4. CASE Destroy \/ DestroyStep
    BY <2>4 DEF Destroy, DestroyStep, DestroyNotify, DestroyJoin
  <2>5. CASE UNCHANGED vars
    BY <2>5 DEF vars
  <2> QED
    BY <2>1, <2>2, <2>3, <2>4, <2>5 DEF Next
<1> QED
  BY <1>1, <1>2, InvHolds, PTL DEF Spec

\* When every worker that is left waits in execute(), on behalf of the task it runs, the
\* pool is blocked for ever: no step of a worker, of a client or of the destructor frees
\* one, and no task runs any more.
THEOREM ExhaustedForEver == Spec => [][Exhausted => Exhausted' /\ done' = done]_vars
<1>1. Inv /\ CallsRunning /\ [Next]_vars => [Exhausted => Exhausted' /\ done' = done]_vars
  <2> SUFFICES ASSUME Inv, CallsRunning, Next, Exhausted
               PROVE  Exhausted' /\ done' = done
    OBVIOUS
  <2> USE DEF Inv, TypeOK, Callers, workerVars, callVars
  <2>1. \A w \in Workers : \/ pc[w] = "exit" /\ call[w] = "idle"
                           \/ pc[w] = "run" /\ call[w] = "waiting"
    BY DEF Exhausted, CallsRunning
  <2> SUFFICES /\ done' = done
               /\ \A w \in Workers : pc'[w] = pc[w] /\ call'[w] = call[w]
    BY DEF Exhausted
  <2>2. ASSUME NEW c \in Callers, CallerStep(c) \/ \E t \in Tasks : Execute(c, t)
        PROVE  /\ done' = done
               /\ \A w \in Workers : pc'[w] = pc[w] /\ call'[w] = call[w]
    <3>1. c \notin Workers
      BY <2>1, <2>2, PoolAssumption
         DEF CallerStep, TakeWorker, WaitForWorker, Assign, Execute, Workers
    <3> QED
      BY <2>1, <2>2, <3>1 DEF CallerStep, TakeWorker, WaitForWorker, Assign, Execute
  <2>3. ASSUME NEW v \in Workers, WorkerStep(v) PROVE FALSE
    BY <2>1, <2>3 DEF WorkerStep, Top, Pred, Block, Woken, Finish, Release, Notify
  <2>4. ASSUME Destroy \/ DestroyStep
        PROVE  /\ done' = done
               /\ \A w \in Workers : pc'[w] = pc[w] /\ call'[w] = call[w]
    BY <2>1, <2>4 DEF Destroy, DestroyStep, DestroyNotify, DestroyJoin
  <2> QED
    BY <2>2, <2>3, <2>4 DEF Next
<1> QED
  BY <1>1, InvHolds, CallsRunningHolds, PTL DEF Spec

================================================================================
