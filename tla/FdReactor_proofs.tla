---------------------------- MODULE FdReactor_proofs ----------------------------
(***************************************************************************)
(* Theorems about FdReactor, for any number of threads, queues, callbacks, *)
(* removals and any bounds.                                                *)
(***************************************************************************)
EXTENDS FdReactor, FiniteSetTheorems, SequenceTheorems, TLAPS

\* Where run() is and what its locals hold: a batch of callbacks exists only while it
\* is run, a batch of removals only inside the callback posted for them; epoll_reactor
\* reads the eventfd only after the event, and a thread names a removal only until it
\* has posted the callback.
RunValid ==
    /\ pc \notin {"callback", "removing"} => cbl = <<>>
    /\ pc = "removing" => cbl # <<>> /\ Head(cbl) = RunRemovals
    /\ pc # "removing" => batch = <<>>
    /\ pc = "handler" => ctx \in Queues
    /\ pc = "drain" /\ backend = "epoll" => wake_fd > 0
    /\ \A t \in Threads : asking[t] # Nothing => op[t] = "post_removal"

\* The threads between the compare_exchange and the write.
Writers == {t \in Callers : op[t] = "write"}

\* Nothing is written into the pipe between its last read() and the store that
\* allows the next wake.
PipeDrained == backend = "poll" /\ pc = "unpend" => wake_fd = 0

\* The callbacks that are still to be started.
Pending == (IF pc = "removing" THEN Tail(cbl) ELSE cbl) \o m_wake_up_cb

\* A removal that was asked for and is in no batch has a callback still to be
\* started, or its thread is about to post one.
RemovalPosted ==
    \A x \in Elems(m_removals) :
        (\E t \in Threads : asking[t] = x) \/ RunRemovals \in Elems(Pending)

\* A removal posted ahead of a callback that has not started is done, or in the batch,
\* or the callback that takes it is still ahead.
RemovalAhead ==
    \A i \in DOMAIN Pending : Pending[i] \in Callbacks =>
        \A x \in before[Pending[i]] :
            \/ x \in Elems(removed) \cup Elems(batch)
            \/ \E j \in 1..(i - 1) : Pending[j] = RunRemovals

\* before is about removals that were asked for.
BeforeRequested == \A c \in Callbacks : before[c] \subseteq Elems(requested)

-----------------------------------------------------------------------------
(* Types. *)

\* The wake fd, the lists and the program counters of the reactor keep their types, and
\* run()'s locals their meaning.
LEMMA InitType == Init => TypeOK /\ RunValid
<1> SUFFICES ASSUME Init PROVE TypeOK /\ RunValid
  OBVIOUS
<1>1. /\ <<>> \in Seq(Callbacks \cup {RunRemovals}) /\ <<>> \in Seq(Removals)
      /\ 0 \in 0..MaxPushes /\ 0 \in 0..MaxFailures /\ 0 \in 0..MaxRuns
  BY FdAssumption
<1>2. /\ asking \in [Threads -> Removals \cup {Nothing}]
      /\ before \in [Callbacks -> SUBSET Removals]
      /\ items \in [Queues -> Nat]
      /\ op \in [Callers -> OpStates]
  BY DEF Init, OpStates
<1>3. pc \in RunStates \cup {"off"}
  BY DEF Init
<1>4. RunValid
  BY DEF Init, RunValid
<1> QED
  BY <1>1, <1>2, <1>3, <1>4 DEF Init, TypeOK

\* Every step of every thread keeps the types and the validity of what run() holds.
LEMMA NextType ==
    ASSUME TypeOK, RunValid, [Next]_vars
    PROVE  (TypeOK /\ RunValid)'
<1> USE FdAssumption DEF TypeOK, RunValid, Callers, OpStates, RunStates, UserCode, wakeVars,
        postVars, batchVars, scanVars, queueVars, removalVars, runVars, Becomes, MayCall,
        At, Goto
<1>0. backend' = backend
  BY DEF Next, RunStep, Continue, vars
<1> USE <1>0
<1>1. ASSUME NEW t \in Callers, NEW q \in Queues, Push(t, q)
      PROVE  (TypeOK /\ RunValid)'
  BY <1>1 DEF Push
<1>2. ASSUME NEW t \in Callers, NEW c \in Callbacks, Post(t, c)
      PROVE  (TypeOK /\ RunValid)'
  <2> USE <1>2 DEF Post
  <2>1. Elems(requested) \ {asking[u] : u \in Threads} \in SUBSET Removals
    BY SMTT(30) DEF Elems
  <2>2. before' \in [Callbacks -> SUBSET Removals]
    BY <2>1
  <2>3. /\ m_wake_up_cb' \in Seq(Callbacks \cup {RunRemovals})
        /\ posted' \in Seq(Callbacks \cup {RunRemovals})
    OBVIOUS
  <2>4. op' \in [Callers -> OpStates]
    OBVIOUS
  <2>5. \A u \in Threads : asking'[u] # Nothing => op'[u] = "post_removal"
    OBVIOUS
  <2>6. TypeOK'
    <3>1. UNCHANGED <<pc, runVars, wakeVars, batchVars, scanVars, m_entries,
                      queueVars, m_removals, requested, asking>>
      OBVIOUS
    <3> HIDE <1>2
    <3> QED
      BY <2>2, <2>3, <2>4, <3>1
  <2>7. RunValid'
    BY <2>5
  <2> QED
    BY <2>6, <2>7
<1>3. ASSUME NEW t \in Callers, NEW q \in Queues, AddQueue(t, q)
      PROVE  (TypeOK /\ RunValid)'
  BY <1>3 DEF AddQueue
<1>4. ASSUME NEW t \in Callers, NEW q \in Queues, RemQueue(t, q)
      PROVE  (TypeOK /\ RunValid)'
  BY <1>4 DEF RemQueue
<1>5. ASSUME NEW t \in Callers, Stop(t)
      PROVE  (TypeOK /\ RunValid)'
  <2>1. op' \in [Callers -> OpStates] /\ asked' \in BOOLEAN /\ m_running' \in BOOLEAN
    BY <1>5 DEF Stop
  <2>2. \A u \in Threads : asking'[u] # Nothing => op'[u] = "post_removal"
    BY <1>5 DEF Stop
  <2>3. UNCHANGED <<pc, runs, wakeVars, postVars, batchVars, scanVars, m_entries, queueVars,
                    removalVars>>
    BY <1>5 DEF Stop
  <2>4. TypeOK'
    BY <2>1, <2>3
  <2>5. RunValid'
    BY <2>2, <2>3
  <2> QED
    BY <2>4, <2>5
<1>6. ASSUME NEW t \in Callers, NEW x \in Removals, DeferRemoval(t, x)
      PROVE  (TypeOK /\ RunValid)'
  <2> USE <1>6 DEF DeferRemoval
  <2>1. m_removals' \in Seq(Removals) /\ requested' \in Seq(Removals)
    OBVIOUS
  <2>2. asking' \in [Threads -> Removals \cup {Nothing}] /\ op' \in [Callers -> OpStates]
    OBVIOUS
  <2>3. \A u \in Threads : asking'[u] # Nothing => op'[u] = "post_removal"
    OBVIOUS
  <2>4. /\ m_wake_up_cb' = m_wake_up_cb /\ before' = before
        /\ UNCHANGED <<pc, cbl, batch, ctx, wake_fd>>
    OBVIOUS
  <2>5. TypeOK'
    BY <2>1, <2>2, <2>4, SMTT(30)
  <2>6. RunValid'
    BY <2>3, <2>4
  <2> QED
    BY <2>5, <2>6
<1>7. ASSUME NEW t \in Callers, PostRemoval(t)
      PROVE  (TypeOK /\ RunValid)'
  <2> USE <1>7 DEF PostRemoval
  <2>1. /\ m_wake_up_cb' \in Seq(Callbacks \cup {RunRemovals})
        /\ posted' \in Seq(Callbacks \cup {RunRemovals})
    OBVIOUS
  <2>2. asking' \in [Threads -> Removals \cup {Nothing}] /\ op' \in [Callers -> OpStates]
    OBVIOUS
  <2>3. \A u \in Threads : asking'[u] # Nothing => op'[u] = "post_removal"
    OBVIOUS
  <2> QED
    BY <2>1, <2>2, <2>3
<1>8. ASSUME NEW t \in Callers, ClaimWake(t)
      PROVE  (TypeOK /\ RunValid)'
  BY <1>8 DEF ClaimWake
<1>9. ASSUME NEW t \in Callers, WritePipe(t)
      PROVE  (TypeOK /\ RunValid)'
  BY <1>9 DEF WritePipe
<1>10. ASSUME NEW t \in Callers, WritePipeFails(t)
       PROVE  (TypeOK /\ RunValid)'
  <2>1. failures' \in 0..MaxFailures
    BY <1>10 DEF WritePipeFails
  <2>2. op' \in [Callers -> OpStates] /\ m_wake_pending' = FALSE
    BY <1>10 DEF WritePipeFails
  <2>3. \A u \in Threads : asking'[u] # Nothing => op'[u] = "post_removal"
    BY <1>10 DEF WritePipeFails
  <2>4. UNCHANGED <<pc, runVars, wake_fd, postVars, batchVars, scanVars, m_entries,
                    queueVars, removalVars>>
    BY <1>10 DEF WritePipeFails
  <2>5. TypeOK'
    BY <2>1, <2>2, <2>4
  <2>6. RunValid'
    BY <2>3, <2>4
  <2> QED
    BY <2>5, <2>6
<1>11. ASSUME NEW t \in Callers, WriteEventFd(t)
       PROVE  (TypeOK /\ RunValid)'
  BY <1>11 DEF WriteEventFd
<1>12. CASE CallRun
  <2>1. runs' \in 0..MaxRuns
    BY <1>12 DEF CallRun
  <2> QED
    BY <1>12, <2>1 DEF CallRun
<1>13. CASE RunEnter
  BY <1>13 DEF RunEnter
<1>14. CASE LoopTest
  BY <1>14 DEF LoopTest
<1>15. CASE PollReturns
  BY <1>15 DEF PollReturns
<1>16. CASE PollOther
  BY <1>16 DEF PollOther
<1>17. CASE PollInterrupted
  BY <1>17 DEF PollInterrupted
<1>18. CASE DrainPipe
  BY <1>18 DEF DrainPipe
<1>19. CASE ClearPending
  BY <1>19 DEF ClearPending
<1>20. CASE ReadEventFd
  BY <1>20 DEF ReadEventFd
<1>21. CASE FdsDone
  BY <1>21 DEF FdsDone
<1>22. CASE TakeCallbacks
  BY <1>22 DEF TakeCallbacks
<1>23. CASE CallbackReturn
  BY <1>23 DEF CallbackReturn
<1>24. CASE TakeRemovals
  BY <1>24 DEF TakeRemovals
<1>25. CASE Remove
  BY <1>25, SMTT(30) DEF Remove
<1>26. CASE RemovalsDone
  BY <1>26 DEF RemovalsDone
<1>27. CASE EndCallbacks
  BY <1>27 DEF EndCallbacks
<1>28. CASE Snapshot
  BY <1>28 DEF Snapshot
<1>29. ASSUME NEW q \in Queues, Visit(q)
       PROVE  (TypeOK /\ RunValid)'
  BY <1>29 DEF Visit
<1>30. CASE HandlerPop
  BY <1>30 DEF HandlerPop
<1>31. CASE HandlerReturn
  BY <1>31 DEF HandlerReturn
<1>32. CASE EndScan
  BY <1>32 DEF EndScan
<1>33. CASE Schedule
  BY <1>33 DEF Schedule
<1>34. CASE UNCHANGED vars
  BY <1>34 DEF vars
<1> QED
  BY <1>1, <1>2, <1>3, <1>4, <1>5, <1>6, <1>7, <1>8, <1>9, <1>10, <1>11, <1>12,
     <1>13, <1>14, <1>15, <1>16, <1>17, <1>18, <1>19, <1>20, <1>21, <1>22, <1>23,
     <1>24, <1>25, <1>26, <1>27, <1>28, <1>29, <1>30, <1>31, <1>32, <1>33, <1>34 DEF
     Next, RunStep, Call, Continue

-----------------------------------------------------------------------------
(* The wake token. *)

\* A step of one thread adds it to the writers, takes it out, or leaves them.
LEMMA WritersChange ==
    ASSUME TypeOK, NEW t \in Callers, NEW state \in OpStates, Becomes(t, state)
    PROVE  /\ op[t] # "write" /\ state # "write" => Writers' = Writers
           /\ op[t] # "write" /\ state = "write" =>
                 Cardinality(Writers') = Cardinality(Writers) + 1
           /\ op[t] = "write" /\ state # "write" =>
                 Cardinality(Writers') = Cardinality(Writers) - 1
<1> USE DEF Becomes
<1>1. IsFiniteSet(Callers)
  BY FdAssumption, FS_AddElement DEF Callers
<1>2. IsFiniteSet(Writers)
  BY <1>1, FS_Subset DEF Writers
<1>3. op' = [op EXCEPT ![t] = state] /\ op \in [Callers -> OpStates]
  BY DEF TypeOK
<1>4. ASSUME op[t] # "write", state # "write" PROVE Writers' = Writers
  BY <1>3, <1>4 DEF Writers
<1>5. ASSUME op[t] # "write", state = "write"
      PROVE  Cardinality(Writers') = Cardinality(Writers) + 1
  <2>1. Writers' = Writers \cup {t} /\ t \notin Writers
    BY <1>3, <1>5 DEF Writers
  <2> QED
    BY <1>2, <2>1, FS_AddElement
<1>6. ASSUME op[t] = "write", state # "write"
      PROVE  Cardinality(Writers') = Cardinality(Writers) - 1
  <2>1. Writers' = Writers \ {t} /\ t \in Writers
    BY <1>3, <1>6 DEF Writers
  <2> QED
    BY <1>2, <2>1, FS_RemoveElement
<1> QED
  BY <1>4, <1>5, <1>6

\* There are finitely many writers, and none only if their number is 0.
LEMMA WritersFinite ==
    /\ Cardinality(Writers) \in Nat
    /\ Cardinality(Writers) = 0 <=> Writers = {}
<1>1. IsFiniteSet(Callers)
  BY FdAssumption, FS_AddElement DEF Callers
<1>2. IsFiniteSet(Writers)
  BY <1>1, FS_Subset DEF Writers
<1> QED
  BY <1>2, FS_CardinalityType, FS_EmptySet

\* Every step keeps the wake fd's token and its flag in agreement: a token is written
\* only by the thread that claimed it and read only by run().
LEMMA NextToken ==
    ASSUME TypeOK, RunValid, (TypeOK)', OneWakeToken, PipeDrained, [Next]_vars
    PROVE  (OneWakeToken /\ PipeDrained)'
<1> USE WritersFinite DEF PipeDrained, OpStates, UserCode, wakeVars, postVars, batchVars,
        scanVars, queueVars, removalVars, runVars, MayCall, At, Goto
<1>0. backend' = backend
  BY DEF Next, RunStep, Continue, vars
<1>a. OneWakeToken <=>
        /\ TypeOK
        /\ backend = "poll" =>
              (IF m_wake_pending THEN 1 ELSE 0)
                = wake_fd + Cardinality(Writers)
                  + (IF pc \in {"drain", "unpend"} /\ wake_fd = 0 THEN 1 ELSE 0)
  BY DEF OneWakeToken, Writers
<1>b. OneWakeToken' <=>
        /\ TypeOK'
        /\ backend' = "poll" =>
              (IF m_wake_pending' THEN 1 ELSE 0)
                = wake_fd' + Cardinality(Writers')
                  + (IF pc' \in {"drain", "unpend"} /\ wake_fd' = 0 THEN 1 ELSE 0)
  BY DEF OneWakeToken, Writers
<1>c. op' = op => Writers' = Writers
  BY DEF Writers
<1>d. wake_fd \in Nat /\ m_wake_pending \in BOOLEAN
  BY DEF TypeOK
<1> USE <1>0, <1>a, <1>b, <1>c, <1>d
<1>1. ASSUME NEW t \in Callers, NEW q \in Queues, Push(t, q)
      PROVE  (OneWakeToken /\ PipeDrained)'
  <2>1. Writers' = Writers
    BY <1>1, WritersChange DEF Push
  <2> QED
    BY <1>1, <2>1 DEF Push
<1>2. ASSUME NEW t \in Callers, NEW c \in Callbacks, Post(t, c)
      PROVE  (OneWakeToken /\ PipeDrained)'
  <2>1. Writers' = Writers
    BY <1>2, WritersChange DEF Post
  <2> QED
    BY <1>2, <2>1 DEF Post
<1>3. ASSUME NEW t \in Callers, NEW q \in Queues, AddQueue(t, q)
      PROVE  (OneWakeToken /\ PipeDrained)'
  <2>1. Writers' = Writers
    BY <1>3, WritersChange DEF AddQueue
  <2> QED
    BY <1>3, <2>1 DEF AddQueue
<1>4. ASSUME NEW t \in Callers, NEW q \in Queues, RemQueue(t, q)
      PROVE  (OneWakeToken /\ PipeDrained)'
  BY <1>4 DEF RemQueue
<1>5. ASSUME NEW t \in Callers, Stop(t)
      PROVE  (OneWakeToken /\ PipeDrained)'
  <2>1. Writers' = Writers
    BY <1>5, WritersChange DEF Stop
  <2> QED
    BY <1>5, <2>1 DEF Stop
<1>6. ASSUME NEW t \in Callers, NEW x \in Removals, DeferRemoval(t, x)
      PROVE  (OneWakeToken /\ PipeDrained)'
  <2>1. Writers' = Writers
    BY <1>6, WritersChange DEF DeferRemoval
  <2> QED
    BY <1>6, <2>1 DEF DeferRemoval
<1>7. ASSUME NEW t \in Callers, PostRemoval(t)
      PROVE  (OneWakeToken /\ PipeDrained)'
  <2>1. Writers' = Writers
    BY <1>7, WritersChange DEF PostRemoval
  <2> QED
    BY <1>7, <2>1 DEF PostRemoval
<1>8. ASSUME NEW t \in Callers, ClaimWake(t)
      PROVE  (OneWakeToken /\ PipeDrained)'
  <2>1. CASE m_wake_pending
    <3>1. Writers' = Writers
      BY <1>8, <2>1, WritersChange DEF ClaimWake
    <3> QED
      BY <1>8, <2>1, <3>1 DEF ClaimWake
  <2>2. CASE ~m_wake_pending
    <3>1. Cardinality(Writers') = Cardinality(Writers) + 1
      BY <1>8, <2>2, WritersChange DEF ClaimWake
    <3> QED
      BY <1>8, <2>2, <3>1 DEF ClaimWake
  <2> QED
    BY <2>1, <2>2
<1>9. ASSUME NEW t \in Callers, WritePipe(t)
      PROVE  (OneWakeToken /\ PipeDrained)'
  <2>1. Cardinality(Writers') = Cardinality(Writers) - 1
    BY <1>9, WritersChange DEF WritePipe
  <2>2. Cardinality(Writers) >= 1
    <3>1. Writers # {}
      BY <1>9 DEF WritePipe, Writers
    <3> QED
      BY <3>1
  <2> QED
    BY <1>9, <2>1, <2>2 DEF WritePipe
<1>10. ASSUME NEW t \in Callers, WritePipeFails(t)
       PROVE  (OneWakeToken /\ PipeDrained)'
  <2>1. Cardinality(Writers') = Cardinality(Writers) - 1
    BY <1>10, WritersChange DEF WritePipeFails
  <2>2. Cardinality(Writers) >= 1
    <3>1. Writers # {}
      BY <1>10 DEF WritePipeFails, Writers
    <3> QED
      BY <3>1
  <2> QED
    BY <1>10, <2>1, <2>2 DEF WritePipeFails
<1>11. ASSUME NEW t \in Callers, WriteEventFd(t)
       PROVE  (OneWakeToken /\ PipeDrained)'
  <2>1. Writers' = Writers
    BY <1>11, WritersChange DEF WriteEventFd
  <2> QED
    BY <1>11, <2>1 DEF WriteEventFd
<1>12. CASE CallRun \/ RunEnter \/ LoopTest \/ PollOther \/ PollInterrupted \/ FdsDone
  BY <1>12 DEF CallRun, RunEnter, LoopTest, PollOther, PollInterrupted, FdsDone
<1>13. CASE PollReturns
  BY <1>13 DEF PollReturns
<1>14. CASE DrainPipe
  BY <1>14 DEF DrainPipe
<1>15. CASE ClearPending
  BY <1>15 DEF ClearPending
<1>16. CASE ReadEventFd
  BY <1>16 DEF ReadEventFd
<1>17. CASE \/ TakeCallbacks \/ CallbackReturn \/ TakeRemovals \/ Remove \/ RemovalsDone
            \/ EndCallbacks
  BY <1>17 DEF TakeCallbacks, CallbackReturn, TakeRemovals, Remove, RemovalsDone,
     EndCallbacks
<1>18. CASE Snapshot \/ HandlerPop \/ HandlerReturn \/ EndScan \/ Schedule
  BY <1>18 DEF Snapshot, HandlerPop, HandlerReturn, EndScan, Schedule
<1>19. ASSUME NEW q \in Queues, Visit(q)
       PROVE  (OneWakeToken /\ PipeDrained)'
  BY <1>19 DEF Visit
<1>20. CASE UNCHANGED vars
  BY <1>20 DEF vars
<1> QED
  BY <1>1, <1>2, <1>3, <1>4, <1>5, <1>6, <1>7, <1>8, <1>9, <1>10, <1>11, <1>12,
     <1>13, <1>14, <1>15, <1>16, <1>17, <1>18, <1>19, <1>20 DEF Next, RunStep, Call,
     Continue

-----------------------------------------------------------------------------
(* No wake is lost. *)

\* A wake that is on its way stays so until the reactor has seen it, unless a write to
\* the wake fd fails.
LEMMA SignalKept ==
    ASSUME TypeOK, RunValid, OneWakeToken, Signalled, [Next]_vars, failures' = 0
    PROVE  Signalled' \/ pc' \in {"drain", "unpend", "fds"}
<1> USE DEF TypeOK, Signalled, OpStates, UserCode, wakeVars, postVars, batchVars, scanVars,
        queueVars, removalVars, runVars, Becomes, MayCall, At, Goto
<1>1. ASSUME NEW t \in Callers, NEW q \in Queues, Push(t, q)
      PROVE  Signalled' \/ pc' \in {"drain", "unpend", "fds"}
  BY <1>1 DEF Push
<1>2. ASSUME NEW t \in Callers, NEW c \in Callbacks, Post(t, c)
      PROVE  Signalled' \/ pc' \in {"drain", "unpend", "fds"}
  BY <1>2 DEF Post
<1>3. ASSUME NEW t \in Callers, NEW q \in Queues, AddQueue(t, q)
      PROVE  Signalled' \/ pc' \in {"drain", "unpend", "fds"}
  BY <1>3 DEF AddQueue
<1>4. ASSUME NEW t \in Callers, NEW q \in Queues, RemQueue(t, q)
      PROVE  Signalled' \/ pc' \in {"drain", "unpend", "fds"}
  BY <1>4 DEF RemQueue
<1>5. ASSUME NEW t \in Callers, Stop(t)
      PROVE  Signalled' \/ pc' \in {"drain", "unpend", "fds"}
  BY <1>5 DEF Stop
<1>6. ASSUME NEW t \in Callers, NEW x \in Removals, DeferRemoval(t, x)
      PROVE  Signalled' \/ pc' \in {"drain", "unpend", "fds"}
  BY <1>6 DEF DeferRemoval
<1>7. ASSUME NEW t \in Callers, PostRemoval(t)
      PROVE  Signalled' \/ pc' \in {"drain", "unpend", "fds"}
  BY <1>7 DEF PostRemoval
<1>8. ASSUME NEW t \in Callers, ClaimWake(t)
      PROVE  Signalled' \/ pc' \in {"drain", "unpend", "fds"}
  <2>1. CASE m_wake_pending
    <3>1. Cardinality(Writers) > 0 \/ wake_fd > 0 \/ pc \in {"drain", "unpend"}
      BY <1>8, <2>1, WritersFinite DEF ClaimWake, OneWakeToken, Writers
    <3>2. Cardinality(Writers) > 0 => \E u \in Callers : u # t /\ op[u] = "write"
      BY <1>8, WritersFinite DEF ClaimWake, Writers
    <3> QED
      BY <1>8, <3>1, <3>2 DEF ClaimWake
  <2>2. CASE ~m_wake_pending
    BY <1>8, <2>2 DEF ClaimWake
  <2> QED
    BY <2>1, <2>2
<1>9. ASSUME NEW t \in Callers, WritePipe(t)
      PROVE  Signalled' \/ pc' \in {"drain", "unpend", "fds"}
  BY <1>9 DEF WritePipe
<1>10. ASSUME NEW t \in Callers, WritePipeFails(t)
       PROVE  Signalled' \/ pc' \in {"drain", "unpend", "fds"}
  BY <1>10 DEF WritePipeFails
<1>11. ASSUME NEW t \in Callers, WriteEventFd(t)
       PROVE  Signalled' \/ pc' \in {"drain", "unpend", "fds"}
  BY <1>11 DEF WriteEventFd
<1>12. CASE \/ CallRun \/ RunEnter \/ LoopTest \/ PollReturns \/ PollOther
            \/ PollInterrupted \/ ClearPending \/ FdsDone \/ TakeCallbacks
            \/ CallbackReturn \/ TakeRemovals \/ Remove \/ RemovalsDone \/ EndCallbacks
            \/ Snapshot \/ HandlerPop \/ HandlerReturn \/ EndScan \/ Schedule
  BY <1>12 DEF CallRun, RunEnter, LoopTest, PollReturns, PollOther, PollInterrupted,
     ClearPending, FdsDone, TakeCallbacks, CallbackReturn, TakeRemovals, Remove,
     RemovalsDone, EndCallbacks, Snapshot, HandlerPop, HandlerReturn, EndScan, Schedule
<1>13. CASE DrainPipe
  BY <1>13 DEF DrainPipe
<1>14. CASE ReadEventFd
  BY <1>14 DEF ReadEventFd
<1>15. ASSUME NEW q \in Queues, Visit(q)
       PROVE  Signalled' \/ pc' \in {"drain", "unpend", "fds"}
  BY <1>15 DEF Visit
<1>16. CASE UNCHANGED vars
  BY <1>16 DEF vars
<1> QED
  BY <1>1, <1>2, <1>3, <1>4, <1>5, <1>6, <1>7, <1>8, <1>9, <1>10, <1>11, <1>12,
     <1>13, <1>14, <1>15, <1>16 DEF Next, RunStep, Call, Continue

\* A callback that waits keeps its wake.
LEMMA NextCallback ==
    ASSUME TypeOK, TypeOK', RunValid, OneWakeToken, [Next]_vars,
           m_wake_up_cb # <<>> /\ failures = 0 =>
               Signalled \/ pc \in {"drain", "unpend", "fds", "take"}
    PROVE  m_wake_up_cb' # <<>> /\ failures' = 0 =>
               Signalled' \/ pc' \in {"drain", "unpend", "fds", "take"}
<1> SUFFICES ASSUME m_wake_up_cb' # <<>>, failures' = 0
             PROVE  Signalled' \/ pc' \in {"drain", "unpend", "fds", "take"}
  OBVIOUS
<1> USE SignalKept DEF wakeVars, postVars, batchVars, scanVars, queueVars, removalVars,
        runVars, At, Goto, Becomes
<1>0. op \in [Callers -> OpStates] /\ failures \in Nat
  BY DEF TypeOK
<1> USE <1>0
<1>1. ASSUME NEW t \in Callers, NEW q \in Queues, Push(t, q)
      PROVE  Signalled' \/ pc' \in {"drain", "unpend", "fds", "take"}
  BY <1>1 DEF Push
<1>2. ASSUME NEW t \in Callers, NEW c \in Callbacks, Post(t, c)
      PROVE  Signalled' \/ pc' \in {"drain", "unpend", "fds", "take"}
  BY <1>2 DEF Post, Signalled
<1>3. ASSUME NEW t \in Callers, NEW q \in Queues, AddQueue(t, q)
      PROVE  Signalled' \/ pc' \in {"drain", "unpend", "fds", "take"}
  BY <1>3 DEF AddQueue
<1>4. ASSUME NEW t \in Callers, NEW q \in Queues, RemQueue(t, q)
      PROVE  Signalled' \/ pc' \in {"drain", "unpend", "fds", "take"}
  BY <1>4 DEF RemQueue
<1>5. ASSUME NEW t \in Callers, Stop(t)
      PROVE  Signalled' \/ pc' \in {"drain", "unpend", "fds", "take"}
  BY <1>5 DEF Stop
<1>6. ASSUME NEW t \in Callers, NEW x \in Removals, DeferRemoval(t, x)
      PROVE  Signalled' \/ pc' \in {"drain", "unpend", "fds", "take"}
  BY <1>6 DEF DeferRemoval
<1>7. ASSUME NEW t \in Callers, PostRemoval(t)
      PROVE  Signalled' \/ pc' \in {"drain", "unpend", "fds", "take"}
  BY <1>7 DEF PostRemoval, Signalled
<1>8. ASSUME NEW t \in Callers, ClaimWake(t)
      PROVE  Signalled' \/ pc' \in {"drain", "unpend", "fds", "take"}
  BY <1>8 DEF ClaimWake
<1>9. ASSUME NEW t \in Callers, WritePipe(t)
      PROVE  Signalled' \/ pc' \in {"drain", "unpend", "fds", "take"}
  BY <1>9 DEF WritePipe
<1>10. ASSUME NEW t \in Callers, WritePipeFails(t)
       PROVE  Signalled' \/ pc' \in {"drain", "unpend", "fds", "take"}
  BY <1>10 DEF WritePipeFails
<1>11. ASSUME NEW t \in Callers, WriteEventFd(t)
       PROVE  Signalled' \/ pc' \in {"drain", "unpend", "fds", "take"}
  BY <1>11 DEF WriteEventFd
<1>12. CASE \/ CallRun \/ RunEnter \/ LoopTest \/ PollReturns \/ PollOther
            \/ PollInterrupted \/ DrainPipe \/ ClearPending \/ ReadEventFd \/ FdsDone
  BY <1>12 DEF CallRun, RunEnter, LoopTest, PollReturns, PollOther, PollInterrupted,
     DrainPipe, ClearPending, ReadEventFd, FdsDone
<1>13. CASE TakeCallbacks
  BY <1>13 DEF TakeCallbacks
<1>14. CASE CallbackReturn \/ TakeRemovals \/ Remove \/ RemovalsDone \/ EndCallbacks
  BY <1>14 DEF CallbackReturn, TakeRemovals, Remove, RemovalsDone, EndCallbacks
<1>15. CASE Snapshot \/ HandlerPop \/ HandlerReturn \/ EndScan \/ Schedule
  BY <1>15 DEF Snapshot, HandlerPop, HandlerReturn, EndScan, Schedule
<1>16. ASSUME NEW q \in Queues, Visit(q)
       PROVE  Signalled' \/ pc' \in {"drain", "unpend", "fds", "take"}
  BY <1>16 DEF Visit
<1>17. CASE UNCHANGED vars
  BY <1>17 DEF vars
<1> QED
  BY <1>1, <1>2, <1>3, <1>4, <1>5, <1>6, <1>7, <1>8, <1>9, <1>10, <1>11, <1>12,
     <1>13, <1>14, <1>15, <1>16, <1>17 DEF Next, RunStep, Call, Continue

\* No element of the registered queue g is forgotten.
Awaited(g) ==
    \/ Signalled
    \/ pc \in {"drain", "unpend", "fds", "take", "callback", "removing", "snapshot"}
    \/ pc = "scan" /\ (g \in m_snapshot \/ backlog)
    \/ pc = "handler" /\ (g \in m_snapshot \/ backlog \/ ctx = g)
    \/ pc \in {"timers", "off", "enter", "loop", "poll"} /\ m_queue_backlog

\* An element of a registered queue keeps its wake, its place in the pass or its backlog.
LEMMA NextWakeup ==
    ASSUME TypeOK, TypeOK', RunValid, OneWakeToken, NoLostWakeup, [Next]_vars
    PROVE  NoLostWakeup'
<1> SUFFICES ASSUME NEW g \in m_entries', items'[g] > 0, failures' = 0
             PROVE  Awaited(g)'
  BY DEF NoLostWakeup, Awaited
<1>0. /\ op \in [Callers -> OpStates] /\ failures \in Nat /\ items \in [Queues -> Nat]
      /\ m_entries \subseteq Queues /\ g \in Queues
      /\ pc \in RunStates \cup {"off"}
  <2>1. m_entries' \subseteq Queues
    BY DEF TypeOK
  <2>2. g \in Queues
    BY <2>1
  <2>3. failures \in Nat
    BY FdAssumption DEF TypeOK
  <2> QED
    BY <2>2, <2>3 DEF TypeOK
<1> USE SignalKept DEF Awaited, wakeVars, postVars, batchVars, scanVars, queueVars,
        removalVars, runVars, At, Goto, Becomes
<1>a. g \in m_entries /\ items[g] > 0 /\ failures = 0 => Awaited(g)
  BY DEF NoLostWakeup, Awaited
<1> USE <1>0, <1>a
<1>1. ASSUME NEW t \in Callers, NEW q \in Queues, Push(t, q)
      PROVE  Awaited(g)'
  BY <1>1 DEF Push, Signalled
<1>2. ASSUME NEW t \in Callers, NEW c \in Callbacks, Post(t, c)
      PROVE  Awaited(g)'
  BY <1>2 DEF Post, Signalled
<1>3. ASSUME NEW t \in Callers, NEW q \in Queues, AddQueue(t, q)
      PROVE  Awaited(g)'
  BY <1>3 DEF AddQueue, Signalled
<1>4. ASSUME NEW t \in Callers, NEW q \in Queues, RemQueue(t, q)
      PROVE  Awaited(g)'
  BY <1>4 DEF RemQueue
<1>5. ASSUME NEW t \in Callers, Stop(t)
      PROVE  Awaited(g)'
  BY <1>5 DEF Stop, Signalled
<1>6. ASSUME NEW t \in Callers, NEW x \in Removals, DeferRemoval(t, x)
      PROVE  Awaited(g)'
  BY <1>6 DEF DeferRemoval
<1>7. ASSUME NEW t \in Callers, PostRemoval(t)
      PROVE  Awaited(g)'
  BY <1>7 DEF PostRemoval
<1>8. ASSUME NEW t \in Callers, ClaimWake(t)
      PROVE  Awaited(g)'
  BY <1>8 DEF ClaimWake
<1>9. ASSUME NEW t \in Callers, WritePipe(t)
      PROVE  Awaited(g)'
  BY <1>9 DEF WritePipe
<1>10. ASSUME NEW t \in Callers, WritePipeFails(t)
       PROVE  Awaited(g)'
  BY <1>10 DEF WritePipeFails
<1>11. ASSUME NEW t \in Callers, WriteEventFd(t)
       PROVE  Awaited(g)'
  BY <1>11 DEF WriteEventFd
<1>12. CASE \/ CallRun \/ RunEnter \/ LoopTest \/ PollReturns \/ PollOther
            \/ PollInterrupted \/ DrainPipe \/ ClearPending \/ ReadEventFd \/ FdsDone
  BY <1>12 DEF CallRun, RunEnter, LoopTest, PollReturns, PollOther, PollInterrupted,
     DrainPipe, ClearPending, ReadEventFd, FdsDone
<1>13. CASE \/ TakeCallbacks \/ CallbackReturn \/ TakeRemovals \/ Remove \/ RemovalsDone
            \/ EndCallbacks
  BY <1>13 DEF TakeCallbacks, CallbackReturn, TakeRemovals, Remove, RemovalsDone,
     EndCallbacks
<1>14. CASE Snapshot
  BY <1>14 DEF Snapshot
<1>15. ASSUME NEW q \in Queues, Visit(q)
       PROVE  Awaited(g)'
  BY <1>15 DEF Visit
<1>16. CASE HandlerPop
  BY <1>16 DEF HandlerPop
<1>17. CASE HandlerReturn
  BY <1>17 DEF HandlerReturn
<1>18. CASE EndScan
  BY <1>18 DEF EndScan
<1>19. CASE Schedule
  BY <1>19 DEF Schedule
<1>20. CASE UNCHANGED vars
  BY <1>20 DEF vars
<1> QED
  BY <1>1, <1>2, <1>3, <1>4, <1>5, <1>6, <1>7, <1>8, <1>9, <1>10, <1>11, <1>12,
     <1>13, <1>14, <1>15, <1>16, <1>17, <1>18, <1>19, <1>20 DEF Next, RunStep, Call,
     Continue

-----------------------------------------------------------------------------
(* The order of callbacks and removals. *)

\* What Append, Tail and \o do to the elements.
LEMMA ElemsAppend ==
    ASSUME NEW S, NEW a \in Seq(S), NEW x \in S
    PROVE  Elems(Append(a, x)) = Elems(a) \cup {x}
<1>1. /\ Append(a, x) \in Seq(S)
      /\ Len(Append(a, x)) = Len(a) + 1 /\ Len(a) \in Nat
      /\ \A i \in 1..Len(a) : Append(a, x)[i] = a[i]
      /\ Append(a, x)[Len(a) + 1] = x
  OBVIOUS
<1>2. DOMAIN Append(a, x) = 1..(Len(a) + 1) /\ DOMAIN a = 1..Len(a)
  OBVIOUS
<1>3. Elems(a) \cup {x} \subseteq Elems(Append(a, x))
  BY <1>1, <1>2 DEF Elems
<1>4. Elems(Append(a, x)) \subseteq Elems(a) \cup {x}
  <2> SUFFICES ASSUME NEW i \in 1..(Len(a) + 1)
               PROVE  Append(a, x)[i] \in Elems(a) \cup {x}
    BY <1>2 DEF Elems
  <2>1. CASE i = Len(a) + 1
    BY <1>1, <2>1
  <2>2. CASE i # Len(a) + 1
    <3>1. i \in 1..Len(a)
      BY <1>1, <2>2
    <3> QED
      BY <1>1, <1>2, <3>1 DEF Elems
  <2> QED
    BY <2>1, <2>2
<1> QED
  BY <1>3, <1>4

\* A non-empty queue holds its head and what is left without it.
LEMMA ElemsTail ==
    ASSUME NEW S, NEW a \in Seq(S), a # <<>>
    PROVE  Elems(a) = Elems(Tail(a)) \cup {Head(a)}
<1>1. /\ Tail(a) \in Seq(S) /\ Len(a) \in Nat /\ Len(a) > 0
      /\ Len(Tail(a)) = Len(a) - 1
      /\ \A i \in 1..(Len(a) - 1) : Tail(a)[i] = a[i + 1]
      /\ Head(a) = a[1]
  OBVIOUS
<1>2. DOMAIN Tail(a) = 1..(Len(a) - 1) /\ DOMAIN a = 1..Len(a)
  BY <1>1
<1>3. Elems(Tail(a)) \cup {Head(a)} \subseteq Elems(a)
  <2>1. \A i \in 1..(Len(a) - 1) : i + 1 \in 1..Len(a)
    BY <1>1
  <2> QED
    BY <1>1, <1>2, <2>1 DEF Elems
<1>4. Elems(a) \subseteq Elems(Tail(a)) \cup {Head(a)}
  <2> SUFFICES ASSUME NEW i \in 1..Len(a)
               PROVE  a[i] \in Elems(Tail(a)) \cup {Head(a)}
    BY <1>2 DEF Elems
  <2>1. CASE i = 1
    BY <1>1, <2>1
  <2>2. CASE i # 1
    <3>1. i - 1 \in 1..(Len(a) - 1) /\ Tail(a)[i - 1] = a[(i - 1) + 1] /\ (i - 1) + 1 = i
      BY <1>1, <2>2
    <3> QED
      BY <1>2, <3>1 DEF Elems
  <2> QED
    BY <2>1, <2>2
<1> QED
  BY <1>3, <1>4

\* Two queues one after the other hold what each of them holds.
LEMMA ElemsConcat ==
    ASSUME NEW S, NEW a \in Seq(S), NEW b \in Seq(S)
    PROVE  Elems(a \o b) = Elems(a) \cup Elems(b)
<1>1. /\ Len(a) \in Nat /\ Len(b) \in Nat
      /\ DOMAIN (a \o b) = 1..(Len(a) + Len(b))
      /\ DOMAIN a = 1..Len(a) /\ DOMAIN b = 1..Len(b)
      /\ \A i \in 1..(Len(a) + Len(b)) :
            (a \o b)[i] = IF i <= Len(a) THEN a[i] ELSE b[i - Len(a)]
  OBVIOUS
<1>2. Elems(a \o b) \subseteq Elems(a) \cup Elems(b)
  <2> SUFFICES ASSUME NEW i \in 1..(Len(a) + Len(b))
               PROVE  (a \o b)[i] \in Elems(a) \cup Elems(b)
    BY <1>1 DEF Elems
  <2>1. CASE i <= Len(a)
    BY <1>1, <2>1 DEF Elems
  <2>2. CASE i > Len(a)
    <3>1. i - Len(a) \in 1..Len(b) /\ (a \o b)[i] = b[i - Len(a)]
      BY <1>1, <2>2
    <3> QED
      BY <1>1, <3>1 DEF Elems
  <2> QED
    BY <1>1, <2>1, <2>2
<1>3. Elems(a) \subseteq Elems(a \o b)
  <2>1. \A i \in 1..Len(a) : i \in 1..(Len(a) + Len(b)) /\ (a \o b)[i] = a[i]
    BY <1>1
  <2> QED
    BY <1>1, <2>1 DEF Elems
<1>4. Elems(b) \subseteq Elems(a \o b)
  <2> SUFFICES ASSUME NEW i \in 1..Len(b) PROVE b[i] \in Elems(a \o b)
    BY <1>1 DEF Elems
  <2>1. i + Len(a) \in 1..(Len(a) + Len(b)) /\ (i + Len(a)) - Len(a) = i /\ ~(i + Len(a) <= Len(a))
    BY <1>1
  <2>2. (a \o b)[i + Len(a)] = b[i]
    BY <1>1, <2>1
  <2> QED
    BY <1>1, <2>1, <2>2 DEF Elems
<1> QED
  BY <1>2, <1>3, <1>4

\* Appending to the second of two lists, and moving an element from the head of the
\* second to the end of the first.
LEMMA AppendConcat ==
    ASSUME NEW S, NEW a \in Seq(S), NEW b \in Seq(S), NEW x \in S
    PROVE  a \o Append(b, x) = Append(a \o b, x)
<1>1. a \o b \in Seq(S)
  OBVIOUS
<1> QED
  BY <1>1, SMTT(30)

\* Moving the head of one queue to the end of another keeps the whole: a callback that
\* starts leaves the batch and joins what has run.
LEMMA MoveHead ==
    ASSUME NEW S, NEW a \in Seq(S), NEW b \in Seq(S), b # <<>>
    PROVE  Append(a, Head(b)) \o Tail(b) = a \o b
BY SMTT(30)

\* The inductive invariant behind InOrder.
OrderInv == InOrder /\ RemovalPosted /\ RemovalAhead /\ BeforeRequested

\* The callbacks that are to be started are among those posted.
LEMMA PendingSeq ==
    ASSUME TypeOK, RunValid
    PROVE  /\ Pending \in Seq(Callbacks \cup {RunRemovals})
           /\ Elems(Pending) = Elems(IF pc = "removing" THEN Tail(cbl) ELSE cbl)
                                  \cup Elems(m_wake_up_cb)
           /\ Elems(Pending) \subseteq Elems(cbl) \cup Elems(m_wake_up_cb)
<1> DEFINE S == Callbacks \cup {RunRemovals}
<1> DEFINE left == IF pc = "removing" THEN Tail(cbl) ELSE cbl
<1>1. cbl \in Seq(S) /\ m_wake_up_cb \in Seq(S) /\ left \in Seq(S)
  BY DEF TypeOK, RunValid
<1>2. Elems(left) \subseteq Elems(cbl)
  BY <1>1, ElemsTail DEF RunValid
<1>3. Elems(left \o m_wake_up_cb) = Elems(left) \cup Elems(m_wake_up_cb)
  <2> HIDE DEF S, left
  <2> QED
    BY <1>1, ElemsConcat
<1>4. left \o m_wake_up_cb \in Seq(S)
  BY <1>1
<1> QED
  BY <1>2, <1>3, <1>4 DEF Pending

\* What was posted has run, is in the batch, or waits; the same for removals.
LEMMA HistoryElems ==
    ASSUME TypeOK, InOrder
    PROVE  /\ Elems(posted) = Elems(ran) \cup Elems(cbl) \cup Elems(m_wake_up_cb)
           /\ Elems(requested) = Elems(removed) \cup Elems(batch) \cup Elems(m_removals)
<1>1. ASSUME NEW S, NEW a \in Seq(S), NEW b \in Seq(S), NEW c \in Seq(S)
      PROVE  Elems(a \o b \o c) = Elems(a) \cup Elems(b) \cup Elems(c)
  <2>1. a \o b \in Seq(S)
    OBVIOUS
  <2> DEFINE d == a \o b
  <2>2. Elems(d) = Elems(a) \cup Elems(b)
    BY ElemsConcat
  <2>3. d \in Seq(S)
    BY <2>1
  <2> HIDE DEF d
  <2>4. Elems(d \o c) = Elems(d) \cup Elems(c)
    BY <2>3, ElemsConcat
  <2> QED
    BY <2>2, <2>4 DEF d
<1> DEFINE S == Callbacks \cup {RunRemovals}
<1>2. ran \in Seq(S) /\ cbl \in Seq(S) /\ m_wake_up_cb \in Seq(S)
  BY DEF TypeOK
<1>3. removed \in Seq(Removals) /\ batch \in Seq(Removals) /\ m_removals \in Seq(Removals)
  BY DEF TypeOK
<1> HIDE DEF S
<1>4. Elems(ran \o cbl \o m_wake_up_cb) = Elems(ran) \cup Elems(cbl) \cup Elems(m_wake_up_cb)
  BY <1>1, <1>2
<1>5. Elems(removed \o batch \o m_removals)
        = Elems(removed) \cup Elems(batch) \cup Elems(m_removals)
  BY <1>1, <1>3
<1> QED
  BY <1>4, <1>5 DEF InOrder

\* A callback posted goes to the end.
LEMMA PostedAppend ==
    ASSUME TypeOK, NEW x \in Callbacks \cup {RunRemovals}
    PROVE  Append(ran \o cbl \o m_wake_up_cb, x) = ran \o cbl \o Append(m_wake_up_cb, x)
<1> DEFINE S == Callbacks \cup {RunRemovals}
<1> DEFINE a == ran \o cbl
<1>1. a \in Seq(S) /\ m_wake_up_cb \in Seq(S) /\ x \in S
  BY DEF TypeOK
<1> HIDE DEF S, a
<1>2. a \o Append(m_wake_up_cb, x) = Append(a \o m_wake_up_cb, x)
  BY <1>1, AppendConcat
<1> QED
  BY <1>2 DEF a

\* A step that touches neither the lists nor their histories.
LEMMA OrderQuiet ==
    ASSUME OrderInv, UNCHANGED <<postVars, batchVars, removalVars>>,
           pc = "removing" <=> pc' = "removing"
    PROVE  OrderInv'
<1> USE DEF postVars, batchVars, removalVars
<1>1. Pending' = Pending
  BY DEF Pending
<1> QED
  BY <1>1 DEF OrderInv, InOrder, RemovalPosted, RemovalAhead, BeforeRequested

\* wake_up(cb): every removal whose callback was posted before is done, in the batch, or
\* has a callback ahead of cb.
LEMMA OrderPost ==
    ASSUME TypeOK, RunValid, OrderInv, NEW t \in Callers, NEW c \in Callbacks, Post(t, c)
    PROVE  OrderInv'
<1> DEFINE S == Callbacks \cup {RunRemovals}
<1> USE DEF Post, wakeVars, batchVars, scanVars, queueVars, runVars
<1>1. InOrder /\ RemovalPosted /\ RemovalAhead /\ BeforeRequested
  BY DEF OrderInv
<1>2. /\ ran \in Seq(S) /\ cbl \in Seq(S) /\ m_wake_up_cb \in Seq(S) /\ posted \in Seq(S)
      /\ before \in [Callbacks -> SUBSET Removals]
      /\ Pending \in Seq(S) /\ c \in S
  BY PendingSeq DEF TypeOK
<1>3. Pending' = Append(Pending, c)
  <2> DEFINE left == IF pc = "removing" THEN Tail(cbl) ELSE cbl
  <2>1. left \in Seq(S)
    BY <1>2 DEF RunValid
  <2> HIDE DEF left, S
  <2>2. left \o Append(m_wake_up_cb, c) = Append(left \o m_wake_up_cb, c)
    BY <1>2, <2>1, AppendConcat
  <2> QED
    BY <2>2 DEF Pending, left
<1>4. /\ Len(Pending) \in Nat
      /\ Len(Pending') = Len(Pending) + 1
      /\ DOMAIN Pending = 1..Len(Pending) /\ DOMAIN Pending' = 1..(Len(Pending) + 1)
      /\ \A i \in 1..Len(Pending) : Pending'[i] = Pending[i]
      /\ Pending'[Len(Pending) + 1] = c
  BY <1>2, <1>3
<1>5. c \notin Elems(ran) /\ c \notin Elems(Pending)
  BY HistoryElems, PendingSeq, <1>1
<1>6. posted' = ran' \o cbl' \o m_wake_up_cb'
  <2> HIDE DEF Post
  <2>1. Append(ran \o cbl \o m_wake_up_cb, c) = ran \o cbl \o Append(m_wake_up_cb, c)
    BY <1>2, PostedAppend
  <2> QED
    BY <1>1, <2>1 DEF InOrder, Post
<1>7. \A d \in Callbacks : d # c => before'[d] = before[d]
  BY <1>2
<1>8. before'[c] = Elems(requested) \ {asking[u] : u \in Threads}
  BY <1>2
<1>9. InOrder'
  BY <1>1, <1>5, <1>6, <1>7 DEF InOrder
<1>10. RemovalPosted'
  <2> HIDE DEF S
  <2>1. Elems(Pending)' = Elems(Append(Pending, c))
    BY <1>3 DEF Elems
  <2>2. Elems(Pending)' = Elems(Pending) \cup {c}
    BY <1>2, <2>1, ElemsAppend
  <2> QED
    BY <1>1, <2>2 DEF RemovalPosted
<1>11. RemovalAhead'
  <2> SUFFICES ASSUME NEW i \in 1..(Len(Pending) + 1), Pending'[i] \in Callbacks,
                      NEW x \in before'[Pending'[i]]
               PROVE  \/ x \in Elems(removed) \cup Elems(batch)
                      \/ \E j \in 1..(i - 1) : Pending'[j] = RunRemovals
    BY <1>4 DEF RemovalAhead
  <2>1. CASE i \in 1..Len(Pending)
    <3>1. Pending'[i] = Pending[i] /\ Pending[i] # c
      BY <1>4, <1>5, <2>1 DEF Elems
    <3>2. x \in before[Pending[i]]
      BY <1>7, <3>1
    <3>3. \A j \in 1..(i - 1) : Pending'[j] = Pending[j]
      BY <1>4, <2>1
    <3> QED
      BY <1>1, <1>4, <2>1, <3>1, <3>2, <3>3 DEF RemovalAhead
  <2>2. CASE i = Len(Pending) + 1
    <3>1. x \in Elems(requested) /\ \A u \in Threads : asking[u] # x
      BY <1>4, <1>8, <2>2
    <3>2. CASE x \in Elems(removed) \cup Elems(batch)
      BY <3>2
    <3>3. CASE x \in Elems(m_removals)
      <4>1. PICK j \in 1..Len(Pending) : Pending[j] = RunRemovals
        BY <1>1, <1>4, <3>1, <3>3 DEF RemovalPosted, Elems
      <4>2. j \in 1..(i - 1) /\ Pending'[j] = RunRemovals
        BY <1>4, <2>2, <4>1
      <4> QED
        BY <4>2
    <3> QED
      BY <1>1, <3>1, <3>2, <3>3, HistoryElems
  <2> QED
    BY <1>4, <2>1, <2>2
<1>12. BeforeRequested'
  BY <1>1, <1>7, <1>8 DEF BeforeRequested
<1> QED
  BY <1>9, <1>10, <1>11, <1>12 DEF OrderInv

\* defer_removal(): the new removal has no callback yet, and its thread says so.
LEMMA OrderDeferRemoval ==
    ASSUME TypeOK, RunValid, OrderInv, NEW t \in Callers, NEW x \in Removals,
           DeferRemoval(t, x)
    PROVE  OrderInv'
<1> USE DEF DeferRemoval, postVars, batchVars
<1>1. InOrder /\ RemovalPosted /\ RemovalAhead /\ BeforeRequested
  BY DEF OrderInv
<1>2. /\ t \in Threads /\ asking[t] = Nothing /\ asking \in [Threads -> Removals \cup {Nothing}]
      /\ m_removals \in Seq(Removals) /\ requested \in Seq(Removals)
  BY DEF TypeOK, RunValid, MayCall
<1>3. Pending' = Pending
  BY DEF Pending
<1>4. Elems(m_removals)' = Elems(m_removals) \cup {x}
  BY <1>2, ElemsAppend
<1>5. Elems(requested)' = Elems(requested) \cup {x}
  BY <1>2, ElemsAppend
<1>6. InOrder'
  <2> DEFINE a == removed \o batch
  <2>1. a \in Seq(Removals)
    BY DEF TypeOK
  <2> HIDE DEF a
  <2>2. a \o Append(m_removals, x) = Append(a \o m_removals, x)
    BY <1>2, <2>1, AppendConcat
  <2>3. requested' = removed' \o batch' \o m_removals'
    BY <1>1, <2>2 DEF InOrder, a
  <2> QED
    BY <1>1, <2>3 DEF InOrder
<1>7. RemovalPosted'
  <2> SUFFICES ASSUME NEW y \in Elems(m_removals)'
               PROVE  (\E u \in Threads : asking'[u] = y) \/ RunRemovals \in Elems(Pending)
    BY <1>3 DEF RemovalPosted
  <2>1. CASE y = x
    BY <1>2, <2>1
  <2>2. CASE y # x
    <3>1. y \in Elems(m_removals)
      BY <1>4, <2>2
    <3>2. y \in Removals
      BY <1>2, <3>1 DEF Elems
    <3>3. \A u \in Threads : asking[u] = y => asking'[u] = y
      BY <1>2, <3>2, FdAssumption
    <3> QED
      BY <1>1, <3>1, <3>3 DEF RemovalPosted
  <2> QED
    BY <2>1, <2>2
<1>8. RemovalAhead' /\ BeforeRequested'
  BY <1>1, <1>3, <1>5 DEF RemovalAhead, BeforeRequested
<1> QED
  BY <1>6, <1>7, <1>8 DEF OrderInv

\* The callback posted for a removal is now the last of those to be started.
LEMMA OrderPostRemoval ==
    ASSUME TypeOK, RunValid, OrderInv, NEW t \in Callers, PostRemoval(t)
    PROVE  OrderInv'
<1> DEFINE S == Callbacks \cup {RunRemovals}
<1> USE DEF PostRemoval, batchVars
<1>1. InOrder /\ RemovalPosted /\ RemovalAhead /\ BeforeRequested
  BY DEF OrderInv
<1>2. /\ cbl \in Seq(S) /\ m_wake_up_cb \in Seq(S) /\ RunRemovals \in S
      /\ Pending \in Seq(S)
  BY PendingSeq DEF TypeOK
<1>3. Pending' = Append(Pending, RunRemovals)
  <2> DEFINE left == IF pc = "removing" THEN Tail(cbl) ELSE cbl
  <2>1. left \in Seq(S)
    BY <1>2 DEF RunValid
  <2> HIDE DEF left, S
  <2>2. left \o Append(m_wake_up_cb, RunRemovals) = Append(left \o m_wake_up_cb, RunRemovals)
    BY <1>2, <2>1, AppendConcat
  <2> QED
    BY <2>2 DEF Pending, left
<1>4. /\ Len(Pending) \in Nat
      /\ DOMAIN Pending = 1..Len(Pending) /\ DOMAIN Pending' = 1..(Len(Pending) + 1)
      /\ \A i \in 1..Len(Pending) : Pending'[i] = Pending[i]
      /\ Pending'[Len(Pending) + 1] = RunRemovals
  BY <1>2, <1>3
<1>5. InOrder'
  <2> HIDE DEF PostRemoval
  <2>1. Append(ran \o cbl \o m_wake_up_cb, RunRemovals)
          = ran \o cbl \o Append(m_wake_up_cb, RunRemovals)
    BY <1>2, PostedAppend
  <2> QED
    BY <1>1, <2>1 DEF InOrder, PostRemoval
<1>6. RemovalPosted'
  <2> SUFFICES ASSUME NEW y \in Elems(m_removals')
               PROVE  (\E u \in Threads : asking'[u] = y) \/ RunRemovals \in Elems(Pending')
    BY DEF RemovalPosted
  <2>1. RunRemovals \in Elems(Pending')
    BY <1>4 DEF Elems
  <2> QED
    BY <2>1
<1>7. RemovalAhead'
  <2> SUFFICES ASSUME NEW i \in 1..(Len(Pending) + 1), Pending'[i] \in Callbacks,
                      NEW x \in before[Pending'[i]]
               PROVE  \/ x \in Elems(removed) \cup Elems(batch)
                      \/ \E j \in 1..(i - 1) : Pending'[j] = RunRemovals
    BY <1>4 DEF RemovalAhead
  <2>1. i \in 1..Len(Pending) /\ Pending'[i] = Pending[i]
    BY <1>4, FdAssumption
  <2>2. \A j \in 1..(i - 1) : Pending'[j] = Pending[j]
    BY <1>4, <2>1
  <2> QED
    BY <1>1, <1>4, <2>1, <2>2 DEF RemovalAhead
<1>8. BeforeRequested'
  BY <1>1 DEF BeforeRequested
<1> QED
  BY <1>5, <1>6, <1>7, <1>8 DEF OrderInv

\* Taking the batch does not change what is to be started.
LEMMA OrderTakeCallbacks ==
    ASSUME TypeOK, RunValid, OrderInv, TakeCallbacks
    PROVE  OrderInv'
<1> DEFINE S == Callbacks \cup {RunRemovals}
<1> USE DEF TakeCallbacks, At, Goto, removalVars
<1>1. InOrder /\ RemovalPosted /\ RemovalAhead /\ BeforeRequested
  BY DEF OrderInv
<1>2. cbl = <<>> /\ ran \in Seq(S) /\ m_wake_up_cb \in Seq(S)
  BY DEF TypeOK, RunValid
<1>3. <<>> \o m_wake_up_cb = m_wake_up_cb /\ m_wake_up_cb \o <<>> = m_wake_up_cb
  BY <1>2
<1>4. Pending' = Pending
  BY <1>2, <1>3 DEF Pending
<1>5. ran \o <<>> \o m_wake_up_cb = ran \o m_wake_up_cb \o <<>>
  <2>1. ran \o <<>> = ran /\ ran \o m_wake_up_cb \in Seq(S)
    BY <1>2
  <2>2. ran \o m_wake_up_cb \o <<>> = ran \o m_wake_up_cb
    BY <2>1
  <2> QED
    BY <2>1, <2>2
<1>6. InOrder'
  BY <1>1, <1>2, <1>5 DEF InOrder
<1> QED
  BY <1>1, <1>4, <1>6 DEF OrderInv, RemovalPosted, RemovalAhead, BeforeRequested

\* A callback that is about to be started has every removal posted ahead of it done.
LEMMA OrderCallbackReturn ==
    ASSUME TypeOK, RunValid, OrderInv, CallbackReturn
    PROVE  OrderInv'
<1> DEFINE S == Callbacks \cup {RunRemovals}
<1> USE DEF CallbackReturn, At, removalVars, postVars
<1>1. InOrder /\ RemovalPosted /\ RemovalAhead /\ BeforeRequested
  BY DEF OrderInv
<1>2. /\ ran \in Seq(S) /\ cbl \in Seq(S) /\ m_wake_up_cb \in Seq(S) /\ cbl # <<>>
      /\ Pending \in Seq(S) /\ batch = <<>> /\ Head(cbl) \in Callbacks
  BY PendingSeq DEF TypeOK, RunValid
<1>3. Pending = cbl \o m_wake_up_cb /\ Pending' = Tail(cbl) \o m_wake_up_cb
  BY DEF Pending
<1>4. Pending # <<>> /\ Head(Pending) = Head(cbl) /\ Pending' = Tail(Pending)
  BY <1>2, <1>3, SMTT(30)
<1>5. /\ Len(Pending) \in Nat /\ Len(Pending) > 0 /\ Pending[1] = Head(cbl)
      /\ DOMAIN Pending = 1..Len(Pending) /\ DOMAIN Pending' = 1..(Len(Pending) - 1)
      /\ \A i \in 1..(Len(Pending) - 1) : Pending'[i] = Pending[i + 1]
  BY <1>2, <1>4
<1>6. before[Head(cbl)] \subseteq Elems(removed)
  <2>1. Elems(batch) = {}
    BY <1>2 DEF Elems
  <2>2. 1 \in DOMAIN Pending /\ 1..(1 - 1) = {}
    BY <1>5
  <2> QED
    BY <1>1, <1>2, <1>5, <2>1, <2>2 DEF RemovalAhead
<1>7. InOrder'
  <2> HIDE DEF S, CallbackReturn
  <2>1. Append(ran, Head(cbl)) \o Tail(cbl) = ran \o cbl
    BY <1>2, MoveHead
  <2>2. Head(cbl) \in S
    BY <1>2 DEF S
  <2>3. Elems(Append(ran, Head(cbl))) = Elems(ran) \cup {Head(cbl)}
    BY <1>2, <2>2, ElemsAppend
  <2>4. posted' = ran' \o cbl' \o m_wake_up_cb'
    BY <1>1, <2>1 DEF InOrder, CallbackReturn
  <2>5. Elems(ran)' = Elems(ran) \cup {Head(cbl)}
    BY <2>3 DEF CallbackReturn
  <2> QED
    BY <1>1, <1>6, <2>4, <2>5 DEF InOrder, CallbackReturn
<1>8. RemovalPosted'
  <2> HIDE DEF S
  <2>1. Elems(Pending) = Elems(Tail(Pending)) \cup {Head(Pending)}
    BY <1>2, <1>4, ElemsTail
  <2>2. Elems(Pending)' = Elems(Tail(Pending))
    BY <1>4
  <2>3. RunRemovals \in Elems(Pending) => RunRemovals \in Elems(Pending)'
    BY <1>4, <2>1, <2>2
  <2> QED
    BY <1>1, <2>3 DEF RemovalPosted
<1>9. RemovalAhead'
  <2> SUFFICES ASSUME NEW i \in 1..(Len(Pending) - 1), Pending'[i] \in Callbacks,
                      NEW x \in before[Pending'[i]]
               PROVE  \/ x \in Elems(removed) \cup Elems(batch)
                      \/ \E j \in 1..(i - 1) : Pending'[j] = RunRemovals
    BY <1>5 DEF RemovalAhead
  <2>1. i + 1 \in 1..Len(Pending) /\ Pending'[i] = Pending[i + 1]
    BY <1>5
  <2>2. CASE x \in Elems(removed) \cup Elems(batch)
    BY <2>2
  <2>3. ASSUME NEW j \in 1..i, Pending[j] = RunRemovals
        PROVE  \E k \in 1..(i - 1) : Pending'[k] = RunRemovals
    <3>1. j # 1
      BY <1>5, <2>3
    <3>2. j - 1 \in 1..(i - 1) /\ j - 1 \in 1..(Len(Pending) - 1) /\ (j - 1) + 1 = j
      BY <1>5, <3>1
    <3>3. Pending'[j - 1] = Pending[(j - 1) + 1]
      BY <1>5, <3>2
    <3> QED
      BY <2>3, <3>2, <3>3
  <2>4. (i + 1) - 1 = i
    OBVIOUS
  <2> QED
    BY <1>1, <1>5, <2>1, <2>2, <2>3, <2>4 DEF RemovalAhead
<1>10. BeforeRequested'
  BY <1>1 DEF BeforeRequested
<1> QED
  BY <1>7, <1>8, <1>9, <1>10 DEF OrderInv

\* run_removals() takes every removal there is.
LEMMA OrderTakeRemovals ==
    ASSUME TypeOK, RunValid, OrderInv, TakeRemovals
    PROVE  OrderInv'
<1> USE DEF TakeRemovals, At, Goto, postVars
<1>1. InOrder /\ RemovalPosted /\ RemovalAhead /\ BeforeRequested
  BY DEF OrderInv
<1>2. /\ removed \in Seq(Removals) /\ m_removals \in Seq(Removals) /\ batch = <<>>
      /\ before \in [Callbacks -> SUBSET Removals]
  BY DEF TypeOK, RunValid
<1>3. requested = removed \o m_removals /\ requested' = removed' \o batch' \o m_removals'
  <2>1. removed \o <<>> = removed /\ removed \o m_removals \in Seq(Removals)
    BY <1>2
  <2>2. removed \o m_removals \o <<>> = removed \o m_removals
    BY <2>1
  <2> QED
    BY <1>1, <1>2, <2>1, <2>2 DEF InOrder
<1>4. InOrder'
  BY <1>1, <1>3 DEF InOrder
<1>5. Elems(requested) = (Elems(removed) \cup Elems(batch))'
  BY <1>2, <1>3, ElemsConcat
<1>6. RemovalPosted'
  BY DEF RemovalPosted, Elems
<1>7. RemovalAhead'
  BY <1>1, <1>5 DEF BeforeRequested, RemovalAhead
<1>8. BeforeRequested'
  BY <1>1 DEF BeforeRequested
<1> QED
  BY <1>4, <1>6, <1>7, <1>8 DEF OrderInv

\* A removal of the batch is done, in the order of the batch.
LEMMA OrderRemove ==
    ASSUME TypeOK, RunValid, OrderInv, Remove
    PROVE  OrderInv'
<1> USE DEF Remove, postVars, removalVars
<1>1. InOrder /\ RemovalPosted /\ RemovalAhead /\ BeforeRequested
  BY DEF OrderInv
<1>2. removed \in Seq(Removals) /\ batch \in Seq(Removals) /\ batch # <<>> /\ Head(batch) \in Removals
  BY DEF TypeOK
<1>3. Append(removed, Head(batch)) \o Tail(batch) = removed \o batch
  BY <1>2, MoveHead
<1>4. Elems(batch) = Elems(Tail(batch)) \cup {Head(batch)}
  BY <1>2, ElemsTail
<1>5. Elems(removed)' = Elems(removed) \cup {Head(batch)}
  BY <1>2, ElemsAppend
<1>6. (Elems(removed) \cup Elems(batch))' = Elems(removed) \cup Elems(batch)
  BY <1>4, <1>5
<1>7. Pending' = Pending
  BY DEF Pending
<1>8. InOrder'
  BY <1>1, <1>3, <1>5 DEF InOrder
<1> QED
  BY <1>1, <1>6, <1>7, <1>8 DEF OrderInv, RemovalPosted, RemovalAhead, BeforeRequested

\* The callback posted for a removal returns.
LEMMA OrderRemovalsDone ==
    ASSUME TypeOK, RunValid, OrderInv, RemovalsDone
    PROVE  OrderInv'
<1> DEFINE S == Callbacks \cup {RunRemovals}
<1> USE DEF RemovalsDone, At, Goto, postVars, removalVars
<1>1. InOrder /\ RemovalPosted /\ RemovalAhead /\ BeforeRequested
  BY DEF OrderInv
<1>2. ran \in Seq(S) /\ cbl \in Seq(S) /\ cbl # <<>> /\ Head(cbl) = RunRemovals /\ RunRemovals \in S
  BY DEF TypeOK, RunValid
<1>3. Pending' = Pending
  BY DEF Pending
<1>4. InOrder'
  <2> HIDE DEF S, RemovalsDone
  <2>1. Append(ran, Head(cbl)) \o Tail(cbl) = ran \o cbl
    BY <1>2, MoveHead
  <2>2. Elems(Append(ran, RunRemovals)) = Elems(ran) \cup {RunRemovals}
    BY <1>2, ElemsAppend
  <2> QED
    BY <1>1, <1>2, <2>1, <2>2, FdAssumption DEF InOrder, RemovalsDone
<1> QED
  BY <1>1, <1>3, <1>4 DEF OrderInv, RemovalPosted, RemovalAhead, BeforeRequested

\* Nothing has been posted, removed or run at the start.
LEMMA InitOrder == Init => OrderInv
<1> SUFFICES ASSUME Init PROVE OrderInv
  OBVIOUS
<1>1. <<>> \o <<>> = <<>>
  OBVIOUS
<1>2. Pending = <<>> /\ Elems(<<>>) = {}
  BY <1>1 DEF Init, Pending, Elems
<1> QED
  BY <1>1, <1>2 DEF Init, OrderInv, InOrder, RemovalPosted, RemovalAhead, BeforeRequested

\* Every step keeps the order of callbacks and of removals, action by action.
LEMMA NextOrder ==
    ASSUME TypeOK, RunValid, OrderInv, [Next]_vars
    PROVE  OrderInv'
<1> USE OrderQuiet DEF At, Goto
<1>1. ASSUME NEW t \in Callers, NEW q \in Queues, Push(t, q)
      PROVE  OrderInv'
  BY <1>1 DEF Push
<1>2. ASSUME NEW t \in Callers, NEW c \in Callbacks, Post(t, c)
      PROVE  OrderInv'
  BY <1>2, OrderPost
<1>3. ASSUME NEW t \in Callers, NEW q \in Queues, AddQueue(t, q)
      PROVE  OrderInv'
  BY <1>3 DEF AddQueue
<1>4. ASSUME NEW t \in Callers, NEW q \in Queues, RemQueue(t, q)
      PROVE  OrderInv'
  BY <1>4 DEF RemQueue
<1>5. ASSUME NEW t \in Callers, Stop(t)
      PROVE  OrderInv'
  BY <1>5 DEF Stop
<1>6. ASSUME NEW t \in Callers, NEW x \in Removals, DeferRemoval(t, x)
      PROVE  OrderInv'
  BY <1>6, OrderDeferRemoval
<1>7. ASSUME NEW t \in Callers, PostRemoval(t)
      PROVE  OrderInv'
  BY <1>7, OrderPostRemoval
<1>8. ASSUME NEW t \in Callers, ClaimWake(t)
      PROVE  OrderInv'
  BY <1>8 DEF ClaimWake
<1>9. ASSUME NEW t \in Callers, WritePipe(t)
      PROVE  OrderInv'
  BY <1>9 DEF WritePipe
<1>10. ASSUME NEW t \in Callers, WritePipeFails(t)
       PROVE  OrderInv'
  BY <1>10 DEF WritePipeFails
<1>11. ASSUME NEW t \in Callers, WriteEventFd(t)
       PROVE  OrderInv'
  BY <1>11 DEF WriteEventFd
<1>12. CASE \/ CallRun \/ RunEnter \/ LoopTest \/ PollReturns \/ PollOther
            \/ PollInterrupted \/ DrainPipe \/ ClearPending \/ ReadEventFd \/ FdsDone
  BY <1>12 DEF CallRun, RunEnter, LoopTest, PollReturns, PollOther, PollInterrupted,
     DrainPipe, ClearPending, ReadEventFd, FdsDone
<1>13. CASE TakeCallbacks
  BY <1>13, OrderTakeCallbacks
<1>14. CASE CallbackReturn
  BY <1>14, OrderCallbackReturn
<1>15. CASE TakeRemovals
  BY <1>15, OrderTakeRemovals
<1>16. CASE Remove
  BY <1>16, OrderRemove
<1>17. CASE RemovalsDone
  BY <1>17, OrderRemovalsDone
<1>18. CASE EndCallbacks \/ Snapshot \/ HandlerPop \/ HandlerReturn \/ EndScan \/ Schedule
  BY <1>18 DEF EndCallbacks, Snapshot, HandlerPop, HandlerReturn, EndScan, Schedule
<1>19. ASSUME NEW q \in Queues, Visit(q)
       PROVE  OrderInv'
  BY <1>19 DEF Visit
<1>20. CASE UNCHANGED vars
  BY <1>20 DEF vars
<1> QED
  BY <1>1, <1>2, <1>3, <1>4, <1>5, <1>6, <1>7, <1>8, <1>9, <1>10, <1>11, <1>12,
     <1>13, <1>14, <1>15, <1>16, <1>17, <1>18, <1>19, <1>20 DEF Next, RunStep, Call,
     Continue

-----------------------------------------------------------------------------
(* The theorems. *)

\* The inductive invariant.
Inv ==
    /\ TypeOK /\ RunValid
    /\ OneWakeToken /\ PipeDrained
    /\ NoLostCallback
    /\ NoLostWakeup
    /\ OrderInv

\* A removal that waits has a callback to come: from RemovalPosted.
RemovalAwaited ==
    m_removals # <<>> =>
        \/ \E t \in Threads : op[t] = "post_removal"
        \/ RunRemovals \in Elems(m_wake_up_cb)
        \/ RunRemovals \in Elems(IF pc = "removing" THEN Tail(cbl) ELSE cbl)

\* A deferred removal whose posting is still to come, or whose callback is queued or in
\* the batch, is awaited in the sense of NoLostCallback.
LEMMA PostedAwaited == TypeOK /\ RunValid /\ RemovalPosted => RemovalAwaited
<1> SUFFICES ASSUME TypeOK, RunValid, RemovalPosted, m_removals # <<>>
             PROVE  \/ \E t \in Threads : op[t] = "post_removal"
                    \/ RunRemovals \in Elems(m_wake_up_cb)
                    \/ RunRemovals \in Elems(IF pc = "removing" THEN Tail(cbl) ELSE cbl)
  BY DEF RemovalAwaited
<1>1. m_removals \in Seq(Removals)
  BY DEF TypeOK
<1>2. m_removals[1] \in Elems(m_removals) /\ m_removals[1] \in Removals
  BY <1>1 DEF Elems
<1>3. CASE \E t \in Threads : asking[t] = m_removals[1]
  BY <1>2, <1>3, FdAssumption DEF RunValid
<1>4. CASE RunRemovals \in Elems(Pending)
  BY <1>4, PendingSeq
<1> QED
  BY <1>2, <1>3, <1>4 DEF RemovalPosted

\* The same fact about the state after a step.
LEMMA PostedAwaitedPrime == TypeOK' /\ RunValid' /\ RemovalPosted' => RemovalAwaited'
BY PostedAwaited, PTL

\* The inductive invariant holds at the start.
LEMMA InitInv == Init => Inv
<1> SUFFICES ASSUME Init PROVE Inv
  OBVIOUS
<1>1. TypeOK /\ RunValid /\ OrderInv
  BY InitType, InitOrder
<1>2. OneWakeToken /\ PipeDrained
  <2>1. {t \in Callers : op[t] = "write"} = {}
    BY DEF Init
  <2>2. Cardinality({t \in Callers : op[t] = "write"}) = 0
    BY <2>1, FS_EmptySet
  <2> QED
    BY <1>1, <2>2 DEF Init, OneWakeToken, PipeDrained
<1> QED
  BY <1>1, <1>2 DEF Init, Inv, NoLostCallback, NoLostWakeup

\* The inductive invariant is kept by every step: the lemmas above, put together.
LEMMA NextInv == Inv /\ [Next]_vars => Inv'
<1> SUFFICES ASSUME Inv, [Next]_vars PROVE Inv'
  OBVIOUS
<1> USE DEF Inv
<1>1. TypeOK' /\ RunValid'
  BY NextType
<1>2. (OneWakeToken /\ PipeDrained)'
  BY <1>1, NextToken
<1>3. OrderInv'
  BY NextOrder
<1>4. NoLostWakeup'
  BY <1>1, NextWakeup
<1>5. NoLostCallback'
  <2>1. m_wake_up_cb' # <<>> /\ failures' = 0 =>
          Signalled' \/ pc' \in {"drain", "unpend", "fds", "take"}
    BY <1>1, NextCallback DEF NoLostCallback
  <2>2. RemovalAwaited'
    BY <1>1, <1>3, PostedAwaitedPrime DEF OrderInv
  <2> QED
    BY <2>1, <2>2 DEF NoLostCallback, RemovalAwaited
<1> QED
  BY <1>1, <1>2, <1>3, <1>4, <1>5

\* The pipe of poll_reactor holds at most one byte, and m_wake_pending is set exactly while
\* a wake is on its way: for any number of threads that wake the reactor, whatever
\* writes fail.
THEOREM WakeToken == Spec => []OneWakeToken
<1>1. Inv => OneWakeToken
  BY DEF Inv
<1> QED
  BY <1>1, InitInv, NextInv, PTL DEF Spec

\* Unless a write to the wake fd has failed, a posted callback always has a wake on its
\* way or a pass that has yet to take it; a deferred removal has a callback that will
\* take it.
THEOREM CallbackNotLost == Spec => []NoLostCallback
<1>1. Inv => NoLostCallback
  BY DEF Inv
<1> QED
  BY <1>1, InitInv, NextInv, PTL DEF Spec

\* Unless a write to the wake fd has failed, an element of a registered reactive queue
\* always has a wake, a place in the pass or the backlog flag to bring the reactor to it.
THEOREM WakeupNotLost == Spec => []NoLostWakeup
<1>1. Inv => NoLostWakeup
  BY DEF Inv
<1> QED
  BY <1>1, InitInv, NextInv, PTL DEF Spec

\* Callbacks run once and in the order posted, removals are done once and in the order
\* asked for, and never later than a callback posted after them.
THEOREM CallbackOrder == Spec => []InOrder
<1>1. Inv => InOrder
  BY DEF Inv, OrderInv
<1> QED
  BY <1>1, InitInv, NextInv, PTL DEF Spec

=============================================================================
