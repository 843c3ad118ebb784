--------------------------- MODULE CvReactor_proofs ---------------------------
(***************************************************************************)
(* Theorems about CvReactor, for any number of threads, queues, callbacks  *)
(* and any bounds.                                                         *)
(***************************************************************************)
EXTENDS CvReactor, SequenceTheorems, TLAPS

\* The queues an operation or run() is about are queues of the system, and an
\* operation in progress never registers or removes a pinned queue.
OpsValid ==
    /\ \A t \in Callers :
          /\ op[t] = "notify_push" => opq[t] \in Queues
          /\ op[t] \in {"add_ctx", "rem_ctx"} => opq[t] \in Queues \ Pinned
    /\ pc \in {"notify"} \cup HandlerStates => ctx \in Queues

\* A pinned queue stays registered, bound and with its callback set.
StaysBound ==
    \A q \in Pinned : q \in m_contexts /\ m_cb[q] /\ m_wake_callback[q]

\* A pass starts with no batch of callbacks left from the previous one.
BatchDone == pc # "callback" => cbl = <<>>

-----------------------------------------------------------------------------
(* The type invariant. *)

\* The variables keep their types through every operation of cv_reactor and of
\* the queues it serves, and no operation in progress concerns a pinned queue's
\* registration.
THEOREM TypeCorrect == Spec => [](TypeOK /\ OpsValid)
<1> USE DEF Callers, OpStates, HandlerStates, ScanStates, UserCode, PassStates,
            RunStates
<1>1. Init => TypeOK /\ OpsValid
  <2> SUFFICES ASSUME Init PROVE TypeOK /\ OpsValid
    OBVIOUS
  <2>1. m_cb \in [Queues -> BOOLEAN] /\ m_wake_callback \in [Queues -> BOOLEAN]
    BY DEF Init
  <2>2. <<>> \in Seq(Callbacks)
    OBVIOUS
  <2>3. OpsValid
    BY DEF Init, OpsValid
  <2>4. /\ items \in [Queues -> Nat]
        /\ op \in [Callers -> OpStates]
        /\ opq \in [Callers -> Queues \cup {NoQueue}]
    BY DEF Init
  <2>5. pushes \in 0..MaxPushes /\ runs \in 0..MaxRuns
    BY CvAssumption DEF Init
  <2>6. m_contexts \subseteq Queues /\ m_ctx_snapshot \subseteq Queues
    BY CvAssumption DEF Init
  <2> QED
    BY <2>1, <2>2, <2>3, <2>4, <2>5, <2>6, Zenon DEF Init, TypeOK
<1>2. TypeOK /\ OpsValid /\ [Next]_vars => (TypeOK /\ OpsValid)'
  <2> SUFFICES ASSUME TypeOK, OpsValid, [Next]_vars
               PROVE  (TypeOK /\ OpsValid)'
    OBVIOUS
  <2> USE CvAssumption DEF TypeOK, OpsValid, reactorVars, queueVars, postVars,
          opVars, Becomes, MayCall, At, Goto
  <2>1. ASSUME NEW t \in Callers, NEW q \in Queues, Push(t, q)
        PROVE  (TypeOK /\ OpsValid)'
    BY <2>1 DEF Push
  <2>2. ASSUME NEW t \in Callers, NotifyPush(t)
        PROVE  (TypeOK /\ OpsValid)'
    BY <2>2 DEF NotifyPush
  <2>3. ASSUME NEW t \in Callers, CallWakeUp(t)
        PROVE  (TypeOK /\ OpsValid)'
    BY <2>3 DEF CallWakeUp
  <2>4. ASSUME NEW t \in Callers, NEW c \in Callbacks, Post(t, c)
        PROVE  (TypeOK /\ OpsValid)'
    BY <2>4 DEF Post
  <2>5. ASSUME NEW t \in Callers, WakeUp(t)
        PROVE  (TypeOK /\ OpsValid)'
    BY <2>5 DEF WakeUp
  <2>6. ASSUME NEW t \in Callers, Stop(t)
        PROVE  (TypeOK /\ OpsValid)'
    BY <2>6 DEF Stop
  <2>7. ASSUME NEW t \in Callers, NEW q \in Queues, AddReadRdy(t, q)
        PROVE  (TypeOK /\ OpsValid)'
    BY <2>7 DEF AddReadRdy
  <2>8. ASSUME NEW t \in Callers, NEW q \in Queues, RemoveReadRdy(t, q)
        PROVE  (TypeOK /\ OpsValid)'
    BY <2>8 DEF RemoveReadRdy
  <2>9. ASSUME NEW t \in Callers, AddContext(t)
        PROVE  (TypeOK /\ OpsValid)'
    BY <2>9 DEF AddContext
  <2>10. ASSUME NEW t \in Callers, RemoveContext(t)
         PROVE  (TypeOK /\ OpsValid)'
    BY <2>10 DEF RemoveContext
  <2>11. ASSUME NEW t \in Callers, NEW q \in Queues, SetReactor(t, q)
         PROVE  (TypeOK /\ OpsValid)'
    BY <2>11 DEF SetReactor
  <2>12. CASE RunEnter
    BY <2>12 DEF RunEnter
  <2>13. CASE LoopTest
    BY <2>13 DEF LoopTest
  <2>14. CASE Wait
    BY <2>14 DEF Wait, AfterWait
  <2>15. CASE Timeout
    BY <2>15 DEF Timeout, AfterWait
  <2>16. CASE Snapshot
    BY <2>16 DEF Snapshot
  <2>17. ASSUME NEW q \in Queues, Visit(q)
         PROVE  (TypeOK /\ OpsValid)'
    BY <2>17 DEF Visit
  <2>18. CASE NotifyCallback
    BY <2>18 DEF NotifyCallback
  <2>19. CASE HandlerPop
    BY <2>19 DEF HandlerPop
  <2>20. CASE HandlerReturn
    BY <2>20 DEF HandlerReturn
  <2>21. CASE EndScan
    BY <2>21 DEF EndScan
  <2>22. CASE TakeCallbacks
    BY <2>22 DEF TakeCallbacks
  <2>23. CASE CallbackReturn
    BY <2>23 DEF CallbackReturn
  <2>24. CASE EndCallbacks
    BY <2>24 DEF EndCallbacks
  <2>25. CASE Schedule
    BY <2>25 DEF Schedule
  <2>26. CASE UNCHANGED vars
    BY <2>26 DEF vars
  <2> QED
    BY <2>1, <2>2, <2>3, <2>4, <2>5, <2>6, <2>7, <2>8, <2>9, <2>10, <2>11,
       <2>12, <2>13, <2>14, <2>15, <2>16, <2>17, <2>18, <2>19, <2>20, <2>21,
       <2>22, <2>23, <2>24, <2>25, <2>26
       DEF Next, RunStep, Call, Continue
<1> QED
  BY <1>1, <1>2, PTL DEF Spec

-----------------------------------------------------------------------------
(* The safety properties. *)

\* A queue that is registered and bound at the start, and that no caller
\* removes, keeps its entry in m_contexts, its m_cb and its m_wake_callback.
THEOREM BindingKept == Spec => []StaysBound
<1> USE DEF Callers, OpStates, HandlerStates, ScanStates, UserCode, PassStates,
            RunStates
<1>1. Init => StaysBound
  BY CvAssumption DEF Init, StaysBound
<1>2. TypeOK /\ OpsValid /\ StaysBound /\ [Next]_vars => StaysBound'
  <2> SUFFICES ASSUME TypeOK, OpsValid, StaysBound, [Next]_vars
               PROVE  StaysBound'
    OBVIOUS
  <2> USE CvAssumption DEF TypeOK, OpsValid, StaysBound, reactorVars, queueVars,
          postVars, opVars, Becomes, MayCall, At, Goto
  <2>1. ASSUME NEW t \in Callers, NEW p \in Queues, Push(t, p)
        PROVE  StaysBound'
    BY <2>1 DEF Push
  <2>2. ASSUME NEW t \in Callers, NotifyPush(t)
        PROVE  StaysBound'
    BY <2>2 DEF NotifyPush
  <2>3. ASSUME NEW t \in Callers, CallWakeUp(t)
        PROVE  StaysBound'
    BY <2>3 DEF CallWakeUp
  <2>4. ASSUME NEW t \in Callers, NEW c \in Callbacks, Post(t, c)
        PROVE  StaysBound'
    BY <2>4 DEF Post
  <2>5. ASSUME NEW t \in Callers, WakeUp(t)
        PROVE  StaysBound'
    BY <2>5 DEF WakeUp
  <2>6. ASSUME NEW t \in Callers, Stop(t)
        PROVE  StaysBound'
    BY <2>6 DEF Stop
  <2>7. ASSUME NEW t \in Callers, NEW p \in Queues, AddReadRdy(t, p)
        PROVE  StaysBound'
    BY <2>7 DEF AddReadRdy
  <2>8. ASSUME NEW t \in Callers, NEW p \in Queues, RemoveReadRdy(t, p)
        PROVE  StaysBound'
    BY <2>8 DEF RemoveReadRdy
  <2>9. ASSUME NEW t \in Callers, AddContext(t)
        PROVE  StaysBound'
    BY <2>9 DEF AddContext
  <2>10. ASSUME NEW t \in Callers, RemoveContext(t)
        PROVE  StaysBound'
    BY <2>10 DEF RemoveContext
  <2>11. ASSUME NEW t \in Callers, NEW p \in Queues, SetReactor(t, p)
        PROVE  StaysBound'
    BY <2>11 DEF SetReactor
  <2>12. CASE RunEnter
    BY <2>12 DEF RunEnter
  <2>13. CASE LoopTest
    BY <2>13 DEF LoopTest
  <2>14. CASE Wait
    BY <2>14 DEF Wait, AfterWait
  <2>15. CASE Timeout
    BY <2>15 DEF Timeout, AfterWait
  <2>16. CASE Snapshot
    BY <2>16 DEF Snapshot
  <2>17. ASSUME NEW p \in Queues, Visit(p)
        PROVE  StaysBound'
    BY <2>17 DEF Visit
  <2>18. CASE NotifyCallback
    BY <2>18 DEF NotifyCallback
  <2>19. CASE HandlerPop
    BY <2>19 DEF HandlerPop
  <2>20. CASE HandlerReturn
    BY <2>20 DEF HandlerReturn
  <2>21. CASE EndScan
    BY <2>21 DEF EndScan
  <2>22. CASE TakeCallbacks
    BY <2>22 DEF TakeCallbacks
  <2>23. CASE CallbackReturn
    BY <2>23 DEF CallbackReturn
  <2>24. CASE EndCallbacks
    BY <2>24 DEF EndCallbacks
  <2>25. CASE Schedule
    BY <2>25 DEF Schedule
  <2>26. CASE UNCHANGED vars
    BY <2>26 DEF vars
  <2> QED
    BY <2>1, <2>2, <2>3, <2>4, <2>5, <2>6, <2>7, <2>8, <2>9,
       <2>10, <2>11, <2>12, <2>13, <2>14, <2>15, <2>16, <2>17, <2>18,
       <2>19, <2>20, <2>21, <2>22, <2>23, <2>24, <2>25, <2>26
       DEF Next, RunStep, Call, Continue
<1> QED
  BY <1>1, <1>2, TypeCorrect, PTL DEF Spec

\* No element of a registered and bound queue is forgotten, whatever the number
\* of pushing threads and queues and however their steps interleave with run().
THEOREM WakeupNotLost == Spec => []NoLostWakeup
<1> USE DEF Callers, OpStates, HandlerStates, ScanStates, UserCode, PassStates,
            RunStates
<1>1. Init => NoLostWakeup
  BY CvAssumption DEF Init, NoLostWakeup
<1>2. TypeOK /\ OpsValid /\ StaysBound /\ NoLostWakeup /\ [Next]_vars
        => NoLostWakeup'
  <2> SUFFICES ASSUME TypeOK, OpsValid, StaysBound, NoLostWakeup, [Next]_vars
               PROVE  NoLostWakeup'
    OBVIOUS
  <2> USE CvAssumption DEF TypeOK, OpsValid, StaysBound, reactorVars, queueVars,
          postVars, opVars, Becomes, MayCall, At, Goto,
          NoLostWakeup, Signalled, WillVisit
  <2>1. ASSUME NEW t \in Callers, NEW p \in Queues, Push(t, p)
        PROVE  NoLostWakeup'
    BY <2>1 DEF Push
  <2>2. ASSUME NEW t \in Callers, NotifyPush(t)
        PROVE  NoLostWakeup'
    BY <2>2 DEF NotifyPush
  <2>3. ASSUME NEW t \in Callers, CallWakeUp(t)
        PROVE  NoLostWakeup'
    BY <2>3 DEF CallWakeUp
  <2>4. ASSUME NEW t \in Callers, NEW c \in Callbacks, Post(t, c)
        PROVE  NoLostWakeup'
    BY <2>4 DEF Post
  <2>5. ASSUME NEW t \in Callers, WakeUp(t)
        PROVE  NoLostWakeup'
    BY <2>5 DEF WakeUp
  <2>6. ASSUME NEW t \in Callers, Stop(t)
        PROVE  NoLostWakeup'
    BY <2>6 DEF Stop
  <2>7. ASSUME NEW t \in Callers, NEW p \in Queues, AddReadRdy(t, p)
        PROVE  NoLostWakeup'
    BY <2>7 DEF AddReadRdy
  <2>8. ASSUME NEW t \in Callers, NEW p \in Queues, RemoveReadRdy(t, p)
        PROVE  NoLostWakeup'
    BY <2>8 DEF RemoveReadRdy
  <2>9. ASSUME NEW t \in Callers, AddContext(t)
        PROVE  NoLostWakeup'
    BY <2>9 DEF AddContext
  <2>10. ASSUME NEW t \in Callers, RemoveContext(t)
        PROVE  NoLostWakeup'
    BY <2>10 DEF RemoveContext
  <2>11. ASSUME NEW t \in Callers, NEW p \in Queues, SetReactor(t, p)
        PROVE  NoLostWakeup'
    BY <2>11 DEF SetReactor
  <2>12. CASE RunEnter
    BY <2>12 DEF RunEnter
  <2>13. CASE LoopTest
    BY <2>13 DEF LoopTest
  <2>14. CASE Wait
    BY <2>14 DEF Wait, AfterWait
  <2>15. CASE Timeout
    BY <2>15 DEF Timeout, AfterWait
  <2>16. CASE Snapshot
    BY <2>16 DEF Snapshot
  <2>17. ASSUME NEW p \in Queues, Visit(p)
        PROVE  NoLostWakeup'
    BY <2>17 DEF Visit
  <2>18. CASE NotifyCallback
    BY <2>18 DEF NotifyCallback
  <2>19. CASE HandlerPop
    BY <2>19 DEF HandlerPop
  <2>20. CASE HandlerReturn
    BY <2>20 DEF HandlerReturn
  <2>21. CASE EndScan
    BY <2>21 DEF EndScan
  <2>22. CASE TakeCallbacks
    BY <2>22 DEF TakeCallbacks
  <2>23. CASE CallbackReturn
    BY <2>23 DEF CallbackReturn
  <2>24. CASE EndCallbacks
    BY <2>24 DEF EndCallbacks
  <2>25. CASE Schedule
    BY <2>25 DEF Schedule
  <2>26. CASE UNCHANGED vars
    BY <2>26 DEF vars
  <2> QED
    BY <2>1, <2>2, <2>3, <2>4, <2>5, <2>6, <2>7, <2>8, <2>9,
       <2>10, <2>11, <2>12, <2>13, <2>14, <2>15, <2>16, <2>17, <2>18,
       <2>19, <2>20, <2>21, <2>22, <2>23, <2>24, <2>25, <2>26
       DEF Next, RunStep, Call, Continue
<1> QED
  BY <1>1, <1>2, TypeCorrect, BindingKept, PTL DEF Spec

\* No callback given to wake_up() is forgotten.
THEOREM CallbackNotLost == Spec => []NoLostCallback
<1> USE DEF Callers, OpStates, HandlerStates, ScanStates, UserCode, PassStates,
            RunStates
<1>1. Init => NoLostCallback
  BY DEF Init, NoLostCallback
<1>2. TypeOK /\ OpsValid /\ NoLostCallback /\ [Next]_vars => NoLostCallback'
  <2> SUFFICES ASSUME TypeOK, OpsValid, NoLostCallback, [Next]_vars
               PROVE  NoLostCallback'
    OBVIOUS
  <2> USE CvAssumption DEF TypeOK, OpsValid, reactorVars, queueVars, postVars,
          opVars, Becomes, MayCall, At, Goto,
          NoLostCallback, Signalled
  <2>1. ASSUME NEW t \in Callers, NEW p \in Queues, Push(t, p)
        PROVE  NoLostCallback'
    BY <2>1 DEF Push
  <2>2. ASSUME NEW t \in Callers, NotifyPush(t)
        PROVE  NoLostCallback'
    BY <2>2 DEF NotifyPush
  <2>3. ASSUME NEW t \in Callers, CallWakeUp(t)
        PROVE  NoLostCallback'
    BY <2>3 DEF CallWakeUp
  <2>4. ASSUME NEW t \in Callers, NEW c \in Callbacks, Post(t, c)
        PROVE  NoLostCallback'
    BY <2>4 DEF Post
  <2>5. ASSUME NEW t \in Callers, WakeUp(t)
        PROVE  NoLostCallback'
    BY <2>5 DEF WakeUp
  <2>6. ASSUME NEW t \in Callers, Stop(t)
        PROVE  NoLostCallback'
    BY <2>6 DEF Stop
  <2>7. ASSUME NEW t \in Callers, NEW p \in Queues, AddReadRdy(t, p)
        PROVE  NoLostCallback'
    BY <2>7 DEF AddReadRdy
  <2>8. ASSUME NEW t \in Callers, NEW p \in Queues, RemoveReadRdy(t, p)
        PROVE  NoLostCallback'
    BY <2>8 DEF RemoveReadRdy
  <2>9. ASSUME NEW t \in Callers, AddContext(t)
        PROVE  NoLostCallback'
    BY <2>9 DEF AddContext
  <2>10. ASSUME NEW t \in Callers, RemoveContext(t)
        PROVE  NoLostCallback'
    BY <2>10 DEF RemoveContext
  <2>11. ASSUME NEW t \in Callers, NEW p \in Queues, SetReactor(t, p)
        PROVE  NoLostCallback'
    BY <2>11 DEF SetReactor
  <2>12. CASE RunEnter
    BY <2>12 DEF RunEnter
  <2>13. CASE LoopTest
    BY <2>13 DEF LoopTest
  <2>14. CASE Wait
    BY <2>14 DEF Wait, AfterWait
  <2>15. CASE Timeout
    BY <2>15 DEF Timeout, AfterWait
  <2>16. CASE Snapshot
    BY <2>16 DEF Snapshot
  <2>17. ASSUME NEW p \in Queues, Visit(p)
        PROVE  NoLostCallback'
    BY <2>17 DEF Visit
  <2>18. CASE NotifyCallback
    BY <2>18 DEF NotifyCallback
  <2>19. CASE HandlerPop
    BY <2>19 DEF HandlerPop
  <2>20. CASE HandlerReturn
    BY <2>20 DEF HandlerReturn
  <2>21. CASE EndScan
    BY <2>21 DEF EndScan
  <2>22. CASE TakeCallbacks
    BY <2>22 DEF TakeCallbacks
  <2>23. CASE CallbackReturn
    BY <2>23 DEF CallbackReturn
  <2>24. CASE EndCallbacks
    BY <2>24 DEF EndCallbacks
  <2>25. CASE Schedule
    BY <2>25 DEF Schedule
  <2>26. CASE UNCHANGED vars
    BY <2>26 DEF vars
  <2> QED
    BY <2>1, <2>2, <2>3, <2>4, <2>5, <2>6, <2>7, <2>8, <2>9,
       <2>10, <2>11, <2>12, <2>13, <2>14, <2>15, <2>16, <2>17, <2>18,
       <2>19, <2>20, <2>21, <2>22, <2>23, <2>24, <2>25, <2>26
       DEF Next, RunStep, Call, Continue
<1> QED
  BY <1>1, <1>2, TypeCorrect, PTL DEF Spec

\* Once set_callback(nullptr) on a reactive_event_queue has returned, its handler
\* is not executing.
THEOREM RemovedQuiet == Spec => []RemovedIsQuiet
<1> USE DEF Callers, OpStates, HandlerStates, ScanStates, UserCode, PassStates,
            RunStates
<1>1. Init => RemovedIsQuiet
  BY DEF Init, RemovedIsQuiet, InHandler
<1>2. TypeOK /\ OpsValid /\ RemovedIsQuiet /\ [Next]_vars => RemovedIsQuiet'
  <2> SUFFICES ASSUME TypeOK, OpsValid, RemovedIsQuiet, [Next]_vars
               PROVE  RemovedIsQuiet'
    OBVIOUS
  <2> USE CvAssumption DEF TypeOK, OpsValid, reactorVars, queueVars, postVars,
          opVars, Becomes, MayCall, At, Goto,
          RemovedIsQuiet, InHandler, CbMtxHeld
  <2>1. ASSUME NEW t \in Callers, NEW p \in Queues, Push(t, p)
        PROVE  RemovedIsQuiet'
    BY <2>1 DEF Push
  <2>2. ASSUME NEW t \in Callers, NotifyPush(t)
        PROVE  RemovedIsQuiet'
    BY <2>2 DEF NotifyPush
  <2>3. ASSUME NEW t \in Callers, CallWakeUp(t)
        PROVE  RemovedIsQuiet'
    BY <2>3 DEF CallWakeUp
  <2>4. ASSUME NEW t \in Callers, NEW c \in Callbacks, Post(t, c)
        PROVE  RemovedIsQuiet'
    BY <2>4 DEF Post
  <2>5. ASSUME NEW t \in Callers, WakeUp(t)
        PROVE  RemovedIsQuiet'
    BY <2>5 DEF WakeUp
  <2>6. ASSUME NEW t \in Callers, Stop(t)
        PROVE  RemovedIsQuiet'
    BY <2>6 DEF Stop
  <2>7. ASSUME NEW t \in Callers, NEW p \in Queues, AddReadRdy(t, p)
        PROVE  RemovedIsQuiet'
    BY <2>7 DEF AddReadRdy
  <2>8. ASSUME NEW t \in Callers, NEW p \in Queues, RemoveReadRdy(t, p)
        PROVE  RemovedIsQuiet'
    BY <2>8 DEF RemoveReadRdy
  <2>9. ASSUME NEW t \in Callers, AddContext(t)
        PROVE  RemovedIsQuiet'
    BY <2>9 DEF AddContext
  <2>10. ASSUME NEW t \in Callers, RemoveContext(t)
        PROVE  RemovedIsQuiet'
    BY <2>10 DEF RemoveContext
  <2>11. ASSUME NEW t \in Callers, NEW p \in Queues, SetReactor(t, p)
        PROVE  RemovedIsQuiet'
    BY <2>11 DEF SetReactor
  <2>12. CASE RunEnter
    BY <2>12 DEF RunEnter
  <2>13. CASE LoopTest
    BY <2>13 DEF LoopTest
  <2>14. CASE Wait
    BY <2>14 DEF Wait, AfterWait
  <2>15. CASE Timeout
    BY <2>15 DEF Timeout, AfterWait
  <2>16. CASE Snapshot
    BY <2>16 DEF Snapshot
  <2>17. ASSUME NEW p \in Queues, Visit(p)
        PROVE  RemovedIsQuiet'
    BY <2>17 DEF Visit
  <2>18. CASE NotifyCallback
    BY <2>18 DEF NotifyCallback
  <2>19. CASE HandlerPop
    BY <2>19 DEF HandlerPop
  <2>20. CASE HandlerReturn
    BY <2>20 DEF HandlerReturn
  <2>21. CASE EndScan
    BY <2>21 DEF EndScan
  <2>22. CASE TakeCallbacks
    BY <2>22 DEF TakeCallbacks
  <2>23. CASE CallbackReturn
    BY <2>23 DEF CallbackReturn
  <2>24. CASE EndCallbacks
    BY <2>24 DEF EndCallbacks
  <2>25. CASE Schedule
    BY <2>25 DEF Schedule
  <2>26. CASE UNCHANGED vars
    BY <2>26 DEF vars
  <2> QED
    BY <2>1, <2>2, <2>3, <2>4, <2>5, <2>6, <2>7, <2>8, <2>9,
       <2>10, <2>11, <2>12, <2>13, <2>14, <2>15, <2>16, <2>17, <2>18,
       <2>19, <2>20, <2>21, <2>22, <2>23, <2>24, <2>25, <2>26
       DEF Next, RunStep, Call, Continue
<1> QED
  BY <1>1, <1>2, TypeCorrect, PTL DEF Spec

-----------------------------------------------------------------------------
(* The order of the callbacks. *)

\* Appending to the last of three sequences appends to their concatenation.
LEMMA AppendLast ==
    ASSUME NEW a \in Seq(Callbacks), NEW b \in Seq(Callbacks),
           NEW c \in Seq(Callbacks), NEW x \in Callbacks
    PROVE  Append(a \o b \o c, x) = a \o b \o Append(c, x)
<1>1. a \o b \in Seq(Callbacks) /\ a \o b \o c \in Seq(Callbacks)
  OBVIOUS
<1> QED
  BY <1>1, SMTT(30)

\* Moving the head of the second of three sequences to the end of the first
\* leaves their concatenation as it was.
LEMMA MoveHead ==
    ASSUME NEW a \in Seq(Callbacks), NEW b \in Seq(Callbacks),
           NEW c \in Seq(Callbacks), b # <<>>
    PROVE  Append(a, Head(b)) \o Tail(b) \o c = a \o b \o c
<1>1. Append(a, Head(b)) \o Tail(b) = a \o b
  BY SMTT(30)
<1> QED
  BY <1>1

\* Every callback given to wake_up() runs at most once, in the order of the
\* calls: those that ran, those of the batch in progress and those waiting are
\* together exactly those posted.
THEOREM CallbackOrder == Spec => []CallbacksInOrder
<1> USE DEF BatchDone, CallbacksInOrder
<1>1. Init => BatchDone /\ CallbacksInOrder
  BY DEF Init
<1>2. TypeOK /\ BatchDone /\ CallbacksInOrder /\ [Next]_vars
        => (BatchDone /\ CallbacksInOrder)'
  <2> SUFFICES ASSUME TypeOK, BatchDone, CallbacksInOrder, [Next]_vars
               PROVE  (BatchDone /\ CallbacksInOrder)'
    OBVIOUS
  <2> USE DEF reactorVars, postVars, At, Goto
  <2>1. ASSUME NEW t \in Callers, NEW c \in Callbacks, Post(t, c)
        PROVE  (BatchDone /\ CallbacksInOrder)'
    <3>1. ran \in Seq(Callbacks) /\ cbl \in Seq(Callbacks)
          /\ m_wake_up_cb \in Seq(Callbacks)
      BY DEF TypeOK
    <3>2. Append(ran \o cbl \o m_wake_up_cb, c)
            = ran \o cbl \o Append(m_wake_up_cb, c)
      <4> HIDE DEF BatchDone, CallbacksInOrder
      <4> QED
        BY <3>1, AppendLast, ZenonT(60)
    <3>3. /\ posted' = Append(posted, c)
          /\ m_wake_up_cb' = Append(m_wake_up_cb, c)
          /\ ran' = ran /\ cbl' = cbl
      BY <2>1 DEF Post
    <3>4. CallbacksInOrder'
      BY <3>2, <3>3, Zenon
    <3>5. BatchDone'
      BY <2>1 DEF Post, TypeOK
    <3> QED
      BY <3>4, <3>5
  <2>2. CASE TakeCallbacks
    BY <2>2 DEF TakeCallbacks, TypeOK
  <2>3. CASE CallbackReturn
    BY <2>3, MoveHead DEF CallbackReturn, TypeOK
  <2>4. ASSUME UNCHANGED <<cbl, m_wake_up_cb, posted, ran>>,
               pc # "callback" \/ cbl = <<>> \/ UNCHANGED pc
        PROVE  (BatchDone /\ CallbacksInOrder)'
    BY <2>4
  <2>5. ASSUME NEW t \in Callers, NEW q \in Queues,
               Push(t, q) \/ AddReadRdy(t, q) \/ RemoveReadRdy(t, q) \/ SetReactor(t, q)
        PROVE  (BatchDone /\ CallbacksInOrder)'
    BY <2>4, <2>5 DEF Push, AddReadRdy, RemoveReadRdy, SetReactor
  <2>6. ASSUME NEW t \in Callers, CallWakeUp(t) \/ Stop(t) \/ Continue(t)
        PROVE  (BatchDone /\ CallbacksInOrder)'
    BY <2>4, <2>6 DEF CallWakeUp, Stop, Continue, NotifyPush, WakeUp, AddContext,
                      RemoveContext
  <2>7. CASE RunEnter \/ LoopTest \/ Wait \/ Timeout \/ Snapshot
    BY <2>4, <2>7 DEF RunEnter, LoopTest, Wait, Timeout, AfterWait, Snapshot
  <2>8. ASSUME NEW q \in Queues, Visit(q)
        PROVE  (BatchDone /\ CallbacksInOrder)'
    BY <2>4, <2>8 DEF Visit
  <2>9. CASE NotifyCallback \/ HandlerPop \/ HandlerReturn \/ EndScan
    BY <2>4, <2>9 DEF NotifyCallback, HandlerPop, HandlerReturn, EndScan
  <2>10. CASE EndCallbacks \/ Schedule
    BY <2>4, <2>10 DEF EndCallbacks, Schedule
  <2>11. CASE UNCHANGED vars
    BY <2>4, <2>11 DEF vars
  <2> QED
    BY <2>1, <2>2, <2>3, <2>5, <2>6, <2>7, <2>8, <2>9, <2>10, <2>11
       DEF Next, RunStep, Call
<1> QED
  BY <1>1, <1>2, TypeCorrect, PTL DEF Spec
=============================================================================
