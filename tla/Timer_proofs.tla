----------------------------- MODULE Timer_proofs -----------------------------
(***************************************************************************)
(* The safety of bfc::timer and of the timeouts the reactors derive from   *)
(* it, for any number of threads and timers, any delays, and any values of *)
(* the millisecond, the longest wait and m_timeout_ms.                     *)
(***************************************************************************)
EXTENDS Timer, FiniteSetTheorems, TLAPS

-----------------------------------------------------------------------------
(* The inductive invariant. *)

\* Where a timer can be, besides cancelled and run.
Inside(x) == \E t \in All : call[t] # NoCall /\ call[t].cb = x
Waiting(x) == x \in Cbs(m_cb_map)
Extracted(x) == x \in Cbs(Taken)

\* A timer that was set is in one of five places, and one that was not is in none.
FateOf(x) ==
    /\ runs[x] \in {0, 1}
    /\ ~(Inside(x) /\ Waiting(x)) /\ ~(Inside(x) /\ Extracted(x))
    /\ ~(Waiting(x) /\ Extracted(x))
    /\ x \in cancelled => ~Inside(x) /\ ~Waiting(x) /\ ~Extracted(x) /\ runs[x] = 0
    /\ runs[x] = 1 => ~Inside(x) /\ ~Waiting(x) /\ ~Extracted(x)
    /\ setter[x] # NoCall <=> \/ Inside(x) \/ Waiting(x) \/ Extracted(x)
                              \/ x \in cancelled \/ runs[x] = 1

Fates == \A x \in Callbacks : FateOf(x)

\* A callback is given to one wait_us(), and is in the map or taken once.
SetOnce ==
    /\ \A t, u \in All :
          call[t] # NoCall /\ call[u] # NoCall /\ call[t].cb = call[u].cb => t = u
    /\ \A e, f \in m_cb_map : e.cb = f.cb => e = f
    /\ \A i, j \in DOMAIN extracted : extracted[i].cb = extracted[j].cb => i = j

\* A thread inside wait_us() is the one that set the timer, and has not called
\* wake_up() for it yet.
NotYetAnnounced ==
    /\ \A t \in All : call[t] # NoCall => /\ setter[call[t].cb] = t
                                          /\ call[t].cb \notin announced
    /\ \A x \in announced : setter[x] # NoCall

\* What the reactor thread's place says about the timers.
LoopInv ==
    /\ pc \notin {"run", "callback"} => extracted = <<>>
    /\ pc = "schedule" => now_us <= now
    /\ call[Reactor] # NoCall => pc \in UserCode
    /\ ctr_taken <= m_timer_ctr
    /\ IsFiniteSet(m_cb_map)

\* The deadline that run() has read is early enough for the timers it knows of.
DeadlineFits ==
    pc = "clock" /\ ~wake =>
        \A e \in m_cb_map :
            Known(e.cb) => next_deadline # Forever /\ next_deadline <= e.due

Inv ==
    /\ TypeOK
    /\ Fates /\ SetOnce
    /\ NotYetAnnounced /\ LoopInv
    /\ InOrder
    /\ DeadlineFits /\ WaitFits

-----------------------------------------------------------------------------
(* The steps of the reactor thread. *)

\* What no step of it changes; none is taken while user code on its thread is inside
\* wait_us().
Frame ==
    /\ call[Reactor] = NoCall
    /\ UNCHANGED <<backend, now, m_timer_ctr, call, cancelled, setter, announced>>

\* The steps that leave the timers alone.
Quiet ==
    UNCHANGED <<backend, now, m_timer_ctr, call, cancelled, setter, announced,
                m_cb_map, extracted, runs, ctr_taken>>

\* Only schedule() takes timers and runs them.
LEMMA NextCases ==
    ASSUME Inv, [Next]_vars
    PROVE  \/ Tick
           \/ \E t \in All, x \in Callbacks, d \in Delays : WaitUs(t, x, d)
           \/ \E t \in All : Emplace(t)
           \/ \E t \in All, x \in Callbacks : Cancel(t, x)
           \/ \E t \in All : WakeUp(t)
           \/ Quiet
           \/ Extract /\ Frame
           \/ RunNext /\ Frame
           \/ ScheduleDone /\ Frame
<1>1. CASE RunStep
  BY <1>1 DEF RunStep, Frame, Quiet, RunEnter, ReadDeadline, ComputeTimeout, Block,
     WaitEnds, Schedule, CallbackReturn
<1>2. CASE OtherEvent
  BY <1>2 DEF OtherEvent, Quiet, WaitOther, WaitInterrupted
<1>3. CASE UNCHANGED vars
  BY <1>3 DEF vars, timerVars, loopVars, historyVars, Quiet
<1> QED
  BY <1>1, <1>2, <1>3 DEF Next, Operation

\* wait_us() before the lock: the timer is set, and nowhere yet.
LEMMA WaitUsEffect ==
    ASSUME TypeOK, NEW t \in All, NEW x \in Callbacks, NEW d \in Delays, WaitUs(t, x, d)
    PROVE  /\ call[t] = NoCall /\ setter[x] = NoCall /\ t # NoCall
           /\ t = Reactor => pc \in UserCode
           /\ call' \in [All -> Calls \cup {NoCall}]
           /\ call'[t] # NoCall /\ call'[t].cb = x
           /\ \A u \in All \ {t} : call'[u] = call[u]
           /\ setter' \in [Callbacks -> All \cup {NoCall}]
           /\ setter'[x] = t
           /\ \A y \in Callbacks \ {x} : setter'[y] = setter[y]
           /\ UNCHANGED <<backend, now, m_cb_map, m_timer_ctr, pc, next_deadline, now_us,
                          timeout, until, wake, extracted, runs, cancelled, announced,
                          ctr_taken>>
<1> DEFINE r == [cb |-> x, now_us |-> now, for_us |-> d]
<1>1. r \in Calls /\ r # NoCall /\ r.cb = x
  BY TimerAssumption DEF TypeOK, Calls
<1>2. t # NoCall
  BY TimerAssumption DEF All
<1>3. call' = [call EXCEPT ![t] = r] /\ setter' = [setter EXCEPT ![x] = t]
  BY DEF WaitUs
<1> HIDE DEF r
<1> QED
  BY <1>1, <1>2, <1>3
     DEF TypeOK, WaitUs, MayCall, timerVars, loopVars, historyVars

\* wait_us() under the lock: the timer is in the map.
LEMMA EmplaceEffect ==
    ASSUME TypeOK, NEW t \in All, Emplace(t)
    PROVE  /\ call[t] \in Calls /\ call[t] # NoCall /\ call[t].cb \in Callbacks
           /\ call' = [call EXCEPT ![t] = NoCall]
           /\ \E e \in Entries : /\ e.cb = call[t].cb /\ e.ctr = m_timer_ctr
                                 /\ m_cb_map' = m_cb_map \cup {e}
           /\ m_timer_ctr' = m_timer_ctr + 1
           /\ UNCHANGED <<backend, now, pc, next_deadline, now_us, timeout, until, wake,
                          extracted, runs, cancelled, setter, announced, ctr_taken>>
<1>1. call[t] \in Calls /\ call[t] # NoCall
  BY DEF TypeOK, Emplace
<1> DEFINE e == [due |-> call[t].now_us + call[t].for_us, ctr |-> m_timer_ctr,
                 cb |-> call[t].cb]
<1>2. e \in Entries /\ e.cb = call[t].cb /\ e.ctr = m_timer_ctr /\ call[t].cb \in Callbacks
  BY <1>1 DEF Calls, Entries, TypeOK
<1>3. m_cb_map' = m_cb_map \cup {e}
  BY DEF Emplace
<1> HIDE DEF e
<1> QED
  BY <1>1, <1>2, <1>3 DEF Emplace, timerVars, loopVars, historyVars

\* schedule() takes exactly the timers that are due, each once, in key order.
LEMMA ExtractTakes ==
    ASSUME Inv, Extract
    PROVE  /\ extracted' \in Seq(Entries)
           /\ Taken' = {e \in m_cb_map : now_us >= e.due}
           /\ m_cb_map' = {e \in m_cb_map : ~(now_us >= e.due)}
           /\ \A i, j \in DOMAIN extracted' : i < j => Before(extracted'[i], extracted'[j])
           /\ \A i, j \in DOMAIN extracted' : extracted'[i].cb = extracted'[j].cb => i = j
           /\ extracted = <<>> /\ Taken = {}
<1> DEFINE D == {e \in m_cb_map : now_us >= e.due}
           n == Cardinality(D)
<1>1. D \subseteq m_cb_map /\ IsFiniteSet(m_cb_map) /\ m_cb_map \subseteq Entries
  BY DEF Inv, LoopInv, TypeOK
<1>2. n \in Nat
  <2> HIDE DEF D
  <2> QED
    BY <1>1, FS_Subset, FS_CardinalityType
<1>3. PICK s \in [1..n -> D] : InKeyOrder(s, D) /\ extracted' = s
  BY DEF Extract
<1>4. DOMAIN s = 1..n
  BY <1>3
<1>5. extracted' \in Seq(Entries)
  BY <1>1, <1>2, <1>3
<1>6. Taken' = D
  BY <1>3 DEF Taken, InKeyOrder
<1>7. \A i, j \in 1..n : i < j => Before(s[i], s[j])
  BY <1>3, <1>4 DEF InKeyOrder
<1>8. \A i, j \in 1..n : s[i].cb = s[j].cb => i = j
  <2> SUFFICES ASSUME NEW i \in 1..n, NEW j \in 1..n, s[i].cb = s[j].cb, i < j
               PROVE  FALSE
    BY <1>2
  <2>1. s[i] = s[j] /\ s[i] \in Entries
    BY <1>1, <1>3 DEF Inv, SetOnce
  <2>2. Before(s[i], s[j])
    BY <1>7
  <2> QED
    BY <2>1, <2>2 DEF Before, Entries
<1>9. extracted = <<>> /\ Taken = {}
  BY DEF Inv, LoopInv, Extract, Taken
<1>10. m_cb_map' = {e \in m_cb_map : ~(now_us >= e.due)}
  BY DEF Extract
<1> QED
  BY <1>3, <1>4, <1>5, <1>6, <1>7, <1>8, <1>9, <1>10

\* The loop of schedule() runs the first of the timers that are left.
LEMMA RunNextTakes ==
    ASSUME Inv, RunNext
    PROVE  /\ extracted' \in Seq(Entries)
           /\ Head(extracted) \in Taken /\ Head(extracted) \in Entries
           /\ DOMAIN extracted' = 1..(Len(extracted) - 1)
           /\ DOMAIN extracted = 1..Len(extracted) /\ Len(extracted) \in Nat \ {0}
           /\ \A i \in DOMAIN extracted' : extracted'[i] = extracted[i + 1]
           /\ Taken' \subseteq Taken
           /\ \A x : x \in Cbs(Taken)' <=> x \in Cbs(Taken) /\ x # Head(extracted).cb
<1>1. /\ extracted \in Seq(Entries) /\ extracted # <<>>
      /\ extracted' = Tail(extracted)
  BY DEF Inv, TypeOK, RunNext
<1>2. /\ DOMAIN extracted = 1..Len(extracted) /\ Len(extracted) \in Nat \ {0}
      /\ Head(extracted) = extracted[1]
      /\ extracted' \in Seq(Entries)
      /\ DOMAIN extracted' = 1..(Len(extracted) - 1)
      /\ \A i \in DOMAIN extracted' : extracted'[i] = extracted[i + 1]
  BY <1>1
<1>3. Head(extracted) \in Taken /\ Head(extracted) \in Entries
  BY <1>1, <1>2 DEF Taken
<1>4. Taken' \subseteq Taken
  BY <1>2 DEF Taken
<1>5. ASSUME NEW x \in Cbs(Taken)' PROVE x \in Cbs(Taken) /\ x # Head(extracted).cb
  <2>1. PICK i \in DOMAIN extracted' : x = extracted'[i].cb
    BY <1>5 DEF Cbs, Taken
  <2>2. i + 1 \in DOMAIN extracted /\ 1 \in DOMAIN extracted /\ i + 1 # 1
    BY <1>2
  <2>3. x = extracted[i + 1].cb
    BY <1>2, <2>1
  <2>4. x # extracted[1].cb
    BY <2>2, <2>3 DEF Inv, SetOnce
  <2> QED
    BY <1>2, <2>2, <2>3, <2>4 DEF Cbs, Taken
<1>6. ASSUME NEW x \in Cbs(Taken), x # Head(extracted).cb PROVE x \in Cbs(Taken)'
  <2>1. PICK i \in DOMAIN extracted : x = extracted[i].cb
    BY <1>6 DEF Cbs, Taken
  <2>2. i - 1 \in DOMAIN extracted' /\ (i - 1) + 1 = i
    BY <1>2, <1>6, <2>1
  <2>3. extracted'[i - 1] = extracted[i]
    BY <1>2, <2>2
  <2> QED
    BY <2>1, <2>2, <2>3 DEF Cbs, Taken
<1> QED
  BY <1>2, <1>3, <1>4, <1>5, <1>6

-----------------------------------------------------------------------------
(* Timeouts. *)

\* Division by the millisecond rounds down, and fewer milliseconds are less time.
LEMMA WholeMilliseconds ==
    ASSUME NEW g \in Nat \ {0}, NEW a \in Nat, NEW m \in Nat, NEW q, q = a \div g
    PROVE  /\ q \in Nat /\ g * q <= a
           /\ m < q => g * m <= g * q
           /\ g * m \in Nat
OBVIOUS

\* The timeout for a deadline is a number, and no longer than to the deadline,
\* rounded up to the backend's step.
LEMMA TimeoutFits ==
    ASSUME TypeOK, NEW d \in Nat, NEW t \in Nat
    PROVE  /\ Timeout(d, t) \in Nat
           /\ Timeout(d, t) < (IF d > t THEN d - t ELSE 0)
                                + (IF backend = "epoll" THEN Grain ELSE 1)
<1> USE TimerAssumption
<1> DEFINE diff == IF d > t THEN d - t ELSE 0
<1>1. diff \in Nat /\ d # Forever
  OBVIOUS
<1>2. Grain \in Nat \ {0} /\ MaxWait \in Nat /\ CvTimeout \in Nat
  OBVIOUS
<1> HIDE DEF diff
<1>3. CASE backend = "cv"
  <2>1. Timeout(d, t) = AtMost(diff, CvTimeout)
    BY <1>1, <1>3 DEF Timeout, diff
  <2> QED
    BY <1>1, <1>2, <1>3, <2>1 DEF AtMost, diff
<1>4. CASE backend = "poll"
  <2> DEFINE q == diff \div Grain
  <2>1. Timeout(d, t) = Grain * AtMost(q, MaxWait)
    BY <1>1, <1>4 DEF Timeout, diff
  <2>2. /\ q \in Nat /\ Grain * q <= diff /\ Grain * MaxWait \in Nat /\ Grain * q \in Nat
        /\ MaxWait < q => Grain * MaxWait <= Grain * q
    BY <1>1, <1>2, WholeMilliseconds
  <2> HIDE DEF q
  <2>3. Timeout(d, t) \in Nat /\ Timeout(d, t) <= diff
    <3>1. CASE q < MaxWait
      BY <1>1, <2>1, <2>2, <3>1 DEF AtMost
    <3>2. CASE ~(q < MaxWait)
      <4>1. Timeout(d, t) = Grain * MaxWait
        BY <2>1, <3>2 DEF AtMost
      <4>2. MaxWait = q \/ MaxWait < q
        BY <1>2, <2>2, <3>2
      <4> QED
        BY <1>1, <2>2, <4>1, <4>2
    <3> QED
      BY <3>1, <3>2
  <2> QED
    BY <1>1, <1>4, <2>3 DEF diff
<1>5. CASE backend = "epoll"
  <2> DEFINE a == diff + Grain - 1
             q == a \div Grain
  <2>1. Timeout(d, t) = Grain * AtMost(q, MaxWait)
    BY <1>1, <1>5 DEF Timeout, diff
  <2>2. a \in Nat /\ a < diff + Grain
    BY <1>1, <1>2
  <2> HIDE DEF a
  <2>3. /\ q \in Nat /\ Grain * q <= a /\ Grain * MaxWait \in Nat /\ Grain * q \in Nat
        /\ MaxWait < q => Grain * MaxWait <= Grain * q
    BY <1>2, <2>2, WholeMilliseconds
  <2> HIDE DEF q
  <2>4. Timeout(d, t) \in Nat /\ Timeout(d, t) <= a
    <3>1. CASE q < MaxWait
      BY <2>1, <2>3, <3>1 DEF AtMost
    <3>2. CASE ~(q < MaxWait)
      <4>1. Timeout(d, t) = Grain * MaxWait
        BY <2>1, <3>2 DEF AtMost
      <4>2. MaxWait = q \/ MaxWait < q
        BY <1>2, <2>3, <3>2
      <4> QED
        BY <2>2, <2>3, <4>1, <4>2
    <3> QED
      BY <3>1, <3>2
  <2>5. Timeout(d, t) < diff + Grain
    BY <1>1, <1>2, <2>2, <2>4
  <2> QED
    BY <1>5, <2>4, <2>5 DEF diff
<1>6. CASE backend = "pwait2"
  <2>1. Timeout(d, t) = diff
    BY <1>1, <1>6 DEF Timeout, diff
  <2> QED
    BY <1>1, <1>6, <2>1 DEF diff
<1> QED
  BY <1>3, <1>4, <1>5, <1>6 DEF TypeOK

\* Without a timer it is a time or Forever.
LEMMA TimeoutType ==
    ASSUME TypeOK, NEW d \in Times, NEW t \in Nat
    PROVE  Timeout(d, t) \in Times
<1>1. CASE d = Forever
  <2>1. Timeout(d, t) = Idle
    BY <1>1 DEF Timeout
  <2> QED
    BY <2>1, TimerAssumption DEF Idle, Times
<1>2. CASE d \in Nat
  BY <1>2, TimeoutFits DEF Times
<1> QED
  BY <1>1, <1>2 DEF Times

-----------------------------------------------------------------------------
(* Every step preserves each part. *)

\* Every variable keeps its type.
LEMMA NextType ==
    ASSUME Inv, [Next]_vars PROVE TypeOK'
<1> USE DEF Inv
<1>1. CASE Tick
  BY <1>1, TimerAssumption DEF TypeOK, Times, Tick, timerVars, loopVars, historyVars
<1>2. ASSUME NEW t \in All, NEW x \in Callbacks, NEW d \in Delays, WaitUs(t, x, d)
      PROVE TypeOK'
  BY <1>2, WaitUsEffect DEF TypeOK
<1>3. ASSUME NEW t \in All, Emplace(t) PROVE TypeOK'
  BY <1>3, EmplaceEffect DEF TypeOK
<1>4. ASSUME NEW t \in All, NEW x \in Callbacks, Cancel(t, x) PROVE TypeOK'
  BY <1>4, TimerAssumption DEF TypeOK, Times, Cancel, timerVars, loopVars, historyVars
<1>5. ASSUME NEW t \in All, WakeUp(t) PROVE TypeOK'
  BY <1>5, TimerAssumption DEF TypeOK, Times, WakeUp, timerVars, loopVars, historyVars
<1>6. CASE RunEnter /\ Frame
  BY <1>6, TimerAssumption DEF TypeOK, Times, RunEnter, Frame
<1>7. CASE ReadDeadline /\ Frame
  <2>1. next_deadline' \in Times
    BY <1>7 DEF ReadDeadline, TypeOK, Times, Entries
  <2> QED
    BY <1>7, <2>1 DEF ReadDeadline, Frame, TypeOK
<1>8. CASE ComputeTimeout /\ Frame
  BY <1>8, TimeoutType DEF ComputeTimeout, Frame, TypeOK
<1>9. CASE Block /\ Frame
  BY <1>9, TimerAssumption DEF TypeOK, Times, Block, Frame
<1>10. CASE WaitEnds /\ Frame
  <2>1. next_deadline' \in Times /\ timeout' \in Times /\ until' \in Times /\ now_us' \in Nat
    BY <1>10 DEF WaitEnds, WaitOver, Times
  <2> QED
    BY <1>10, <2>1 DEF WaitEnds, Frame, TypeOK, UserCode
<1>11. CASE WaitOther /\ Frame
  <2>1. next_deadline' \in Times /\ timeout' \in Times /\ until' \in Times /\ now_us' \in Nat
    BY <1>11 DEF WaitOther, WaitOver, Times
  <2> QED
    BY <1>11, <2>1 DEF WaitOther, Frame, TypeOK, UserCode
<1>12. CASE WaitInterrupted /\ Frame
  <2>1. next_deadline' \in Times /\ timeout' \in Times /\ until' \in Times /\ now_us' \in Nat
    BY <1>12 DEF WaitInterrupted, WaitOver, Times
  <2> QED
    BY <1>12, <2>1 DEF WaitInterrupted, Frame, TypeOK, UserCode
<1>13. CASE Schedule /\ Frame
  BY <1>13, TimerAssumption DEF TypeOK, Times, Schedule, Frame
<1>14. CASE Extract /\ Frame
  BY <1>14, ExtractTakes DEF Extract, Frame, TypeOK
<1>15. CASE RunNext /\ Frame
  <2>1. Head(extracted).cb \in Callbacks /\ extracted' \in Seq(Entries)
    BY <1>15, RunNextTakes DEF Entries
  <2>2. runs' \in [Callbacks -> Nat]
    BY <1>15, <2>1 DEF RunNext, TypeOK
  <2> QED
    BY <1>15, <2>1, <2>2 DEF RunNext, Frame, TypeOK, UserCode
<1>16. CASE CallbackReturn /\ Frame
  BY <1>16, TimerAssumption DEF TypeOK, Times, CallbackReturn, Frame
<1>17. CASE ScheduleDone /\ Frame
  BY <1>17, TimerAssumption DEF TypeOK, Times, ScheduleDone, Frame
<1>18. CASE UNCHANGED vars
  BY <1>18, TimerAssumption DEF TypeOK, Times, vars, timerVars, loopVars, historyVars
<1> QED
  BY <1>1, <1>2, <1>3, <1>4, <1>5, <1>6, <1>7, <1>8, <1>9, <1>10, <1>11, <1>12, <1>13,
     <1>14, <1>15, <1>16, <1>17, <1>18
  DEF Next, Operation, RunStep, OtherEvent, Frame, Inv, LoopInv, UserCode,
      WaitOther, WaitInterrupted

\* Timers go from wait_us() to the map and from there to one end.
LEMMA NextFates ==
    ASSUME Inv, [Next]_vars PROVE Fates'
<1> USE DEF Inv, TypeOK
<1>1. CASE Tick
  BY <1>1, TimerAssumption DEF Fates, FateOf, Inside, Waiting, Extracted, Cbs, Taken,
     Tick, timerVars, loopVars, historyVars
<1>2. ASSUME NEW t \in All, NEW x \in Callbacks, NEW d \in Delays, WaitUs(t, x, d)
      PROVE Fates'
  <2> SUFFICES ASSUME NEW y \in Callbacks PROVE FateOf(y)'
    BY DEF Fates
  <2>1. (Waiting(y)' <=> Waiting(y)) /\ (Extracted(y)' <=> Extracted(y))
    BY <1>2, WaitUsEffect DEF Waiting, Extracted, Cbs, Taken
  <2>2. Inside(y)' <=> Inside(y) \/ y = x
    <3>1. /\ call[t] = NoCall /\ call'[t] # NoCall /\ call'[t].cb = x
          /\ \A u \in All \ {t} : call'[u] = call[u]
      BY <1>2, WaitUsEffect
    <3>2. Inside(y) => Inside(y)'
      BY <3>1 DEF Inside
    <3>3. y = x => Inside(y)'
      BY <3>1 DEF Inside
    <3>4. Inside(y)' => Inside(y) \/ y = x
      BY <3>1 DEF Inside
    <3> QED
      BY <3>2, <3>3, <3>4
  <2>3. FateOf(y)
    BY DEF Fates
  <2> QED
    BY <1>2, <2>1, <2>2, <2>3, WaitUsEffect DEF FateOf
<1>3. ASSUME NEW t \in All, Emplace(t) PROVE Fates'
  <2> SUFFICES ASSUME NEW y \in Callbacks PROVE FateOf(y)'
    BY DEF Fates
  <2> PICK c : c = call[t].cb
    OBVIOUS
  <2>1. Extracted(y)' <=> Extracted(y)
    BY <1>3, EmplaceEffect DEF Extracted, Cbs, Taken
  <2>2. Waiting(y)' <=> Waiting(y) \/ y = c
    BY <1>3, EmplaceEffect DEF Waiting, Cbs
  <2>3. Inside(y)' <=> Inside(y) /\ y # c
    <3>1. \A u \in All : call'[u] = IF u = t THEN NoCall ELSE call[u]
      BY <1>3, EmplaceEffect
    <3>2. call[t] # NoCall
      BY <1>3, EmplaceEffect
    <3>3. \A u \in All : call[u] # NoCall /\ call[u].cb = c => u = t
      BY <3>2 DEF SetOnce
    <3> HIDE DEF Inv, TypeOK
    <3> QED
      BY <3>1, <3>2, <3>3 DEF Inside
  <2>4. Inside(c)
    BY <1>3, EmplaceEffect DEF Inside
  <2>5. FateOf(y)
    BY DEF Fates
  <2> QED
    BY <1>3, <2>1, <2>2, <2>3, <2>4, <2>5, EmplaceEffect DEF FateOf
<1>4. ASSUME NEW t \in All, NEW x \in Callbacks, Cancel(t, x) PROVE Fates'
  <2> SUFFICES ASSUME NEW y \in Callbacks PROVE FateOf(y)'
    BY DEF Fates
  <2>1. Extracted(y)' <=> Extracted(y)
    BY <1>4 DEF Cancel, Extracted, Cbs, Taken
  <2>2. Waiting(y)' <=> Waiting(y) /\ y # x
    BY <1>4 DEF Cancel, Waiting, Cbs
  <2>3. Inside(y)' <=> Inside(y)
    BY <1>4 DEF Cancel, Inside
  <2>4. Waiting(x)
    BY <1>4 DEF Cancel, Erased, Waiting, Cbs
  <2>5. FateOf(y)
    BY DEF Fates
  <2> QED
    BY <1>4, <2>1, <2>2, <2>3, <2>4, <2>5 DEF FateOf, Cancel
<1>5. ASSUME NEW t \in All, WakeUp(t) PROVE Fates'
  BY <1>5, TimerAssumption DEF Fates, FateOf, Inside, Waiting, Extracted, Cbs, Taken,
     WakeUp, timerVars, loopVars, historyVars
<1>6. CASE Quiet
  BY <1>6, TimerAssumption DEF Fates, FateOf, Inside, Waiting, Extracted, Cbs, Taken,
     Quiet
<1>7. CASE Extract /\ Frame
  <2> SUFFICES ASSUME NEW y \in Callbacks PROVE FateOf(y)'
    BY DEF Fates
  <2>1. /\ Taken' = {e \in m_cb_map : now_us >= e.due}
        /\ m_cb_map' = {e \in m_cb_map : ~(now_us >= e.due)}
        /\ Taken = {}
    BY <1>7, ExtractTakes
  <2>2. ~Extracted(y)
    BY <2>1 DEF Extracted, Cbs
  <2>3. Waiting(y) <=> Waiting(y)' \/ Extracted(y)'
    BY <2>1 DEF Waiting, Extracted, Cbs
  <2>4. ~(Waiting(y)' /\ Extracted(y)')
    BY <2>1 DEF Waiting, Extracted, Cbs, SetOnce
  <2>5. Inside(y)' <=> Inside(y)
    BY <1>7 DEF Frame, Inside
  <2>6. FateOf(y)
    BY DEF Fates
  <2> QED
    BY <1>7, <2>2, <2>3, <2>4, <2>5, <2>6 DEF FateOf, Extract, Frame
<1>8. CASE RunNext /\ Frame
  <2> SUFFICES ASSUME NEW y \in Callbacks PROVE FateOf(y)'
    BY DEF Fates
  <2> PICK c : c = Head(extracted).cb
    OBVIOUS
  <2>1. /\ Head(extracted) \in Taken /\ c \in Callbacks
        /\ Extracted(y)' <=> Extracted(y) /\ y # c
    BY <1>8, RunNextTakes DEF Extracted, Entries
  <2>2. Extracted(c)
    BY <2>1 DEF Extracted, Cbs
  <2>3. (Waiting(y)' <=> Waiting(y)) /\ (Inside(y)' <=> Inside(y))
    BY <1>8 DEF RunNext, Frame, Waiting, Cbs, Inside
  <2>4. runs'[y] = IF y = c THEN runs[y] + 1 ELSE runs[y]
    BY <1>8, <2>1 DEF RunNext
  <2>5. FateOf(y) /\ FateOf(c)
    BY <2>1 DEF Fates
  <2> QED
    BY <1>8, <2>1, <2>2, <2>3, <2>4, <2>5 DEF FateOf, Frame
<1>9. CASE ScheduleDone /\ Frame
  BY <1>9, TimerAssumption DEF Fates, FateOf, Inside, Waiting, Extracted, Cbs, Taken,
     ScheduleDone, Frame
<1> QED
  BY <1>1, <1>2, <1>3, <1>4, <1>5, <1>6, <1>7, <1>8, <1>9, NextCases

\* No timer is in a place twice.
LEMMA NextSetOnce ==
    ASSUME Inv, [Next]_vars PROVE SetOnce'
<1> USE DEF Inv, TypeOK
<1>1. CASE Tick
  BY <1>1, TimerAssumption DEF SetOnce, Tick, timerVars, loopVars, historyVars
<1>2. ASSUME NEW t \in All, NEW x \in Callbacks, NEW d \in Delays, WaitUs(t, x, d)
      PROVE SetOnce'
  <2>1. ~Inside(x)
    BY <1>2, WaitUsEffect DEF Fates, FateOf
  <2>2. \A u \in All : call[u] # NoCall => call[u].cb # x
    BY <2>1 DEF Inside
  <2>3. /\ \A u \in All \ {t} : call'[u] = call[u]
        /\ call'[t].cb = x
        /\ UNCHANGED <<m_cb_map, extracted>>
    BY <1>2, WaitUsEffect
  <2>4. SetOnce
    OBVIOUS
  <2> HIDE DEF Inv, TypeOK
  <2> QED
    BY <2>2, <2>3, <2>4 DEF SetOnce
<1>3. ASSUME NEW t \in All, Emplace(t) PROVE SetOnce'
  <2> PICK e \in Entries : /\ e.cb = call[t].cb
                              /\ m_cb_map' = m_cb_map \cup {e}
    BY <1>3, EmplaceEffect
  <2>1. Inside(e.cb) /\ e.cb \in Callbacks
    BY <1>3, EmplaceEffect DEF Inside
  <2>2. ~Waiting(e.cb)
    BY <2>1 DEF Fates, FateOf
  <2>3. \A f \in m_cb_map : f.cb # e.cb
    BY <2>2 DEF Waiting, Cbs
  <2> QED
    BY <1>3, <2>3, EmplaceEffect DEF SetOnce
<1>4. ASSUME NEW t \in All, NEW x \in Callbacks, Cancel(t, x) PROVE SetOnce'
  BY <1>4, TimerAssumption DEF SetOnce, Cancel, timerVars, loopVars, historyVars
<1>5. ASSUME NEW t \in All, WakeUp(t) PROVE SetOnce'
  BY <1>5, TimerAssumption DEF SetOnce, WakeUp, timerVars, loopVars, historyVars
<1>6. CASE Quiet
  BY <1>6, TimerAssumption DEF SetOnce, Quiet
<1>7. CASE Extract /\ Frame
  BY <1>7, ExtractTakes DEF Extract, Frame, SetOnce
<1>8. CASE RunNext /\ Frame
  BY <1>8, RunNextTakes DEF RunNext, Frame, SetOnce
<1>9. CASE ScheduleDone /\ Frame
  BY <1>9, TimerAssumption DEF SetOnce, ScheduleDone, Frame
<1> QED
  BY <1>1, <1>2, <1>3, <1>4, <1>5, <1>6, <1>7, <1>8, <1>9, NextCases

\* wake_up() announces only timers that are in the map by then.
LEMMA NextAnnounced ==
    ASSUME Inv, [Next]_vars PROVE NotYetAnnounced'
<1> USE DEF Inv, TypeOK
<1>1. CASE Tick
  BY <1>1, TimerAssumption DEF NotYetAnnounced, Tick, timerVars, loopVars, historyVars
<1>2. ASSUME NEW t \in All, NEW x \in Callbacks, NEW d \in Delays, WaitUs(t, x, d)
      PROVE NotYetAnnounced'
  <2>1. x \notin announced
    BY <1>2, WaitUsEffect DEF NotYetAnnounced
  <2>2. ~Inside(x)
    BY <1>2, WaitUsEffect DEF Fates, FateOf
  <2>3. \A u \in All : call[u] # NoCall => call[u].cb \in Callbacks \ {x}
    BY <2>2 DEF Calls, Inside
  <2>4. /\ \A u \in All \ {t} : call'[u] = call[u]
        /\ call'[t].cb = x /\ setter'[x] = t /\ t # NoCall
        /\ \A y \in Callbacks \ {x} : setter'[y] = setter[y]
        /\ announced' = announced
    BY <1>2, WaitUsEffect
  <2>5. announced \subseteq Callbacks /\ NotYetAnnounced
    OBVIOUS
  <2> HIDE DEF Inv, TypeOK
  <2> QED
    BY <2>1, <2>3, <2>4, <2>5 DEF NotYetAnnounced
<1>3. ASSUME NEW t \in All, Emplace(t) PROVE NotYetAnnounced'
  BY <1>3, TimerAssumption DEF NotYetAnnounced, Emplace, timerVars, loopVars, historyVars
<1>4. ASSUME NEW t \in All, NEW x \in Callbacks, Cancel(t, x) PROVE NotYetAnnounced'
  BY <1>4, TimerAssumption DEF NotYetAnnounced, Cancel, timerVars, loopVars, historyVars
<1>5. ASSUME NEW t \in All, WakeUp(t) PROVE NotYetAnnounced'
  <2>1. /\ call[t] = NoCall /\ call' = call /\ setter' = setter
        /\ announced' = announced \cup {x \in Callbacks : setter[x] = t}
    BY <1>5 DEF WakeUp, MayCall
  <2>2. t # NoCall
    BY TimerAssumption DEF All
  <2> QED
    BY <2>1, <2>2 DEF NotYetAnnounced
<1>6. CASE Quiet
  BY <1>6, TimerAssumption DEF NotYetAnnounced, Quiet
<1>7. CASE Extract /\ Frame
  BY <1>7, TimerAssumption DEF NotYetAnnounced, Extract, Frame
<1>8. CASE RunNext /\ Frame
  BY <1>8, TimerAssumption DEF NotYetAnnounced, RunNext, Frame
<1>9. CASE ScheduleDone /\ Frame
  BY <1>9, TimerAssumption DEF NotYetAnnounced, ScheduleDone, Frame
<1> QED
  BY <1>1, <1>2, <1>3, <1>4, <1>5, <1>6, <1>7, <1>8, <1>9, NextCases

\* The reactor's place.
LEMMA NextLoop ==
    ASSUME Inv, [Next]_vars PROVE LoopInv'
<1> USE TimerAssumption DEF Inv, TypeOK, All, UserCode
<1>1. CASE Tick
  BY <1>1 DEF LoopInv, Tick, timerVars, loopVars, historyVars
<1>2. ASSUME NEW t \in All, NEW x \in Callbacks, NEW d \in Delays, WaitUs(t, x, d)
      PROVE LoopInv'
  BY <1>2, WaitUsEffect DEF LoopInv
<1>3. ASSUME NEW t \in All, Emplace(t) PROVE LoopInv'
  <2>1. IsFiniteSet(m_cb_map')
    <3>1. PICK e \in Entries : m_cb_map' = m_cb_map \cup {e}
      BY <1>3, EmplaceEffect
    <3>2. IsFiniteSet(m_cb_map)
      BY DEF LoopInv
    <3> QED
      BY <3>1, <3>2, FS_AddElement
  <2>2. call'[Reactor] # NoCall => call[Reactor] # NoCall
    BY <1>3, EmplaceEffect
  <2> QED
    BY <1>3, <2>1, <2>2, EmplaceEffect DEF LoopInv
<1>4. ASSUME NEW t \in All, NEW x \in Callbacks, Cancel(t, x) PROVE LoopInv'
  <2>1. m_cb_map' \subseteq m_cb_map
    BY <1>4 DEF Cancel
  <2>2. IsFiniteSet(m_cb_map')
    BY <2>1, FS_Subset DEF LoopInv
  <2> QED
    BY <1>4, <2>2 DEF LoopInv, Cancel, loopVars
<1>5. ASSUME NEW t \in All, WakeUp(t) PROVE LoopInv'
  BY <1>5 DEF LoopInv, WakeUp, timerVars, loopVars, historyVars
<1>6. CASE RunEnter /\ Frame
  BY <1>6 DEF LoopInv, RunEnter, Frame
<1>7. CASE ReadDeadline /\ Frame
  BY <1>7 DEF LoopInv, ReadDeadline, Frame
<1>8. CASE ComputeTimeout /\ Frame
  BY <1>8 DEF LoopInv, ComputeTimeout, Frame
<1>9. CASE Block /\ Frame
  BY <1>9 DEF LoopInv, Block, Frame
<1>10. CASE WaitEnds /\ Frame
  BY <1>10 DEF LoopInv, WaitEnds, Frame, WaitOver
<1>11. CASE WaitOther /\ Frame
  BY <1>11 DEF LoopInv, WaitOther, Frame, WaitOver
<1>12. CASE WaitInterrupted /\ Frame
  BY <1>12 DEF LoopInv, WaitInterrupted, Frame, WaitOver
<1>13. CASE Schedule /\ Frame
  BY <1>13 DEF LoopInv, Schedule, Frame
<1>14. CASE Extract /\ Frame
  <2>1. m_cb_map' \subseteq m_cb_map
    BY <1>14 DEF Extract
  <2>2. IsFiniteSet(m_cb_map')
    BY <2>1, FS_Subset DEF LoopInv
  <2> QED
    BY <1>14, <2>2 DEF LoopInv, Extract, Frame
<1>15. CASE RunNext /\ Frame
  BY <1>15 DEF LoopInv, RunNext, Frame
<1>16. CASE CallbackReturn /\ Frame
  BY <1>16 DEF LoopInv, CallbackReturn, Frame
<1>17. CASE ScheduleDone /\ Frame
  BY <1>17 DEF LoopInv, ScheduleDone, Frame
<1>18. CASE UNCHANGED vars
  BY <1>18 DEF LoopInv, vars, timerVars, loopVars, historyVars
<1> QED
  BY <1>1, <1>2, <1>3, <1>4, <1>5, <1>6, <1>7, <1>8, <1>9, <1>10, <1>11, <1>12, <1>13,
     <1>14, <1>15, <1>16, <1>17, <1>18
  DEF Next, Operation, RunStep, OtherEvent, Frame, Inv, LoopInv, UserCode,
      WaitOther, WaitInterrupted

\* schedule() keeps what it took in order.
LEMMA NextInOrder ==
    ASSUME Inv, [Next]_vars PROVE InOrder'
<1> USE DEF Inv, TypeOK
<1>1. CASE Tick
  <2>1. \A e \in Taken : e.due \in Nat
    <3>1. \A i \in DOMAIN extracted : extracted[i] \in Entries
      OBVIOUS
    <3> QED
      BY <3>1 DEF Taken, Entries
  <2>2. now' = now + 1 /\ UNCHANGED <<extracted, m_cb_map, ctr_taken>>
    BY <1>1 DEF Tick, timerVars, historyVars
  <2>3. Taken' = Taken
    BY <2>2 DEF Taken
  <2> QED
    BY <2>1, <2>2, <2>3 DEF InOrder
<1>2. ASSUME NEW t \in All, NEW x \in Callbacks, NEW d \in Delays, WaitUs(t, x, d)
      PROVE InOrder'
  BY <1>2, TimerAssumption DEF InOrder, Taken, LoopInv, Entries, WaitUs, timerVars,
     loopVars, historyVars
<1>3. ASSUME NEW t \in All, Emplace(t) PROVE InOrder'
  <2>1. Taken' = Taken
    BY <1>3, EmplaceEffect DEF Taken
  <2> QED
    <3> PICK e \in Entries : /\ e.ctr = m_timer_ctr
                                /\ m_cb_map' = m_cb_map \cup {e}
      BY <1>3, EmplaceEffect
    <3>1. UNCHANGED <<now, extracted, ctr_taken>>
      BY <1>3, EmplaceEffect
    <3>2. ctr_taken <= m_timer_ctr /\ InOrder
      BY DEF LoopInv
    <3>3. e.ctr >= ctr_taken
      BY <3>2
    <3> HIDE DEF Inv, TypeOK
    <3> QED
      BY <2>1, <3>1, <3>2, <3>3 DEF InOrder
<1>4. ASSUME NEW t \in All, NEW x \in Callbacks, Cancel(t, x) PROVE InOrder'
  <2>1. Taken' = Taken /\ m_cb_map' \subseteq m_cb_map
    BY <1>4 DEF Taken, Cancel
  <2> QED
    BY <1>4, <2>1 DEF InOrder, Cancel
<1>5. ASSUME NEW t \in All, WakeUp(t) PROVE InOrder'
  BY <1>5, TimerAssumption DEF InOrder, Taken, LoopInv, Entries, WakeUp, timerVars,
     loopVars, historyVars
<1>6. CASE Quiet
  BY <1>6, TimerAssumption DEF InOrder, Taken, LoopInv, Entries, Quiet
<1>7. CASE Extract /\ Frame
  <2>1. /\ Taken' = {e \in m_cb_map : now_us >= e.due}
        /\ m_cb_map' = {e \in m_cb_map : ~(now_us >= e.due)}
        /\ \A i, j \in DOMAIN extracted' : i < j => Before(extracted'[i], extracted'[j])
    BY <1>7, ExtractTakes
  <2>2. now_us <= now /\ now' = now
    BY <1>7 DEF LoopInv, Extract, Frame
  <2>3. \A e \in m_cb_map : e.due \in Nat
    BY DEF Entries
  <2>4. \A e \in Taken' : e.due <= now'
    BY <2>1, <2>2, <2>3
  <2>5. \A e \in Taken', w \in m_cb_map' : w.due > e.due
    BY <2>1, <2>3
  <2> QED
    BY <2>1, <2>4, <2>5 DEF InOrder, Before
<1>8. CASE RunNext /\ Frame
  <2>1. /\ Taken' \subseteq Taken
        /\ DOMAIN extracted = 1..Len(extracted) /\ Len(extracted) \in Nat \ {0}
        /\ DOMAIN extracted' = 1..(Len(extracted) - 1)
        /\ \A i \in DOMAIN extracted' : extracted'[i] = extracted[i + 1]
    BY <1>8, RunNextTakes
  <2>2. \A i, j \in DOMAIN extracted' : i < j =>
           \/ extracted'[i].due < extracted'[j].due
           \/ extracted'[i].due = extracted'[j].due /\ extracted'[i].ctr < extracted'[j].ctr
    <3> SUFFICES ASSUME NEW i \in DOMAIN extracted', NEW j \in DOMAIN extracted', i < j
                 PROVE  \/ extracted[i + 1].due < extracted[j + 1].due
                        \/ /\ extracted[i + 1].due = extracted[j + 1].due
                           /\ extracted[i + 1].ctr < extracted[j + 1].ctr
      <4> HIDE DEF Inv, TypeOK
      <4> QED
        BY <2>1
    <3>1. i + 1 \in DOMAIN extracted /\ j + 1 \in DOMAIN extracted /\ i + 1 < j + 1
      BY <2>1
    <3> QED
      BY <3>1 DEF InOrder
  <2> QED
    BY <1>8, <2>1, <2>2 DEF InOrder, RunNext, Frame
<1>9. CASE ScheduleDone /\ Frame
  BY <1>9, TimerAssumption DEF InOrder, Taken, LoopInv, Entries, ScheduleDone, Frame
<1> QED
  BY <1>1, <1>2, <1>3, <1>4, <1>5, <1>6, <1>7, <1>8, <1>9, NextCases

\* The deadline stays early enough until the timeout is computed.
LEMMA NextDeadline ==
    ASSUME Inv, [Next]_vars PROVE DeadlineFits'
<1> USE TimerAssumption DEF Inv, TypeOK
<1>1. CASE Tick
  BY <1>1 DEF DeadlineFits, Known, Tick, timerVars, loopVars, historyVars
<1>2. ASSUME NEW t \in All, NEW x \in Callbacks, NEW d \in Delays, WaitUs(t, x, d)
      PROVE DeadlineFits'
  <2>1. \A e \in m_cb_map : e.cb # x /\ e.cb \in Callbacks
    BY <1>2, WaitUsEffect, SMTT(30) DEF Fates, FateOf, Waiting, Cbs, Entries
  <2>2. \A e \in m_cb_map : Known(e.cb)' <=> Known(e.cb)
    BY <1>2, <2>1, WaitUsEffect DEF Known
  <2> QED
    BY <1>2, <2>2, WaitUsEffect DEF DeadlineFits
<1>3. ASSUME NEW t \in All, Emplace(t) PROVE DeadlineFits'
  <2> PICK e \in Entries : /\ e.cb = call[t].cb
                              /\ m_cb_map' = m_cb_map \cup {e}
    BY <1>3, EmplaceEffect
  <2>1. \A x : Known(x)' <=> Known(x)
    BY <1>3, EmplaceEffect DEF Known
  <2>2. pc \notin UserCode => ~Known(e.cb)
    BY <1>3, EmplaceEffect DEF Known, NotYetAnnounced, LoopInv
  <2>3. UNCHANGED <<backend, pc, wake, next_deadline, timeout, now_us>>
    BY <1>3, EmplaceEffect
  <2> QED
    BY <2>1, <2>2, <2>3 DEF DeadlineFits, UserCode
<1>4. ASSUME NEW t \in All, NEW x \in Callbacks, Cancel(t, x) PROVE DeadlineFits'
  BY <1>4 DEF DeadlineFits, Known, Cancel, timerVars, loopVars, historyVars
<1>5. ASSUME NEW t \in All, WakeUp(t) PROVE DeadlineFits'
  BY <1>5 DEF DeadlineFits, Known, WakeUp, timerVars, loopVars, historyVars
<1>6. CASE RunEnter /\ Frame
  BY <1>6 DEF DeadlineFits, Known, RunEnter, Frame
<1>7. CASE ReadDeadline /\ Frame
  <2>1. m_cb_map' = m_cb_map
    BY <1>7 DEF ReadDeadline
  <2>2. \A e \in m_cb_map : /\ next_deadline' \in Nat
                             /\ next_deadline' <= e.due
    BY <1>7 DEF ReadDeadline, Entries
  <2> QED
    BY <2>1, <2>2 DEF DeadlineFits
<1>8. CASE ComputeTimeout /\ Frame
  BY <1>8 DEF DeadlineFits, Known, ComputeTimeout, Frame
<1>9. CASE Block /\ Frame
  BY <1>9 DEF DeadlineFits, Known, Block, Frame
<1>10. CASE WaitEnds /\ Frame
  BY <1>10 DEF DeadlineFits, Known, WaitEnds, Frame, WaitOver
<1>11. CASE WaitOther /\ Frame
  BY <1>11 DEF DeadlineFits, Known, WaitOther, Frame, WaitOver
<1>12. CASE WaitInterrupted /\ Frame
  BY <1>12 DEF DeadlineFits, Known, WaitInterrupted, Frame, WaitOver
<1>13. CASE Schedule /\ Frame
  BY <1>13 DEF DeadlineFits, Known, Schedule, Frame
<1>14. CASE Extract /\ Frame
  BY <1>14 DEF DeadlineFits, Known, Extract, Frame
<1>15. CASE RunNext /\ Frame
  BY <1>15 DEF DeadlineFits, Known, RunNext, Frame
<1>16. CASE CallbackReturn /\ Frame
  BY <1>16 DEF DeadlineFits, Known, CallbackReturn, Frame
<1>17. CASE ScheduleDone /\ Frame
  BY <1>17 DEF DeadlineFits, Known, ScheduleDone, Frame
<1>18. CASE UNCHANGED vars
  BY <1>18 DEF DeadlineFits, Known, vars, timerVars, loopVars, historyVars
<1> QED
  BY <1>1, <1>2, <1>3, <1>4, <1>5, <1>6, <1>7, <1>8, <1>9, <1>10, <1>11, <1>12, <1>13,
     <1>14, <1>15, <1>16, <1>17, <1>18
  DEF Next, Operation, RunStep, OtherEvent, Frame, Inv, LoopInv, UserCode,
      WaitOther, WaitInterrupted

\* The timeout stays short enough until the wait is over.
LEMMA NextWaitFits ==
    ASSUME Inv, [Next]_vars PROVE WaitFits'
<1> USE TimerAssumption DEF Inv, TypeOK
<1>1. CASE Tick
  BY <1>1 DEF WaitFits, Known, Tick, timerVars, loopVars, historyVars
<1>2. ASSUME NEW t \in All, NEW x \in Callbacks, NEW d \in Delays, WaitUs(t, x, d)
      PROVE WaitFits'
  <2>1. \A e \in m_cb_map : e.cb # x /\ e.cb \in Callbacks
    BY <1>2, WaitUsEffect, SMTT(30) DEF Fates, FateOf, Waiting, Cbs, Entries
  <2>2. \A e \in m_cb_map : Known(e.cb)' <=> Known(e.cb)
    BY <1>2, <2>1, WaitUsEffect DEF Known
  <2> QED
    BY <1>2, <2>2, WaitUsEffect DEF WaitFits
<1>3. ASSUME NEW t \in All, Emplace(t) PROVE WaitFits'
  <2> PICK e \in Entries : /\ e.cb = call[t].cb
                              /\ m_cb_map' = m_cb_map \cup {e}
    BY <1>3, EmplaceEffect
  <2>1. \A x : Known(x)' <=> Known(x)
    BY <1>3, EmplaceEffect DEF Known
  <2>2. pc \notin UserCode => ~Known(e.cb)
    BY <1>3, EmplaceEffect DEF Known, NotYetAnnounced, LoopInv
  <2>3. UNCHANGED <<backend, pc, wake, next_deadline, timeout, now_us>>
    BY <1>3, EmplaceEffect
  <2> QED
    BY <2>1, <2>2, <2>3 DEF WaitFits, UserCode
<1>4. ASSUME NEW t \in All, NEW x \in Callbacks, Cancel(t, x) PROVE WaitFits'
  BY <1>4 DEF WaitFits, Known, Cancel, timerVars, loopVars, historyVars
<1>5. ASSUME NEW t \in All, WakeUp(t) PROVE WaitFits'
  BY <1>5 DEF WaitFits, Known, WakeUp, timerVars, loopVars, historyVars
<1>6. CASE RunEnter /\ Frame
  BY <1>6 DEF WaitFits, Known, RunEnter, Frame
<1>7. CASE ReadDeadline /\ Frame
  BY <1>7 DEF WaitFits, Known, ReadDeadline, Frame
<1>8. CASE ComputeTimeout /\ Frame
  <2> SUFFICES ASSUME ~wake, NEW e \in m_cb_map, Known(e.cb)
               PROVE  /\ timeout' # Forever
                      /\ timeout' < (IF e.due > now THEN e.due - now ELSE 0)
                                       + IF backend = "epoll" THEN Grain ELSE 1
    BY <1>8 DEF WaitFits, ComputeTimeout, Frame, Known
  <2>1. next_deadline \in Nat /\ next_deadline <= e.due /\ e.due \in Nat /\ now \in Nat
    BY <1>8 DEF DeadlineFits, ComputeTimeout, Times, Entries
  <2>2. /\ timeout' \in Nat
        /\ timeout' < (IF next_deadline > now THEN next_deadline - now ELSE 0)
                         + (IF backend = "epoll" THEN Grain ELSE 1)
    BY <1>8, <2>1, TimeoutFits DEF ComputeTimeout
  <2>3. (IF next_deadline > now THEN next_deadline - now ELSE 0)
          <= (IF e.due > now THEN e.due - now ELSE 0)
    BY <2>1
  <2> QED
    BY <2>1, <2>2, <2>3, SMTT(30)
<1>9. CASE Block /\ Frame
  BY <1>9 DEF WaitFits, Known, Block, Frame
<1>10. CASE WaitEnds /\ Frame
  BY <1>10 DEF WaitFits, Known, WaitEnds, Frame, WaitOver
<1>11. CASE WaitOther /\ Frame
  BY <1>11 DEF WaitFits, Known, WaitOther, Frame, WaitOver
<1>12. CASE WaitInterrupted /\ Frame
  BY <1>12 DEF WaitFits, Known, WaitInterrupted, Frame, WaitOver
<1>13. CASE Schedule /\ Frame
  BY <1>13 DEF WaitFits, Known, Schedule, Frame
<1>14. CASE Extract /\ Frame
  BY <1>14 DEF WaitFits, Known, Extract, Frame
<1>15. CASE RunNext /\ Frame
  BY <1>15 DEF WaitFits, Known, RunNext, Frame
<1>16. CASE CallbackReturn /\ Frame
  BY <1>16 DEF WaitFits, Known, CallbackReturn, Frame
<1>17. CASE ScheduleDone /\ Frame
  BY <1>17 DEF WaitFits, Known, ScheduleDone, Frame
<1>18. CASE UNCHANGED vars
  BY <1>18 DEF WaitFits, Known, vars, timerVars, loopVars, historyVars
<1> QED
  BY <1>1, <1>2, <1>3, <1>4, <1>5, <1>6, <1>7, <1>8, <1>9, <1>10, <1>11, <1>12, <1>13,
     <1>14, <1>15, <1>16, <1>17, <1>18
  DEF Next, Operation, RunStep, OtherEvent, Frame, Inv, LoopInv, UserCode,
      WaitOther, WaitInterrupted

-----------------------------------------------------------------------------
(* The theorems. *)

\* At first no timer is set and run() has not been called.
LEMMA InitInv == Init => Inv
<1> SUFFICES ASSUME Init PROVE Inv
  OBVIOUS
<1> USE TimerAssumption
<1>1. TypeOK
  <2>1. extracted \in Seq(Entries)
    BY DEF Init
  <2>2. call \in [All -> Calls \cup {NoCall}] /\ now \in 0..MaxTime
    BY DEF Init
  <2>3. next_deadline \in Times /\ timeout \in Times /\ until \in Times
    BY DEF Init, Times
  <2> QED
    BY <2>1, <2>2, <2>3 DEF Init, TypeOK, UserCode
<1>2. Taken = {} /\ m_cb_map = {} /\ extracted = <<>>
  BY DEF Init, Taken
<1>3. Fates
  BY <1>2 DEF Init, Fates, FateOf, Inside, Waiting, Extracted, Cbs
<1>4. SetOnce /\ NotYetAnnounced
  BY <1>2 DEF Init, SetOnce, NotYetAnnounced
<1>5. LoopInv
  BY <1>2, FS_EmptySet DEF Init, LoopInv, UserCode, All
<1>6. InOrder
  BY <1>2 DEF InOrder
<1>7. DeadlineFits /\ WaitFits
  BY DEF Init, DeadlineFits, WaitFits
<1> QED
  BY <1>1, <1>3, <1>4, <1>5, <1>6, <1>7 DEF Inv

\* Every reachable state satisfies the inductive invariant.
LEMMA InvHolds == Spec => []Inv
<1>1. Inv /\ [Next]_vars => Inv'
  BY NextType, NextFates, NextSetOnce, NextAnnounced, NextLoop, NextInOrder,
     NextDeadline, NextWaitFits DEF Inv
<1> QED
  BY <1>1, InitInv, PTL DEF Spec

\* Of five things at most one of which is so, one is so or none.
LEMMA OneOfFive ==
    ASSUME NEW a \in BOOLEAN, NEW b \in BOOLEAN, NEW c \in BOOLEAN, NEW d \in BOOLEAN,
           NEW e \in BOOLEAN,
           ~(a /\ b), ~(a /\ c), ~(a /\ d), ~(a /\ e), ~(b /\ c), ~(b /\ d), ~(b /\ e),
           ~(c /\ d), ~(c /\ e), ~(d /\ e)
    PROVE  Cardinality({i \in 1..5 : <<a, b, c, d, e>>[i]})
             = IF a \/ b \/ c \/ d \/ e THEN 1 ELSE 0
<1> DEFINE F == {i \in 1..5 : <<a, b, c, d, e>>[i]}
<1>1. /\ 1 \in F <=> a
      /\ 2 \in F <=> b
      /\ 3 \in F <=> c
      /\ 4 \in F <=> d
      /\ 5 \in F <=> e
  OBVIOUS
<1>2. F \subseteq {1, 2, 3, 4, 5}
  OBVIOUS
<1> HIDE DEF F
<1>3. F = {} \/ \E i : F = {i}
  <2>1. CASE a
    <3>1. F = {1}
      BY <1>1, <1>2, <2>1
    <3> QED
      BY <3>1
  <2>2. CASE b
    <3>1. F = {2}
      BY <1>1, <1>2, <2>2
    <3> QED
      BY <3>1
  <2>3. CASE c
    <3>1. F = {3}
      BY <1>1, <1>2, <2>3
    <3> QED
      BY <3>1
  <2>4. CASE d
    <3>1. F = {4}
      BY <1>1, <1>2, <2>4
    <3> QED
      BY <3>1
  <2>5. CASE e
    <3>1. F = {5}
      BY <1>1, <1>2, <2>5
    <3> QED
      BY <3>1
  <2> QED
    BY <1>1, <1>2, <2>1, <2>2, <2>3, <2>4, <2>5
<1>4. F = {} <=> ~(a \/ b \/ c \/ d \/ e)
  BY <1>1, <1>2
<1> QED
  BY <1>3, <1>4, FS_EmptySet, FS_Singleton DEF F

\* Every timer that was set is inside wait_us(), in the map, taken by schedule(),
\* cancelled or run once, and only one of these, whatever the threads do.
THEOREM TimerFate == Spec => []OneFate
<1>1. Inv => OneFate
  <2> SUFFICES ASSUME Inv, NEW x \in Callbacks
               PROVE  LET inside == \E t \in All : call[t] # NoCall /\ call[t].cb = x
                          fates == <<inside, x \in Cbs(m_cb_map), x \in Cbs(Taken),
                                     x \in cancelled, runs[x] = 1>>
                      IN  /\ runs[x] <= 1
                          /\ Cardinality({i \in 1..5 : fates[i]})
                               = IF setter[x] = NoCall THEN 0 ELSE 1
    BY DEF OneFate, Inv
  <2>1. FateOf(x)
    BY DEF Inv, Fates
  <2>2. runs[x] <= 1
    BY <2>1 DEF FateOf
  <2> DEFINE a == Inside(x)
             b == Waiting(x)
             c == Extracted(x)
             d == x \in cancelled
             e == runs[x] = 1
  <2>3. /\ a \in BOOLEAN /\ b \in BOOLEAN /\ c \in BOOLEAN /\ d \in BOOLEAN
        /\ e \in BOOLEAN
    BY DEF Inside, Waiting, Extracted
  <2>4. /\ ~(a /\ b) /\ ~(a /\ c) /\ ~(a /\ d) /\ ~(a /\ e) /\ ~(b /\ c) /\ ~(b /\ d)
        /\ ~(b /\ e) /\ ~(c /\ d) /\ ~(c /\ e) /\ ~(d /\ e)
        /\ setter[x] # NoCall <=> a \/ b \/ c \/ d \/ e
    BY <2>1 DEF FateOf
  <2> HIDE DEF a, b, c, d, e
  <2>5. Cardinality({i \in 1..5 : <<a, b, c, d, e>>[i]})
          = IF a \/ b \/ c \/ d \/ e THEN 1 ELSE 0
    BY <2>3, <2>4, OneOfFive
  <2>6. Cardinality({i \in 1..5 : <<a, b, c, d, e>>[i]})
          = IF setter[x] = NoCall THEN 0 ELSE 1
    BY <2>4, <2>5
  <2> QED
    BY <2>2, <2>6 DEF a, b, c, d, e, Inside, Waiting, Extracted
<1> QED
  BY <1>1, InvHolds, PTL

\* schedule() runs what it took in the order of deadlines and ids, none before its
\* deadline and none before an earlier one that was set in time.
THEOREM TimerOrder == Spec => []InOrder
<1>1. Inv => InOrder
  BY DEF Inv
<1> QED
  BY <1>1, InvHolds, PTL

\* No wait of any of the reactors exceeds the time to a timer the reactor knows of by the
\* backend's step, for any length of the millisecond and any cap on the wait.
THEOREM WaitNotTooLong == Spec => []WaitFits
<1>1. Inv => WaitFits
  BY DEF Inv
<1> QED
  BY <1>1, InvHolds, PTL

================================================================================
