--------------------------------- MODULE Timer ---------------------------------
(***************************************************************************)
(* bfc::timer and the loops that drive it.  Threads set and cancel timers; *)
(* the reactor thread reads the next deadline, turns it into a timeout,    *)
(* blocks, runs other work and calls schedule().                           *)
(*                                                                         *)
(* Time is a count of microseconds that passes at any moment.  The three   *)
(* reactors differ in the timeout: poll() and epoll_wait() take whole      *)
(* milliseconds (Grain) up to MaxWait of them, epoll_pwait2() takes        *)
(* anything, and cv_reactor never waits longer than m_timeout_ms.  What    *)
(* else ends a wait is in CvReactor and FdReactor; here wake_up() is a     *)
(* flag and any other event may end a wait at any moment.  run() is not    *)
(* stopped.                                                                *)
(***************************************************************************)
EXTENDS Naturals, Sequences, FiniteSets

CONSTANTS Threads, Reactor,
          Callbacks,     \* each is given to wait_us() at most once
          Delays,        \* values of for_us
          Backends,      \* which of "cv", "poll", "epoll", "pwait2" to look at
          Grain,         \* microseconds in a millisecond
          MaxWait,       \* std::numeric_limits<int>::max(), in milliseconds
          CvTimeout,     \* m_timeout_ms of cv_reactor, in microseconds
          NoCall,        \* the thread is not inside wait_us()
          Forever,       \* no deadline, no timeout
          MaxTime        \* bound: the clock stays here, and a wait that ends ends

ASSUME TimerAssumption ==
    /\ Reactor \notin Threads
    /\ NoCall \notin Threads \cup {Reactor}
    /\ Delays \subseteq Nat
    /\ Backends \subseteq {"cv", "poll", "epoll", "pwait2"}
    /\ {Grain, MaxWait, CvTimeout} \subseteq Nat \ {0}
    /\ MaxTime \in Nat
    /\ NoCall \notin [cb : Callbacks, now_us : Nat, for_us : Nat]
    /\ Forever \notin Nat

VARIABLES
    backend,
    now,             \* steady_clock
    m_cb_map, m_timer_ctr,
    call,            \* the wait_us() each thread is inside, with its now_us
    pc,              \* where the reactor thread is
    next_deadline,   \* what get_next_deadline_us() has returned
    now_us,          \* the time run() has read last
    timeout, until,  \* of the wait; until is when it expires
    wake,            \* a wake_up() that has not ended a wait yet
    extracted,       \* schedule(): the timers taken from the map and not run yet
    runs,            \* history: how often each callback has run
    cancelled,       \* history: cancel() has returned true
    setter,          \* history: the thread that set the timer
    announced,       \* history: its thread has called wake_up() since
    ctr_taken        \* history: m_timer_ctr when schedule() took the timers

timerVars == <<m_cb_map, m_timer_ctr>>
loopVars == <<pc, next_deadline, now_us, timeout, until>>
historyVars == <<runs, cancelled, setter, announced, ctr_taken>>
vars == <<backend, now, timerVars, call, loopVars, wake, extracted, historyVars>>

All == Threads \cup {Reactor}
Entries == [due : Nat, ctr : Nat, cb : Callbacks]
Calls == [cb : Callbacks, now_us : Nat, for_us : Nat]
UserCode == {"off", "user", "callback"}
Times == Nat \cup {Forever}

TypeOK ==
    /\ backend \in Backends
    /\ now \in 0..MaxTime
    /\ m_cb_map \subseteq Entries
    /\ m_timer_ctr \in Nat
    /\ call \in [All -> Calls \cup {NoCall}]
    /\ pc \in UserCode \cup {"top", "clock", "wait", "blocked", "schedule", "run"}
    /\ {next_deadline, timeout, until} \subseteq Times
    /\ now_us \in Nat
    /\ wake \in BOOLEAN
    /\ extracted \in Seq(Entries)
    /\ runs \in [Callbacks -> Nat]
    /\ cancelled \subseteq Callbacks /\ announced \subseteq Callbacks
    /\ setter \in [Callbacks -> All \cup {NoCall}]
    /\ ctr_taken \in Nat

Init ==
    /\ backend \in Backends
    /\ now = 0
    /\ m_cb_map = {} /\ m_timer_ctr = 0
    /\ call = [t \in All |-> NoCall]
    /\ pc = "off"
    /\ next_deadline = Forever /\ timeout = Forever /\ until = Forever
    /\ now_us = 0
    /\ wake = FALSE
    /\ extracted = <<>>
    /\ runs = [x \in Callbacks |-> 0]
    /\ cancelled = {} /\ announced = {}
    /\ setter = [x \in Callbacks |-> NoCall]
    /\ ctr_taken = 0

Tick ==
    /\ now < MaxTime
    /\ now' = now + 1
    /\ UNCHANGED <<backend, timerVars, call, loopVars, wake, extracted, historyVars>>

-----------------------------------------------------------------------------
(* Operations of the timer, on any thread.                                  *)

MayCall(t) == call[t] = NoCall /\ (t = Reactor => pc \in UserCode)

\* The default argument now_us = current_time_us() is read before the lock.
WaitUs(t, x, d) ==
    /\ MayCall(t)
    /\ setter[x] = NoCall
    /\ now + d <= MaxTime
    /\ call' = [call EXCEPT ![t] = [cb |-> x, now_us |-> now, for_us |-> d]]
    /\ setter' = [setter EXCEPT ![x] = t]
    /\ UNCHANGED <<backend, now, timerVars, loopVars, wake, extracted, runs, cancelled,
                   announced, ctr_taken>>

Emplace(t) ==
    /\ call[t] # NoCall
    /\ m_cb_map' = m_cb_map \cup
          {[due |-> call[t].now_us + call[t].for_us, ctr |-> m_timer_ctr, cb |-> call[t].cb]}
    /\ m_timer_ctr' = m_timer_ctr + 1
    /\ call' = [call EXCEPT ![t] = NoCall]
    /\ UNCHANGED <<backend, now, loopVars, wake, extracted, historyVars>>

\* Mutant: a timer that schedule() has taken is reported as cancelled.
Erased_Extracted(x) ==
    \E e \in m_cb_map \cup {extracted[i] : i \in DOMAIN extracted} : e.cb = x

\* m_cb_map.erase(id) != 0
Erased(x) == \E e \in m_cb_map : e.cb = x

\* cancel(): false, and no change, once schedule() has taken the timer.
Cancel(t, x) ==
    /\ MayCall(t)
    /\ Erased(x)
    /\ m_cb_map' = {e \in m_cb_map : e.cb # x}
    /\ cancelled' = cancelled \cup {x}
    /\ UNCHANGED <<backend, now, m_timer_ctr, call, loopVars, wake, extracted, runs,
                   setter, announced, ctr_taken>>

\* wake_up() of the reactor.
WakeUp(t) ==
    /\ MayCall(t)
    /\ wake' = TRUE
    /\ announced' = announced \cup {x \in Callbacks : setter[x] = t}
    /\ UNCHANGED <<backend, now, timerVars, call, loopVars, extracted, runs, cancelled,
                   setter, ctr_taken>>

Operation(t) ==
    \/ \E x \in Callbacks : (\E d \in Delays : WaitUs(t, x, d)) \/ Cancel(t, x)
    \/ Emplace(t)
    \/ WakeUp(t)

-----------------------------------------------------------------------------
(* The reactor thread.                                                      *)

RunEnter ==
    /\ pc = "off"
    /\ pc' = "top"
    /\ UNCHANGED <<next_deadline, now_us, timeout, until, m_cb_map, wake, extracted,
                   runs, ctr_taken>>

\* get_next_deadline_us()
ReadDeadline ==
    /\ pc = "top"
    /\ \/ m_cb_map = {} /\ next_deadline' = Forever
       \/ \E first \in m_cb_map : /\ \A e \in m_cb_map : first.due <= e.due
                                  /\ next_deadline' = first.due
    /\ pc' = "clock"
    /\ UNCHANGED <<now_us, timeout, until, m_cb_map, wake, extracted, runs, ctr_taken>>

AtMost(a, b) == IF a < b THEN a ELSE b

\* Mutant: cv_reactor waits for ever too.
Idle_Forever == Forever

\* The timeout when there is no timer.
Idle == IF backend = "cv" THEN CvTimeout ELSE Forever

\* Mutant: a deadline that has passed gives a negative timeout, which is no timeout.
Timeout_Negative(d, t) == IF d = Forever \/ d < t THEN Idle ELSE d - t

\* The timeout for deadline d at time t.  poll_reactor rounds down to milliseconds,
\* epoll_wait() rounds up.
Timeout(d, t) ==
    LET diff == IF d > t THEN d - t ELSE 0 IN
    CASE d = Forever -> Idle
      [] d # Forever /\ backend = "cv" -> AtMost(diff, CvTimeout)
      [] d # Forever /\ backend = "poll" -> Grain * AtMost(diff \div Grain, MaxWait)
      [] d # Forever /\ backend = "epoll" ->
            Grain * AtMost((diff + Grain - 1) \div Grain, MaxWait)
      [] d # Forever /\ backend = "pwait2" -> diff

ComputeTimeout ==
    /\ pc = "clock"
    /\ now_us' = now
    /\ timeout' = Timeout(next_deadline, now)
    /\ pc' = "wait"
    /\ UNCHANGED <<next_deadline, until, m_cb_map, wake, extracted, runs, ctr_taken>>

Block ==
    /\ pc = "wait"
    /\ until' = IF timeout = Forever THEN Forever ELSE now + timeout
    /\ pc' = "blocked"
    /\ UNCHANGED <<next_deadline, now_us, timeout, m_cb_map, wake, extracted, runs, ctr_taken>>

Expired == until # Forever /\ (now >= until \/ now = MaxTime)

\* The locals of the timeout's computation are not used again in this iteration.
WaitOver ==
    /\ next_deadline' = Forever /\ timeout' = Forever /\ until' = Forever
    /\ now_us' = 0

\* The wait ends by a wake or by its timeout; run() goes on to callbacks and queues.
WaitEnds ==
    /\ pc = "blocked"
    /\ wake \/ Expired
    /\ wake' = FALSE
    /\ pc' = "user"
    /\ WaitOver
    /\ UNCHANGED <<m_cb_map, extracted, runs, ctr_taken>>

\* It ends for another fd, or a backlog in a queue; the wake may come with the next
\* batch.
WaitOther ==
    /\ pc = "blocked"
    /\ backend # "cv"
    /\ pc' = "user"
    /\ WaitOver
    /\ UNCHANGED <<m_cb_map, wake, extracted, runs, ctr_taken>>

\* EINTR: a signal ends a wait that has nothing to report, and run() starts over.
WaitInterrupted ==
    /\ pc = "blocked"
    /\ backend # "cv"
    /\ ~wake /\ ~Expired
    /\ pc' = "top"
    /\ WaitOver
    /\ UNCHANGED <<m_cb_map, wake, extracted, runs, ctr_taken>>

\* m_timer.schedule(timer_t::current_time_us())
Schedule ==
    /\ pc = "user"
    /\ now_us' = now
    /\ pc' = "schedule"
    /\ UNCHANGED <<next_deadline, timeout, until, m_cb_map, wake, extracted, runs, ctr_taken>>

\* Mutant: the id comes first in the key.
Before_ById(a, b) == a.ctr < b.ctr

\* operator< of timer_id_t, a pair of deadline and id.
Before(a, b) == a.due < b.due \/ (a.due = b.due /\ a.ctr < b.ctr)

\* s lists the timers of S in the order of the map's keys.
InKeyOrder(s, S) ==
    /\ {s[i] : i \in DOMAIN s} = S
    /\ \A i, j \in DOMAIN s : i < j => Before(s[i], s[j])

\* schedule() takes every timer that is due out of the map, under the lock.
Extract ==
    /\ pc = "schedule"
    /\ LET due == {e \in m_cb_map : now_us >= e.due} IN
       /\ \E s \in [1..Cardinality(due) -> due] :
             InKeyOrder(s, due) /\ extracted' = s
       /\ m_cb_map' = m_cb_map \ due
    /\ ctr_taken' = m_timer_ctr
    /\ now_us' = 0
    /\ pc' = "run"
    /\ UNCHANGED <<next_deadline, timeout, until, wake, runs>>

RunNext ==
    /\ pc = "run"
    /\ extracted # <<>>
    /\ runs' = [runs EXCEPT ![Head(extracted).cb] = @ + 1]
    /\ extracted' = Tail(extracted)
    /\ pc' = "callback"
    /\ UNCHANGED <<next_deadline, now_us, timeout, until, m_cb_map, wake, ctr_taken>>

CallbackReturn ==
    /\ pc = "callback"
    /\ pc' = "run"
    /\ UNCHANGED <<next_deadline, now_us, timeout, until, m_cb_map, wake, extracted, runs,
                   ctr_taken>>

ScheduleDone ==
    /\ pc = "run"
    /\ extracted = <<>>
    /\ ctr_taken' = 0
    /\ pc' = "top"
    /\ UNCHANGED <<next_deadline, now_us, timeout, until, m_cb_map, wake, extracted, runs>>

RunStep ==
    /\ call[Reactor] = NoCall
    /\ \/ RunEnter \/ ReadDeadline \/ ComputeTimeout \/ Block \/ WaitEnds
       \/ Schedule \/ Extract \/ RunNext \/ CallbackReturn \/ ScheduleDone
    /\ UNCHANGED <<backend, now, m_timer_ctr, call, cancelled, setter, announced>>

OtherEvent ==
    /\ WaitOther \/ WaitInterrupted
    /\ UNCHANGED <<backend, now, m_timer_ctr, call, cancelled, setter, announced>>

Next ==
    \/ Tick
    \/ \E t \in All : Operation(t)
    \/ RunStep
    \/ OtherEvent

\* Time passes, a thread inside wait_us() gets the lock, and run() goes on: its step
\* is disabled while user code on its thread is inside wait_us().
Fairness ==
    /\ WF_vars(Tick)
    /\ \A t \in All : WF_vars(Emplace(t))
    /\ SF_vars(RunStep)

Spec == Init /\ [][Next]_vars /\ Fairness

-----------------------------------------------------------------------------

\* The callbacks in a set of entries.
Cbs(S) == {e.cb : e \in S}
Taken == {extracted[i] : i \in DOMAIN extracted}

\* Every timer that was set is waiting, taken by schedule(), run once or cancelled, and
\* only one of these: whichever thread cancels it and whenever, cancel() returns
\* true for a callback that never runs and false for one that does.
OneFate ==
    /\ TypeOK
    /\ \A x \in Callbacks :
          LET inside == \E t \in All : call[t] # NoCall /\ call[t].cb = x
              fates == <<inside, x \in Cbs(m_cb_map), x \in Cbs(Taken), x \in cancelled,
                         runs[x] = 1>>
          IN  /\ runs[x] <= 1
              /\ Cardinality({i \in 1..5 : fates[i]}) = IF setter[x] = NoCall THEN 0 ELSE 1

\* schedule() runs what it took in the order of the deadlines, equal ones in the order
\* of the calls, never before the deadline; a timer left in the map is later than
\* all of them, unless it was set after schedule() had looked.
InOrder ==
    /\ \A i, j \in DOMAIN extracted : i < j =>
          \/ extracted[i].due < extracted[j].due
          \/ extracted[i].due = extracted[j].due /\ extracted[i].ctr < extracted[j].ctr
    /\ \A e \in Taken : e.due <= now
    /\ \A e \in Taken, w \in m_cb_map : w.ctr >= ctr_taken \/ w.due > e.due

\* The reactor knows of the timer: set on its thread, or followed by wake_up().  A
\* cv_reactor looks again after m_timeout_ms anyway.
Known(x) == setter[x] = Reactor \/ x \in announced

\* The wait that the reactor is about to start, or is in, is not too long for any timer
\* it knows of: it lasts no longer than to the deadline, rounded up to the
\* backend's step, although timers are set and cancelled while the timeout is
\* computed.
WaitFits ==
    pc \in {"wait", "blocked"} /\ ~wake =>
        \A e \in m_cb_map :
            Known(e.cb) =>
                /\ timeout # Forever
                /\ LET left == IF e.due > now_us THEN e.due - now_us ELSE 0
                   IN  timeout < left + IF backend = "epoll" THEN Grain ELSE 1

\* A timer the reactor knows of runs in the end unless it is cancelled, without help
\* from other events.
TimerRuns ==
    \A x \in Callbacks :
        (setter[x] # NoCall /\ (Known(x) \/ backend = "cv"))
            ~> (runs[x] = 1 \/ x \in cancelled)
=============================================================================
