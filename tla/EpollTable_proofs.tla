--------------------------- MODULE EpollTable_proofs ---------------------------
(***************************************************************************)
(* Theorems about EpollTable, for any set of fds and any size of the event *)
(* cache.                                                                  *)
(***************************************************************************)
EXTENDS EpollTable, TLAPS

\* Events and a running callback exist only while a batch is dispatched.
BatchOver ==
    /\ phase \notin {"dispatch", "callback"} => m_event_cache = {}
    /\ phase # "callback" => running = Nothing

\* Only an active registration has a write request to wait for.
WantedActive == \A f \in wanted : <<f, "write">> \in active

\* A callback is there for an active registration or came with a refused add_*(), and
\* an event still to be dispatched is for one that is active or was removed under it.
CallbackSource ==
    /\ ctx_cb \subseteq active \cup left
    /\ m_event_cache \subseteq active \cup removed

\* The inductive invariant.
Inv ==
    /\ NoDangling
    /\ DupsOwned
    /\ WriteRequestKept
    /\ BatchOver
    /\ WantedActive
    /\ CallbackSource

\* A registration is a pair.
LEMMA RegsPairs ==
    /\ \A f \in Fds, k \in Kinds : <<f, k>> \in Regs
    /\ \A r \in Regs : r[1] \in Fds /\ r[2] \in Kinds /\ r = <<r[1], r[2]>>
    /\ \A f, k, g, h : <<f, k>> = <<g, h>> <=> f = g /\ k = h
BY DEF Regs

\* The table is empty at first.
LEMMA InitInv == Init => Inv
<1> SUFFICES ASSUME Init PROVE Inv
  OBVIOUS
<1>1. TypeOK
  BY EpollTableAssumption DEF Init, TypeOK, Items, Phases
<1> QED
  BY <1>1 DEF Init, Inv, NoDangling, DupsOwned, WriteRequestKept, BatchOver,
              WantedActive, CallbackSource

\* add_read() keeps the table consistent, also when epoll_ctl() refuses.
LEMMA AddReadInv ==
    ASSUME Inv, NEW f \in Fds, NEW ok \in BOOLEAN, AddRead(f, ok)
    PROVE  Inv'
<1> DEFINE r == <<f, "read">>
<1> USE RegsPairs DEF Kinds
<1> USE DEF Inv, AddRead, CtlAdd, SetCb, runVars
<1>1. r \in Regs
  OBVIOUS
<1>2. TypeOK'
  BY <1>1 DEF NoDangling, TypeOK, Items
<1>3. NoDangling'
  BY <1>1, <1>2 DEF NoDangling, TypeOK
<1>4. DupsOwned'
  BY <1>1 DEF DupsOwned, NoDangling, TypeOK
<1>5. WriteRequestKept'
  <2> SUFFICES ASSUME NEW g \in wanted
               PROVE  item'[<<g, "write">>] = item[<<g, "write">>]
    BY DEF WriteRequestKept
  <2>1. g \in Fds /\ <<g, "write">> \in Regs /\ <<g, "write">> # r
    BY DEF NoDangling, TypeOK
  <2> QED
    BY <1>1, <2>1 DEF NoDangling, TypeOK
<1>6. BatchOver' /\ WantedActive' /\ CallbackSource'
  BY <1>1 DEF BatchOver, WantedActive, CallbackSource
<1> QED
  BY <1>3, <1>4, <1>5, <1>6

\* add_write() does, with the duplicate it makes or finds.
LEMMA AddWriteInv ==
    ASSUME Inv, NEW f \in Fds, NEW ok \in BOOLEAN, AddWrite(f, ok)
    PROVE  Inv'
<1> DEFINE r == <<f, "write">>
<1> USE RegsPairs DEF Kinds
<1> USE DEF Inv, AddWrite, CtlAdd, SetCb, NeedsDup, runVars
<1>1. r \in Regs
  OBVIOUS
<1>2. TypeOK'
  BY <1>1, SMTT(30) DEF NoDangling, TypeOK, Items
<1>3. NoDangling'
  BY <1>1, <1>2 DEF NoDangling, TypeOK
<1>4. DupsOwned'
  BY <1>1 DEF DupsOwned, NoDangling, TypeOK
<1>5. WriteRequestKept'
  <2> SUFFICES ASSUME NEW g \in wanted
               PROVE  item'[<<g, "write">>] = item[<<g, "write">>]
    BY DEF WriteRequestKept
  <2>1. g \in Fds /\ <<g, "write">> \in Regs /\ <<g, "write">> \in active
    BY DEF NoDangling, TypeOK, WantedActive
  <2> QED
    BY <1>1, <2>1 DEF NoDangling, TypeOK
<1>6. BatchOver' /\ WantedActive' /\ CallbackSource'
  BY <1>1 DEF BatchOver, WantedActive, CallbackSource
<1> QED
  BY <1>3, <1>4, <1>5, <1>6

\* add_write() whose dup() fails only leaves an entry behind.
LEMMA AddWriteNoDupInv ==
    ASSUME Inv, NEW f \in Fds, AddWriteNoDup(f)
    PROVE  Inv'
<1> USE DEF Inv, AddWriteNoDup, runVars
<1>1. NoDangling'
  BY DEF NoDangling, TypeOK
<1>2. DupsOwned'
  BY DEF DupsOwned
<1> QED
  BY <1>1, <1>2 DEF WriteRequestKept, BatchOver, WantedActive, CallbackSource

\* Removing a registration leaves the others as they are.
LEMMA RemReadInv ==
    ASSUME Inv, NEW f \in Fds, RemRead(f)
    PROVE  Inv'
<1> DEFINE r == <<f, "read">>
<1> USE RegsPairs DEF Kinds
<1> USE DEF Inv, RemRead, Unregister, ClearCb, Cleanup, runVars
<1>1. r \in Regs
  OBVIOUS
<1>2. TypeOK'
  <2>1. /\ active' \subseteq active /\ ctx_fd' \subseteq ctx_fd /\ ctx_cb' \subseteq ctx_cb
        /\ removed' \subseteq Regs /\ left' \subseteq Regs
    BY DEF NoDangling, TypeOK
  <2>2. item' \in [Regs -> Items]
    BY <1>1 DEF NoDangling, TypeOK, Items
  <2> QED
    BY <2>1, <2>2 DEF NoDangling, TypeOK
<1>3. NoDangling'
  <2>1. CASE r \in active \cap ctx_fd
    BY <1>1, <1>2, <2>1 DEF NoDangling, TypeOK
  <2>2. CASE r \notin active \cap ctx_fd
    BY <1>2, <2>2 DEF NoDangling
  <2> QED
    BY <2>1, <2>2
<1>4. DupsOwned'
  <2>1. \A g \in Fds, k \in Kinds : <<g, k>> # r => (<<g, k>> \in active' <=> <<g, k>> \in active)
    OBVIOUS
  <2>2. \A g \in Fds : <<g, "write">> \in ctx_fd' <=> <<g, "write">> \in ctx_fd
    OBVIOUS
  <2>3. ASSUME NEW g \in known', \A k \in Kinds : <<g, k>> \notin active'
        PROVE  g \in m_pending_cleanup' \cup refused'
    <3>1. CASE g = f
      BY <2>3, <3>1
    <3>2. CASE g # f
      <4>1. g \in Fds /\ \A k \in Kinds : <<g, k>> \notin active
        BY <2>1, <2>3, <3>2 DEF NoDangling, TypeOK
      <4> QED
        BY <4>1, <3>2 DEF DupsOwned
    <3> QED
      BY <3>1, <3>2
  <2>4. ctx_fd' \subseteq ctx_fd
    OBVIOUS
  <2> QED
    BY <2>2, <2>3, <2>4 DEF DupsOwned
<1>5. WriteRequestKept'
  <2> SUFFICES ASSUME NEW g \in wanted
               PROVE  item'[<<g, "write">>] = item[<<g, "write">>]
    BY DEF WriteRequestKept
  <2>1. g \in Fds /\ <<g, "write">> \in Regs /\ <<g, "write">> # r
    BY DEF NoDangling, TypeOK
  <2> QED
    BY <1>1, <2>1 DEF NoDangling, TypeOK
<1>6. BatchOver' /\ WantedActive' /\ CallbackSource'
  BY <1>1 DEF BatchOver, WantedActive, CallbackSource
<1> QED
  BY <1>3, <1>4, <1>5, <1>6

\* rem_write() also closes the duplicate and drops the request.
LEMMA RemWriteInv ==
    ASSUME Inv, NEW f \in Fds, RemWrite(f)
    PROVE  Inv'
<1> DEFINE r == <<f, "write">>
<1> USE RegsPairs DEF Kinds
<1> USE DEF Inv, RemWrite, Unregister, ClearCb, Cleanup, runVars
<1>1. r \in Regs
  OBVIOUS
<1>2. TypeOK'
  <2>1. /\ active' \subseteq active /\ ctx_fd' \subseteq ctx_fd /\ ctx_cb' \subseteq ctx_cb
        /\ removed' \subseteq Regs /\ left' \subseteq Regs /\ wanted' \subseteq wanted
    BY DEF NoDangling, TypeOK
  <2>2. item' \in [Regs -> Items]
    BY <1>1 DEF NoDangling, TypeOK, Items
  <2>3. dups' \in [Fds -> Nat]
    BY <1>1 DEF NoDangling, TypeOK, DupsOwned
  <2> QED
    BY <2>1, <2>2, <2>3 DEF NoDangling, TypeOK
<1>3. NoDangling'
  <2>1. CASE r \in active \cap ctx_fd
    BY <1>1, <1>2, <2>1 DEF NoDangling, TypeOK
  <2>2. CASE r \notin active \cap ctx_fd
    BY <1>2, <2>2 DEF NoDangling
  <2> QED
    BY <2>1, <2>2
<1>4. DupsOwned'
  <2>1. \A g \in Fds, k \in Kinds : <<g, k>> # r => (<<g, k>> \in active' <=> <<g, k>> \in active)
    OBVIOUS
  <2>2. \A g \in Fds : dups'[g] = IF <<g, "write">> \in ctx_fd' THEN 1 ELSE 0
    <3>1. CASE r \in active \cap ctx_fd
      <4>1. dups' = [dups EXCEPT ![f] = @ - 1] /\ ctx_fd' = ctx_fd \ {r}
        BY <3>1
      <4>2. dups \in [Fds -> Nat] /\ dups[f] = 1
        BY <3>1 DEF DupsOwned, NoDangling, TypeOK
      <4>3. \A g \in Fds : g # f => dups[g] = IF <<g, "write">> \in ctx_fd THEN 1 ELSE 0
        BY DEF DupsOwned
      <4>4. \A g \in Fds : dups'[g] = IF g = f THEN 0 ELSE dups[g]
        BY ONLY <4>1, <4>2
      <4>5. \A g \in Fds : <<g, "write">> \in ctx_fd' <=> g # f /\ <<g, "write">> \in ctx_fd
        BY ONLY <4>1, RegsPairs DEF r
      <4> QED
        BY ONLY <4>3, <4>4, <4>5
    <3>2. CASE r \notin active \cap ctx_fd
      BY <3>2 DEF DupsOwned
    <3> QED
      BY <3>1, <3>2
  <2>3. ASSUME NEW g \in known', \A k \in Kinds : <<g, k>> \notin active'
        PROVE  g \in m_pending_cleanup' \cup refused'
    <3>1. CASE g = f
      BY <2>3, <3>1
    <3>2. CASE g # f
      <4>1. g \in Fds /\ \A k \in Kinds : <<g, k>> \notin active
        BY <2>1, <2>3, <3>2 DEF NoDangling, TypeOK
      <4> QED
        BY <4>1, <3>2 DEF DupsOwned
    <3> QED
      BY <3>1, <3>2
  <2>4. ctx_fd' \subseteq ctx_fd
    OBVIOUS
  <2> QED
    BY <2>2, <2>3, <2>4 DEF DupsOwned
<1>5. WriteRequestKept'
  <2> SUFFICES ASSUME NEW g \in wanted'
               PROVE  g \in wanted /\ item'[<<g, "write">>] = item[<<g, "write">>]
    BY DEF WriteRequestKept
  <2>1. g \in Fds /\ <<g, "write">> \in Regs
    BY <1>2 DEF TypeOK
  <2>2. CASE r \in active \cap ctx_fd
    BY <1>1, <2>1, <2>2 DEF NoDangling, TypeOK
  <2>3. CASE r \notin active \cap ctx_fd
    BY <2>3
  <2> QED
    BY <2>2, <2>3
<1>6. BatchOver' /\ WantedActive' /\ CallbackSource'
  BY <1>1 DEF BatchOver, WantedActive, CallbackSource
<1> QED
  BY <1>3, <1>4, <1>5, <1>6

\* req_write() arms the item of an active registration.
LEMMA ReqWriteInv ==
    ASSUME Inv, NEW f \in Fds, ReqWrite(f)
    PROVE  Inv'
<1> DEFINE r == <<f, "write">>
<1> USE RegsPairs DEF Kinds
<1> USE DEF Inv, ReqWrite, Rearm, runVars
<1>1. r \in Regs
  OBVIOUS
<1>2. TypeOK'
  BY <1>1 DEF NoDangling, TypeOK, Items
<1>3. NoDangling'
  <2>1. \A q \in Regs : item'[q] # "absent" <=> item[q] # "absent"
    BY <1>1 DEF NoDangling, TypeOK
  <2> QED
    BY <1>2, <2>1 DEF NoDangling
<1>4. DupsOwned'
  BY DEF DupsOwned
<1>5. WriteRequestKept'
  <2> SUFFICES ASSUME NEW g \in wanted'
               PROVE  \/ item'[<<g, "write">>] = "out"
                      \/ <<g, "write">> \in m_event_cache
    BY DEF WriteRequestKept
  <2>1. g \in Fds /\ <<g, "write">> \in Regs
    BY <1>2 DEF TypeOK
  <2> QED
    BY <1>1, <2>1 DEF WriteRequestKept, NoDangling, TypeOK
<1>6. BatchOver' /\ WantedActive' /\ CallbackSource'
  BY DEF BatchOver, WantedActive, CallbackSource
<1> QED
  BY <1>3, <1>4, <1>5, <1>6

\* epoll_wait() disables the one-shot items it reports, and puts their events into
\* the batch.
LEMMA EpollWaitInv ==
    ASSUME Inv, NEW ready \in SUBSET Regs, EpollWait(ready)
    PROVE  Inv'
<1> USE RegsPairs DEF Kinds
<1> USE DEF Inv, EpollWait, historyVars
<1>1. TypeOK'
  BY DEF NoDangling, TypeOK, Items, Phases
<1>2. \A r \in Regs : item'[r] # "absent" <=> item[r] # "absent"
  BY DEF NoDangling, TypeOK
<1>3. NoDangling'
  BY <1>1, <1>2 DEF NoDangling, TypeOK
<1>4. DupsOwned'
  BY DEF DupsOwned
<1>5. WriteRequestKept'
  <2> SUFFICES ASSUME NEW g \in wanted
               PROVE  \/ item'[<<g, "write">>] = "out"
                      \/ <<g, "write">> \in m_event_cache'
    BY DEF WriteRequestKept
  <2>1. g \in Fds /\ <<g, "write">> \in Regs
    BY DEF NoDangling, TypeOK
  <2>2. item[<<g, "write">>] = "out"
    BY DEF WriteRequestKept, BatchOver
  <2> QED
    BY <2>1, <2>2 DEF NoDangling, TypeOK
<1>6. CallbackSource'
  <2>1. ready \subseteq active
    BY DEF NoDangling, TypeOK
  <2> QED
    BY <2>1 DEF CallbackSource
<1>7. BatchOver' /\ WantedActive'
  BY DEF BatchOver, WantedActive
<1> QED
  BY <1>3, <1>4, <1>5, <1>6, <1>7

\* The other steps of run().
LEMMA DispatchInv ==
    ASSUME Inv, NEW r \in Regs, DispatchSkip(r) \/ DispatchCall(r)
    PROVE  Inv'
<1> USE RegsPairs DEF Kinds
<1> USE DEF Inv, entryVars, historyVars
<1>1. CASE DispatchSkip(r)
  BY <1>1 DEF DispatchSkip, NoDangling, TypeOK, DupsOwned, WriteRequestKept, BatchOver,
              WantedActive, CallbackSource
<1>2. CASE DispatchCall(r)
  <2> USE <1>2 DEF DispatchCall
  <2>1. TypeOK'
    BY DEF NoDangling, TypeOK, Phases
  <2>2. NoDangling'
    BY <2>1 DEF NoDangling
  <2>3. DupsOwned'
    BY DEF DupsOwned
  <2>4. WriteRequestKept'
    <3> SUFFICES ASSUME NEW g \in wanted'
                 PROVE  \/ item[<<g, "write">>] = "out"
                        \/ <<g, "write">> \in m_event_cache'
      BY DEF WriteRequestKept
    <3>1. g \in wanted /\ <<g, "write">> # r
      OBVIOUS
    <3> QED
      BY <3>1 DEF WriteRequestKept
  <2> QED
    BY <2>2, <2>3, <2>4 DEF BatchOver, WantedActive, CallbackSource
<1> QED
  BY <1>1, <1>2

\* The cleanup erases only what nothing points to.
LEMMA EraseUnusedInv ==
    ASSUME Inv, EraseUnused
    PROVE  Inv'
<1> USE DEF Inv, EraseUnused
<1>1. /\ Unused \subseteq known \cap m_pending_cleanup
      /\ \A f \in Unused, k \in Kinds : <<f, k>> \notin active
  BY DEF Unused
<1>2. m_event_cache = {} /\ running = Nothing
  BY DEF BatchOver
<1>3. \A r \in active : r[1] \notin Unused
  BY <1>1, RegsPairs DEF NoDangling, TypeOK
<1>4. active' = active
  BY <1>3
<1>5. \A f \in Fds : dups'[f] = IF f \in Unused THEN 0 ELSE dups[f]
  <2> TAKE f \in Fds
  <2>1. dups'[f] = IF f \in Unused THEN CloseLeft(f) ELSE dups[f]
    OBVIOUS
  <2>2. dups[f] = IF <<f, "write">> \in ctx_fd THEN 1 ELSE 0
    BY DEF DupsOwned
  <2>3. CloseLeft(f) = 0
    BY <2>2 DEF CloseLeft
  <2> QED
    BY <2>1, <2>3
<1>6. \A f \in Fds, k \in Kinds : <<f, k>> \in ctx_fd' <=> <<f, k>> \in ctx_fd /\ f \notin Unused
  OBVIOUS
<1>7. TypeOK'
  <2>1. dups' \in [Fds -> Nat]
    <3>1. dups' = [f \in Fds |-> dups'[f]]
      OBVIOUS
    <3> QED
      BY <1>5, <3>1 DEF NoDangling, TypeOK
  <2> QED
    BY <1>4, <2>1 DEF NoDangling, TypeOK, Phases
<1>8. NoDangling'
  BY <1>2, <1>3, <1>4, <1>7 DEF NoDangling
<1>9. DupsOwned'
  <2>1. \A f \in Fds : dups'[f] = IF <<f, "write">> \in ctx_fd' THEN 1 ELSE 0
    BY <1>5, <1>6 DEF DupsOwned, Kinds
  <2>2. \A r \in ctx_fd' : r[1] \in known'
    BY DEF DupsOwned
  <2>3. ASSUME NEW f \in known', \A k \in Kinds : <<f, k>> \notin active'
        PROVE  f \in refused'
    BY <1>4, <2>3 DEF DupsOwned, Unused
  <2> QED
    BY <2>1, <2>2, <2>3 DEF DupsOwned
<1> QED
  BY <1>2, <1>4, <1>8, <1>9 DEF WriteRequestKept, BatchOver, WantedActive, CallbackSource

\* Every step of the table's operations and of run() keeps the invariant.
LEMMA NextInv == Inv /\ [Next]_vars => Inv'
<1> SUFFICES ASSUME Inv, [Next]_vars PROVE Inv'
  OBVIOUS
<1> USE DEF entryVars, historyVars, runVars
<1>1. ASSUME NEW f \in Fds, Call(f) PROVE Inv'
  BY <1>1, AddReadInv, AddWriteInv, AddWriteNoDupInv, RemReadInv, RemWriteInv,
     ReqWriteInv DEF Call
<1>2. CASE LoopTest \/ CallbackReturn \/ DispatchDone \/ Schedule
  BY <1>2 DEF LoopTest, CallbackReturn, DispatchDone, Schedule, Inv, NoDangling, TypeOK,
              Phases, DupsOwned, WriteRequestKept, BatchOver, WantedActive, CallbackSource
<1>3. CASE UNCHANGED vars
  BY <1>3 DEF vars, Inv, NoDangling, TypeOK, DupsOwned, WriteRequestKept, BatchOver,
              WantedActive, CallbackSource
<1> QED
  BY <1>1, <1>2, <1>3, EpollWaitInv, DispatchInv, EraseUnusedInv DEF Next

-----------------------------------------------------------------------------

\* For any number of fds and any sequence of additions, refusals, removals and
\* events: a pointer in the kernel's set, in the batch or in the running callback
\* points into an entry of m_fd_entries.
THEOREM PointersValid == Spec => []NoDangling
<1>1. Inv => NoDangling
  BY DEF Inv
<1> QED
  BY <1>1, InitInv, NextInv, PTL DEF Spec

\* Every duplicate that add_write() makes is closed exactly once, and no entry is left
\* behind with nothing registered, but for one whose addition epoll_ctl() refused.
THEOREM DuplicatesClosed == Spec => []DupsOwned
<1>1. Inv => DupsOwned
  BY DEF Inv
<1> QED
  BY <1>1, InitInv, NextInv, PTL DEF Spec

\* A write notification asked for with req_write() is not lost.
THEOREM RequestNotLost == Spec => []WriteRequestKept
<1>1. Inv => WriteRequestKept
  BY DEF Inv
<1> QED
  BY <1>1, InitInv, NextInv, PTL DEF Spec

\* The dispatch of a batch calls a callback only for an active registration, or one
\* that a refused add_*() left after a removal under the event: for any number of fds,
\* removal silences an fd at once unless epoll_ctl() refuses to have it back.
THEOREM RemovedNotCalled == Spec => RemovedSilent
<1>1. Inv /\ [Next]_vars =>
          [running' \notin {running, Nothing} =>
              running' \in active \cup (left \cap removed)]_vars
  <2> SUFFICES ASSUME Inv, Next, running' \notin {running, Nothing}
               PROVE  running' \in active \cup (left \cap removed)
    BY DEF vars, runVars
  <2> USE DEF entryVars, historyVars, runVars
  <2>1. PICK r \in Regs : DispatchCall(r)
    BY DEF Next, Call, AddRead, AddWrite, AddWriteNoDup, RemRead, RemWrite, ReqWrite,
           LoopTest, EpollWait, DispatchSkip, CallbackReturn, DispatchDone, EraseUnused,
           Schedule
  <2> QED
    BY <2>1 DEF DispatchCall, Inv, CallbackSource
<1> QED
  BY <1>1, InitInv, NextInv, PTL DEF Spec, RemovedSilent
=============================================================================
