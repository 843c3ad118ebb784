------------------------------ MODULE EpollTable ------------------------------
(***************************************************************************)
(* The fd table of epoll_reactor: m_fd_entries, what the kernel's epoll    *)
(* set holds and the dispatch of a batch of events.  All of it belongs to  *)
(* the reactor thread; FdReactor models what other threads do.             *)
(*                                                                         *)
(* The kernel keeps a pointer to the context of each registration and      *)
(* returns it with the event, so that an entry must outlive its item in    *)
(* the kernel and the events fetched from it.  A pointer into the table is *)
(* written as the registration it points to: an fd and a kind.  Callers    *)
(* remove an fd before they close it.                                      *)
(***************************************************************************)
EXTENDS Naturals, FiniteSets

CONSTANTS Fds,
          Nothing,     \* no registration
          CacheSize    \* m_event_cache.size(), the wake event not counted

ASSUME EpollTableAssumption ==
    /\ IsFiniteSet(Fds)
    /\ CacheSize \in Nat \ {0}
    /\ Nothing \notin Fds \X {"read", "write"}

Kinds == {"read", "write"}
Regs == Fds \X Kinds

VARIABLES
    known,             \* the keys of m_fd_entries
    active,            \* read_active, write_active
    ctx_fd,            \* the contexts with an fd: read_ctx's own, write_ctx's duplicate
    ctx_cb,            \* the contexts with a callback
    item,              \* the kernel's item of each registration
    m_event_cache,     \* the events of this batch that are not dispatched yet
    m_pending_cleanup,
    running,           \* the registration whose callback runs
    phase,             \* where run() is; "off" outside run()
    removed,           \* history: registrations removed while the batch held an
                       \* event of theirs
    left,              \* history: contexts whose callback came with an add_*() that
                       \* epoll_ctl() refused
    dups,              \* history: open duplicates of an fd
    wanted,            \* history: req_write() since the last write callback
    refused            \* history: fds with a refused add_*() and no removal since

entryVars == <<known, active, ctx_fd, ctx_cb, item, m_pending_cleanup>>
historyVars == <<removed, left, dups, wanted, refused>>
runVars == <<m_event_cache, running, phase>>
vars == <<entryVars, historyVars, runVars>>

\* The state of an item: not there, level-triggered for reading, asked for nothing,
\* one-shot for writing, and one-shot that has fired and is disabled.
Items == {"absent", "in", "none", "out", "off"}
Phases == {"off", "wait", "dispatch", "callback", "wakeups", "timers"}

TypeOK ==
    /\ known \subseteq Fds
    /\ active \subseteq Regs /\ ctx_fd \subseteq Regs /\ ctx_cb \subseteq Regs
    /\ item \in [Regs -> Items]
    /\ m_event_cache \subseteq Regs
    /\ m_pending_cleanup \subseteq Fds
    /\ running \in Regs \cup {Nothing}
    /\ phase \in Phases
    /\ removed \subseteq Regs /\ left \subseteq Regs
    /\ dups \in [Fds -> Nat]
    /\ wanted \subseteq Fds /\ refused \subseteq Fds

Init ==
    /\ known = {} /\ active = {} /\ ctx_fd = {} /\ ctx_cb = {}
    /\ item = [r \in Regs |-> "absent"]
    /\ m_event_cache = {} /\ m_pending_cleanup = {}
    /\ running = Nothing
    /\ phase = "off"
    /\ removed = {} /\ left = {} /\ wanted = {} /\ refused = {}
    /\ dups = [f \in Fds |-> 0]

-----------------------------------------------------------------------------
(* Operations, called from user code.                                       *)

\* is_reactor_thread(): inside run().  Elsewhere a removal is deferred.
OnReactor == phase \in {"callback", "wakeups", "timers"}
MayCall == phase = "off" \/ OnReactor

\* ctx.cb = std::move(cb): before epoll_ctl(), whether or not it will succeed.
SetCb(r) == ctx_cb' = ctx_cb \cup {r}

\* epoll_ctl(EPOLL_CTL_ADD) fails with EEXIST for an item that is there, and for
\* reasons of its own; the caller is told.
CtlAdd(r, ev, ok) ==
    /\ ok => item[r] = "absent"
    /\ item' = IF ok THEN [item EXCEPT ![r] = ev] ELSE item
    /\ active' = IF ok THEN active \cup {r} ELSE active
    /\ refused' = IF ok THEN refused \ {r[1]} ELSE refused \cup {r[1]}
    /\ left' = IF ok THEN left \ {r} ELSE left \cup {r}

AddRead(f, ok) ==
    LET r == <<f, "read">> IN
    /\ MayCall
    /\ known' = known \cup {f}
    /\ ctx_fd' = ctx_fd \cup {r}
    /\ SetCb(r)
    /\ CtlAdd(r, "in", ok)
    /\ UNCHANGED <<m_pending_cleanup, removed, dups, wanted, runVars>>

\* if (!entry.read_active && !entry.write_active) m_pending_cleanup.push_back(fd)
Cleanup(f) ==
    m_pending_cleanup' = m_pending_cleanup \cup
        IF \E k \in Kinds : <<f, k>> \in active' THEN {} ELSE {f}

\* Mutant: the callback stays in the context.
ClearCb_Not(r) == UNCHANGED ctx_cb

\* ctx.cb = nullptr
ClearCb(r) == ctx_cb' = ctx_cb \ {r}

\* What rem_read() and rem_write() share: EPOLL_CTL_DEL and an empty context.
Unregister(r) ==
    /\ item' = [item EXCEPT ![r] = "absent"]
    /\ active' = active \ {r}
    /\ ctx_fd' = ctx_fd \ {r}
    /\ ClearCb(r)
    /\ removed' = removed \cup ({r} \cap m_event_cache)
    /\ left' = left \ {r}

RemRead(f) ==
    LET r == <<f, "read">> IN
    /\ OnReactor
    /\ f \in known
    /\ IF r \in active \cap ctx_fd
       THEN Unregister(r)
       ELSE UNCHANGED <<item, active, ctx_fd, ctx_cb, removed, left>>
    /\ Cleanup(f)
    /\ refused' = refused \ {f}
    /\ UNCHANGED <<known, dups, wanted, runVars>>

\* if (ctx.fd == -1) ctx.fd = dup(fd)
NeedsDup(f) == <<f, "write">> \notin ctx_fd

AddWrite(f, ok) ==
    LET r == <<f, "write">> IN
    /\ MayCall
    /\ known' = known \cup {f}
    /\ dups' = [dups EXCEPT ![f] = @ + IF NeedsDup(f) THEN 1 ELSE 0]
    /\ ctx_fd' = ctx_fd \cup {r}
    /\ SetCb(r)
    /\ CtlAdd(r, "none", ok)
    /\ UNCHANGED <<m_pending_cleanup, removed, wanted, runVars>>

\* add_write() returns false: dup() has failed.
AddWriteNoDup(f) ==
    /\ MayCall
    /\ NeedsDup(f)
    /\ known' = known \cup {f}
    /\ refused' = refused \cup {f}
    /\ UNCHANGED <<active, ctx_fd, ctx_cb, item, m_pending_cleanup, removed, left,
                   dups, wanted, runVars>>

RemWrite(f) ==
    LET r == <<f, "write">> IN
    /\ OnReactor
    /\ f \in known
    /\ IF r \in active \cap ctx_fd
       THEN /\ Unregister(r)
            /\ dups' = [dups EXCEPT ![f] = @ - 1]
            /\ wanted' = wanted \ {f}
       ELSE UNCHANGED <<item, active, ctx_fd, ctx_cb, removed, left, dups, wanted>>
    /\ Cleanup(f)
    /\ refused' = refused \ {f}
    /\ UNCHANGED <<known, runVars>>

\* Mutant: no system call when the events asked for are those of the last call.
Rearm_Cached(r) ==
    item' = IF item[r] = "none" THEN [item EXCEPT ![r] = "out"] ELSE item

\* EPOLL_CTL_MOD, which enables a one-shot item again.
Rearm(r) == item' = [item EXCEPT ![r] = "out"]

ReqWrite(f) ==
    LET r == <<f, "write">> IN
    /\ MayCall
    /\ f \in known
    /\ r \in active \cap ctx_fd
    /\ Rearm(r)
    /\ wanted' = wanted \cup {f}
    /\ UNCHANGED <<known, active, ctx_fd, ctx_cb, m_pending_cleanup, removed, left,
                   dups, refused, runVars>>

Call(f) ==
    \/ \E ok \in BOOLEAN : AddRead(f, ok) \/ AddWrite(f, ok)
    \/ AddWriteNoDup(f)
    \/ RemRead(f) \/ RemWrite(f) \/ ReqWrite(f)

-----------------------------------------------------------------------------
(* run().                                                                   *)

\* while (m_running): run() is entered, or left after a stop().
LoopTest ==
    /\ \/ phase = "off" /\ phase' = "wait"
       \/ phase = "wait" /\ phase' = "off"
    /\ UNCHANGED <<entryVars, historyVars, m_event_cache, running>>

\* epoll_wait() returns some of the items that are ready: errors are reported
\* whatever was asked for, unless the item is disabled.  Being returned disables a
\* one-shot item.
EpollWait(ready) ==
    /\ phase = "wait"
    /\ \A r \in ready : item[r] \notin {"absent", "off"}
    /\ Cardinality(ready) <= CacheSize
    /\ m_event_cache' = ready
    /\ item' = [r \in Regs |-> IF r \in ready /\ item[r] = "out" THEN "off" ELSE item[r]]
    /\ phase' = "dispatch"
    /\ UNCHANGED <<known, active, ctx_fd, ctx_cb, m_pending_cleanup, historyVars, running>>

\* if (ctx && ctx->cb): the callback has been removed meanwhile.
DispatchSkip(r) ==
    /\ phase = "dispatch"
    /\ r \in m_event_cache
    /\ r \notin ctx_cb
    /\ m_event_cache' = m_event_cache \ {r}
    /\ UNCHANGED <<entryVars, historyVars, running, phase>>

\* ctx->cb(), whichever callback the context has by now.
DispatchCall(r) ==
    /\ phase = "dispatch"
    /\ r \in m_event_cache
    /\ r \in ctx_cb
    /\ m_event_cache' = m_event_cache \ {r}
    /\ running' = r
    /\ wanted' = IF r[2] = "write" THEN wanted \ {r[1]} ELSE wanted
    /\ phase' = "callback"
    /\ UNCHANGED <<entryVars, removed, left, dups, refused>>

CallbackReturn ==
    /\ phase = "callback"
    /\ running' = Nothing
    /\ phase' = "dispatch"
    /\ UNCHANGED <<entryVars, historyVars, m_event_cache>>

\* On to the posted callbacks and the queues: user code, see FdReactor.
DispatchDone ==
    /\ phase = "dispatch"
    /\ m_event_cache = {}
    /\ phase' = "wakeups"
    /\ removed' = {}
    /\ UNCHANGED <<entryVars, left, dups, wanted, refused, m_event_cache, running>>

\* Mutant: an fd number added again since its removal is erased too.
Unused_Any == m_pending_cleanup \cap known

\* The entries that the cleanup erases.
Unused ==
    {f \in m_pending_cleanup \cap known : \A k \in Kinds : <<f, k>> \notin active}

\* Mutant: the duplicate a refused add_write() has left is not closed.
CloseLeft_Not(f) == dups[f]

\* if (entry.write_ctx.fd != -1) close(entry.write_ctx.fd)
CloseLeft(f) == IF <<f, "write">> \in ctx_fd THEN dups[f] - 1 ELSE dups[f]

EraseUnused ==
    /\ phase = "wakeups"
    /\ known' = known \ Unused
    /\ dups' = [f \in Fds |-> IF f \in Unused THEN CloseLeft(f) ELSE dups[f]]
    /\ active' = {r \in active : r[1] \notin Unused}
    /\ ctx_fd' = {r \in ctx_fd : r[1] \notin Unused}
    /\ ctx_cb' = {r \in ctx_cb : r[1] \notin Unused}
    /\ left' = {r \in left : r[1] \notin Unused}
    /\ refused' = refused \ Unused
    /\ m_pending_cleanup' = {}
    /\ phase' = "timers"
    /\ UNCHANGED <<item, m_event_cache, running, removed, wanted>>

Schedule ==
    /\ phase = "timers"
    /\ phase' = "wait"
    /\ UNCHANGED <<entryVars, historyVars, m_event_cache, running>>

Next ==
    \/ \E f \in Fds : Call(f)
    \/ LoopTest \/ (\E ready \in SUBSET Regs : EpollWait(ready))
    \/ (\E r \in Regs : DispatchSkip(r) \/ DispatchCall(r))
    \/ CallbackReturn \/ DispatchDone \/ EraseUnused \/ Schedule

Spec == Init /\ [][Next]_vars

-----------------------------------------------------------------------------

\* Every pointer the reactor or the kernel still holds points into an existing entry:
\* those of the kernel's items, which are exactly the active registrations, those
\* of the events not dispatched yet, and that of the callback that runs; however
\* callbacks have removed and re-added fds in the middle of a batch.
NoDangling ==
    /\ TypeOK
    /\ \A r \in Regs : item[r] # "absent" <=> r \in active
    /\ \A r \in active \cup m_event_cache \cup ({running} \ {Nothing}) : r[1] \in known
    /\ active \subseteq ctx_fd \cap ctx_cb

\* Every duplicate is open exactly once and belongs to a context of the table, and an
\* fd with nothing registered is on its way out of the table, where its duplicate
\* is closed, unless add_read() or add_write() put it there and was refused.
DupsOwned ==
    /\ \A f \in Fds : dups[f] = IF <<f, "write">> \in ctx_fd THEN 1 ELSE 0
    /\ \A r \in ctx_fd : r[1] \in known
    /\ \A f \in known :
          (\A k \in Kinds : <<f, k>> \notin active) => f \in m_pending_cleanup \cup refused

\* A callback runs for a registration that epoll_ctl() has accepted and nobody has
\* removed since, with one exception.  The dispatch asks only whether the context has a
\* callback, and a refused add_*() leaves its callback there although nothing is
\* registered: if the registration was removed while this very batch held its event,
\* the callback of the refused add_*() runs for it.  Without a refused add_*() a
\* removal silences an fd at once, and what a refused one has left no later batch runs.
RemovedSilent ==
    [][running' \notin {running, Nothing} =>
          running' \in active \cup (left \cap removed)]_vars

\* A write notification asked for stays on its way until the callback runs: the
\* kernel's item is enabled, or its event is in the batch.
WriteRequestKept ==
    \A f \in wanted : item[<<f, "write">>] = "out" \/ <<f, "write">> \in m_event_cache
=============================================================================
