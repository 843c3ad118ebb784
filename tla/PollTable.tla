------------------------------- MODULE PollTable -------------------------------
(***************************************************************************)
(* The fd table of poll_reactor: m_fd_entries, m_poll_entries and the      *)
(* dispatch of what poll() reports.  All of it belongs to the reactor      *)
(* thread: callbacks, and removals deferred from other threads, call the  *)
(* operations in any order and number; code that runs before run() adds.   *)
(* FdReactor models what other threads do.                                 *)
(*                                                                         *)
(* A registration is a pair of an fd and a kind.  Vector indices count     *)
(* from 1, so that 0 can stand for invalid_index(); index 1 is the wake    *)
(* pipe.  m_pending_cleanup is a set: erasing an fd twice, or in another   *)
(* order, makes no difference.                                             *)
(***************************************************************************)
EXTENDS Naturals, Sequences, FiniteSets

CONSTANTS Fds,
          InPlace,   \* cb_t keeps the callable inside itself (bfc::function), not
                     \* on the heap (std::function with a large callable)
          Nothing,   \* no registration
          MaxGen     \* bound: value of m_gen

ASSUME PollTableAssumption ==
    /\ IsFiniteSet(Fds)
    /\ InPlace \in BOOLEAN
    /\ MaxGen \in Nat
    /\ Nothing \notin Fds \X {"read", "write"}

Regs == Fds \X {"read", "write"}
Wake == <<"pipe", "wake">>

VARIABLES
    known,             \* the keys of m_fd_entries
    active,            \* read_active, write_active
    ctx_fd,            \* the registrations whose context has an fd
    poll_index,        \* read_poll_index, write_poll_index
    reg_gen,           \* read_gen, write_gen
    m_gen,
    m_poll_entries,
    m_dispatch,        \* the snapshot's entries that are ready and not visited yet,
                       \* by index
    m_pending_cleanup,
    running,           \* the registration whose callback runs
    callable,          \* where the running callable is: "registered", "retired",
                       \* "replaced" by a new one, or "destroyed" by its removal
    phase,             \* where run() is; "off" outside run()
    fresh,             \* history: registered since poll(), callback not run yet
    dups,              \* history: open duplicates of an fd
    wanted,            \* history: req_write() since the last write callback
    dup_failed         \* history: fds with a failed dup() and no removal since

entryVars == <<known, active, ctx_fd, poll_index, reg_gen, m_gen, m_poll_entries,
               m_pending_cleanup>>
historyVars == <<fresh, dups, wanted, dup_failed>>
runVars == <<m_dispatch, running, phase>>
vars == <<entryVars, historyVars, runVars, callable>>

Phases == {"off", "poll", "dispatch", "callback", "wakeups", "timers"}
Entries == [reg : Regs \cup {Wake}, gen : 0..MaxGen, events : {"none", "in", "out"}]

TypeOK ==
    /\ known \subseteq Fds
    /\ active \subseteq Regs /\ ctx_fd \subseteq Regs
    /\ m_poll_entries \in Seq(Entries)
    /\ DOMAIN m_dispatch \subseteq Nat /\ m_dispatch \in [DOMAIN m_dispatch -> Entries]
    /\ poll_index \in [Regs -> 0..Len(m_poll_entries)]
    /\ reg_gen \in [Regs -> 0..m_gen]
    /\ m_gen \in 0..MaxGen
    /\ m_pending_cleanup \subseteq Fds
    /\ running \in Regs \cup {Nothing}
    /\ callable \in {"registered", "retired", "replaced", "destroyed"}
    /\ phase \in Phases
    /\ fresh \subseteq Regs
    /\ dups \in [Fds -> Nat]
    /\ wanted \subseteq Fds /\ dup_failed \subseteq Fds

Init ==
    /\ known = {} /\ active = {} /\ ctx_fd = {}
    /\ poll_index = [r \in Regs |-> 0]
    /\ reg_gen = [r \in Regs |-> 0]
    /\ m_gen = 0
    /\ m_poll_entries = <<[reg |-> Wake, gen |-> 0, events |-> "in"]>>
    /\ m_dispatch = <<>>
    /\ m_pending_cleanup = {}
    /\ running = Nothing
    /\ callable = "registered"
    /\ phase = "off"
    /\ fresh = {}
    /\ dups = [f \in Fds |-> 0]
    /\ wanted = {} /\ dup_failed = {}

-----------------------------------------------------------------------------
(* m_poll_entries.                                                          *)

\* set_poll_events(); out of range, as invalid_index() is, it does nothing.
SetPollEvents(i, ev) ==
    IF i \in DOMAIN m_poll_entries
    THEN [m_poll_entries EXCEPT ![i].events = ev]
    ELSE m_poll_entries

\* add_poll_entry() for a registration without an index, else set_poll_entry().
PutPollEntry(r, ev) ==
    IF poll_index[r] = 0
    THEN /\ m_gen < MaxGen
         /\ m_gen' = m_gen + 1
         /\ m_poll_entries' =
               Append(m_poll_entries, [reg |-> r, gen |-> m_gen + 1, events |-> ev])
         /\ poll_index' = [poll_index EXCEPT ![r] = Len(m_poll_entries) + 1]
         /\ reg_gen' = [reg_gen EXCEPT ![r] = m_gen + 1]
    ELSE /\ m_poll_entries' = SetPollEvents(poll_index[r], ev)
         /\ UNCHANGED <<m_gen, poll_index, reg_gen>>

\* remove_poll_entry_by_index(): the last entry takes the place of entry i.
EntriesWithout(i) ==
    LET last == Len(m_poll_entries) IN
    IF i \notin DOMAIN m_poll_entries THEN m_poll_entries
    ELSE [j \in 1..(last - 1) |-> m_poll_entries[IF j = i THEN last ELSE j]]

\* Mutant: the registration whose entry moved is not told.
IndexWithout_Stale(r) == [poll_index EXCEPT ![r] = 0]

\* update_poll_index() of the entry that moved, then invalid_index() for r.
IndexWithout(r) ==
    LET last == Len(m_poll_entries)
        moved == m_poll_entries[last].reg
    IN  [s \in Regs |->
            IF s = r THEN 0
            ELSE IF s = moved /\ poll_index[r] \in 1..(last - 1) /\ s[1] \in known
                 THEN poll_index[r]
            ELSE poll_index[s]]

-----------------------------------------------------------------------------
(* Operations, called from user code.                                       *)

\* is_reactor_thread(): inside run().  Elsewhere a removal is deferred.
OnReactor == phase \in {"callback", "wakeups", "timers"}
MayCall == phase = "off" \/ OnReactor

\* ctx.cb = std::move(cb) destroys the callable that is there.
ReplaceCb(r) ==
    callable' = IF r = running /\ callable = "registered" THEN "replaced"
                ELSE callable

\* retire_cb() moves the callable into m_retired_cbs.  A callable kept in place is
\* moved to another address and the one that runs is destroyed.
RetireCb(r) ==
    callable' = IF r # running \/ callable # "registered" THEN callable
                ELSE IF InPlace THEN "destroyed" ELSE "retired"

AddRead(f) ==
    LET r == <<f, "read">> IN
    /\ MayCall
    /\ known' = known \cup {f}
    /\ ctx_fd' = ctx_fd \cup {r}
    /\ ReplaceCb(r)
    /\ active' = active \cup {r}
    /\ PutPollEntry(r, "in")
    /\ UNCHANGED <<m_pending_cleanup, historyVars, runVars>>

\* if (!entry.read_active && !entry.write_active) m_pending_cleanup.push_back(fd)
Cleanup(f) ==
    m_pending_cleanup' =
        IF \E k \in {"read", "write"} : <<f, k>> \in active' THEN m_pending_cleanup
        ELSE m_pending_cleanup \cup {f}

\* What rem_read() and rem_write() share.
Unregister(r) ==
    /\ m_poll_entries' = EntriesWithout(poll_index[r])
    /\ poll_index' = IndexWithout(r)
    /\ active' = active \ {r}
    /\ ctx_fd' = ctx_fd \ {r}
    /\ fresh' = fresh \ {r}
    /\ RetireCb(r)

RemRead(f) ==
    LET r == <<f, "read">> IN
    /\ OnReactor
    /\ f \in known
    /\ IF r \in active \cap ctx_fd
       THEN Unregister(r)
       ELSE UNCHANGED <<m_poll_entries, poll_index, active, ctx_fd, fresh, callable>>
    /\ Cleanup(f)
    /\ dup_failed' = dup_failed \ {f}
    /\ UNCHANGED <<known, reg_gen, m_gen, dups, wanted, runVars>>

\* Mutant: dup() on every call.
NeedsDup_Always(f) == TRUE

\* if (ctx.fd == -1) ctx.fd = dup(fd)
NeedsDup(f) == <<f, "write">> \notin ctx_fd

AddWrite(f) ==
    LET r == <<f, "write">> IN
    /\ MayCall
    /\ known' = known \cup {f}
    /\ dups' = [dups EXCEPT ![f] = @ + IF NeedsDup(f) THEN 1 ELSE 0]
    /\ ctx_fd' = ctx_fd \cup {r}
    /\ ReplaceCb(r)
    /\ active' = active \cup {r}
    /\ PutPollEntry(r, "none")
    /\ wanted' = wanted \ {f}
    /\ UNCHANGED <<m_pending_cleanup, fresh, dup_failed, runVars>>

\* add_write() returns false: dup() has failed.
AddWriteFails(f) ==
    /\ MayCall
    /\ NeedsDup(f)
    /\ known' = known \cup {f}
    /\ dup_failed' = dup_failed \cup {f}
    /\ UNCHANGED <<active, ctx_fd, poll_index, reg_gen, m_gen, m_poll_entries,
                   m_pending_cleanup, fresh, dups, wanted, runVars, callable>>

RemWrite(f) ==
    LET r == <<f, "write">> IN
    /\ OnReactor
    /\ f \in known
    /\ IF r \in active \cap ctx_fd
       THEN /\ Unregister(r)
            /\ dups' = [dups EXCEPT ![f] = @ - 1]
            /\ wanted' = wanted \ {f}
       ELSE UNCHANGED <<m_poll_entries, poll_index, active, ctx_fd, fresh, callable,
                        dups, wanted>>
    /\ Cleanup(f)
    /\ dup_failed' = dup_failed \ {f}
    /\ UNCHANGED <<known, reg_gen, m_gen, runVars>>

ReqWrite(f) ==
    LET r == <<f, "write">> IN
    /\ MayCall
    /\ f \in known
    /\ r \in active \cap ctx_fd
    /\ m_poll_entries' = SetPollEvents(poll_index[r], "out")
    /\ wanted' = wanted \cup {f}
    /\ UNCHANGED <<known, active, ctx_fd, poll_index, reg_gen, m_gen,
                   m_pending_cleanup, fresh, dups, dup_failed, runVars, callable>>

Call(f) ==
    AddRead(f) \/ RemRead(f) \/ AddWrite(f) \/ AddWriteFails(f) \/ RemWrite(f) \/ ReqWrite(f)

-----------------------------------------------------------------------------
(* run().                                                                   *)

\* while (m_running): run() is entered, or left after a stop().
LoopTest ==
    /\ \/ phase = "off" /\ phase' = "poll"
       \/ phase = "poll" /\ phase' = "off"
    /\ UNCHANGED <<entryVars, historyVars, m_dispatch, running, callable>>

\* The snapshot, and poll(): errors are reported whatever the events asked for, so
\* any entry may be ready.  The wake pipe's own entry is FdReactor's.
Poll(ready) ==
    /\ phase = "poll"
    /\ m_dispatch' = [i \in ready |-> m_poll_entries[i]]
    /\ fresh' = {m_poll_entries[i].reg : i \in ready}
    /\ phase' = "dispatch"
    /\ UNCHANGED <<entryVars, dups, wanted, dup_failed, running, callable>>

\* Mutant: an fd number that was removed and added again passes for the old one.
Current_AnyGen(e) == e.reg[1] \in known /\ e.reg \in active

\* The entry of the snapshot is still the one registered.
Current(e) ==
    /\ e.reg[1] \in known
    /\ e.reg \in active
    /\ reg_gen[e.reg] = e.gen

\* for (i = 0; i < poll_fds.size(); i++) comes to entry i of the snapshot.
Visit(i) ==
    /\ phase = "dispatch"
    /\ \A j \in DOMAIN m_dispatch : i <= j
    /\ m_dispatch' = [j \in DOMAIN m_dispatch \ {i} |-> m_dispatch[j]]

DispatchSkip(i) ==
    /\ Visit(i)
    /\ ~Current(m_dispatch[i])
    /\ UNCHANGED <<entryVars, historyVars, running, phase, callable>>

\* Mutant: write notifications are not one-shot.
Disarm_Not(r) == UNCHANGED m_poll_entries

\* emulate one-shot write notifications
Disarm(r) ==
    m_poll_entries' = IF r[2] = "write" THEN SetPollEvents(poll_index[r], "none")
                      ELSE m_poll_entries

\* ctx.cb() is called.
DispatchCall(i) ==
    /\ Visit(i)
    /\ Current(m_dispatch[i])
    /\ LET r == m_dispatch[i].reg IN
       /\ Disarm(r)
       /\ running' = r
       /\ fresh' = fresh \ {r}
       /\ wanted' = IF r[2] = "write" THEN wanted \ {r[1]} ELSE wanted
    /\ callable' = "registered"
    /\ phase' = "callback"
    /\ UNCHANGED <<known, active, ctx_fd, poll_index, reg_gen, m_gen,
                   m_pending_cleanup, dups, dup_failed>>

CallbackReturn ==
    /\ phase = "callback"
    /\ running' = Nothing
    /\ callable' = "registered"
    /\ phase' = "dispatch"
    /\ UNCHANGED <<entryVars, historyVars, m_dispatch>>

\* On to the posted callbacks and the queues: user code, see FdReactor.
DispatchDone ==
    /\ phase = "dispatch"
    /\ DOMAIN m_dispatch = {}
    /\ phase' = "wakeups"
    /\ UNCHANGED <<entryVars, historyVars, m_dispatch, running, callable>>

\* The entries that the cleanup erases.
Unused ==
    {f \in m_pending_cleanup \cap known :
        \A k \in {"read", "write"} : <<f, k>> \notin active}

\* Erase, closing what is left open; the retired callbacks go too.
EraseUnused ==
    /\ phase = "wakeups"
    /\ known' = known \ Unused
    /\ dups' = [f \in Fds |-> IF f \in Unused /\ <<f, "write">> \in ctx_fd
                              THEN dups[f] - 1 ELSE dups[f]]
    /\ active' = {r \in active : r[1] \notin Unused}
    /\ ctx_fd' = {r \in ctx_fd : r[1] \notin Unused}
    /\ poll_index' = [r \in Regs |-> IF r[1] \in Unused THEN 0 ELSE poll_index[r]]
    /\ reg_gen' = [r \in Regs |-> IF r[1] \in Unused THEN 0 ELSE reg_gen[r]]
    /\ dup_failed' = dup_failed \ Unused
    /\ m_pending_cleanup' = {}
    /\ phase' = "timers"
    /\ UNCHANGED <<m_gen, m_poll_entries, m_dispatch, running, callable, fresh, wanted>>

Schedule ==
    /\ phase = "timers"
    /\ phase' = "poll"
    /\ UNCHANGED <<entryVars, historyVars, m_dispatch, running, callable>>

Next ==
    \/ \E f \in Fds : Call(f)
    \/ LoopTest \/ (\E ready \in SUBSET (2..Len(m_poll_entries)) : Poll(ready))
    \/ (\E i \in DOMAIN m_dispatch : DispatchSkip(i) \/ DispatchCall(i))
    \/ CallbackReturn \/ DispatchDone
    \/ EraseUnused \/ Schedule

Spec == Init /\ [][Next]_vars

-----------------------------------------------------------------------------

\* m_poll_entries holds the wake pipe and exactly one entry for each active
\* registration, at the index and with the generation the registration remembers,
\* however removals have reordered it; only fds in m_fd_entries have one.
TableMatches ==
    /\ TypeOK
    /\ Len(m_poll_entries) = 1 + Cardinality(active)
    /\ m_poll_entries[1].reg = Wake
    /\ \A r \in Regs :
          IF r \in active
          THEN /\ r[1] \in known
               /\ poll_index[r] \in DOMAIN m_poll_entries
               /\ m_poll_entries[poll_index[r]].reg = r
               /\ m_poll_entries[poll_index[r]].gen = reg_gen[r]
          ELSE poll_index[r] = 0

\* poll() waits for reads always, and for writability of an fd exactly when
\* req_write() was called since its last write callback (or since add_write()).
ArmedAsAsked ==
    \A r \in active :
        m_poll_entries[poll_index[r]].events =
            IF r[2] = "read" THEN "in" ELSE IF r[1] \in wanted THEN "out" ELSE "none"

\* Every duplicate add_write() has made is closed exactly once, when the fd is no
\* longer registered for writing; and an fd with nothing registered is on its way
\* out of m_fd_entries, unless add_write() put it there and failed.
DupsOwned ==
    /\ \A f \in Fds : dups[f] = IF <<f, "write">> \in active THEN 1 ELSE 0
    /\ \A f \in known :
          (\A k \in {"read", "write"} : <<f, k>> \notin active)
              => f \in m_pending_cleanup \cup dup_failed

\* A callback runs only for an event of its own registration: never for one that
\* poll() reported before the fd was removed, or removed and added again; and at
\* most once for each poll().
NoStaleCallback ==
    [][running' \notin {running, Nothing} => running' \in fresh]_vars

\* A callback that removes its own registration keeps its callable until it
\* returns: retire_cb() is there for this.  A cb_t that keeps its callable in place, as
\* the default light_function does, does not have this property.
RunningKept == callable # "destroyed"
=============================================================================
