----------------------------- MODULE SharedBuffer -----------------------------
(***************************************************************************)
(* bfc::shared_sized_buffer: views of refcounted storage.                  *)
(*                                                                         *)
(* A view belongs to one thread, which alone changes it; any thread may    *)
(* copy it or take a subview of it while its owner is not changing it (the *)
(* callers see to that).  An object that does not exist is an empty view.  *)
(* One step is one atomic operation on a refcount, with the accesses to    *)
(* the thread's own views around it, or the deletion of a storage.  The    *)
(* bytes themselves are left out.  An allocation that throws changes       *)
(* nothing and is a stuttering step.                                       *)
(***************************************************************************)
EXTENDS Integers, FiniteSets

CONSTANTS Threads,
          Views,
          Owner,        \* the thread each view belongs to
          Storages,     \* bound: storages that exist at one time
          Null,         \* no storage
          NoView,
          MaxCapacity,  \* bound: capacity of a storage
          Word          \* size_t arithmetic is modulo Word

ASSUME SharedBufferAssumption ==
    /\ IsFiniteSet(Views) /\ IsFiniteSet(Threads)
    /\ Owner \in [Views -> Threads]
    /\ Null \notin Storages /\ NoView \notin Views
    /\ MaxCapacity \in Nat /\ Word \in Nat /\ MaxCapacity < Word

VARIABLES view,   \* m_storage, m_offset and m_size of each view
          live,   \* the storages that exist
          refs,   \* refs of each storage
          cap,    \* capacity of each storage
          op      \* the release_ref() a thread is in

vars == <<view, live, refs, cap, op>>

Empty == [st |-> Null, off |-> 0, size |-> 0]

\* A thread's call: it drops a reference to st ("release"), then perhaps deletes
\* it; after that it sets offset and size of the view v, if there is one.
Idle == [pc |-> "idle", st |-> Null, v |-> NoView, size |-> 0]
Releasing(s, v, n) == [pc |-> "release", st |-> s, v |-> v, size |-> n]

TypeOK ==
    /\ view \in [Views -> [st : Storages \cup {Null}, off : 0..MaxCapacity,
                           size : 0..MaxCapacity]]
    /\ live \subseteq Storages
    /\ refs \in [Storages -> Nat]
    /\ cap \in [Storages -> 0..MaxCapacity]
    /\ op \in [Threads -> [pc : {"idle", "release", "delete"},
                           st : Storages \cup {Null}, v : Views \cup {NoView},
                           size : 0..MaxCapacity]]

Init ==
    /\ view = [v \in Views |-> Empty]
    /\ live = {}
    /\ refs = [s \in Storages |-> 0]
    /\ cap = [s \in Storages |-> 0]
    /\ op = [t \in Threads |-> Idle]

\* capacity() counts from the view's offset.
Capacity(v) == IF view[v].st = Null THEN 0 ELSE cap[view[v].st] - view[v].off

-----------------------------------------------------------------------------
(* What the operations are made of.                                         *)

\* Thread t is between calls and the view is its own.
MayChange(t, v) == op[t].pc = "idle" /\ Owner[v] = t

\* No thread is about to set offset and size of w.
MayRead(w) == \A t \in Threads : op[t].v # w

\* Mutant: the copy is not counted.
Acquire_Missing(s) == UNCHANGED refs

\* acquire(): one more reference, if there is a storage.
Acquire(s) == refs' = IF s = Null THEN refs ELSE [refs EXCEPT ![s] = @ + 1]

\* The storage v referred to until now is released as the last thing.
ReleaseOld(t, v) ==
    op' = IF view[v].st = Null THEN op
          ELSE [op EXCEPT ![t] = Releasing(view[v].st, NoView, 0)]

\* The result of an operation is assigned to, or constructed in, v.
Install(t, v, out) == view' = [view EXCEPT ![v] = out] /\ ReleaseOld(t, v)

\* A new storage of c bytes with one reference.
NewStorage(s, c) ==
    /\ s \in Storages \ live
    /\ live' = live \cup {s}
    /\ refs' = [refs EXCEPT ![s] = 1]
    /\ cap' = [cap EXCEPT ![s] = c]

\* The last thing release_ref()'s caller does.
Return(t) ==
    /\ op' = [op EXCEPT ![t] = Idle]
    /\ view' = IF op[t].v = NoView THEN view
               ELSE [view EXCEPT ![op[t].v].off = 0, ![op[t].v].size = op[t].size]

\* Mutant: the value after the subtraction is compared with 1.
ReleaseRef_OffByOne(t) ==
    /\ op[t].pc = "release"
    /\ refs' = [refs EXCEPT ![op[t].st] = @ - 1]
    /\ IF refs[op[t].st] = 2 THEN op' = [op EXCEPT ![t].pc = "delete"] /\ UNCHANGED view
                             ELSE Return(t)
    /\ UNCHANGED <<live, cap>>

\* Mutant: the value before the subtraction is compared with 0.
ReleaseRef_Leaks(t) ==
    /\ op[t].pc = "release"
    /\ refs' = [refs EXCEPT ![op[t].st] = @ - 1]
    /\ IF refs[op[t].st] = 0 THEN op' = [op EXCEPT ![t].pc = "delete"] /\ UNCHANGED view
                             ELSE Return(t)
    /\ UNCHANGED <<live, cap>>

\* release_ref(): 1 == refs.fetch_sub(1) ...
ReleaseRef(t) ==
    /\ op[t].pc = "release"
    /\ refs' = [refs EXCEPT ![op[t].st] = @ - 1]
    /\ IF refs[op[t].st] = 1 THEN op' = [op EXCEPT ![t].pc = "delete"] /\ UNCHANGED view
                             ELSE Return(t)
    /\ UNCHANGED <<live, cap>>

\* ... then delete, whose destructor calls release(bytes).
Delete(t) ==
    /\ op[t].pc = "delete"
    /\ live' = live \ {op[t].st}
    /\ Return(t)
    /\ UNCHANGED <<refs, cap>>

-----------------------------------------------------------------------------
(* The operations.                                                          *)

\* v = w, or a copy of w is constructed in v.
Copy(t, v, w) ==
    /\ MayChange(t, v) /\ MayRead(w)
    /\ v # w
    /\ Acquire(view[w].st)
    /\ Install(t, v, view[w])
    /\ UNCHANGED <<live, cap>>

\* v = std::move(w).
Move(t, v, w) ==
    /\ MayChange(t, v) /\ MayChange(t, w)
    /\ v # w
    /\ view' = [view EXCEPT ![v] = view[w], ![w] = Empty]
    /\ ReleaseOld(t, v)
    /\ UNCHANGED <<live, refs, cap>>

\* ~shared_sized_buffer(), or an empty buffer is assigned: what allocate(),
\* copy_from() and adopt() return for arguments they refuse.
Destroy(t, v) ==
    /\ MayChange(t, v)
    /\ Install(t, v, Empty)
    /\ UNCHANGED <<live, refs, cap>>

\* allocate(c).
Allocate(t, v, c) ==
    /\ MayChange(t, v)
    /\ c > 0
    /\ \E s \in Storages : /\ NewStorage(s, c)
                           /\ Install(t, v, [st |-> s, off |-> 0, size |-> 0])

\* copy_from(p, n).
CopyFrom(t, v, n) ==
    /\ MayChange(t, v)
    /\ n > 0
    /\ \E s \in Storages : /\ NewStorage(s, n)
                           /\ Install(t, v, [st |-> s, off |-> 0, size |-> n])

\* adopt(p, c, n, release).
Adopt(t, v, c, n) ==
    /\ MayChange(t, v)
    /\ c > 0 /\ n <= c
    /\ \E s \in Storages : /\ NewStorage(s, c)
                           /\ Install(t, v, [st |-> s, off |-> 0, size |-> n])

\* clear(): offset and size are reset once the storage has been released.
Clear(t, v) ==
    /\ MayChange(t, v)
    /\ view[v].st # Null
    /\ view' = [view EXCEPT ![v].st = Null]
    /\ op' = [op EXCEPT ![t] = Releasing(view[v].st, v, 0)]
    /\ UNCHANGED <<live, refs, cap>>

\* The storage of v is replaced by one of c bytes; the size of v becomes n in the
\* end.
Grow(t, v, c, n) ==
    \E s \in Storages :
        /\ NewStorage(s, c)
        /\ IF view[v].st = Null
           THEN view' = [view EXCEPT ![v].st = s, ![v].size = n] /\ UNCHANGED op
           ELSE /\ view' = [view EXCEPT ![v].st = s]
                /\ op' = [op EXCEPT ![t] = Releasing(view[v].st, v, n)]

\* reserve(c), where it does something.
Reserve(t, v, c) ==
    /\ MayChange(t, v)
    /\ view[v].off = 0 /\ c > Capacity(v)
    /\ Grow(t, v, c, view[v].size)

\* resize(n) within the capacity ...
ResizeInPlace(t, v, n) ==
    /\ MayChange(t, v)
    /\ view[v].off = 0 /\ n <= Capacity(v)
    /\ view' = [view EXCEPT ![v].size = n]
    /\ UNCHANGED <<live, refs, cap, op>>

\* ... and beyond it.
ResizeGrows(t, v, n) ==
    /\ MayChange(t, v)
    /\ view[v].off = 0 /\ n > Capacity(v)
    /\ Grow(t, v, n, n)

\* Mutant: offset and size are added, and the sum wraps.
InRange_Overflows(w, o, n) == view[w].st # Null /\ (o + n) % Word <= view[w].size

\* !(!m_storage || p_offset > m_size || p_size > m_size - p_offset)
InRange(w, o, n) ==
    /\ view[w].st # Null
    /\ o <= view[w].size
    /\ n <= (view[w].size - o) % Word

\* v = w.subview(o, n); out of range it is Destroy(t, v).
Subview(t, v, w, o, n) ==
    /\ MayChange(t, v) /\ MayRead(w)
    /\ InRange(w, o, n)
    /\ Acquire(view[w].st)
    /\ Install(t, v, [st |-> view[w].st, off |-> view[w].off + o, size |-> n])
    /\ UNCHANGED <<live, cap>>

Call(t, v) ==
    \/ Destroy(t, v) \/ Clear(t, v)
    \/ \E w \in Views : \/ Copy(t, v, w) \/ Move(t, v, w)
                        \/ \E o, n \in 0..(Word - 1) : Subview(t, v, w, o, n)
    \/ \E c \in 0..MaxCapacity :
          \/ Allocate(t, v, c) \/ CopyFrom(t, v, c) \/ Reserve(t, v, c)
          \/ ResizeInPlace(t, v, c) \/ ResizeGrows(t, v, c)
          \/ \E n \in 0..MaxCapacity : Adopt(t, v, c, n)

Continue(t) == ReleaseRef(t) \/ Delete(t)

Next == \E t \in Threads : Continue(t) \/ \E v \in Views : Call(t, v)

\* A thread inside a call gets on with it: nothing in it blocks.
Spec == Init /\ [][Next]_vars /\ \A t \in Threads : WF_vars(Continue(t))

-----------------------------------------------------------------------------
(* Properties.                                                              *)

\* refs is the number of views of the storage and of calls of release_ref() that
\* have not counted down yet, whatever the threads do at the same time.
RefsExact ==
    /\ TypeOK
    /\ \A s \in live :
          refs[s] = Cardinality({v \in Views : view[v].st = s})
                    + Cardinality({t \in Threads : op[t].pc = "release" /\ op[t].st = s})

\* A storage outlives every view and every call that refers to it, and is deleted
\* by one thread only.
NoUseAfterFree ==
    /\ \A v \in Views : view[v].st # Null => view[v].st \in live
    /\ \A t \in Threads : op[t].pc # "idle" => op[t].st \in live
    /\ \A t \in Threads : op[t].pc = "delete" =>
          /\ \A v \in Views : view[v].st # op[t].st
          /\ \A u \in Threads \ {t} : op[u].st # op[t].st

\* Every view lies within its storage, through subviews of subviews and any
\* argument of subview(), also one whose sum with another wraps around.
ViewsInRange ==
    \A v \in Views : view[v].st # Null => view[v].off + view[v].size <= cap[view[v].st]

\* A storage without views is deleted.
LastViewDeletes ==
    \A s \in Storages :
        (s \in live /\ \A v \in Views : view[v].st # s) ~> s \notin live
=============================================================================
