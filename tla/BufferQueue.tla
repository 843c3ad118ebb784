------------------------------ MODULE BufferQueue ------------------------------
(***************************************************************************)
(* Memory that travels between threads: blocks of log2_memory_pool, owned  *)
(* by bfc::buffer and bfc::sized_buffer objects, which move through a      *)
(* blocking event_queue<sized_buffer> and come back to the pool, or to the *)
(* heap, from whichever thread drops them.                                 *)
(*                                                                         *)
(* Each thread has one buffer, one sized_buffer and the vector that its    *)
(* last pop() returned.  The bytes are left out; sizes are those of the    *)
(* code.  A block is an address: operator delete[] makes it available to   *)
(* the next operator new[].  The pool outlives its buffers, and a          *)
(* sized_buffer that was moved from, whose size() is stale, is assigned,   *)
(* cleared or resized before it is used again.                             *)
(***************************************************************************)
EXTENDS Integers, Sequences, FiniteSets

CONSTANTS Threads,
          Blocks,      \* bound: addresses
          Null,
          Sizes,       \* arguments of allocate(), resize(), reserve()
          NumPools,    \* how many of the 11 m_pools there are
          MaxQueue     \* bound: elements in the queue

ASSUME BufferQueueAssumption ==
    /\ IsFiniteSet(Threads) /\ IsFiniteSet(Blocks)
    /\ Null \notin Blocks
    /\ Null \notin [home : {"pool", "heap"} \X Nat, size : Nat]
    /\ Sizes \subseteq Nat
    /\ NumPools \in 1..11 /\ MaxQueue \in Nat

Pools == 0..(NumPools - 1)
Heap == <<"heap", 0>>
Homes == ({"pool"} \X Pools) \cup {Heap}

\* simple_buffer: m_data, m_size and which memory m_deleter gives the block back to.
NoBuffer == [data |-> Null, size |-> 0, deleter |-> Heap]
Buffers == [data : Blocks \cup {Null}, size : Nat, deleter : Homes]

\* sized_buffer.
Empty == [size |-> 0, storage |-> NoBuffer]
SizedBuffers == [size : Nat, storage : Buffers]

VARIABLES
    m_blocking,
    memory,          \* the home and size of each block that is allocated
    m_allocations,   \* the free list of each pool
    buf,             \* each thread's buffer
    asked,           \* history: how many bytes of it the thread has asked for
    sb,              \* each thread's sized_buffer
    moved,           \* history: the threads whose sized_buffer has been moved from
    m_queue,
    popped,          \* what is left of the vector pop() has returned to each thread
    pc               \* inside pop(): "waiting", or "notified" and about to lock again

vars == <<m_blocking, memory, m_allocations, buf, asked, sb, moved, m_queue, popped, pc>>

TypeOK ==
    /\ m_blocking \in BOOLEAN
    /\ memory \in [Blocks -> [home : Homes, size : Nat] \cup {Null}]
    /\ m_allocations \in [Pools -> Seq(Blocks)]
    /\ buf \in [Threads -> Buffers]
    /\ asked \in [Threads -> Nat]
    /\ sb \in [Threads -> SizedBuffers]
    /\ moved \subseteq Threads
    /\ m_queue \in Seq(SizedBuffers)
    /\ popped \in [Threads -> Seq(SizedBuffers)]
    /\ pc \in [Threads -> {"idle", "waiting", "notified"}]

Init ==
    /\ m_blocking \in BOOLEAN
    /\ memory = [b \in Blocks |-> Null]
    /\ m_allocations = [k \in Pools |-> <<>>]
    /\ buf = [t \in Threads |-> NoBuffer]
    /\ asked = [t \in Threads |-> 0]
    /\ sb = [t \in Threads |-> Empty]
    /\ moved = {}
    /\ m_queue = <<>>
    /\ popped = [t \in Threads |-> <<>>]
    /\ pc = [t \in Threads |-> "idle"]

-----------------------------------------------------------------------------
(* Memory.                                                                  *)

\* operator new[]
FreshBlock(b) == memory[b] = Null

\* Mutant: log2 rounded down.
Index_Floor(n, k) == 2^(k + 4) <= n /\ n < 2^(k + 5)

\* k = std::ceil(std::log2(n)) - 4
Index(n, k) == n <= 2^(k + 4) /\ 2^(k + 3) < n

\* m_size of m_pools[k]
PoolSize(k) == <<16, 32, 64, 128, 256, 512, 1024, 2048, 4096, 8192, 16384>>[k + 1]

\* reset() of a buffer that holds v: its deleter puts the block back on the pool's list,
\* or deletes it.
FreeLists(v) ==
    IF v.data = Null \/ v.deleter = Heap THEN m_allocations
    ELSE [m_allocations EXCEPT ![v.deleter[2]] = Append(@, v.data)]

Deleted(v) == IF v.data = Null \/ v.deleter # Heap THEN {} ELSE {v.data}

MemoryWithout(v) == [b \in Blocks |-> IF b \in Deleted(v) THEN Null ELSE memory[b]]

\* new std::byte[n], and reset() of v after it.
NewMemory(b, n, v) == [MemoryWithout(v) EXCEPT ![b] = [home |-> Heap, size |-> n]]

-----------------------------------------------------------------------------
(* Operations on the thread's own objects.                                  *)

Idle(t) == pc[t] = "idle"

\* log2_memory_pool::allocate(); eight bytes or less, and sizes above the largest
\* pool, throw.
Allocate(t, n) ==
    /\ Idle(t)
    /\ buf[t] = NoBuffer
    /\ n > 8
    /\ \E k \in Pools :
          LET list == m_allocations[k]
              Got(b) == buf' = [buf EXCEPT ![t] = [data |-> b, size |-> PoolSize(k),
                                                   deleter |-> <<"pool", k>>]]
          IN  /\ Index(n, k)
              /\ \/ /\ list # <<>>
                    /\ Got(list[Len(list)])
                    /\ m_allocations' =
                          [m_allocations EXCEPT ![k] = SubSeq(list, 1, Len(list) - 1)]
                    /\ UNCHANGED memory
                 \/ /\ list = <<>>
                    /\ \E b \in Blocks :
                          /\ FreshBlock(b)
                          /\ Got(b)
                          /\ memory' = [memory EXCEPT ![b] = [home |-> <<"pool", k>>,
                                                              size |-> PoolSize(k)]]
                    /\ UNCHANGED m_allocations
    /\ asked' = [asked EXCEPT ![t] = n]
    /\ UNCHANGED <<m_blocking, sb, moved, m_queue, popped, pc>>

\* buffer::reset()
Reset(t) ==
    /\ Idle(t)
    /\ buf[t].data # Null
    /\ m_allocations' = FreeLists(buf[t])
    /\ memory' = MemoryWithout(buf[t])
    /\ buf' = [buf EXCEPT ![t] = NoBuffer]
    /\ asked' = [asked EXCEPT ![t] = 0]
    /\ UNCHANGED <<m_blocking, sb, moved, m_queue, popped, pc>>

\* Mutant: the source keeps its pointer.
MovedFrom_Keeps(v) == v

\* clear(p_other) after a move from a buffer that held v.
MovedFrom(v) == NoBuffer

\* sb = sized_buffer(std::move(buf), n), with no more bytes than the thread asked for.
Adopt(t, n) ==
    /\ Idle(t)
    /\ n <= asked[t]
    /\ m_allocations' = FreeLists(sb[t].storage)
    /\ memory' = MemoryWithout(sb[t].storage)
    /\ sb' = [sb EXCEPT ![t] = [size |-> n, storage |-> buf[t]]]
    /\ buf' = [buf EXCEPT ![t] = MovedFrom(buf[t])]
    /\ asked' = [asked EXCEPT ![t] = 0]
    /\ moved' = moved \ {t}
    /\ UNCHANGED <<m_blocking, m_queue, popped, pc>>

\* Storage of n bytes replaces what sb[t] has, and its size becomes s.
Grow(t, n, s) ==
    \E b \in Blocks :
        /\ FreshBlock(b)
        /\ m_allocations' = FreeLists(sb[t].storage)
        /\ memory' = NewMemory(b, n, sb[t].storage)
        /\ sb' = [sb EXCEPT ![t] =
                     [size |-> s, storage |-> [data |-> b, size |-> n, deleter |-> Heap]]]

\* resize(), also of an object that was moved from.
Resize(t, n) ==
    /\ Idle(t)
    /\ IF n > sb[t].storage.size THEN Grow(t, n, n)
       ELSE /\ sb' = [sb EXCEPT ![t].size = n]
            /\ UNCHANGED <<memory, m_allocations>>
    /\ moved' = moved \ {t}
    /\ UNCHANGED <<m_blocking, buf, asked, m_queue, popped, pc>>

\* reserve() beyond the capacity.
Reserve(t, n) ==
    /\ Idle(t)
    /\ t \notin moved
    /\ n > sb[t].storage.size
    /\ Grow(t, n, sb[t].size)
    /\ UNCHANGED <<m_blocking, buf, asked, moved, m_queue, popped, pc>>

Clear(t) ==
    /\ Idle(t)
    /\ sb[t] # Empty
    /\ m_allocations' = FreeLists(sb[t].storage)
    /\ memory' = MemoryWithout(sb[t].storage)
    /\ sb' = [sb EXCEPT ![t] = Empty]
    /\ moved' = moved \ {t}
    /\ UNCHANGED <<m_blocking, buf, asked, m_queue, popped, pc>>

\* buf = std::move(sb).to_buffer(): storage of the right size is handed over, other
\* storage is copied and dropped.  When size() is 0 it does what Clear does.
ToBuffer(t) ==
    /\ Idle(t)
    /\ t \notin moved
    /\ sb[t].size > 0
    /\ buf[t] = NoBuffer
    /\ \/ /\ sb[t].size = sb[t].storage.size
          /\ buf' = [buf EXCEPT ![t] = sb[t].storage]
          /\ UNCHANGED <<memory, m_allocations>>
       \/ /\ sb[t].size # sb[t].storage.size
          /\ \E b \in Blocks :
                /\ FreshBlock(b)
                /\ memory' = NewMemory(b, sb[t].size, sb[t].storage)
                /\ buf' = [buf EXCEPT ![t] = [data |-> b, size |-> sb[t].size,
                                              deleter |-> Heap]]
          /\ m_allocations' = FreeLists(sb[t].storage)
    /\ asked' = [asked EXCEPT ![t] = sb[t].size]
    /\ sb' = [sb EXCEPT ![t] = Empty]
    /\ UNCHANGED <<m_blocking, moved, m_queue, popped, pc>>

-----------------------------------------------------------------------------
(* event_queue<sized_buffer>.                                               *)

\* Mutant: nobody is notified.
NotifyOne_Nobody == UNCHANGED pc

\* cv.notify_one(), if (m_blocking).
NotifyOne ==
    IF m_blocking /\ \E w \in Threads : pc[w] = "waiting"
    THEN \E w \in Threads : pc[w] = "waiting" /\ pc' = [pc EXCEPT ![w] = "notified"]
    ELSE UNCHANGED pc

\* push(std::move(sb)): the sized_buffer's default move keeps the size of the source.
Push(t) ==
    /\ Idle(t)
    /\ sb[t].storage.data # Null
    /\ Len(m_queue) < MaxQueue
    /\ m_queue' = Append(m_queue, sb[t])
    /\ sb' = [sb EXCEPT ![t].storage = MovedFrom(@)]
    /\ moved' = moved \cup {t}
    /\ NotifyOne
    /\ UNCHANGED <<m_blocking, memory, m_allocations, buf, asked, popped>>

\* wake_up(), without the mutex.
WakeUp(t) ==
    /\ Idle(t)
    /\ NotifyOne
    /\ UNCHANGED <<m_blocking, memory, m_allocations, buf, asked, sb, moved, m_queue, popped>>

\* return std::move(m_queue)
TakeAll(t) ==
    /\ popped' = [popped EXCEPT ![t] = m_queue]
    /\ m_queue' = <<>>
    /\ UNCHANGED <<m_blocking, memory, m_allocations, buf, asked, sb, moved>>

Pop(t) ==
    /\ Idle(t)
    /\ popped[t] = <<>>
    /\ ~(m_blocking /\ m_queue = <<>>)
    /\ TakeAll(t)
    /\ UNCHANGED pc

\* cv.wait(lg)
PopWaits(t) ==
    /\ Idle(t)
    /\ popped[t] = <<>>
    /\ m_blocking /\ m_queue = <<>>
    /\ pc' = [pc EXCEPT ![t] = "waiting"]
    /\ UNCHANGED <<m_blocking, memory, m_allocations, buf, asked, sb, moved, m_queue, popped>>

\* The wait has no predicate: a spurious wake ends it too.
SpuriousWake(t) ==
    /\ pc[t] = "waiting"
    /\ pc' = [pc EXCEPT ![t] = "notified"]
    /\ UNCHANGED <<m_blocking, memory, m_allocations, buf, asked, sb, moved, m_queue, popped>>

\* The mutex is locked again; others may have taken the elements meanwhile.
PopReturns(t) ==
    /\ pc[t] = "notified"
    /\ TakeAll(t)
    /\ pc' = [pc EXCEPT ![t] = "idle"]

\* sb = std::move(v.front())
TakeElement(t) ==
    /\ Idle(t)
    /\ popped[t] # <<>>
    /\ m_allocations' = FreeLists(sb[t].storage)
    /\ memory' = MemoryWithout(sb[t].storage)
    /\ sb' = [sb EXCEPT ![t] = Head(popped[t])]
    /\ moved' = moved \ {t}
    /\ popped' = [popped EXCEPT ![t] = Tail(@)]
    /\ UNCHANGED <<m_blocking, buf, asked, m_queue, pc>>

Step(t) ==
    \/ \E n \in Sizes : Allocate(t, n) \/ Adopt(t, n) \/ Resize(t, n) \/ Reserve(t, n)
    \/ Reset(t) \/ Clear(t) \/ ToBuffer(t)
    \/ Push(t) \/ WakeUp(t) \/ Pop(t) \/ PopWaits(t) \/ SpuriousWake(t) \/ PopReturns(t)
    \/ TakeElement(t)

Next == \E t \in Threads : Step(t)

Spec == Init /\ [][Next]_vars

-----------------------------------------------------------------------------

\* The buffers there are: in variables, in sized_buffers, in the queue, in vectors
\* that pop() has returned.
Places ==
    ({"buf", "sb"} \X Threads) \cup ({"queue"} \X DOMAIN m_queue)
        \cup UNION {{"popped"} \X {<<t, i>> : i \in DOMAIN popped[t]} : t \in Threads}

Content(p) ==
    CASE p[1] = "buf" -> buf[p[2]]
      [] p[1] = "sb" -> sb[p[2]].storage
      [] p[1] = "queue" -> m_queue[p[2]].storage
      [] p[1] = "popped" -> popped[p[2][1]][p[2][2]].storage

Holders(b) == {p \in Places : Content(p).data = b}
Slots == UNION {{k} \X DOMAIN m_allocations[k] : k \in Pools}
FreeSlots(b) == {s \in Slots : m_allocations[s[1]][s[2]] = b}

\* Every block in use has exactly one owner, wherever it has been moved: one buffer,
\* or one place on the free list of the pool it came from; a block that was deleted
\* has none.  The owner knows its size and gives it back to where it came from.
OneOwner ==
    /\ TypeOK
    /\ \A b \in Blocks :
          /\ Cardinality(Holders(b)) + Cardinality(FreeSlots(b)) =
                IF memory[b] = Null THEN 0 ELSE 1
          /\ \A p \in Holders(b) : memory[b] = [home |-> Content(p).deleter,
                                                size |-> Content(p).size]
          /\ \A s \in FreeSlots(b) : memory[b].home = <<"pool", s[1]>>

\* The sized_buffers there are, but for those that were moved from.
Live == {sb[t] : t \in Threads \ moved}
            \cup {m_queue[i] : i \in DOMAIN m_queue}
            \cup UNION {{popped[t][i] : i \in DOMAIN popped[t]} : t \in Threads}

\* A sized_buffer's size is backed by its storage, and so is what a thread has asked
\* the pool for, whatever block it was given.
SizeFits ==
    /\ \A s \in Live : s.size <= s.storage.size
    /\ \A t \in Threads : asked[t] <= buf[t].size

\* No thread sleeps in pop() on elements, unless another one has been notified and
\* will take them, although notifications are lost on threads that were about to
\* wait and the wait has no predicate.
NoSleepOnElement ==
    m_queue # <<>> /\ (\E t \in Threads : pc[t] = "waiting")
        => \E t \in Threads : pc[t] = "notified"
=============================================================================
