------------------------------ MODULE LossyQueue ------------------------------
(***************************************************************************)
(* The ring of bfc::reactive_circular_lossy_queue: m_slots, m_head and     *)
(* m_count under set_capacity(), push() and pop().  Every operation is one *)
(* critical section of m_queue_mtx, hence one step, whichever thread calls *)
(* it; notify_push(), which push() calls after unlocking, is the field     *)
(* "wake" of the result, and CvReactor models what it does.                *)
(*                                                                         *)
(* A disengaged std::optional is NoItem.                                   *)
(***************************************************************************)
EXTENDS Integers, Sequences

CONSTANTS Items, NoItem, Capacities

ASSUME LossyAssumption == NoItem \notin Items /\ Capacities \subseteq Nat

VARIABLES m_slots,    \* the slots, indexed from 0 as in the code
          m_capacity, m_head, m_count,
          out         \* what the last operation returned, released and signalled

ringVars == <<m_slots, m_capacity, m_head, m_count, out>>

RingInit ==
    /\ m_slots = [i \in 0..-1 |-> NoItem]
    /\ m_capacity = 0
    /\ m_head = 0
    /\ m_count = 0
    /\ out = [ret |-> NoItem, released |-> {}, wake |-> FALSE]

\* The slot k places after the oldest element.
Slot(k) == m_slots[(m_head + k) % m_capacity]

\* push() into a queue of capacity zero.
PushDiscard(u) ==
    /\ m_capacity = 0
    /\ out' = [ret |-> m_count, released |-> {u}, wake |-> FALSE]
    /\ UNCHANGED <<m_slots, m_capacity, m_head, m_count>>

PushTail(u) ==
    /\ m_count < m_capacity
    /\ m_slots' = [m_slots EXCEPT ![(m_head + m_count) % m_capacity] = u]
    /\ m_count' = m_count + 1
    /\ out' = [ret |-> m_count, released |-> {}, wake |-> TRUE]
    /\ UNCHANGED <<m_capacity, m_head>>

\* push() into a full queue replaces the oldest element.
PushOverwrite(u) ==
    /\ m_capacity # 0
    /\ m_count >= m_capacity
    /\ m_slots' = [m_slots EXCEPT ![m_head] = u]
    /\ m_head' = (m_head + 1) % m_capacity
    /\ out' = [ret |-> m_count, released |-> {m_slots[m_head]}, wake |-> TRUE]
    /\ UNCHANGED <<m_capacity, m_count>>

RingPush(u) == PushDiscard(u) \/ PushTail(u) \/ PushOverwrite(u)

PopEmpty ==
    /\ m_count = 0
    /\ out' = [ret |-> NoItem, released |-> {}, wake |-> FALSE]
    /\ UNCHANGED <<m_slots, m_capacity, m_head, m_count>>

\* Mutant: the slot keeps the moved-from element.
PopHead_NoReset ==
    /\ m_count # 0
    /\ m_head' = (m_head + 1) % m_capacity
    /\ m_count' = m_count - 1
    /\ out' = [ret |-> m_slots[m_head], released |-> {}, wake |-> FALSE]
    /\ UNCHANGED <<m_slots, m_capacity>>

PopHead ==
    /\ m_count # 0
    /\ m_slots' = [m_slots EXCEPT ![m_head] = NoItem]
    /\ m_head' = (m_head + 1) % m_capacity
    /\ m_count' = m_count - 1
    /\ out' = [ret |-> m_slots[m_head], released |-> {}, wake |-> FALSE]
    /\ UNCHANGED m_capacity

RingPop == PopEmpty \/ PopHead

\* set_capacity() to what it is already returns at once.
SetCapacitySame(n) ==
    /\ n = m_capacity
    /\ out' = [ret |-> NoItem, released |-> {}, wake |-> FALSE]
    /\ UNCHANGED <<m_slots, m_capacity, m_head, m_count>>

\* std::min(m_count, capacity)
Keep(n) == IF m_count < n THEN m_count ELSE n

\* Mutant: the elements are copied from m_head on, so the oldest are kept.
SetCapacityMove_Oldest(n) ==
    LET keep == Keep(n)
        drop == m_count - keep
    IN
    /\ n # m_capacity
    /\ m_slots' = [i \in 0..(n - 1) |-> IF i < keep THEN Slot(i) ELSE NoItem]
    /\ m_capacity' = n
    /\ m_head' = 0
    /\ m_count' = keep
    /\ out' = [ret |-> NoItem, released |-> {Slot(keep + i) : i \in 0..(drop - 1)},
               wake |-> FALSE]

\* The newest elements move to the front of the new slots; the slots swapped
\* out are destroyed with the elements that did not move.  m_capacity = 0
\* implies m_count = 0, so keep needs no case of its own for it.
SetCapacityMove(n) ==
    LET keep == Keep(n)
        drop == m_count - keep
    IN
    /\ n # m_capacity
    /\ m_slots' = [i \in 0..(n - 1) |-> IF i < keep THEN Slot(drop + i) ELSE NoItem]
    /\ m_capacity' = n
    /\ m_head' = 0
    /\ m_count' = keep
    /\ out' = [ret |-> NoItem, released |-> {Slot(i) : i \in 0..(drop - 1)},
               wake |-> FALSE]

SetCapacity(n) == SetCapacitySame(n) \/ SetCapacityMove(n)

RingNext ==
    \/ \E u \in Items : RingPush(u)
    \/ RingPop
    \/ \E n \in Capacities : SetCapacity(n)

RingSpec == RingInit /\ [][RingNext]_ringVars

-----------------------------------------------------------------------------

RingTypeOK ==
    /\ m_capacity \in Nat
    /\ m_slots \in [0..(m_capacity - 1) -> Items \cup {NoItem}]
    /\ m_head \in 0..(IF m_capacity = 0 THEN 0 ELSE m_capacity - 1)
    /\ m_count \in 0..m_capacity

\* A slot holds an element exactly when it is one of the m_count places from
\* m_head on: push() and pop() never dereference an empty optional, and no
\* element outlives its pop() in a slot.
SlotsMatch ==
    \A k \in 0..(m_capacity - 1) : (Slot(k) # NoItem) <=> (k < m_count)

\* The ring, read from m_head on, is the FIFO of LossyFifo.
Contents == [k \in 1..m_count |-> Slot(k - 1)]

Fifo == INSTANCE LossyFifo WITH queue <- Contents, capacity <- m_capacity

\* push(), pop() and set_capacity() return, release and signal what the FIFO
\* promises.
FifoSpec == Fifo!Spec
=============================================================================
