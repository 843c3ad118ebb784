--------------------------- MODULE EventQueue_proofs ---------------------------
(***************************************************************************)
(* The queues of event_queue.hpp.                                          *)
(*                                                                         *)
(* The ring of reactive_circular_lossy_queue implements LossyFifo, for any *)
(* set of elements and any capacities.                                     *)
(*                                                                         *)
(* Buffers that travel through event_queue<sized_buffer>: each block of    *)
(* memory has one owner, sizes are backed by storage and no thread sleeps  *)
(* on an element, for any threads, addresses, sizes and pools.             *)
(***************************************************************************)
EXTENDS LossyQueue, BufferQueue, SequenceTheorems, FiniteSetTheorems, TLAPS

-----------------------------------------------------------------------------
(* The ring of the lossy queue.                                             *)

RingOK == RingTypeOK /\ SlotsMatch

-----------------------------------------------------------------------------
(* Arithmetic of the ring: an index never runs past m_capacity twice. *)

\* Every slot is some number of places after the head.
LEMMA SlotIndex ==
    ASSUME RingTypeOK, NEW k \in 0..(m_capacity - 1)
    PROVE  /\ Slot(k) = m_slots[IF m_head + k < m_capacity THEN m_head + k
                                ELSE m_head + k - m_capacity]
           /\ m_capacity \in Nat \ {0}
           /\ m_head \in 0..(m_capacity - 1)
           /\ Slot(k) \in Items \cup {NoItem}
<1>1. m_capacity \in Nat \ {0} /\ m_head \in 0..(m_capacity - 1)
  BY DEF RingTypeOK
<1>2. (m_head + k) % m_capacity
        = IF m_head + k < m_capacity THEN m_head + k ELSE m_head + k - m_capacity
  BY <1>1
<1> QED
  BY <1>1, <1>2 DEF RingTypeOK, Slot

-----------------------------------------------------------------------------
(* The inductive invariant. *)

\* The empty queue the constructor builds satisfies the ring invariant.
LEMMA RingStarts == RingInit => RingOK
BY DEF RingInit, RingOK, RingTypeOK, SlotsMatch

\* push() into a queue that is not full fills the first empty slot after the
\* newest element.
LEMMA RingPushTail ==
    ASSUME RingOK, NEW u \in Items, PushTail(u)
    PROVE  /\ RingOK'
           /\ \A k \in 0..(m_capacity - 1) :
                 Slot(k)' = IF k = m_count THEN u ELSE Slot(k)
<1>1. /\ m_capacity \in Nat \ {0} /\ m_head \in 0..(m_capacity - 1)
      /\ m_count \in 0..(m_capacity - 1)
  BY DEF RingOK, RingTypeOK, PushTail
<1>2. RingTypeOK'
  BY <1>1 DEF RingOK, RingTypeOK, PushTail
<1>3. \A k \in 0..(m_capacity - 1) : Slot(k)' = IF k = m_count THEN u ELSE Slot(k)
  <2> TAKE k \in 0..(m_capacity - 1)
  <2>1. (m_head + m_count) % m_capacity
          = IF m_head + m_count < m_capacity THEN m_head + m_count
            ELSE m_head + m_count - m_capacity
    BY <1>1
  <2>2. (m_head + k) % m_capacity
          = IF m_head + k < m_capacity THEN m_head + k ELSE m_head + k - m_capacity
    BY <1>1
  <2>3. k # m_count => (m_head + k) % m_capacity # (m_head + m_count) % m_capacity
    BY <1>1, <2>1, <2>2
  <2>4. (m_head + k) % m_capacity \in 0..(m_capacity - 1)
    BY <1>1, <2>2
  <2> QED
    BY <1>1, <2>3, <2>4, SMTT(30) DEF RingOK, RingTypeOK, PushTail, Slot
<1>4. SlotsMatch'
  BY <1>1, <1>3, LossyAssumption DEF RingOK, SlotsMatch, PushTail
<1> QED
  BY <1>2, <1>3, <1>4 DEF RingOK

\* push() into a full queue keeps every slot full: the slot of the oldest element
\* becomes that of the newest.
LEMMA RingPushOverwrite ==
    ASSUME RingOK, NEW u \in Items, PushOverwrite(u)
    PROVE  /\ RingOK'
           /\ \A k \in 0..(m_capacity - 1) :
                 Slot(k)' = IF k = m_capacity - 1 THEN u ELSE Slot(k + 1)
<1>1. /\ m_capacity \in Nat \ {0} /\ m_head \in 0..(m_capacity - 1)
      /\ m_count = m_capacity
  BY DEF RingOK, RingTypeOK, PushOverwrite
<1>2. (m_head + 1) % m_capacity = IF m_head + 1 < m_capacity THEN m_head + 1 ELSE 0
  BY <1>1
<1>3. RingTypeOK'
  BY <1>1, <1>2 DEF RingOK, RingTypeOK, PushOverwrite
<1>4. \A k \in 0..(m_capacity - 1) :
         Slot(k)' = IF k = m_capacity - 1 THEN u ELSE Slot(k + 1)
  <2> TAKE k \in 0..(m_capacity - 1)
  <2>1. (m_head' + k) % m_capacity
          = IF m_head' + k < m_capacity THEN m_head' + k ELSE m_head' + k - m_capacity
    BY <1>1, <1>2 DEF PushOverwrite
  <2>2. (m_head + (k + 1)) % m_capacity
          = IF m_head + k + 1 < m_capacity THEN m_head + k + 1
            ELSE m_head + k + 1 - m_capacity
    BY <1>1
  <2>3. Slot(k)' = m_slots'[(m_head' + k) % m_capacity]
    BY DEF Slot, PushOverwrite
  <2>4. m_slots' = [m_slots EXCEPT ![m_head] = u]
        /\ m_head' = IF m_head + 1 < m_capacity THEN m_head + 1 ELSE 0
    BY <1>2 DEF PushOverwrite
  <2>5. CASE k = m_capacity - 1
    <3>1. (m_head' + k) % m_capacity = m_head
      BY <1>1, <2>1, <2>4, <2>5
    <3> QED
      BY <1>1, <2>3, <2>4, <2>5, <3>1 DEF RingOK, RingTypeOK
  <2>6. CASE k # m_capacity - 1
    <3>1. /\ (m_head' + k) % m_capacity = (m_head + (k + 1)) % m_capacity
          /\ (m_head + (k + 1)) % m_capacity \in (0..(m_capacity - 1)) \ {m_head}
      BY <1>1, <2>1, <2>2, <2>4, <2>6
    <3> QED
      BY <1>1, <2>3, <2>4, <2>6, <3>1 DEF RingOK, RingTypeOK, Slot
  <2> QED
    BY <2>5, <2>6
<1>5. SlotsMatch'
  BY <1>1, <1>4, LossyAssumption DEF RingOK, SlotsMatch, PushOverwrite
<1> QED
  BY <1>3, <1>4, <1>5 DEF RingOK

\* pop() empties the slot at m_head, which becomes the last place of the ring.
LEMMA RingPopHead ==
    ASSUME RingOK, PopHead
    PROVE  /\ RingOK'
           /\ \A k \in 0..(m_capacity - 1) :
                 Slot(k)' = IF k = m_capacity - 1 THEN NoItem ELSE Slot(k + 1)
<1>1. /\ m_capacity \in Nat \ {0} /\ m_head \in 0..(m_capacity - 1)
      /\ m_count \in 1..m_capacity
  BY DEF RingOK, RingTypeOK, PopHead
<1>2. (m_head + 1) % m_capacity = IF m_head + 1 < m_capacity THEN m_head + 1 ELSE 0
  BY <1>1
<1>3. RingTypeOK'
  BY <1>1, <1>2 DEF RingOK, RingTypeOK, PopHead
<1>4. \A k \in 0..(m_capacity - 1) :
         Slot(k)' = IF k = m_capacity - 1 THEN NoItem ELSE Slot(k + 1)
  <2> TAKE k \in 0..(m_capacity - 1)
  <2>1. (m_head' + k) % m_capacity
          = IF m_head' + k < m_capacity THEN m_head' + k ELSE m_head' + k - m_capacity
    BY <1>1, <1>2 DEF PopHead
  <2>2. (m_head + (k + 1)) % m_capacity
          = IF m_head + k + 1 < m_capacity THEN m_head + k + 1
            ELSE m_head + k + 1 - m_capacity
    BY <1>1
  <2>3. Slot(k)' = m_slots'[(m_head' + k) % m_capacity]
    BY DEF Slot, PopHead
  <2>4. m_slots' = [m_slots EXCEPT ![m_head] = NoItem]
        /\ m_head' = IF m_head + 1 < m_capacity THEN m_head + 1 ELSE 0
    BY <1>2 DEF PopHead
  <2>5. CASE k = m_capacity - 1
    <3>1. (m_head' + k) % m_capacity = m_head
      BY <1>1, <2>1, <2>4, <2>5
    <3> QED
      BY <1>1, <2>3, <2>4, <2>5, <3>1 DEF RingOK, RingTypeOK
  <2>6. CASE k # m_capacity - 1
    <3>1. /\ (m_head' + k) % m_capacity = (m_head + (k + 1)) % m_capacity
          /\ (m_head + (k + 1)) % m_capacity \in (0..(m_capacity - 1)) \ {m_head}
      BY <1>1, <2>1, <2>2, <2>4, <2>6
    <3> QED
      BY <1>1, <2>3, <2>4, <2>6, <3>1 DEF RingOK, RingTypeOK, Slot
  <2> QED
    BY <2>5, <2>6
<1>5. SlotsMatch'
  BY <1>1, <1>4, LossyAssumption DEF RingOK, SlotsMatch, PopHead
<1> QED
  BY <1>3, <1>4, <1>5 DEF RingOK

\* set_capacity() fills the new slots from 0 on with what it keeps and leaves the
\* rest empty.
LEMMA RingSetCapacityMove ==
    ASSUME RingOK, NEW n \in Capacities, SetCapacityMove(n)
    PROVE  /\ RingOK'
           /\ m_count' = Keep(n)
           /\ \A k \in 0..(Keep(n) - 1) : Slot(k)' = Slot(m_count - Keep(n) + k)
<1>1. /\ m_capacity \in Nat /\ n \in Nat
      /\ m_count \in 0..m_capacity
      /\ Keep(n) \in 0..n
      /\ Keep(n) <= m_count
  BY LossyAssumption DEF RingOK, RingTypeOK, Keep
<1>2. \A i \in 0..(Keep(n) - 1) :
         /\ m_count - Keep(n) + i \in 0..(m_capacity - 1)
         /\ m_count - Keep(n) + i < m_count
         /\ Slot(m_count - Keep(n) + i) \in Items
  <2> TAKE i \in 0..(Keep(n) - 1)
  <2>1. m_count - Keep(n) + i \in 0..(m_capacity - 1)
        /\ m_count - Keep(n) + i < m_count
    BY <1>1
  <2>2. Slot(m_count - Keep(n) + i) \in Items \cup {NoItem}
    BY <2>1, SlotIndex DEF RingOK
  <2> QED
    BY <2>1, <2>2 DEF RingOK, SlotsMatch
<1>3. /\ m_slots' = [i \in 0..(n - 1) |->
                      IF i < Keep(n) THEN Slot(m_count - Keep(n) + i) ELSE NoItem]
      /\ m_capacity' = n /\ m_head' = 0 /\ m_count' = Keep(n)
  BY DEF SetCapacityMove
<1>4. RingTypeOK'
  BY <1>1, <1>2, <1>3 DEF RingTypeOK
<1>5. \A k \in 0..(n - 1) :
         Slot(k)' = IF k < Keep(n) THEN Slot(m_count - Keep(n) + k) ELSE NoItem
  <2> TAKE k \in 0..(n - 1)
  <2>1. (0 + k) % n = k
    BY <1>1
  <2> QED
    BY <1>1, <1>3, <2>1 DEF Slot
<1>6. SlotsMatch'
  BY <1>1, <1>2, <1>3, <1>5, LossyAssumption DEF SlotsMatch
<1> QED
  BY <1>1, <1>3, <1>4, <1>5, <1>6 DEF RingOK

\* The indices stay inside the ring, and the engaged slots are exactly the
\* m_count ones from m_head on, through any sequence of push(), pop() and
\* set_capacity().
THEOREM RingInvariant == RingSpec => [](RingTypeOK /\ SlotsMatch)
<1>1. RingOK /\ [RingNext]_ringVars => RingOK'
  <2> SUFFICES ASSUME RingOK, [RingNext]_ringVars PROVE RingOK'
    OBVIOUS
  <2>1. ASSUME UNCHANGED <<m_slots, m_capacity, m_head, m_count>>
        PROVE  RingOK'
    BY <2>1 DEF RingOK, RingTypeOK, SlotsMatch, Slot
  <2>2. ASSUME NEW u \in Items, RingPush(u) PROVE RingOK'
    BY <2>1, <2>2, RingPushTail, RingPushOverwrite DEF RingPush, PushDiscard
  <2>3. CASE RingPop
    BY <2>1, <2>3, RingPopHead DEF RingPop, PopEmpty
  <2>4. ASSUME NEW n \in Capacities, SetCapacity(n) PROVE RingOK'
    BY <2>1, <2>4, RingSetCapacityMove DEF SetCapacity, SetCapacitySame
  <2>5. CASE UNCHANGED ringVars
    BY <2>1, <2>5 DEF ringVars
  <2> QED
    BY <2>2, <2>3, <2>4, <2>5 DEF RingNext
<1> QED
  BY RingStarts, <1>1, PTL DEF RingSpec, RingOK

-----------------------------------------------------------------------------
(* The refinement. *)

\* The ring read from the head on is a sequence of m_count elements.
ContentsFacts ==
    /\ Contents \in Seq(Items)
    /\ Len(Contents) = m_count
    /\ m_count \in 0..m_capacity /\ m_capacity \in Nat
    /\ \A k \in 1..m_count : Contents[k] = Slot(k - 1)

\* The ring read from m_head on is a sequence of m_count elements.
LEMMA ContentsIsSeq == RingOK => ContentsFacts
<1> SUFFICES ASSUME RingOK PROVE ContentsFacts
  OBVIOUS
<1>1. m_count \in 0..m_capacity /\ m_capacity \in Nat
  BY DEF RingOK, RingTypeOK
<1>2. ASSUME NEW k \in 1..m_count PROVE Slot(k - 1) \in Items
  <2>1. k - 1 \in 0..(m_capacity - 1) /\ k - 1 < m_count
    BY <1>1
  <2>2. Slot(k - 1) \in Items \cup {NoItem}
    BY <2>1, SlotIndex DEF RingOK
  <2> QED
    BY <2>1, <2>2 DEF RingOK, SlotsMatch
<1> QED
  BY <1>1, <1>2 DEF Contents, ContentsFacts

\* The same after a step.
LEMMA ContentsIsSeqPrime == RingOK' => ContentsFacts'
BY ContentsIsSeq, PTL

\* push() into a queue that is not full appends to the FIFO.
LEMMA RefinePushTail ==
    ASSUME RingOK, NEW u \in Items, PushTail(u)
    PROVE  Fifo!Push(u)
<1> USE DEF ContentsFacts
<1>1. /\ RingOK' /\ m_count < m_capacity /\ m_count' = m_count + 1
      /\ m_capacity' = m_capacity
      /\ out' = [ret |-> m_count, released |-> {}, wake |-> TRUE]
  BY RingPushTail DEF PushTail
<1>2. ContentsFacts /\ ContentsFacts'
  BY <1>1, ContentsIsSeq, ContentsIsSeqPrime
<1>3. \A k \in 1..(m_count + 1) :
         Contents'[k] = IF k = m_count + 1 THEN u ELSE Contents[k]
  BY <1>1, <1>2, RingPushTail
<1>4. Contents' = Append(Contents, u)
  BY <1>1, <1>2, <1>3
<1> QED
  BY <1>1, <1>2, <1>4 DEF Fifo!Push

\* push() into a full queue drops the FIFO's oldest element and appends.
LEMMA RefinePushOverwrite ==
    ASSUME RingOK, NEW u \in Items, PushOverwrite(u)
    PROVE  Fifo!Push(u)
<1> USE DEF ContentsFacts
<1>1. /\ RingOK' /\ m_count = m_capacity /\ m_capacity > 0 /\ m_count' = m_count
      /\ m_capacity' = m_capacity
      /\ out' = [ret |-> m_count, released |-> {m_slots[m_head]}, wake |-> TRUE]
  <2>1. RingOK'
    BY RingPushOverwrite
  <2> QED
    BY <2>1 DEF PushOverwrite, RingOK, RingTypeOK
<1>2. ContentsFacts /\ ContentsFacts'
  BY <1>1, ContentsIsSeq, ContentsIsSeqPrime
<1>3. \A k \in 1..m_count :
         Contents'[k] = IF k = m_count THEN u ELSE Contents[k + 1]
  BY <1>1, <1>2, RingPushOverwrite
<1>4. Head(Contents) = m_slots[m_head]
  <2>1. Slot(0) = m_slots[m_head]
    BY <1>1, SlotIndex DEF RingOK, RingTypeOK
  <2> QED
    BY <1>1, <1>2, <2>1
<1>5. Contents' = Append(Tail(Contents), u)
  BY <1>1, <1>2, <1>3
<1>6. out' = [ret |-> Len(Contents), released |-> {Head(Contents)}, wake |-> TRUE]
  BY <1>1, <1>2, <1>4
<1>7. m_capacity > 0 /\ Len(Contents) >= m_capacity
  BY <1>1, <1>2
<1> QED
  BY <1>1, <1>5, <1>6, <1>7, Zenon DEF Fifo!Push

\* pop() returns and removes the FIFO's oldest element.
LEMMA RefinePopHead ==
    ASSUME RingOK, PopHead
    PROVE  Fifo!Pop
<1> USE DEF ContentsFacts
<1>1. /\ RingOK' /\ m_count > 0 /\ m_count' = m_count - 1
      /\ m_capacity' = m_capacity
      /\ out' = [ret |-> m_slots[m_head], released |-> {}, wake |-> FALSE]
  BY RingPopHead DEF PopHead, RingOK, RingTypeOK
<1>2. ContentsFacts /\ ContentsFacts'
  BY <1>1, ContentsIsSeq, ContentsIsSeqPrime
<1>3. \A k \in 1..(m_count - 1) : Contents'[k] = Contents[k + 1]
  BY <1>1, <1>2, RingPopHead
<1>4. Head(Contents) = m_slots[m_head]
  <2>1. Slot(0) = m_slots[m_head]
    BY <1>1, <1>2, SlotIndex DEF RingOK, RingTypeOK
  <2> QED
    BY <1>1, <1>2, <2>1
<1>5. Contents' = Tail(Contents)
  BY <1>1, <1>2, <1>3
<1>6. out' = [ret |-> Head(Contents), released |-> {}, wake |-> FALSE]
  BY <1>1, <1>4
<1>7. Contents # <<>>
  BY <1>1, <1>2
<1> QED
  BY <1>1, <1>5, <1>6, <1>7, Zenon DEF Fifo!Pop

\* What is left of a sequence of elements without its first d.
LEMMA SuffixFacts ==
    \A s \in Seq(Items) : \A d \in 0..Len(s) :
        /\ SubSeq(s, d + 1, Len(s)) \in Seq(Items)
        /\ Len(SubSeq(s, d + 1, Len(s))) = Len(s) - d
        /\ \A k \in 1..(Len(s) - d) : SubSeq(s, d + 1, Len(s))[k] = s[d + k]
<1> TAKE s \in Seq(Items)
<1> TAKE d \in 0..Len(s)
<1> DEFINE t == SubSeq(s, d + 1, Len(s))
<1>1. Len(s) \in Nat /\ d + 1 \in 1..(Len(s) + 1)
  OBVIOUS
<1>2. t \in Seq(Items)
  BY <1>1
<1>3. Len(t) = Len(s) - d
  BY <1>1
<1>4. \A k \in 1..(Len(s) - d) : t[k] = s[d + k]
  <2> TAKE k \in 1..(Len(s) - d)
  <2> QED
    BY <1>1
<1> QED
  BY <1>2, <1>3, <1>4

\* set_capacity() keeps the newest elements of the FIFO and releases the others.
LEMMA RefineSetCapacityMove ==
    ASSUME RingOK, NEW n \in Capacities, SetCapacityMove(n)
    PROVE  Fifo!SetCapacity(n)
<1> USE DEF ContentsFacts
<1> DEFINE drop == m_count - Keep(n)
<1>1. /\ RingOK' /\ m_count' = Keep(n) /\ m_capacity' = n
      /\ out' = [ret |-> NoItem, released |-> {Slot(i) : i \in 0..(drop - 1)},
                 wake |-> FALSE]
  BY RingSetCapacityMove DEF SetCapacityMove
<1>2. ContentsFacts /\ ContentsFacts'
  BY <1>1, ContentsIsSeq, ContentsIsSeqPrime
<1>3. /\ n \in Nat /\ drop \in 0..m_count /\ Keep(n) \in 0..m_count
      /\ Keep(n) = m_count - drop
      /\ drop = IF Len(Contents) > n THEN Len(Contents) - n ELSE 0
  BY <1>2, LossyAssumption DEF Keep
<1>4. \A j \in 0..(Keep(n) - 1) : Slot(j)' = Slot(drop + j)
  BY RingSetCapacityMove
<1> HIDE DEF drop
<1>5. \A k \in 1..Keep(n) : Contents'[k] = Contents[drop + k]
  <2> TAKE k \in 1..Keep(n)
  <2>1. Contents'[k] = Slot(k - 1)'
    BY <1>1, <1>2, <1>3
  <2>2. k - 1 \in 0..(Keep(n) - 1) /\ drop + k \in 1..m_count
        /\ drop + k - 1 = drop + (k - 1)
    BY <1>2, <1>3
  <2>3. Contents[drop + k] = Slot(drop + k - 1)
    BY <1>2, <1>3, <2>2
  <2> QED
    BY <1>4, <2>1, <2>2, <2>3
<1>6. Contents' = SubSeq(Contents, drop + 1, Len(Contents))
  <2> DEFINE kept == SubSeq(Contents, drop + 1, Len(Contents))
  <2>0. Contents \in Seq(Items) /\ drop \in 0..Len(Contents)
        /\ Len(Contents) - drop = Keep(n)
    BY <1>2, <1>3
  <2>1. /\ kept \in Seq(Items) /\ Len(kept) = Keep(n)
        /\ \A k \in 1..Keep(n) : kept[k] = Contents[drop + k]
    BY <2>0, SuffixFacts, Zenon
  <2>2. /\ Contents' \in Seq(Items) /\ Len(Contents') = Keep(n)
    BY <1>1, <1>2
  <2> HIDE DEF kept
  <2>3. Contents' = kept
    BY <1>5, <2>1, <2>2, SeqEqual
  <2> QED
    BY <2>3 DEF kept
<1>7. {Slot(i) : i \in 0..(drop - 1)} = {Contents[i] : i \in 1..drop}
  <2>1. \A i \in 0..(drop - 1) : i + 1 \in 1..drop /\ Contents[i + 1] = Slot(i)
    BY <1>2, <1>3
  <2>2. \A i \in 1..drop : i - 1 \in 0..(drop - 1) /\ Contents[i] = Slot(i - 1)
    BY <1>2, <1>3
  <2> QED
    BY <2>1, <2>2
<1> QED
  BY <1>1, <1>3, <1>6, <1>7 DEF Fifo!SetCapacity

\* push(), pop() and set_capacity() on the ring do what LossyFifo promises: FIFO
\* order, the oldest element dropped by a push into a full ring, the newest kept
\* by set_capacity(), the documented return values, and a wake exactly when an
\* element was enqueued.
THEOREM ImplementsFifo == RingSpec => FifoSpec
<1>1. RingInit => Fifo!Init
  BY DEF RingInit, Fifo!Init, Contents
<1>2. RingOK /\ [RingNext]_ringVars => [Fifo!Next]_(Fifo!vars)
  <2> SUFFICES ASSUME RingOK, [RingNext]_ringVars PROVE [Fifo!Next]_(Fifo!vars)
    OBVIOUS
  <2>1. ContentsFacts
    BY ContentsIsSeq
  <2>2. ASSUME UNCHANGED <<m_slots, m_capacity, m_head, m_count>>
        PROVE  UNCHANGED <<Contents, m_capacity>>
    BY <2>2 DEF Contents, Slot
  <2>3. ASSUME NEW u \in Items, PushDiscard(u) PROVE Fifo!Push(u)
    BY <2>1, <2>2, <2>3 DEF PushDiscard, Fifo!Push, ContentsFacts
  <2>4. ASSUME NEW u \in Items, RingPush(u) PROVE Fifo!Push(u)
    BY <2>3, <2>4, RefinePushTail, RefinePushOverwrite DEF RingPush
  <2>5. ASSUME PopEmpty PROVE Fifo!Pop
    <3>1. Contents = <<>>
      BY <2>1, <2>5 DEF PopEmpty, ContentsFacts
    <3> QED
      BY <2>2, <2>5, <3>1 DEF PopEmpty, Fifo!Pop
  <2>6. ASSUME RingPop PROVE Fifo!Pop
    BY <2>5, <2>6, RefinePopHead DEF RingPop
  <2>7. ASSUME NEW n \in Capacities, SetCapacitySame(n) PROVE Fifo!SetCapacity(n)
    <3>1. /\ n = m_capacity /\ UNCHANGED <<Contents, m_capacity>>
          /\ out' = [ret |-> NoItem, released |-> {}, wake |-> FALSE]
      BY <2>2, <2>7 DEF SetCapacitySame
    <3>2. SubSeq(Contents, 1, Len(Contents)) = Contents
      BY <2>1 DEF ContentsFacts
    <3> DEFINE drop == IF Len(Contents) > n THEN Len(Contents) - n ELSE 0
    <3>3. drop = 0
      BY <2>1, <3>1 DEF ContentsFacts
    <3> HIDE DEF drop
    <3>4. {Contents[i] : i \in 1..drop} = {} /\ drop + 1 = 1
      BY <3>3
    <3>5. /\ Contents' = SubSeq(Contents, drop + 1, Len(Contents))
          /\ out' = [ret |-> NoItem, released |-> {Contents[i] : i \in 1..drop},
                     wake |-> FALSE]
      BY <3>1, <3>2, <3>4
    <3> QED
      BY <3>1, <3>5 DEF Fifo!SetCapacity, drop
  <2>8. ASSUME NEW n \in Capacities, SetCapacity(n) PROVE Fifo!SetCapacity(n)
    BY <2>7, <2>8, RefineSetCapacityMove DEF SetCapacity
  <2>9. ASSUME UNCHANGED ringVars PROVE UNCHANGED Fifo!vars
    BY <2>2, <2>9 DEF ringVars, Fifo!vars
  <2> QED
    BY <2>4, <2>6, <2>8, <2>9 DEF RingNext, Fifo!Next
<1>3. RingSpec => []RingOK
  BY RingInvariant, PTL DEF RingOK
<1> QED
  BY <1>1, <1>2, <1>3, PTL DEF RingSpec, FifoSpec, Fifo!Spec

-----------------------------------------------------------------------------
(* The blocks of BufferQueue: where they are, and that each is there once.  *)

\* What is in each place, and the places of C that hold a block.
Cells == [p \in Places |-> Content(p)]
Full(C) == {p \in DOMAIN C : C[p].data # Null}

\* The places on the free lists A, with the block that is there.
FreeOf(A) == [s \in UNION {{k} \X DOMAIN A[k] : k \in Pools} |-> A[s[1]][s[2]]]

\* Every block that M says is in use is in one place of C or of F, and only there.
Owned(C, F, M) ==
    /\ \A p, q \in Full(C) : C[p].data = C[q].data => p = q
    /\ \A p \in Full(C) :
          /\ C[p] \in Buffers
          /\ M[C[p].data] = [home |-> C[p].deleter, size |-> C[p].size]
          /\ C[p].deleter # Heap => C[p].size = PoolSize(C[p].deleter[2])
    /\ \A r, s \in DOMAIN F : F[r] = F[s] => r = s
    /\ \A s \in DOMAIN F :
          /\ F[s] \in Blocks /\ s[1] \in Pools
          /\ M[F[s]] = [home |-> <<"pool", s[1]>>, size |-> PoolSize(s[1])]
    /\ \A p \in Full(C), s \in DOMAIN F : C[p].data # F[s]
    /\ \A b \in Blocks : M[b] # Null =>
          (\E p \in Full(C) : C[p].data = b) \/ (\E s \in DOMAIN F : F[s] = b)

\* C2 is C with v in place r.
Puts(C, r, v, C2) ==
    /\ r \in DOMAIN C /\ DOMAIN C2 = DOMAIN C /\ C2[r] = v
    /\ \A p \in DOMAIN C \ {r} : C2[p] = C[p]

\* The full places of C2 are those of C under other names.
Renames(C, G, C2) ==
    /\ \A p \in Full(C2) : G[p] \in Full(C) /\ C2[p] = C[G[p]]
    /\ \A p, q \in Full(C2) : G[p] = G[q] => p = q
    /\ \A q \in Full(C) : \E p \in Full(C2) : G[p] = q

\* Places under other names own what they owned.
LEMMA Relabel ==
    ASSUME NEW C, NEW F, NEW M, Owned(C, F, M), NEW C2, NEW G, Renames(C, G, C2)
    PROVE  Owned(C2, F, M)
BY DEF Owned, Renames

\* The table of pool sizes holds the powers of two that allocate() computes an index of.
LEMMA PoolSizes ==
    ASSUME NEW k \in Pools
    PROVE  PoolSize(k) \in Nat /\ PoolSize(k) = 2^(k + 4)
<1>1. k \in {0, 1, 2, 3, 4, 5, 6, 7, 8, 9, 10}
  BY BufferQueueAssumption DEF Pools
<1>2. CASE k = 0
  BY <1>2 DEF PoolSize
<1>3. CASE k = 1
  BY <1>3 DEF PoolSize
<1>4. CASE k = 2
  BY <1>4 DEF PoolSize
<1>5. CASE k = 3
  BY <1>5 DEF PoolSize
<1>6. CASE k = 4
  BY <1>6 DEF PoolSize
<1>7. CASE k = 5
  BY <1>7 DEF PoolSize
<1>8. CASE k = 6
  BY <1>8 DEF PoolSize
<1>9. CASE k = 7
  BY <1>9 DEF PoolSize
<1>10. CASE k = 8
  BY <1>10 DEF PoolSize
<1>11. CASE k = 9
  BY <1>11 DEF PoolSize
<1>12. CASE k = 10
  BY <1>12 DEF PoolSize
<1> QED
  BY <1>1, <1>2, <1>3, <1>4, <1>5, <1>6, <1>7, <1>8, <1>9, <1>10, <1>11, <1>12

\* What Cells is, place by place.
CellFacts ==
    /\ \A p : p \in DOMAIN Cells <=>
          \/ \E t \in Threads : p = <<"buf", t>> \/ p = <<"sb", t>>
          \/ \E i \in DOMAIN m_queue : p = <<"queue", i>>
          \/ \E t \in Threads : \E i \in DOMAIN popped[t] : p = <<"popped", <<t, i>>>>
    /\ \A t \in Threads : Cells[<<"buf", t>>] = buf[t] /\ Cells[<<"sb", t>>] = sb[t].storage
    /\ \A i \in DOMAIN m_queue : Cells[<<"queue", i>>] = m_queue[i].storage
    /\ \A t \in Threads : \A i \in DOMAIN popped[t] :
          Cells[<<"popped", <<t, i>>>>] = popped[t][i].storage

\* The places and what is in them, by kind.
LEMMA CellsAre == CellFacts
<1>1. DOMAIN Cells = Places /\ \A p \in Places : Cells[p] = Content(p)
  BY DEF Cells
<1>2. \A p : p \in Places <=>
          \/ \E t \in Threads : p = <<"buf", t>> \/ p = <<"sb", t>>
          \/ \E i \in DOMAIN m_queue : p = <<"queue", i>>
          \/ \E t \in Threads : \E i \in DOMAIN popped[t] : p = <<"popped", <<t, i>>>>
  BY DEF Places
<1>3. \A t : Content(<<"buf", t>>) = buf[t] /\ Content(<<"sb", t>>) = sb[t].storage
  BY DEF Content
<1>4. \A i : Content(<<"queue", i>>) = m_queue[i].storage
  BY DEF Content
<1>5. \A t, i : Content(<<"popped", <<t, i>>>>) = popped[t][i].storage
  BY DEF Content
<1>6. \A t \in Threads : Cells[<<"buf", t>>] = buf[t] /\ Cells[<<"sb", t>>] = sb[t].storage
  BY <1>1, <1>2, <1>3
<1>7. \A i \in DOMAIN m_queue : Cells[<<"queue", i>>] = m_queue[i].storage
  BY <1>1, <1>2, <1>4
<1>8. \A t \in Threads : \A i \in DOMAIN popped[t] :
          Cells[<<"popped", <<t, i>>>>] = popped[t][i].storage
  BY <1>1, <1>2, <1>5
<1> QED
  BY <1>1, <1>2, <1>6, <1>7, <1>8 DEF CellFacts

\* The same after a step.
LEMMA CellsArePrime == CellFacts'
BY CellsAre, PTL

\* The places on free lists are the pairs of a pool and an index into its list.
LEMMA FreePlaces ==
    ASSUME NEW A
    PROVE  /\ \A j, i : <<j, i>> \in DOMAIN FreeOf(A) <=> j \in Pools /\ i \in DOMAIN A[j]
           /\ \A j, i : <<j, i>> \in DOMAIN FreeOf(A) => FreeOf(A)[<<j, i>>] = A[j][i]
           /\ \A s \in DOMAIN FreeOf(A) : s = <<s[1], s[2]>>
BY DEF FreeOf

\* Block b is given back to list k of A, which makes the lists A2.
GivesBack(A, k, b, A2) ==
    /\ A \in [Pools -> Seq(Blocks)] /\ k \in Pools /\ b \in Blocks
    /\ A2[k] = Append(A[k], b)
    /\ \A j \in Pools \ {k} : A2[j] = A[j]

\* The last block of list k of A is taken, which leaves the lists A2.
TakesLast(A, k, A2) ==
    /\ A \in [Pools -> Seq(Blocks)] /\ k \in Pools /\ A[k] # <<>>
    /\ A2[k] = SubSeq(A[k], 1, Len(A[k]) - 1)
    /\ \A j \in Pools \ {k} : A2[j] = A[j]

\* Function F2 is F with the value b at the new place s.
GainsPlace(F, s, b, F2) ==
    /\ s \notin DOMAIN F /\ DOMAIN F2 = DOMAIN F \cup {s} /\ F2[s] = b
    /\ \A r \in DOMAIN F : F2[r] = F[r]

\* Function F2 is F without its place s, where b was.
LosesPlace(F, s, b, F2) ==
    /\ s \in DOMAIN F /\ F[s] = b /\ DOMAIN F2 = DOMAIN F \ {s}
    /\ \A r \in DOMAIN F2 : F2[r] = F[r]

\* A block given back is in a new last place of its free list.
LEMMA FreeAppend ==
    ASSUME NEW A, NEW k, NEW b, NEW A2, GivesBack(A, k, b, A2)
    PROVE  GainsPlace(FreeOf(A), <<k, Len(A[k]) + 1>>, b, FreeOf(A2))
<1> USE DEF GivesBack
<1>1. A[k] \in Seq(Blocks) /\ Len(A[k]) \in Nat
  OBVIOUS
<1>2. /\ DOMAIN A[k] = 1..Len(A[k]) /\ DOMAIN A2[k] = 1..(Len(A[k]) + 1)
      /\ A2[k][Len(A[k]) + 1] = b
      /\ \A i \in 1..Len(A[k]) : A2[k][i] = A[k][i]
  BY <1>1
<1>3. ASSUME NEW j \in Pools, NEW i
      PROVE  i \in DOMAIN A2[j] <=> (i \in DOMAIN A[j] \/ (j = k /\ i = Len(A[k]) + 1))
  BY <1>1, <1>2
<1>4. ASSUME NEW j \in Pools, NEW i \in DOMAIN A[j] PROVE A2[j][i] = A[j][i]
  BY <1>2
<1>5. <<k, Len(A[k]) + 1>> \notin DOMAIN FreeOf(A)
  BY <1>1, <1>2, FreePlaces
<1>6. \A j, i : <<j, i>> \in DOMAIN FreeOf(A2) <=>
                   <<j, i>> \in DOMAIN FreeOf(A) \/ <<j, i>> = <<k, Len(A[k]) + 1>>
  BY <1>3, FreePlaces
<1>7. DOMAIN FreeOf(A2) = DOMAIN FreeOf(A) \cup {<<k, Len(A[k]) + 1>>}
  <2>1. ASSUME NEW s \in DOMAIN FreeOf(A2)
        PROVE  s \in DOMAIN FreeOf(A) \/ s = <<k, Len(A[k]) + 1>>
    <3>1. s = <<s[1], s[2]>>
      BY FreePlaces
    <3> QED
      BY <1>6, <3>1
  <2>2. ASSUME NEW s \in DOMAIN FreeOf(A) PROVE s \in DOMAIN FreeOf(A2)
    <3>1. s = <<s[1], s[2]>>
      BY FreePlaces
    <3> QED
      BY <1>6, <3>1
  <2>3. <<k, Len(A[k]) + 1>> \in DOMAIN FreeOf(A2)
    BY <1>6
  <2> QED
    BY <2>1, <2>2, <2>3
<1>8. ASSUME NEW j, NEW i, <<j, i>> \in DOMAIN FreeOf(A)
      PROVE  FreeOf(A2)[<<j, i>>] = FreeOf(A)[<<j, i>>]
  <2>1. <<j, i>> \in DOMAIN FreeOf(A) /\ <<j, i>> \in DOMAIN FreeOf(A2)
    BY <1>7, <1>8
  <2>2. j \in Pools /\ i \in DOMAIN A[j] /\ i \in DOMAIN A2[j]
    BY <2>1, FreePlaces
  <2>3. A2[j][i] = A[j][i]
    BY <1>4, <2>2
  <2> QED
    BY <2>1, <2>3, FreePlaces
<1>9. \A s \in DOMAIN FreeOf(A) : FreeOf(A2)[s] = FreeOf(A)[s]
  BY <1>8, FreePlaces
<1>10. FreeOf(A2)[<<k, Len(A[k]) + 1>>] = b
  BY <1>2, <1>7, FreePlaces
<1> QED
  BY <1>5, <1>7, <1>9, <1>10 DEF GainsPlace

\* A block that is reused leaves the last place of its free list.
LEMMA FreeButLast ==
    ASSUME NEW A, NEW k, NEW A2, TakesLast(A, k, A2)
    PROVE  LosesPlace(FreeOf(A), <<k, Len(A[k])>>, A[k][Len(A[k])], FreeOf(A2))
<1> USE DEF TakesLast
<1>1. A[k] \in Seq(Blocks) /\ Len(A[k]) \in Nat \ {0}
  OBVIOUS
<1>2. /\ DOMAIN A[k] = 1..Len(A[k]) /\ DOMAIN A2[k] = 1..(Len(A[k]) - 1)
      /\ \A i \in 1..(Len(A[k]) - 1) : A2[k][i] = A[k][i]
  BY <1>1
<1>3. ASSUME NEW j \in Pools, NEW i
      PROVE  i \in DOMAIN A2[j] <=> (i \in DOMAIN A[j] /\ ~(j = k /\ i = Len(A[k])))
  BY <1>1, <1>2
<1>4. ASSUME NEW j \in Pools, NEW i \in DOMAIN A2[j] PROVE A2[j][i] = A[j][i]
  BY <1>2
<1>5. <<k, Len(A[k])>> \in DOMAIN FreeOf(A)
  BY <1>1, <1>2, FreePlaces
<1>6. \A j, i : <<j, i>> \in DOMAIN FreeOf(A2) <=>
                   <<j, i>> \in DOMAIN FreeOf(A) /\ <<j, i>> # <<k, Len(A[k])>>
  BY <1>3, FreePlaces
<1>7. DOMAIN FreeOf(A2) = DOMAIN FreeOf(A) \ {<<k, Len(A[k])>>}
  <2>1. ASSUME NEW s \in DOMAIN FreeOf(A2)
        PROVE  s \in DOMAIN FreeOf(A) /\ s # <<k, Len(A[k])>>
    <3>1. s = <<s[1], s[2]>>
      BY FreePlaces
    <3> QED
      BY <1>6, <3>1
  <2>2. ASSUME NEW s \in DOMAIN FreeOf(A), s # <<k, Len(A[k])>>
        PROVE  s \in DOMAIN FreeOf(A2)
    <3>1. s = <<s[1], s[2]>>
      BY FreePlaces
    <3> QED
      BY <1>6, <2>2, <3>1
  <2> QED
    BY <2>1, <2>2
<1>8. ASSUME NEW j, NEW i, <<j, i>> \in DOMAIN FreeOf(A2)
      PROVE  FreeOf(A2)[<<j, i>>] = FreeOf(A)[<<j, i>>]
  <2>1. <<j, i>> \in DOMAIN FreeOf(A) /\ <<j, i>> \in DOMAIN FreeOf(A2)
    BY <1>7, <1>8
  <2>2. j \in Pools /\ i \in DOMAIN A[j] /\ i \in DOMAIN A2[j]
    BY <2>1, FreePlaces
  <2>3. A2[j][i] = A[j][i]
    BY <1>4, <2>2
  <2> QED
    BY <2>1, <2>3, FreePlaces
<1>9. \A s \in DOMAIN FreeOf(A2) : FreeOf(A2)[s] = FreeOf(A)[s]
  BY <1>8, FreePlaces
<1>10. FreeOf(A)[<<k, Len(A[k])>>] = A[k][Len(A[k])]
  BY <1>5, FreePlaces
<1> QED
  BY <1>5, <1>7, <1>9, <1>10 DEF LosesPlace

\* Dropping what is in place r leaves every other block owned once.
LEMMA Drop ==
    ASSUME TypeOK,
           NEW C, Owned(C, FreeOf(m_allocations), memory),
           NEW r, NEW w, w.data = Null, NEW C2, Puts(C, r, w, C2),
           NEW v \in Buffers, C[r] = v
    PROVE  Owned(C2, FreeOf(FreeLists(v)), MemoryWithout(v))
<1> DEFINE F == FreeOf(m_allocations)
<1>1. /\ \A p \in Full(C2) : p \in Full(C) /\ p # r /\ C2[p] = C[p]
      /\ \A p \in Full(C) : p # r => p \in Full(C2)
  BY DEF Puts, Full
<1>3. \A b \in Blocks : MemoryWithout(v)[b]
                           = IF b \in Deleted(v) THEN Null ELSE memory[b]
  BY DEF MemoryWithout
<1>4. CASE v.data = Null
  <2>1. FreeLists(v) = m_allocations /\ MemoryWithout(v) = memory
    BY <1>4 DEF FreeLists, MemoryWithout, Deleted, TypeOK
  <2>2. r \notin Full(C)
    BY <1>4 DEF Full
  <2>3. Owned(C2, F, memory)
    <3> HIDE DEF F
    <3>1. Owned(C, F, memory)
      BY DEF F
    <3> QED
      BY <1>1, <2>2, <3>1 DEF Owned
  <2> QED
    BY <2>1, <2>3
<1>5. CASE v.data # Null /\ v.deleter = Heap
  <2>1. FreeLists(v) = m_allocations /\ Deleted(v) = {v.data}
    BY <1>5 DEF FreeLists, Deleted
  <2>2. r \in Full(C) /\ C[r] = v
    BY <1>5 DEF Full, Puts
  <2>3. Owned(C2, F, MemoryWithout(v))
    <3> DEFINE M == MemoryWithout(v)
    <3> HIDE DEF F, M
    <3>1. Owned(C, F, memory)
      BY DEF F
    <3>2. \A b \in Blocks : M[b] = IF b = v.data THEN Null ELSE memory[b]
      BY <1>3, <2>1 DEF M
    <3>3. \A p \in Full(C2) : C2[p].data # v.data /\ C2[p].data \in Blocks
      <4>1. \A p \in Full(C2) : C2[p] \in Buffers /\ C2[p].data # Null
        BY <1>1, <3>1 DEF Owned, Full
      <4>2. \A p \in Full(C2) : C2[p].data # v.data
        BY <1>1, <2>2, <3>1 DEF Owned
      <4> QED
        BY <4>1, <4>2 DEF Buffers
    <3>4. ASSUME NEW s \in DOMAIN F PROVE F[s] # v.data /\ F[s] \in Blocks
      <4>1. /\ \A p \in Full(C), x \in DOMAIN F : C[p].data # F[x]
            /\ F[s] \in Blocks
        BY <3>1 DEF Owned
      <4> QED
        BY <2>2, <4>1
    <3>5. \A b \in Blocks : M[b] # Null =>
              (\E p \in Full(C2) : C2[p].data = b) \/ (\E s \in DOMAIN F : F[s] = b)
      BY <1>1, <2>2, <3>1, <3>2 DEF Owned
    <3>6. \A p \in Full(C2) : /\ M[C2[p].data] = memory[C2[p].data]
                              /\ p \in Full(C) /\ C2[p] = C[p]
      BY <1>1, <3>2, <3>3
    <3>7. \A s \in DOMAIN F : M[F[s]] = memory[F[s]]
      BY <3>2, <3>4
    <3>8. Owned(C2, F, M)
      BY <3>1, <3>5, <3>6, <3>7 DEF Owned
    <3> QED
      BY <3>8 DEF M
  <2> QED
    BY <2>1, <2>3
<1>6. CASE v.data # Null /\ v.deleter # Heap
  <2>1. PICK k \in Pools : v.deleter = <<"pool", k>>
    BY <1>6 DEF Buffers, Homes
  <2>2. /\ v.data \in Blocks /\ v.deleter[2] = k
        /\ FreeLists(v) = [m_allocations EXCEPT ![k] = Append(@, v.data)]
        /\ Deleted(v) = {}
    BY <1>6, <2>1 DEF Buffers, FreeLists, Deleted
  <2>3. MemoryWithout(v) = memory
    BY <2>2 DEF MemoryWithout, TypeOK
  <2>4. r \in Full(C) /\ C[r] = v
    BY <1>6 DEF Full, Puts
  <2> DEFINE A2 == FreeLists(v)
  <2> DEFINE F2 == FreeOf(A2)
  <2> DEFINE s0 == <<k, Len(m_allocations[k]) + 1>>
  <2>6. m_allocations \in [Pools -> Seq(Blocks)]
    BY DEF TypeOK
  <2>7. GainsPlace(F, s0, v.data, F2)
    <3>1. GivesBack(m_allocations, k, v.data, A2)
      BY <2>2, <2>6 DEF GivesBack
    <3> HIDE DEF A2
    <3> QED
      BY <3>1, FreeAppend
  <2>8. Owned(C2, F2, memory)
    <3>0. s0[1] = k
      OBVIOUS
    <3> HIDE DEF F, F2, s0
    <3>1. Owned(C, F, memory)
      BY DEF F
    <3>2. memory[v.data] = [home |-> <<"pool", k>>, size |-> PoolSize(k)]
      <4>1. /\ memory[C[r].data] = [home |-> C[r].deleter, size |-> C[r].size]
            /\ C[r].deleter # Heap => C[r].size = PoolSize(C[r].deleter[2])
        BY <2>4, <3>1 DEF Owned
      <4> QED
        BY <1>6, <2>1, <2>2, <2>4, <4>1
    <3>3. \A p \in Full(C2) : C2[p].data # v.data
      BY <1>1, <2>4, <3>1 DEF Owned
    <3>4. \A s \in DOMAIN F : F[s] # v.data
      BY <2>4, <3>1 DEF Owned
    <3>5. \A x, y \in DOMAIN F2 : F2[x] = F2[y] => x = y
      BY <2>7, <3>1, <3>4 DEF Owned, GainsPlace
    <3>6. \A s \in DOMAIN F2 :
             /\ F2[s] \in Blocks /\ s[1] \in Pools
             /\ memory[F2[s]] = [home |-> <<"pool", s[1]>>, size |-> PoolSize(s[1])]
      BY <2>2, <2>7, <3>0, <3>1, <3>2 DEF Owned, GainsPlace
    <3>7. \A p \in Full(C2), s \in DOMAIN F2 : C2[p].data # F2[s]
      BY <1>1, <2>7, <3>1, <3>3 DEF Owned, GainsPlace
    <3>8. \A b \in Blocks : memory[b] # Null =>
             (\E p \in Full(C2) : C2[p].data = b) \/ (\E s \in DOMAIN F2 : F2[s] = b)
      BY <1>1, <2>4, <2>7, <3>1 DEF Owned, GainsPlace
    <3> QED
      BY <1>1, <3>1, <3>5, <3>6, <3>7, <3>8 DEF Owned
  <2> QED
    BY <2>3, <2>8
<1> QED
  BY <1>4, <1>5, <1>6

\* A block that has an owner is in use.
LEMMA OwnedInUse ==
    ASSUME NEW C, NEW F, NEW M, Owned(C, F, M)
    PROVE  /\ \A p \in Full(C) : C[p].data \in Blocks /\ M[C[p].data] # Null
           /\ \A s \in DOMAIN F : F[s] \in Blocks /\ M[F[s]] # Null
<1>1. \A h \in Homes, n \in Nat : Null # [home |-> h, size |-> n]
  BY BufferQueueAssumption DEF Homes, Heap, Pools
<1>2. ASSUME NEW p \in Full(C) PROVE C[p].data \in Blocks /\ M[C[p].data] # Null
  <2>1. C[p] \in Buffers /\ C[p].data # Null
    BY DEF Owned, Full
  <2>2. C[p].data \in Blocks /\ C[p].deleter \in Homes /\ C[p].size \in Nat
    BY <2>1 DEF Buffers
  <2>3. M[C[p].data] = [home |-> C[p].deleter, size |-> C[p].size]
    BY DEF Owned
  <2>4. M[C[p].data] # Null
    BY <1>1, <2>2, <2>3
  <2> QED
    BY <2>2, <2>4
<1>3. ASSUME NEW s \in DOMAIN F PROVE F[s] \in Blocks /\ M[F[s]] # Null
  <2>1. /\ F[s] \in Blocks /\ s[1] \in Pools
        /\ M[F[s]] = [home |-> <<"pool", s[1]>>, size |-> PoolSize(s[1])]
    BY DEF Owned
  <2>2. PoolSize(s[1]) \in Nat /\ <<"pool", s[1]>> \in Homes
    BY <2>1, PoolSizes DEF Homes
  <2>3. M[F[s]] # Null
    BY <1>1, <2>1, <2>2
  <2> QED
    BY <2>1, <2>3
<1> QED
  BY <1>2, <1>3

\* The block of v is not in use in M; M2 is M with it in use, as v describes it.
Fresh(M, v, M2) ==
    /\ v \in Buffers /\ v.data \in Blocks /\ M[v.data] = Null
    /\ v.deleter # Heap => v.size = PoolSize(v.deleter[2])
    /\ M2[v.data] = [home |-> v.deleter, size |-> v.size]
    /\ \A b \in Blocks \ {v.data} : M2[b] = M[b]

\* A block that was not in use is put in a place that held none.
LEMMA PutNew ==
    ASSUME NEW C, NEW F, NEW M, Owned(C, F, M),
           NEW v, NEW M2, Fresh(M, v, M2),
           NEW r, NEW C2, Puts(C, r, v, C2), C[r].data = Null
    PROVE  Owned(C2, F, M2)
<1> USE DEF Fresh
<1>1. /\ r \in Full(C2) /\ C2[r] = v
      /\ \A p \in Full(C2) : p # r => p \in Full(C) /\ C2[p] = C[p]
      /\ \A p \in Full(C) : p # r /\ p \in Full(C2)
  BY BufferQueueAssumption DEF Puts, Full
<1>2. \A p \in Full(C) : C[p].data \in Blocks /\ C[p].data # v.data
  BY OwnedInUse
<1>3. \A s \in DOMAIN F : F[s] \in Blocks /\ F[s] # v.data
  BY OwnedInUse
<1> QED
  BY <1>1, <1>2, <1>3 DEF Owned

\* The last block of a free list is put in a place that held none.
LEMMA Reuse ==
    ASSUME NEW C, NEW F, NEW M, Owned(C, F, M),
           NEW k \in Pools, NEW i, NEW b, NEW F2, LosesPlace(F, <<k, i>>, b, F2),
           NEW v \in Buffers, v.data = b, v.data # Null, v.deleter = <<"pool", k>>,
           v.size = PoolSize(k),
           NEW r, NEW C2, Puts(C, r, v, C2), C[r].data = Null
    PROVE  Owned(C2, F2, M)
<1>1. /\ r \in Full(C2) /\ C2[r] = v
      /\ \A p \in Full(C2) : p # r => p \in Full(C) /\ C2[p] = C[p]
      /\ \A p \in Full(C) : p # r /\ p \in Full(C2)
  BY DEF Puts, Full
<1> DEFINE s0 == <<k, i>>
<1>2. s0[1] = k /\ v.deleter[2] = k
  OBVIOUS
<1>3. LosesPlace(F, s0, b, F2)
  OBVIOUS
<1> HIDE DEF s0
<1>4. M[b] = [home |-> v.deleter, size |-> v.size]
  BY <1>2, <1>3 DEF Owned, LosesPlace
<1> QED
  BY <1>1, <1>2, <1>3, <1>4 DEF Owned, LosesPlace

\* A buffer moved from place r to place q, which held nothing, is still owned once.
LEMMA Move ==
    ASSUME NEW C, NEW F, NEW M, Owned(C, F, M), NEW r \in DOMAIN C, NEW q \in DOMAIN C,
           r # q, C[q].data = Null, NEW C2, DOMAIN C2 = DOMAIN C,
           C2[q] = C[r], C2[r].data = Null, \A p \in DOMAIN C \ {r, q} : C2[p] = C[p]
    PROVE  Owned(C2, F, M)
<1> DEFINE G == [p \in Full(C2) |-> IF p = q THEN r ELSE p]
<1>1. Renames(C, G, C2)
  BY DEF Renames, Full
<1> HIDE DEF G
<1> QED
  BY <1>1, Relabel

\* A step of a thread on its own buffer and sized_buffer leaves every other place alone.
OwnPlaces(t) ==
    /\ <<"buf", t>> \in DOMAIN Cells /\ <<"sb", t>> \in DOMAIN Cells
    /\ <<"buf", t>> # <<"sb", t>>
    /\ DOMAIN Cells' = DOMAIN Cells
    /\ Cells[<<"buf", t>>] = buf[t] /\ Cells'[<<"buf", t>>] = buf'[t]
    /\ Cells[<<"sb", t>>] = sb[t].storage /\ Cells'[<<"sb", t>>] = sb'[t].storage
    /\ \A p \in DOMAIN Cells \ {<<"buf", t>>, <<"sb", t>>} : Cells'[p] = Cells[p]

\* It does so when the queue, the vectors and the other threads' objects are as before.
LEMMA OwnObjects ==
    ASSUME NEW t \in Threads, UNCHANGED <<m_queue, popped>>,
           \A u \in Threads \ {t} : buf'[u] = buf[u] /\ sb'[u] = sb[u]
    PROVE  OwnPlaces(t)
<1>1. DOMAIN Cells' = DOMAIN Cells
  BY CellsAre, CellsArePrime DEF CellFacts
<1>2. /\ <<"buf", t>> \in DOMAIN Cells /\ <<"sb", t>> \in DOMAIN Cells
      /\ <<"buf", t>> # <<"sb", t>>
      /\ Cells[<<"buf", t>>] = buf[t] /\ Cells'[<<"buf", t>>] = buf'[t]
      /\ Cells[<<"sb", t>>] = sb[t].storage /\ Cells'[<<"sb", t>>] = sb'[t].storage
  BY CellsAre, CellsArePrime DEF CellFacts
<1>3. ASSUME NEW p \in DOMAIN Cells, p # <<"buf", t>>, p # <<"sb", t>>
      PROVE  Cells'[p] = Cells[p]
  <2>1. CASE \E u \in Threads : p = <<"buf", u>> \/ p = <<"sb", u>>
    <3>1. PICK u \in Threads : p = <<"buf", u>> \/ p = <<"sb", u>>
      BY <2>1
    <3>2. u # t
      BY <1>3, <3>1
    <3>3. /\ Cells[<<"buf", u>>] = buf[u] /\ Cells'[<<"buf", u>>] = buf'[u]
          /\ Cells[<<"sb", u>>] = sb[u].storage /\ Cells'[<<"sb", u>>] = sb'[u].storage
      BY CellsAre, CellsArePrime DEF CellFacts
    <3> QED
      BY <3>1, <3>2, <3>3
  <2>2. CASE \E i \in DOMAIN m_queue : p = <<"queue", i>>
    BY <2>2, CellsAre, CellsArePrime DEF CellFacts
  <2>3. CASE \E u \in Threads : \E i \in DOMAIN popped[u] : p = <<"popped", <<u, i>>>>
    BY <2>3, CellsAre, CellsArePrime DEF CellFacts
  <2> QED
    BY <2>1, <2>2, <2>3, CellsAre DEF CellFacts
<1> QED
  BY <1>1, <1>2, <1>3 DEF OwnPlaces

-----------------------------------------------------------------------------
(* Types. *)

\* An object without memory is a buffer, or a sized_buffer.
LEMMA EmptyTypes ==
    /\ NoBuffer \in Buffers /\ NoBuffer.data = Null
    /\ Empty \in SizedBuffers /\ Empty.storage = NoBuffer
BY DEF NoBuffer, Buffers, Empty, SizedBuffers, Homes

\* reset() leaves free lists of blocks and a record for each block.
LEMMA DropTypes ==
    ASSUME TypeOK, NEW v \in Buffers
    PROVE  /\ FreeLists(v) \in [Pools -> Seq(Blocks)]
           /\ MemoryWithout(v) \in [Blocks -> [home : Homes, size : Nat] \cup {Null}]
           /\ \A b \in Blocks : memory[b] = Null => MemoryWithout(v)[b] = Null
<1>1. MemoryWithout(v) \in [Blocks -> [home : Homes, size : Nat] \cup {Null}]
  BY DEF MemoryWithout, TypeOK
<1>2. \A b \in Blocks : memory[b] = Null => MemoryWithout(v)[b] = Null
  BY DEF MemoryWithout
<1>3. FreeLists(v) \in [Pools -> Seq(Blocks)]
  <2>1. CASE v.data = Null \/ v.deleter = Heap
    BY <2>1 DEF FreeLists, TypeOK
  <2>2. CASE v.data # Null /\ v.deleter # Heap
    <3>1. PICK k \in Pools : v.deleter = <<"pool", k>>
      BY <2>2 DEF Buffers, Homes
    <3>2. /\ v.data \in Blocks
          /\ FreeLists(v) = [m_allocations EXCEPT ![k] = Append(@, v.data)]
      BY <2>2, <3>1 DEF Buffers, FreeLists
    <3> QED
      BY <3>2 DEF TypeOK
  <2> QED
    BY <2>1, <2>2
<1> QED
  BY <1>1, <1>2, <1>3

\* new std::byte[n] gives a block of the heap its record.
LEMMA NewTypes ==
    ASSUME TypeOK, NEW v \in Buffers, NEW b \in Blocks, NEW n \in Nat
    PROVE  NewMemory(b, n, v) \in [Blocks -> [home : Homes, size : Nat] \cup {Null}]
<1>1. [home |-> Heap, size |-> n] \in [home : Homes, size : Nat]
  BY DEF Homes
<1> QED
  BY <1>1, DropTypes DEF NewMemory

\* What a block that is new on the heap, or comes from pool k, looks like to its owner.
LEMMA BlockTypes ==
    ASSUME NEW b \in Blocks
    PROVE  /\ \A n \in Nat : [data |-> b, size |-> n, deleter |-> Heap] \in Buffers
           /\ \A k \in Pools :
                 /\ [data |-> b, size |-> PoolSize(k), deleter |-> <<"pool", k>>]
                       \in Buffers
                 /\ [home |-> <<"pool", k>>, size |-> PoolSize(k)]
                       \in [home : Homes, size : Nat]
<1>1. \A n \in Nat : [data |-> b, size |-> n, deleter |-> Heap] \in Buffers
  BY DEF Buffers, Homes
<1>2. ASSUME NEW k \in Pools
      PROVE  PoolSize(k) \in Nat /\ <<"pool", k>> \in Homes
  BY PoolSizes DEF Homes
<1>3. ASSUME NEW k \in Pools
      PROVE  /\ [data |-> b, size |-> PoolSize(k), deleter |-> <<"pool", k>>]
                       \in Buffers
             /\ [home |-> <<"pool", k>>, size |-> PoolSize(k)]
                       \in [home : Homes, size : Nat]
  BY <1>2 DEF Buffers
<1> QED
  BY <1>1, <1>3

\* Grow() keeps the types of what it changes.
LEMMA GrowTypes ==
    ASSUME TypeOK, NEW t \in Threads,
           NEW n \in Nat, NEW s \in Nat, Grow(t, n, s)
    PROVE  /\ m_allocations' \in [Pools -> Seq(Blocks)]
           /\ memory' \in [Blocks -> [home : Homes, size : Nat] \cup {Null}]
           /\ sb' \in [Threads -> SizedBuffers]
<1>1. sb[t].storage \in Buffers
  BY DEF TypeOK, SizedBuffers
<1>2. PICK b \in Blocks :
          /\ m_allocations' = FreeLists(sb[t].storage)
          /\ memory' = NewMemory(b, n, sb[t].storage)
          /\ sb' = [sb EXCEPT ![t] =
                       [size |-> s, storage |-> [data |-> b, size |-> n, deleter |-> Heap]]]
  BY DEF Grow
<1>3. [data |-> b, size |-> n, deleter |-> Heap] \in Buffers
  BY BlockTypes
<1>4. [size |-> s, storage |-> [data |-> b, size |-> n, deleter |-> Heap]]
         \in SizedBuffers
  BY <1>3 DEF SizedBuffers
<1>5. sb' \in [Threads -> SizedBuffers]
  BY <1>2, <1>4 DEF TypeOK
<1> QED
  BY <1>1, <1>2, <1>5, DropTypes, NewTypes

\* A notification keeps the type of pc.
LEMMA NotifyTypes ==
    ASSUME TypeOK, NotifyOne
    PROVE  pc' \in [Threads -> {"idle", "waiting", "notified"}]
BY DEF TypeOK, NotifyOne

\* Every operation of a thread keeps the types.
LEMMA StepTypes ==
    ASSUME TypeOK, NEW t \in Threads, Step(t)
    PROVE  TypeOK'
<1>1. buf[t] \in Buffers /\ sb[t] \in SizedBuffers /\ sb[t].storage \in Buffers
  BY DEF TypeOK, SizedBuffers
<1>2. sb[t].size \in Nat
  BY DEF TypeOK, SizedBuffers
<1>3. Sizes \subseteq Nat
  BY BufferQueueAssumption
<1>4. ASSUME NEW n \in Sizes, Allocate(t, n) PROVE TypeOK'
  <2>1. PICK k \in Pools, b \in Blocks :
          /\ buf' = [buf EXCEPT ![t] = [data |-> b, size |-> PoolSize(k),
                                        deleter |-> <<"pool", k>>]]
          /\ \/ m_allocations' = [m_allocations EXCEPT
                    ![k] = SubSeq(m_allocations[k], 1, Len(m_allocations[k]) - 1)]
             \/ UNCHANGED m_allocations
          /\ \/ memory' = [memory EXCEPT ![b] = [home |-> <<"pool", k>>,
                                                 size |-> PoolSize(k)]]
             \/ UNCHANGED memory
    <3>1. PICK k \in Pools :
            LET list == m_allocations[k]
                Got(b) == buf' = [buf EXCEPT ![t] = [data |-> b, size |-> PoolSize(k),
                                                     deleter |-> <<"pool", k>>]]
            IN  \/ /\ list # <<>>
                   /\ Got(list[Len(list)])
                   /\ m_allocations' =
                         [m_allocations EXCEPT ![k] = SubSeq(list, 1, Len(list) - 1)]
                   /\ UNCHANGED memory
                \/ /\ \E b \in Blocks :
                         /\ Got(b)
                         /\ memory' = [memory EXCEPT ![b] = [home |-> <<"pool", k>>,
                                                             size |-> PoolSize(k)]]
                   /\ UNCHANGED m_allocations
      BY <1>4 DEF Allocate
    <3>2. ASSUME m_allocations[k] # <<>>
          PROVE  m_allocations[k][Len(m_allocations[k])] \in Blocks
      BY <3>2 DEF TypeOK
    <3> QED
      BY <3>1, <3>2
  <2>2. buf' \in [Threads -> Buffers]
    BY <2>1, BlockTypes DEF TypeOK
  <2>3. SubSeq(m_allocations[k], 1, Len(m_allocations[k]) - 1) \in Seq(Blocks)
    BY DEF TypeOK
  <2>4. m_allocations' \in [Pools -> Seq(Blocks)]
    BY <2>1, <2>3 DEF TypeOK
  <2>5. memory' \in [Blocks -> [home : Homes, size : Nat] \cup {Null}]
    <3>1. [home |-> <<"pool", k>>, size |-> PoolSize(k)] \in [home : Homes, size : Nat]
      BY BlockTypes
    <3> QED
      BY <2>1, <3>1 DEF TypeOK
  <2>6. asked' \in [Threads -> Nat]
    BY <1>3, <1>4 DEF Allocate, TypeOK
  <2> QED
    BY <1>4, <2>2, <2>4, <2>5, <2>6 DEF Allocate, TypeOK
<1>5. ASSUME NEW n \in Sizes, Adopt(t, n) PROVE TypeOK'
  <2>1. /\ m_allocations' \in [Pools -> Seq(Blocks)]
        /\ memory' \in [Blocks -> [home : Homes, size : Nat] \cup {Null}]
    BY <1>1, <1>5, DropTypes DEF Adopt
  <2>2. [size |-> n, storage |-> buf[t]] \in SizedBuffers
    BY <1>1, <1>3 DEF SizedBuffers
  <2>3. sb' \in [Threads -> SizedBuffers]
    BY <1>5, <2>2 DEF Adopt, TypeOK
  <2>4. buf' \in [Threads -> Buffers]
    BY <1>5, EmptyTypes DEF Adopt, TypeOK, MovedFrom
  <2> QED
    BY <1>5, <2>1, <2>3, <2>4 DEF Adopt, TypeOK
<1>6. ASSUME NEW n \in Sizes, Resize(t, n) PROVE TypeOK'
  <2>1. CASE n > sb[t].storage.size
    <3>1. Grow(t, n, n)
      BY <1>6, <2>1 DEF Resize
    <3>2. /\ m_allocations' \in [Pools -> Seq(Blocks)]
          /\ memory' \in [Blocks -> [home : Homes, size : Nat] \cup {Null}]
          /\ sb' \in [Threads -> SizedBuffers]
      BY <1>3, <3>1, GrowTypes
    <3> QED
      BY <1>6, <3>2 DEF Resize, TypeOK
  <2>2. CASE ~(n > sb[t].storage.size)
    <3>1. sb' = [sb EXCEPT ![t].size = n] /\ UNCHANGED <<memory, m_allocations>>
      BY <1>6, <2>2 DEF Resize
    <3>2. sb' \in [Threads -> SizedBuffers]
      BY <1>3, <3>1 DEF SizedBuffers, TypeOK
    <3> QED
      BY <1>6, <3>1, <3>2 DEF Resize, TypeOK
  <2> QED
    BY <2>1, <2>2
<1>7. ASSUME NEW n \in Sizes, Reserve(t, n) PROVE TypeOK'
  <2>1. Grow(t, n, sb[t].size)
    BY <1>7 DEF Reserve
  <2>2. /\ m_allocations' \in [Pools -> Seq(Blocks)]
        /\ memory' \in [Blocks -> [home : Homes, size : Nat] \cup {Null}]
        /\ sb' \in [Threads -> SizedBuffers]
    BY <1>2, <1>3, <2>1, GrowTypes
  <2> QED
    BY <1>7, <2>2 DEF Reserve, TypeOK
<1>8. CASE Reset(t)
  <2>1. /\ m_allocations' \in [Pools -> Seq(Blocks)]
        /\ memory' \in [Blocks -> [home : Homes, size : Nat] \cup {Null}]
    BY <1>1, <1>8, DropTypes DEF Reset
  <2>2. buf' \in [Threads -> Buffers]
    BY <1>8, EmptyTypes DEF Reset, TypeOK
  <2> QED
    BY <1>8, <2>1, <2>2 DEF Reset, TypeOK
<1>9. CASE Clear(t)
  <2>1. /\ m_allocations' \in [Pools -> Seq(Blocks)]
        /\ memory' \in [Blocks -> [home : Homes, size : Nat] \cup {Null}]
    BY <1>1, <1>9, DropTypes DEF Clear
  <2>2. sb' \in [Threads -> SizedBuffers]
    BY <1>9, EmptyTypes DEF Clear, TypeOK
  <2> QED
    BY <1>9, <2>1, <2>2 DEF Clear, TypeOK
<1>10. CASE ToBuffer(t)
  <2>1. sb' \in [Threads -> SizedBuffers] /\ asked' \in [Threads -> Nat]
    BY <1>2, <1>10, EmptyTypes DEF ToBuffer, TypeOK
  <2>2. CASE sb[t].size = sb[t].storage.size
    <3>1. buf' \in [Threads -> Buffers]
      BY <1>1, <1>10, <2>2 DEF ToBuffer, TypeOK
    <3> QED
      BY <1>10, <2>1, <2>2, <3>1 DEF ToBuffer, TypeOK
  <2>3. CASE sb[t].size # sb[t].storage.size
    <3>1. PICK b \in Blocks :
            /\ memory' = NewMemory(b, sb[t].size, sb[t].storage)
            /\ buf' = [buf EXCEPT ![t] = [data |-> b, size |-> sb[t].size,
                                          deleter |-> Heap]]
      BY <1>10, <2>3 DEF ToBuffer
    <3>2. buf' \in [Threads -> Buffers]
      BY <1>2, <3>1, BlockTypes DEF TypeOK
    <3>3. memory' \in [Blocks -> [home : Homes, size : Nat] \cup {Null}]
      BY <1>1, <1>2, <3>1, NewTypes
    <3>4. m_allocations' \in [Pools -> Seq(Blocks)]
      BY <1>1, <1>10, <2>3, DropTypes DEF ToBuffer
    <3> QED
      BY <1>10, <2>1, <3>2, <3>3, <3>4 DEF ToBuffer, TypeOK
  <2> QED
    BY <2>2, <2>3
<1>11. CASE Push(t)
  <2>1. sb' \in [Threads -> SizedBuffers]
    BY <1>11, EmptyTypes DEF Push, TypeOK, SizedBuffers, MovedFrom
  <2>2. m_queue' \in Seq(SizedBuffers)
    BY <1>1, <1>11 DEF Push, TypeOK
  <2> QED
    BY <1>11, <2>1, <2>2, NotifyTypes DEF Push, TypeOK
<1>12. CASE WakeUp(t)
  BY <1>12, NotifyTypes DEF WakeUp, TypeOK
<1>13. CASE Pop(t)
  BY <1>13 DEF Pop, TakeAll, TypeOK
<1>14. CASE PopWaits(t)
  BY <1>14 DEF PopWaits, TypeOK
<1>15. CASE SpuriousWake(t)
  BY <1>15 DEF SpuriousWake, TypeOK
<1>16. CASE PopReturns(t)
  BY <1>16 DEF PopReturns, TakeAll, TypeOK
<1>17. CASE TakeElement(t)
  <2>1. /\ m_allocations' \in [Pools -> Seq(Blocks)]
        /\ memory' \in [Blocks -> [home : Homes, size : Nat] \cup {Null}]
    BY <1>1, <1>17, DropTypes DEF TakeElement
  <2>2. Head(popped[t]) \in SizedBuffers /\ Tail(popped[t]) \in Seq(SizedBuffers)
    BY <1>17 DEF TakeElement, TypeOK
  <2> QED
    BY <1>17, <2>1, <2>2 DEF TakeElement, TypeOK
<1> QED
  BY <1>4, <1>5, <1>6, <1>7, <1>8, <1>9, <1>10, <1>11, <1>12, <1>13, <1>14, <1>15, <1>16, <1>17
     DEF Step

-----------------------------------------------------------------------------
(* Sizes. *)

\* The size of s is backed by its storage.
Fits(s) == s.size <= s.storage.size

\* SizeFits, place by place.
FitsEverywhere ==
    /\ \A t \in Threads \ moved : Fits(sb[t])
    /\ \A i \in DOMAIN m_queue : Fits(m_queue[i])
    /\ \A t \in Threads : \A i \in DOMAIN popped[t] : Fits(popped[t][i])
    /\ \A t \in Threads : asked[t] <= buf[t].size

\* A sized_buffer that was moved from has no storage, so it is not pushed as it is.
MovedEmpty == \A t \in moved : sb[t].storage.data = Null

\* The inductive strengthening of SizeFits.
SizeInv == FitsEverywhere /\ MovedEmpty

\* SizeFits says of the set of sized_buffers what FitsEverywhere says of the places.
LEMMA SizesAre == FitsEverywhere => SizeFits
BY DEF FitsEverywhere, Fits, SizeFits, Live

\* Nothing has a size at the start.
LEMMA SizeInit == Init => SizeInv
BY DEF Init, SizeInv, FitsEverywhere, Fits, MovedEmpty, NoBuffer, Empty

\* The block that a pool gives is as large as what the thread has asked for.
LEMMA AllocateSize ==
    ASSUME TypeOK, NEW t \in Threads, NEW n \in Sizes,
           Allocate(t, n)
    PROVE  \E v : n <= v.size /\ buf' = [buf EXCEPT ![t] = v]
<1>1. PICK k \in Pools :
        /\ Index(n, k)
        /\ \E b : buf' = [buf EXCEPT ![t] = [data |-> b, size |-> PoolSize(k),
                                             deleter |-> <<"pool", k>>]]
  BY DEF Allocate
<1>2. PICK b : buf' = [buf EXCEPT ![t] = [data |-> b, size |-> PoolSize(k),
                                          deleter |-> <<"pool", k>>]]
  BY <1>1
<1>3. n <= PoolSize(k)
  BY <1>1, PoolSizes DEF Index
<1> DEFINE v == [data |-> b, size |-> PoolSize(k), deleter |-> <<"pool", k>>]
<1>4. n <= v.size /\ buf' = [buf EXCEPT ![t] = v]
  BY <1>2, <1>3
<1> QED
  BY <1>4

\* No operation leaves a size that storage does not back.
LEMMA StepSizes ==
    ASSUME TypeOK, SizeInv, NEW t \in Threads, Step(t)
    PROVE  SizeInv'
<1> USE DEF SizeInv, FitsEverywhere, Fits, MovedEmpty
<1>0. /\ t \in DOMAIN buf /\ t \in DOMAIN sb /\ t \in DOMAIN asked /\ t \in DOMAIN popped
      /\ sb[t].size \in Nat /\ sb[t].storage.size \in Nat /\ buf[t].size \in Nat
      /\ Sizes \subseteq Nat /\ moved \subseteq Threads
      /\ \A u \in Threads : sb[u].size \in Nat /\ sb[u].storage.size \in Nat
  BY BufferQueueAssumption DEF TypeOK, Buffers, SizedBuffers
<1>1. /\ \A u \in Threads : asked[u] \in Nat
      /\ NoBuffer.size = 0 /\ NoBuffer.data = Null
      /\ Empty.size = 0 /\ Empty.storage = NoBuffer
  BY DEF NoBuffer, Empty, TypeOK
<1>4. ASSUME NEW n \in Sizes, Allocate(t, n) PROVE SizeInv'
  <2>1. PICK v : n <= v.size /\ buf' = [buf EXCEPT ![t] = v]
    BY <1>4, AllocateSize
  <2>2. \A u \in Threads : asked'[u] <= buf'[u].size
    BY <1>0, <1>4, <2>1 DEF Allocate, TypeOK
  <2> QED
    BY <1>4, <2>2 DEF Allocate
<1>5. ASSUME NEW n \in Sizes, Adopt(t, n) PROVE SizeInv'
  <2>1. n <= buf[t].size
    BY <1>0, <1>1, <1>5 DEF Adopt
  <2>2. sb' = [sb EXCEPT ![t] = [size |-> n, storage |-> buf[t]]]
    BY <1>5 DEF Adopt
  <2>3. \A u \in Threads \ moved' : sb'[u].size <= sb'[u].storage.size
    BY <1>0, <1>5, <2>1, <2>2 DEF Adopt, TypeOK
  <2>4. \A u \in moved' : sb'[u].storage.data = Null
    BY <1>0, <1>5, <2>2 DEF Adopt, TypeOK
  <2>5. \A u \in Threads : asked'[u] <= buf'[u].size
    BY <1>0, <1>1, <1>5 DEF Adopt, TypeOK, MovedFrom
  <2> QED
    BY <1>5, <2>3, <2>4, <2>5 DEF Adopt
<1>6. ASSUME NEW n \in Sizes, Resize(t, n) PROVE SizeInv'
  <2>1. \E v : n <= v.size /\ sb' = [sb EXCEPT ![t] = [size |-> n, storage |-> v]]
    <3>1. CASE n > sb[t].storage.size
      <4>1. PICK b : sb' = [sb EXCEPT ![t] =
                  [size |-> n, storage |-> [data |-> b, size |-> n, deleter |-> Heap]]]
        BY <1>6, <3>1 DEF Resize, Grow
      <4> DEFINE v == [data |-> b, size |-> n, deleter |-> Heap]
      <4>2. v.size = n /\ n \in Nat
        BY <1>0
      <4>3. n <= v.size
        BY <4>2
      <4>4. sb' = [sb EXCEPT ![t] = [size |-> n, storage |-> v]]
        BY <4>1
      <4> QED
        BY <4>3, <4>4
    <3>2. CASE ~(n > sb[t].storage.size)
      <4>1. sb' = [sb EXCEPT ![t].size = n]
        BY <1>6, <3>2 DEF Resize
      <4>2. [sb[t] EXCEPT !.size = n] = [size |-> n, storage |-> sb[t].storage]
        BY DEF TypeOK, SizedBuffers
      <4>3. sb' = [sb EXCEPT ![t] = [size |-> n, storage |-> sb[t].storage]]
        BY <4>1, <4>2
      <4>4. n <= sb[t].storage.size
        BY <1>0, <3>2
      <4> QED
        BY <4>3, <4>4
    <3> QED
      BY <3>1, <3>2
  <2>2. PICK v : n <= v.size /\ sb' = [sb EXCEPT ![t] = [size |-> n, storage |-> v]]
    BY <2>1
  <2>3. \A u \in Threads \ moved' : sb'[u].size <= sb'[u].storage.size
    BY <1>0, <1>6, <2>2 DEF Resize, TypeOK
  <2>4. \A u \in moved' : sb'[u].storage.data = Null
    BY <1>0, <1>6, <2>2 DEF Resize, TypeOK
  <2> QED
    BY <1>6, <2>3, <2>4 DEF Resize
<1>7. ASSUME NEW n \in Sizes, Reserve(t, n) PROVE SizeInv'
  <2>1. PICK b : sb' = [sb EXCEPT ![t] =
          [size |-> sb[t].size, storage |-> [data |-> b, size |-> n, deleter |-> Heap]]]
    BY <1>7 DEF Reserve, Grow
  <2>2. t \notin moved /\ sb[t].size <= n
    <3>1. t \notin moved /\ n > sb[t].storage.size /\ n \in Nat
      BY <1>0, <1>7 DEF Reserve
    <3>2. sb[t].size <= sb[t].storage.size
      BY <3>1
    <3> QED
      BY <1>0, <3>1, <3>2
  <2>3. \A u \in Threads \ moved : sb'[u].size <= sb'[u].storage.size
    BY <1>0, <2>1, <2>2 DEF TypeOK
  <2>4. \A u \in moved : sb'[u].storage.data = Null
    BY <1>0, <2>1, <2>2 DEF TypeOK
  <2> QED
    BY <1>7, <2>3, <2>4 DEF Reserve
<1>8. CASE Reset(t)
  <2>1. \A u \in Threads : asked'[u] <= buf'[u].size
    BY <1>0, <1>1, <1>8 DEF Reset, TypeOK
  <2> QED
    BY <1>8, <2>1 DEF Reset
<1>9. CASE Clear(t)
  <2>1. \A u \in Threads \ moved' : sb'[u].size <= sb'[u].storage.size
    BY <1>0, <1>1, <1>9 DEF Clear, TypeOK
  <2>2. \A u \in moved' : sb'[u].storage.data = Null
    BY <1>0, <1>9 DEF Clear, TypeOK
  <2> QED
    BY <1>9, <2>1, <2>2 DEF Clear
<1>10. CASE ToBuffer(t)
  <2>1. /\ sb' = [sb EXCEPT ![t] = Empty] /\ t \notin moved
        /\ asked' = [asked EXCEPT ![t] = sb[t].size]
    BY <1>10 DEF ToBuffer
  <2>2. PICK v : sb[t].size <= v.size /\ buf' = [buf EXCEPT ![t] = v]
    <3>1. CASE sb[t].size = sb[t].storage.size
      BY <1>0, <1>10, <3>1 DEF ToBuffer
    <3>2. CASE sb[t].size # sb[t].storage.size
      <4>1. PICK b : buf' = [buf EXCEPT ![t] = [data |-> b, size |-> sb[t].size,
                                                deleter |-> Heap]]
        BY <1>10, <3>2 DEF ToBuffer
      <4> DEFINE v == [data |-> b, size |-> sb[t].size, deleter |-> Heap]
      <4>2. sb[t].size <= v.size /\ buf' = [buf EXCEPT ![t] = v]
        BY <1>0, <4>1
      <4> QED
        BY <4>2
    <3> QED
      BY <3>1, <3>2
  <2>3. \A u \in Threads : asked'[u] <= buf'[u].size
    BY <1>0, <2>1, <2>2 DEF TypeOK
  <2>4. \A u \in Threads \ moved : sb'[u].size <= sb'[u].storage.size
    BY <1>0, <1>1, <2>1 DEF TypeOK
  <2>5. \A u \in moved : sb'[u].storage.data = Null
    BY <1>0, <2>1 DEF TypeOK
  <2> QED
    BY <1>10, <2>3, <2>4, <2>5 DEF ToBuffer
<1>11. CASE Push(t)
  <2>1. t \notin moved /\ m_queue' = Append(m_queue, sb[t])
    BY <1>11 DEF Push
  <2>2. \A i \in DOMAIN m_queue' : m_queue'[i].size <= m_queue'[i].storage.size
    BY <2>1 DEF TypeOK
  <2>3. /\ \A u \in Threads \ {t} : sb'[u] = sb[u]
        /\ sb'[t].storage = NoBuffer
        /\ moved' = moved \cup {t}
    BY <1>0, <1>11 DEF Push, TypeOK, SizedBuffers, MovedFrom
  <2>4. \A u \in Threads \ moved' : sb'[u].size <= sb'[u].storage.size
    BY <2>3
  <2>5. \A u \in moved' : sb'[u].storage.data = Null
    BY <1>0, <1>1, <2>3
  <2> QED
    BY <1>11, <2>2, <2>4, <2>5 DEF Push
<1>12. CASE WakeUp(t)
  BY <1>12 DEF WakeUp
<1>13. CASE TakeAll(t)
  <2>1. \A u \in Threads : \A i \in DOMAIN popped'[u] :
            popped'[u][i].size <= popped'[u][i].storage.size
    BY <1>13 DEF TakeAll, TypeOK
  <2>2. \A i \in DOMAIN m_queue' : m_queue'[i].size <= m_queue'[i].storage.size
    BY <1>13 DEF TakeAll
  <2> QED
    BY <1>13, <2>1, <2>2 DEF TakeAll
<1>14. CASE PopWaits(t)
  BY <1>14 DEF PopWaits
<1>15. CASE SpuriousWake(t)
  BY <1>15 DEF SpuriousWake
<1>17. CASE TakeElement(t)
  <2>1. popped[t] \in Seq(SizedBuffers) /\ popped[t] # <<>>
    BY <1>17 DEF TakeElement, TypeOK
  <2>2. Head(popped[t]) = popped[t][1] /\ 1 \in DOMAIN popped[t]
    BY <2>1
  <2>3. \A i \in DOMAIN Tail(popped[t]) :
           i + 1 \in DOMAIN popped[t] /\ Tail(popped[t])[i] = popped[t][i + 1]
    BY <2>1
  <2>4. sb' = [sb EXCEPT ![t] = popped[t][1]]
    BY <1>17, <2>2 DEF TakeElement
  <2>5. \A u \in Threads \ moved' : sb'[u].size <= sb'[u].storage.size
    BY <1>0, <1>17, <2>2, <2>4 DEF TakeElement, TypeOK
  <2>6. \A u \in moved' : sb'[u].storage.data = Null
    BY <1>0, <1>17, <2>4 DEF TakeElement, TypeOK
  <2>7. \A u \in Threads : \A i \in DOMAIN popped'[u] :
            popped'[u][i].size <= popped'[u][i].storage.size
    BY <1>17, <2>3 DEF TakeElement, TypeOK
  <2> QED
    BY <1>17, <2>5, <2>6, <2>7 DEF TakeElement
<1> QED
  BY <1>4, <1>5, <1>6, <1>7, <1>8, <1>9, <1>10, <1>11, <1>12, <1>13, <1>14, <1>15, <1>17
     DEF Step, Pop, PopReturns

-----------------------------------------------------------------------------
(* Sleeping. *)

\* Only a blocking queue is waited on.
WaitBlocks == (\E t \in Threads : pc[t] = "waiting") => m_blocking

\* No step leaves every thread asleep on an element.
LEMMA StepSleep ==
    ASSUME TypeOK, NoSleepOnElement, WaitBlocks, NEW t \in Threads, Step(t)
    PROVE  NoSleepOnElement' /\ WaitBlocks'
<1> USE DEF NoSleepOnElement, WaitBlocks
<1>1. pc \in [Threads -> {"idle", "waiting", "notified"}] /\ m_blocking \in BOOLEAN
  BY DEF TypeOK
<1>2. ASSUME NotifyOne, UNCHANGED m_blocking
      PROVE  /\ (\E u \in Threads : pc'[u] = "waiting") =>
                   \E u \in Threads : pc'[u] = "notified"
             /\ WaitBlocks'
  <2>1. CASE \E w \in Threads : pc[w] = "waiting"
    <3>1. PICK w \in Threads : pc[w] = "waiting" /\ pc' = [pc EXCEPT ![w] = "notified"]
      BY <1>2, <2>1 DEF NotifyOne
    <3>2. pc'[w] = "notified"
      BY <1>1, <3>1
    <3> QED
      BY <1>2, <2>1, <3>2
  <2>2. CASE ~\E w \in Threads : pc[w] = "waiting"
    BY <1>2, <2>2 DEF NotifyOne
  <2> QED
    BY <2>1, <2>2
<1>3. CASE Push(t) \/ WakeUp(t)
  BY <1>2, <1>3 DEF Push, WakeUp
<1>4. CASE PopWaits(t)
  BY <1>4 DEF PopWaits
<1>5. CASE SpuriousWake(t)
  <2>1. pc'[t] = "notified" /\ m_blocking
    BY <1>1, <1>5 DEF SpuriousWake
  <2> QED
    BY <1>5, <2>1 DEF SpuriousWake
<1>6. CASE PopReturns(t)
  <2>1. \A u \in Threads : pc'[u] = "waiting" => pc[u] = "waiting"
    BY <1>1, <1>6 DEF PopReturns
  <2> QED
    BY <1>6, <2>1 DEF PopReturns, TakeAll
<1>7. CASE Pop(t)
  BY <1>7 DEF Pop, TakeAll
<1>8. CASE UNCHANGED <<pc, m_queue, m_blocking>>
  BY <1>8
<1>9. ASSUME \/ \E n \in Sizes : Allocate(t, n) \/ Adopt(t, n) \/ Resize(t, n)
                                   \/ Reserve(t, n)
             \/ Reset(t) \/ Clear(t) \/ ToBuffer(t) \/ TakeElement(t)
      PROVE  UNCHANGED <<pc, m_queue, m_blocking>>
  BY <1>9 DEF Allocate, Adopt, Resize, Reserve, Reset, Clear,
              ToBuffer, TakeElement
<1> QED
  BY <1>3, <1>4, <1>5, <1>6, <1>7, <1>8, <1>9 DEF Step

-----------------------------------------------------------------------------
(* Ownership. *)

\* The core of the inductive invariant.
OwnedNow == Owned(Cells, FreeOf(m_allocations), memory)

\* The cells once the sized_buffer of t has dropped its storage.
SbGone(t) == [Cells EXCEPT ![<<"sb", t>>] = NoBuffer]

\* What is left when a thread's sized_buffer drops its storage.
LEMMA DropSized ==
    ASSUME TypeOK, OwnedNow, NEW t \in Threads
    PROVE  /\ Owned(SbGone(t), FreeOf(FreeLists(sb[t].storage)),
                    MemoryWithout(sb[t].storage))
           /\ DOMAIN SbGone(t) = DOMAIN Cells
           /\ SbGone(t)[<<"sb", t>>].data = Null
           /\ \A p \in DOMAIN Cells : p # <<"sb", t>> => SbGone(t)[p] = Cells[p]
           /\ sb[t].storage \in Buffers
<1> DEFINE S == <<"sb", t>>
<1>1. S \in DOMAIN Cells /\ Cells[S] = sb[t].storage
  BY CellsAre DEF CellFacts
<1> HIDE DEF S
<1>2. Puts(Cells, S, NoBuffer, SbGone(t))
  BY <1>1 DEF Puts, SbGone, S
<1>3. sb[t].storage \in Buffers
  BY DEF TypeOK, SizedBuffers
<1>4. Owned(SbGone(t), FreeOf(FreeLists(sb[t].storage)), MemoryWithout(sb[t].storage))
  BY <1>1, <1>2, <1>3, EmptyTypes, Drop DEF OwnedNow
<1>5. /\ DOMAIN SbGone(t) = DOMAIN Cells
      /\ SbGone(t)[S].data = Null
      /\ \A p \in DOMAIN Cells : p # S => SbGone(t)[p] = Cells[p]
  BY <1>2, EmptyTypes DEF Puts
<1> QED
  BY <1>3, <1>4, <1>5 DEF S

\* A block new on the heap, once v has been dropped.
LEMMA FreshHeap ==
    ASSUME TypeOK, NEW v \in Buffers, NEW n \in Nat,
           NEW b \in Blocks, memory[b] = Null
    PROVE  Fresh(MemoryWithout(v), [data |-> b, size |-> n, deleter |-> Heap],
                 NewMemory(b, n, v))
<1>1. /\ MemoryWithout(v) \in [Blocks -> [home : Homes, size : Nat] \cup {Null}]
      /\ MemoryWithout(v)[b] = Null
  BY DropTypes
<1>2. [data |-> b, size |-> n, deleter |-> Heap] \in Buffers
  BY BlockTypes
<1> QED
  BY <1>1, <1>2 DEF Fresh, NewMemory

\* resize() and reserve() beyond the capacity: the new block replaces the old one.
LEMMA OwnedGrow ==
    ASSUME TypeOK, OwnedNow, NEW t \in Threads,
           NEW n \in Nat, NEW s, Grow(t, n, s), UNCHANGED <<buf, m_queue, popped>>
    PROVE  OwnedNow'
<1>1. PICK b \in Blocks :
        /\ FreshBlock(b)
        /\ m_allocations' = FreeLists(sb[t].storage)
        /\ memory' = NewMemory(b, n, sb[t].storage)
        /\ sb' = [sb EXCEPT ![t] =
                     [size |-> s, storage |-> [data |-> b, size |-> n, deleter |-> Heap]]]
  BY DEF Grow
<1> DEFINE v == [data |-> b, size |-> n, deleter |-> Heap]
<1> DEFINE S == <<"sb", t>>
<1> DEFINE M == MemoryWithout(sb[t].storage)
<1>2. sb'[t].storage = v /\ \A u \in Threads \ {t} : sb'[u] = sb[u]
  BY <1>1 DEF TypeOK
<1>3. OwnPlaces(t)
  BY <1>2, OwnObjects
<1>4. Owned(SbGone(t), FreeOf(m_allocations'), M)
  BY <1>1, DropSized
<1>5. Fresh(M, v, memory')
  BY <1>1, DropSized, FreshHeap DEF FreshBlock
<1>6. Puts(SbGone(t), S, v, Cells') /\ SbGone(t)[S].data = Null
  <2>1. /\ DOMAIN SbGone(t) = DOMAIN Cells
        /\ SbGone(t)[S].data = Null
        /\ \A p \in DOMAIN Cells : p # S => SbGone(t)[p] = Cells[p]
    BY DropSized
  <2>2. Cells'[<<"buf", t>>] = Cells[<<"buf", t>>]
    BY <1>3 DEF OwnPlaces
  <2> HIDE DEF v
  <2> QED
    BY <1>2, <1>3, <2>1, <2>2 DEF OwnPlaces, Puts
<1> HIDE DEF v, S, M
<1>7. Owned(Cells', FreeOf(m_allocations'), memory')
  BY <1>4, <1>5, <1>6, PutNew
<1> QED
  BY <1>7 DEF OwnedNow

\* allocate(): from the end of a free list, or a block new to the pool.
LEMMA OwnedAllocate ==
    ASSUME TypeOK, OwnedNow, NEW t \in Threads,
           NEW n, Allocate(t, n)
    PROVE  OwnedNow'
<1> DEFINE B == <<"buf", t>>
<1> DEFINE V(k, b) == [data |-> b, size |-> PoolSize(k), deleter |-> <<"pool", k>>]
<1>1. UNCHANGED <<sb, m_queue, popped>> /\ buf[t].data = Null
  BY EmptyTypes DEF Allocate
<1>2. ASSUME NEW k, NEW b, buf' = [buf EXCEPT ![t] = V(k, b)]
      PROVE  Puts(Cells, B, V(k, b), Cells') /\ Cells[B].data = Null
  <2>1. buf'[t] = V(k, b) /\ \A u \in Threads \ {t} : buf'[u] = buf[u]
    BY <1>2 DEF TypeOK
  <2> HIDE DEF V
  <2>2. OwnPlaces(t)
    BY <1>1, <2>1, OwnObjects
  <2>3. Cells'[<<"sb", t>>] = Cells[<<"sb", t>>]
    BY <1>1, <2>2 DEF OwnPlaces
  <2> QED
    BY <1>1, <2>1, <2>2, <2>3 DEF OwnPlaces, Puts
<1>3. PICK k \in Pools :
        LET list == m_allocations[k]
        IN  \/ /\ list # <<>>
               /\ buf' = [buf EXCEPT ![t] = V(k, list[Len(list)])]
               /\ m_allocations' =
                     [m_allocations EXCEPT ![k] = SubSeq(list, 1, Len(list) - 1)]
               /\ UNCHANGED memory
            \/ /\ \E b \in Blocks :
                     /\ FreshBlock(b)
                     /\ buf' = [buf EXCEPT ![t] = V(k, b)]
                     /\ memory' = [memory EXCEPT ![b] = [home |-> <<"pool", k>>,
                                                         size |-> PoolSize(k)]]
               /\ UNCHANGED m_allocations
  BY DEF Allocate
<1>4. CASE /\ m_allocations[k] # <<>>
           /\ buf' = [buf EXCEPT ![t] = V(k, m_allocations[k][Len(m_allocations[k])])]
           /\ m_allocations' = [m_allocations EXCEPT
                 ![k] = SubSeq(m_allocations[k], 1, Len(m_allocations[k]) - 1)]
           /\ UNCHANGED memory
  <2> DEFINE i == Len(m_allocations[k])
  <2> DEFINE b == m_allocations[k][i]
  <2>1. TakesLast(m_allocations, k, m_allocations')
    BY <1>4 DEF TakesLast, TypeOK
  <2>2. LosesPlace(FreeOf(m_allocations), <<k, i>>, b, FreeOf(m_allocations'))
    BY <2>1, FreeButLast
  <2>3. b \in Blocks
    BY <1>4 DEF TypeOK
  <2>4. Puts(Cells, B, V(k, b), Cells') /\ Cells[B].data = Null
    BY <1>2, <1>4
  <2> HIDE DEF i, b, B
  <2>5. /\ V(k, b) \in Buffers /\ V(k, b).data = b /\ V(k, b).data # Null
        /\ V(k, b).deleter = <<"pool", k>> /\ V(k, b).size = PoolSize(k)
    BY <2>3, BlockTypes, BufferQueueAssumption
  <2> HIDE DEF V
  <2>6. Owned(Cells', FreeOf(m_allocations'), memory)
    BY <2>2, <2>4, <2>5, Reuse DEF OwnedNow
  <2> QED
    BY <1>4, <2>6 DEF OwnedNow
<1>5. ASSUME NEW b \in Blocks, FreshBlock(b), buf' = [buf EXCEPT ![t] = V(k, b)],
             memory' = [memory EXCEPT ![b] = [home |-> <<"pool", k>>,
                                              size |-> PoolSize(k)]],
             UNCHANGED m_allocations
      PROVE  OwnedNow'
  <2>1. Puts(Cells, B, V(k, b), Cells') /\ Cells[B].data = Null
    BY <1>2, <1>5
  <2>2. V(k, b) \in Buffers /\ V(k, b).deleter[2] = k
    BY BlockTypes
  <2>3. Fresh(memory, V(k, b), memory')
    BY <1>5, <2>2 DEF Fresh, FreshBlock, TypeOK
  <2> HIDE DEF V, B
  <2>4. Owned(Cells', FreeOf(m_allocations), memory')
    BY <2>1, <2>3, PutNew DEF OwnedNow
  <2> QED
    BY <1>5, <2>4 DEF OwnedNow
<1> QED
  BY <1>3, <1>4, <1>5

\* buffer::reset()
LEMMA OwnedReset ==
    ASSUME TypeOK, OwnedNow, NEW t \in Threads, Reset(t)
    PROVE  OwnedNow'
<1> DEFINE B == <<"buf", t>>
<1>1. buf'[t] = NoBuffer /\ \A u \in Threads \ {t} : buf'[u] = buf[u]
  BY DEF Reset, TypeOK
<1>2. UNCHANGED <<sb, m_queue, popped>>
  BY DEF Reset
<1>3. OwnPlaces(t)
  BY <1>1, <1>2, OwnObjects
<1>4. Puts(Cells, B, NoBuffer, Cells') /\ Cells[B] = buf[t]
  BY <1>1, <1>2, <1>3 DEF OwnPlaces, Puts
<1>5. buf[t] \in Buffers
  BY DEF TypeOK
<1> HIDE DEF B
<1>6. Owned(Cells', FreeOf(FreeLists(buf[t])), MemoryWithout(buf[t]))
  BY <1>4, <1>5, EmptyTypes, Drop DEF OwnedNow
<1> QED
  BY <1>6 DEF OwnedNow, Reset

\* sized_buffer's clear()
LEMMA OwnedClear ==
    ASSUME TypeOK, OwnedNow, NEW t \in Threads, Clear(t)
    PROVE  OwnedNow'
<1> DEFINE S == <<"sb", t>>
<1>1. sb'[t].storage = NoBuffer /\ \A u \in Threads \ {t} : sb'[u] = sb[u]
  BY EmptyTypes DEF Clear, TypeOK
<1>2. UNCHANGED <<buf, m_queue, popped>>
  BY DEF Clear
<1>3. OwnPlaces(t)
  BY <1>1, <1>2, OwnObjects
<1>4. Puts(Cells, S, NoBuffer, Cells') /\ Cells[S] = sb[t].storage
  BY <1>1, <1>2, <1>3 DEF OwnPlaces, Puts
<1>5. sb[t].storage \in Buffers
  BY DEF TypeOK, SizedBuffers
<1> HIDE DEF S
<1>6. Owned(Cells', FreeOf(FreeLists(sb[t].storage)), MemoryWithout(sb[t].storage))
  BY <1>4, <1>5, EmptyTypes, Drop DEF OwnedNow
<1> QED
  BY <1>6 DEF OwnedNow, Clear

\* sized_buffer(std::move(buf), n): the old storage is dropped and the buffer's moves in.
LEMMA OwnedAdopt ==
    ASSUME TypeOK, OwnedNow, NEW t \in Threads,
           NEW n, Adopt(t, n)
    PROVE  OwnedNow'
<1> DEFINE B == <<"buf", t>>
<1> DEFINE S == <<"sb", t>>
<1>1. /\ sb'[t].storage = buf[t] /\ buf'[t].data = Null
      /\ \A u \in Threads \ {t} : buf'[u] = buf[u] /\ sb'[u] = sb[u]
  BY EmptyTypes DEF Adopt, MovedFrom, TypeOK
<1>2. OwnPlaces(t)
  BY <1>1, OwnObjects DEF Adopt
<1>3. Owned(SbGone(t), FreeOf(m_allocations'), memory')
  BY DropSized DEF Adopt
<1>4. /\ DOMAIN SbGone(t) = DOMAIN Cells
      /\ SbGone(t)[S].data = Null
      /\ \A p \in DOMAIN Cells : p # S => SbGone(t)[p] = Cells[p]
  BY DropSized
<1>5. /\ B \in DOMAIN SbGone(t) /\ S \in DOMAIN SbGone(t) /\ B # S
      /\ DOMAIN Cells' = DOMAIN SbGone(t)
      /\ Cells'[S] = SbGone(t)[B] /\ Cells'[B].data = Null
      /\ \A p \in DOMAIN SbGone(t) \ {B, S} : Cells'[p] = SbGone(t)[p]
  BY <1>1, <1>2, <1>4 DEF OwnPlaces
<1> HIDE DEF B, S
<1>6. Owned(Cells', FreeOf(m_allocations'), memory')
  BY <1>3, <1>4, <1>5, Move
<1> QED
  BY <1>6 DEF OwnedNow

\* to_buffer(): the storage is handed over, or copied and dropped.
LEMMA OwnedToBuffer ==
    ASSUME TypeOK, OwnedNow, NEW t \in Threads, ToBuffer(t)
    PROVE  OwnedNow'
<1> DEFINE B == <<"buf", t>>
<1> DEFINE S == <<"sb", t>>
<1>1. /\ sb'[t].storage = NoBuffer /\ \A u \in Threads \ {t} : sb'[u] = sb[u]
      /\ buf[t].data = Null /\ UNCHANGED <<m_queue, popped>>
  BY EmptyTypes DEF ToBuffer, TypeOK
<1>2. CASE sb[t].size = sb[t].storage.size
  <2>1. /\ buf' = [buf EXCEPT ![t] = sb[t].storage] /\ UNCHANGED <<memory, m_allocations>>
    BY <1>2 DEF ToBuffer
  <2>2. buf'[t] = sb[t].storage /\ \A u \in Threads \ {t} : buf'[u] = buf[u]
    BY <2>1 DEF TypeOK
  <2>3. OwnPlaces(t)
    BY <1>1, <2>2, OwnObjects
  <2>4. /\ B \in DOMAIN Cells /\ S \in DOMAIN Cells /\ B # S
        /\ DOMAIN Cells' = DOMAIN Cells
        /\ Cells[B].data = Null /\ Cells'[B] = Cells[S] /\ Cells'[S].data = Null
        /\ \A p \in DOMAIN Cells \ {S, B} : Cells'[p] = Cells[p]
    BY <1>1, <2>2, <2>3, EmptyTypes DEF OwnPlaces
  <2> HIDE DEF B, S
  <2>5. Owned(Cells', FreeOf(m_allocations), memory)
    BY <2>4, Move DEF OwnedNow
  <2> QED
    BY <2>1, <2>5 DEF OwnedNow
<1>3. CASE sb[t].size # sb[t].storage.size
  <2>1. PICK b \in Blocks :
          /\ FreshBlock(b)
          /\ memory' = NewMemory(b, sb[t].size, sb[t].storage)
          /\ buf' = [buf EXCEPT ![t] = [data |-> b, size |-> sb[t].size,
                                        deleter |-> Heap]]
          /\ m_allocations' = FreeLists(sb[t].storage)
    BY <1>3 DEF ToBuffer
  <2> DEFINE v == [data |-> b, size |-> sb[t].size, deleter |-> Heap]
  <2> DEFINE M == MemoryWithout(sb[t].storage)
  <2>2. buf'[t] = v /\ \A u \in Threads \ {t} : buf'[u] = buf[u]
    BY <2>1 DEF TypeOK
  <2>3. Fresh(M, v, memory')
    <3>1. sb[t].size \in Nat /\ sb[t].storage \in Buffers
      BY DEF TypeOK, SizedBuffers
    <3> QED
      BY <2>1, <3>1, FreshHeap DEF FreshBlock
  <2> HIDE DEF v, M
  <2>4. OwnPlaces(t)
    BY <1>1, <2>2, OwnObjects
  <2>5. Owned(SbGone(t), FreeOf(m_allocations'), M)
    BY <2>1, DropSized DEF M
  <2>6. /\ DOMAIN SbGone(t) = DOMAIN Cells
        /\ SbGone(t)[S] = NoBuffer
        /\ \A p \in DOMAIN Cells : p # S => SbGone(t)[p] = Cells[p]
    BY <2>4 DEF OwnPlaces, SbGone
  <2>7. Puts(SbGone(t), B, v, Cells') /\ SbGone(t)[B].data = Null
    BY <1>1, <2>2, <2>4, <2>6 DEF OwnPlaces, Puts
  <2> HIDE DEF B, S
  <2>8. Owned(Cells', FreeOf(m_allocations'), memory')
    BY <2>3, <2>5, <2>7, PutNew
  <2> QED
    BY <2>8 DEF OwnedNow
<1> QED
  BY <1>2, <1>3

\* G names, for each full place of C2, the place of C where its buffer was, and H the
\* way back.
Transfers(C, G, H, C2) ==
    /\ \A p \in Full(C2) : G[p] \in DOMAIN C /\ C2[p] = C[G[p]] /\ H[G[p]] = p
    /\ \A q \in Full(C) : H[q] \in DOMAIN C2 /\ C2[H[q]] = C[q] /\ G[H[q]] = q

\* Buffers that change places together are still owned once.
LEMMA Transfer ==
    ASSUME NEW C, NEW F, NEW M, Owned(C, F, M),
           NEW G, NEW H, NEW C2, Transfers(C, G, H, C2)
    PROVE  Owned(C2, F, M)
<1>1. Renames(C, G, C2)
  <2>1. \A p \in Full(C2) : G[p] \in Full(C) /\ C2[p] = C[G[p]]
    BY DEF Transfers, Full
  <2>2. \A p, q \in Full(C2) : G[p] = G[q] => p = q
    BY DEF Transfers
  <2>3. \A q \in Full(C) : H[q] \in Full(C2) /\ G[H[q]] = q
    BY DEF Transfers, Full
  <2> QED
    BY <2>1, <2>2, <2>3 DEF Renames
<1> QED
  BY <1>1, Relabel

\* Nothing that owns memory changes.
LEMMA OwnedSame ==
    ASSUME OwnedNow, UNCHANGED <<buf, sb, m_queue, popped, memory, m_allocations>>
    PROVE  OwnedNow'
<1>1. Cells' = Cells
  BY DEF Cells, Places, Content
<1> QED
  BY <1>1 DEF OwnedNow

\* resize() within the capacity.
LEMMA OwnedResize ==
    ASSUME TypeOK, OwnedNow, NEW t \in Threads, NEW n, sb' = [sb EXCEPT ![t].size = n],
           UNCHANGED <<buf, m_queue, popped, memory, m_allocations>>
    PROVE  OwnedNow'
<1>1. sb'[t].storage = sb[t].storage /\ \A u \in Threads \ {t} : sb'[u] = sb[u]
  BY DEF TypeOK, SizedBuffers
<1>2. OwnPlaces(t)
  BY <1>1, OwnObjects
<1>3. DOMAIN Cells' = DOMAIN Cells /\ \A p \in DOMAIN Cells : Cells'[p] = Cells[p]
  BY <1>1, <1>2 DEF OwnPlaces
<1> DEFINE G == [p \in DOMAIN Cells |-> p]
<1>4. Transfers(Cells, G, G, Cells')
  BY <1>3 DEF Transfers, Full
<1> HIDE DEF G
<1>5. Owned(Cells', FreeOf(m_allocations), memory)
  BY <1>4, Transfer DEF OwnedNow
<1> QED
  BY <1>5 DEF OwnedNow

\* push(): the storage moves to the end of the queue.
LEMMA OwnedPush ==
    ASSUME TypeOK, OwnedNow, NEW t \in Threads, Push(t)
    PROVE  OwnedNow'
<1> DEFINE S == <<"sb", t>>
<1> DEFINE Q == <<"queue", Len(m_queue) + 1>>
<1>1. /\ m_queue \in Seq(SizedBuffers) /\ m_queue' = Append(m_queue, sb[t])
      /\ Len(m_queue) \in Nat
      /\ UNCHANGED <<buf, popped, memory, m_allocations>>
  BY DEF Push, TypeOK
<1>2. /\ DOMAIN m_queue = 1..Len(m_queue) /\ DOMAIN m_queue' = 1..(Len(m_queue) + 1)
      /\ \A i \in DOMAIN m_queue : m_queue'[i] = m_queue[i]
      /\ m_queue'[Len(m_queue) + 1] = sb[t]
  BY <1>1
<1>3. sb'[t].storage.data = Null /\ \A u \in Threads \ {t} : sb'[u] = sb[u]
  BY EmptyTypes DEF Push, MovedFrom, TypeOK, SizedBuffers
<1>4. \A i : i \in DOMAIN m_queue' <=> i \in DOMAIN m_queue \/ i = Len(m_queue) + 1
  BY <1>1, <1>2
<1>5. /\ Q \notin DOMAIN Cells /\ S \in DOMAIN Cells /\ S # Q
      /\ DOMAIN Cells' = DOMAIN Cells \cup {Q}
  <2>1. Len(m_queue) + 1 \notin DOMAIN m_queue
    BY <1>1, <1>2
  <2>2. Q \notin DOMAIN Cells /\ S \in DOMAIN Cells /\ S # Q
    BY <2>1, CellsAre DEF CellFacts
  <2>3. \A p : p \in DOMAIN Cells' <=> p \in DOMAIN Cells \/ p = Q
    BY <1>1, <1>4, CellsAre, CellsArePrime DEF CellFacts
  <2> QED
    BY <2>2, <2>3
<1>6. Cells'[Q] = Cells[S] /\ Cells'[S].data = Null
  <2>1. Cells[S] = sb[t].storage /\ Cells'[S] = sb'[t].storage
    BY CellsAre, CellsArePrime DEF CellFacts
  <2>2. \A i \in DOMAIN m_queue' : Cells'[<<"queue", i>>] = m_queue'[i].storage
    BY CellsArePrime DEF CellFacts
  <2>3. Cells'[Q] = m_queue'[Len(m_queue) + 1].storage
    BY <1>4, <2>2
  <2> QED
    BY <1>2, <1>3, <2>1, <2>3
<1>7. ASSUME NEW p \in DOMAIN Cells, p # S PROVE Cells'[p] = Cells[p]
  <2>0. \A u \in Threads :
          /\ Cells[<<"buf", u>>] = buf[u] /\ Cells'[<<"buf", u>>] = buf'[u]
          /\ Cells[<<"sb", u>>] = sb[u].storage /\ Cells'[<<"sb", u>>] = sb'[u].storage
    BY CellsAre, CellsArePrime DEF CellFacts
  <2>1. CASE \E u \in Threads : p = <<"buf", u>>
    <3>1. PICK u \in Threads : p = <<"buf", u>>
      BY <2>1
    <3>2. Cells[p] = buf[u] /\ Cells'[p] = buf'[u]
      BY <2>0, <3>1
    <3> QED
      BY <1>1, <3>2
  <2>2. CASE \E u \in Threads : p = <<"sb", u>>
    <3>1. PICK u \in Threads : p = <<"sb", u>>
      BY <2>2
    <3>2. u # t
      BY <1>7, <3>1
    <3>3. Cells[p] = sb[u].storage /\ Cells'[p] = sb'[u].storage
      BY <2>0, <3>1
    <3> QED
      BY <1>3, <3>2, <3>3
  <2>3. CASE \E i \in DOMAIN m_queue : p = <<"queue", i>>
    <3>1. PICK i \in DOMAIN m_queue : p = <<"queue", i>>
      BY <2>3
    <3>2. i \in DOMAIN m_queue' /\ m_queue'[i] = m_queue[i]
      BY <1>2, <1>4
    <3> QED
      BY <3>1, <3>2, CellsAre, CellsArePrime DEF CellFacts
  <2>4. CASE \E u \in Threads : \E i \in DOMAIN popped[u] : p = <<"popped", <<u, i>>>>
    BY <1>1, <2>4, CellsAre, CellsArePrime DEF CellFacts
  <2> QED
    BY <2>1, <2>2, <2>3, <2>4, CellsAre DEF CellFacts
<1> HIDE DEF S, Q
<1> DEFINE G == [p \in DOMAIN Cells' |-> IF p = Q THEN S ELSE p]
<1> DEFINE H == [p \in DOMAIN Cells |-> IF p = S THEN Q ELSE p]
<1>8. Transfers(Cells, G, H, Cells')
  <2>1. ASSUME NEW p \in Full(Cells')
        PROVE  G[p] \in DOMAIN Cells /\ Cells'[p] = Cells[G[p]] /\ H[G[p]] = p
    BY <1>5, <1>6, <1>7 DEF Full
  <2>2. ASSUME NEW q \in Full(Cells)
        PROVE  H[q] \in DOMAIN Cells' /\ Cells'[H[q]] = Cells[q] /\ G[H[q]] = q
    BY <1>5, <1>6, <1>7 DEF Full
  <2> HIDE DEF G, H
  <2> QED
    BY <2>1, <2>2 DEF Transfers
<1> HIDE DEF G, H
<1>9. Owned(Cells', FreeOf(m_allocations), memory)
  BY <1>8, Transfer DEF OwnedNow
<1> QED
  BY <1>1, <1>9 DEF OwnedNow

\* pop(): the elements of the queue become those of the vector.
LEMMA OwnedTakeAll ==
    ASSUME TypeOK, OwnedNow, NEW t \in Threads, popped[t] = <<>>, TakeAll(t)
    PROVE  OwnedNow'
<1> DEFINE G == [p \in DOMAIN Cells' |->
                    IF p[1] = "popped" /\ p[2][1] = t THEN <<"queue", p[2][2]>> ELSE p]
<1> DEFINE H == [q \in DOMAIN Cells |->
                    IF q[1] = "queue" THEN <<"popped", <<t, q[2]>>>> ELSE q]
<1>1. /\ UNCHANGED <<buf, sb, memory, m_allocations>>
      /\ DOMAIN m_queue' = {} /\ popped'[t] = m_queue
      /\ DOMAIN popped[t] = {}
      /\ \A u \in Threads \ {t} : popped'[u] = popped[u]
  BY DEF TakeAll, TypeOK
<1>2. ASSUME NEW u \in Threads, NEW p, p = <<"buf", u>> \/ p = <<"sb", u>>
      PROVE  /\ p \in DOMAIN Cells /\ p \in DOMAIN Cells' /\ Cells'[p] = Cells[p]
             /\ G[p] = p /\ H[p] = p
  <2>0. /\ Cells[<<"buf", u>>] = buf[u] /\ Cells'[<<"buf", u>>] = buf'[u]
        /\ Cells[<<"sb", u>>] = sb[u].storage /\ Cells'[<<"sb", u>>] = sb'[u].storage
    BY CellsAre, CellsArePrime DEF CellFacts
  <2>1. /\ p \in DOMAIN Cells /\ p \in DOMAIN Cells'
        /\ Cells'[p] = Cells[p]
    <3>1. p \in DOMAIN Cells /\ p \in DOMAIN Cells'
      BY <1>2, CellsAre, CellsArePrime DEF CellFacts
    <3>2. Cells'[p] = Cells[p]
      BY <1>1, <1>2, <2>0
    <3> QED
      BY <3>1, <3>2
  <2>2. p[1] # "popped" /\ p[1] # "queue"
    BY <1>2
  <2> QED
    BY <2>1, <2>2
<1>3. ASSUME NEW u \in Threads, u # t, NEW i \in DOMAIN popped[u]
      PROVE  LET p == <<"popped", <<u, i>>>>
             IN  /\ p \in DOMAIN Cells /\ p \in DOMAIN Cells' /\ Cells'[p] = Cells[p]
                 /\ G[p] = p /\ H[p] = p
  <2> DEFINE p == <<"popped", <<u, i>>>>
  <2>1. p \in DOMAIN Cells /\ p \in DOMAIN Cells' /\ Cells'[p] = Cells[p]
    BY <1>1, <1>3, CellsAre, CellsArePrime DEF CellFacts
  <2>2. p[1] = "popped" /\ p[2][1] = u
    OBVIOUS
  <2> HIDE DEF p
  <2>3. G[p] = p /\ H[p] = p
    BY <1>3, <2>1, <2>2
  <2> QED
    BY <2>1, <2>3 DEF p
<1>4. ASSUME NEW i \in DOMAIN m_queue
      PROVE  LET q == <<"queue", i>>
                 p == <<"popped", <<t, i>>>>
             IN  /\ q \in DOMAIN Cells /\ p \in DOMAIN Cells' /\ Cells'[p] = Cells[q]
                 /\ G[p] = q /\ H[q] = p
  <2> DEFINE q == <<"queue", i>>
  <2> DEFINE p == <<"popped", <<t, i>>>>
  <2>1. q \in DOMAIN Cells /\ p \in DOMAIN Cells' /\ Cells'[p] = Cells[q]
    BY <1>1, CellsAre, CellsArePrime DEF CellFacts
  <2>2. /\ p[1] = "popped" /\ p[2][1] = t /\ q = <<"queue", p[2][2]>>
        /\ q[1] = "queue" /\ p = <<"popped", <<t, q[2]>>>>
    OBVIOUS
  <2> HIDE DEF p, q
  <2>3. G[p] = q /\ H[q] = p
    BY <2>1, <2>2
  <2> QED
    BY <2>1, <2>3 DEF p, q
<1> HIDE DEF G, H
<1>5. ASSUME NEW p \in Full(Cells')
      PROVE  G[p] \in DOMAIN Cells /\ Cells'[p] = Cells[G[p]] /\ H[G[p]] = p
  <2>1. p \in DOMAIN Cells'
    BY DEF Full
  <2>2. CASE \E u \in Threads : p = <<"buf", u>> \/ p = <<"sb", u>>
    BY <1>2, <2>2
  <2>3. CASE \E u \in Threads : \E i \in DOMAIN popped'[u] : p = <<"popped", <<u, i>>>>
    <3>0. PICK u \in Threads : \E i \in DOMAIN popped'[u] : p = <<"popped", <<u, i>>>>
      BY <2>3
    <3>1. PICK i \in DOMAIN popped'[u] : p = <<"popped", <<u, i>>>>
      BY <3>0
    <3>2. CASE u = t
      <4>1. i \in DOMAIN m_queue
        BY <1>1, <3>1, <3>2
      <4> QED
        BY <1>4, <3>1, <3>2, <4>1
    <3>3. CASE u # t
      <4>1. i \in DOMAIN popped[u]
        BY <1>1, <3>1, <3>3
      <4> QED
        BY <1>3, <3>1, <3>3, <4>1
    <3> QED
      BY <3>2, <3>3
  <2> QED
    BY <1>1, <2>1, <2>2, <2>3, CellsArePrime DEF CellFacts
<1>6. ASSUME NEW q \in Full(Cells)
      PROVE  H[q] \in DOMAIN Cells' /\ Cells'[H[q]] = Cells[q] /\ G[H[q]] = q
  <2>1. q \in DOMAIN Cells
    BY DEF Full
  <2>2. CASE \E u \in Threads : q = <<"buf", u>> \/ q = <<"sb", u>>
    BY <1>2, <2>2
  <2>3. CASE \E i \in DOMAIN m_queue : q = <<"queue", i>>
    BY <1>4, <2>3
  <2>4. CASE \E u \in Threads : \E i \in DOMAIN popped[u] : q = <<"popped", <<u, i>>>>
    <3>0. PICK u \in Threads : \E i \in DOMAIN popped[u] : q = <<"popped", <<u, i>>>>
      BY <2>4
    <3>1. PICK i \in DOMAIN popped[u] : q = <<"popped", <<u, i>>>>
      BY <3>0
    <3>2. u # t
      BY <1>1, <3>1
    <3> QED
      BY <1>3, <3>1, <3>2
  <2> QED
    BY <2>1, <2>2, <2>3, <2>4, CellsAre DEF CellFacts
<1>7. Transfers(Cells, G, H, Cells')
  BY <1>5, <1>6 DEF Transfers
<1>8. Owned(Cells', FreeOf(m_allocations), memory)
  BY <1>7, Transfer DEF OwnedNow
<1> QED
  BY <1>1, <1>8 DEF OwnedNow

\* sb = std::move(v.front()): the old storage is dropped, the first element moves in and
\* the others move up.
LEMMA OwnedTakeElement ==
    ASSUME TypeOK, OwnedNow, NEW t \in Threads,
           TakeElement(t)
    PROVE  OwnedNow'
<1> DEFINE C == SbGone(t)
<1> DEFINE S == <<"sb", t>>
<1> DEFINE G == [p \in DOMAIN Cells' |->
                    IF p = S THEN <<"popped", <<t, 1>>>>
                    ELSE IF p[1] = "popped" /\ p[2][1] = t
                         THEN <<"popped", <<t, p[2][2] + 1>>>> ELSE p]
<1> DEFINE H == [q \in DOMAIN C |->
                    IF q = <<"popped", <<t, 1>>>> THEN S
                    ELSE IF q[1] = "popped" /\ q[2][1] = t
                         THEN <<"popped", <<t, q[2][2] - 1>>>> ELSE q]
<1>1. /\ popped[t] \in Seq(SizedBuffers) /\ popped[t] # <<>>
      /\ UNCHANGED <<buf, m_queue>>
      /\ popped'[t] = Tail(popped[t]) /\ sb'[t] = Head(popped[t])
      /\ \A u \in Threads \ {t} : popped'[u] = popped[u] /\ sb'[u] = sb[u]
  BY DEF TakeElement, TypeOK
<1>2. /\ sb'[t] = popped[t][1] /\ 1 \in DOMAIN popped[t]
      /\ \A i \in DOMAIN popped[t] : i \in Nat \ {0}
      /\ \A i \in DOMAIN popped'[t] :
            /\ i \in Nat \ {0}
            /\ i + 1 \in DOMAIN popped[t] /\ popped'[t][i] = popped[t][i + 1]
      /\ \A i \in DOMAIN popped[t] : i # 1 => i - 1 \in DOMAIN popped'[t]
  BY <1>1
<1>3. Owned(C, FreeOf(m_allocations'), memory')
  BY DropSized DEF TakeElement
<1>4. /\ DOMAIN C = DOMAIN Cells /\ C[S].data = Null
      /\ \A p \in DOMAIN Cells : p # S => C[p] = Cells[p]
  BY DropSized
<1> HIDE DEF C
<1>5. \A u \in Threads :
        /\ <<"buf", u>> \in DOMAIN Cells /\ <<"buf", u>> \in DOMAIN Cells'
        /\ <<"sb", u>> \in DOMAIN Cells /\ <<"sb", u>> \in DOMAIN Cells'
        /\ Cells[<<"buf", u>>] = buf[u] /\ Cells'[<<"buf", u>>] = buf'[u]
        /\ Cells[<<"sb", u>>] = sb[u].storage /\ Cells'[<<"sb", u>>] = sb'[u].storage
  BY CellsAre, CellsArePrime DEF CellFacts
<1>6. \A u \in Threads : \A i \in DOMAIN popped[u] :
        /\ <<"popped", <<u, i>>>> \in DOMAIN Cells
        /\ Cells[<<"popped", <<u, i>>>>] = popped[u][i].storage
  BY CellsAre DEF CellFacts
<1>7. \A u \in Threads : \A i \in DOMAIN popped'[u] :
        /\ <<"popped", <<u, i>>>> \in DOMAIN Cells'
        /\ Cells'[<<"popped", <<u, i>>>>] = popped'[u][i].storage
  BY CellsArePrime DEF CellFacts
<1>8. ASSUME NEW p, p \in DOMAIN C, p \in DOMAIN Cells', Cells'[p] = Cells[p], p # S,
             p[1] # "popped" \/ p[2][1] # t
      PROVE  G[p] = p /\ H[p] = p /\ C[p] = Cells'[p]
  <2>1. p # <<"popped", <<t, 1>>>>
    BY <1>8
  <2>2. G[p] = p
    BY <1>8
  <2>3. H[p] = p
    BY <1>8, <2>1
  <2> QED
    BY <1>4, <1>8, <2>2, <2>3
<1>9. ASSUME NEW p,
             \/ \E u \in Threads : p = <<"buf", u>> \/ (p = <<"sb", u>> /\ u # t)
             \/ \E i \in DOMAIN m_queue : p = <<"queue", i>>
             \/ \E u \in Threads \ {t} : \E i \in DOMAIN popped[u] : p = <<"popped", <<u, i>>>>
      PROVE  /\ p \in DOMAIN C /\ p \in DOMAIN Cells'
             /\ G[p] = p /\ H[p] = p /\ C[p] = Cells'[p]
  <2>1. CASE \E u \in Threads : p = <<"buf", u>>
    <3>1. PICK u \in Threads : p = <<"buf", u>>
      BY <2>1
    <3>2. p \in DOMAIN C /\ p \in DOMAIN Cells' /\ Cells'[p] = Cells[p]
      BY <1>1, <1>4, <1>5, <3>1
    <3>3. p # S /\ p[1] # "popped"
      BY <3>1
    <3> QED
      BY <1>8, <3>2, <3>3
  <2>2. CASE \E u \in Threads : p = <<"sb", u>> /\ u # t
    <3>1. PICK u \in Threads : p = <<"sb", u>> /\ u # t
      BY <2>2
    <3>0. /\ p \in DOMAIN Cells /\ p \in DOMAIN Cells'
          /\ Cells[p] = sb[u].storage /\ Cells'[p] = sb'[u].storage
      BY <1>5, <3>1
    <3>2. p \in DOMAIN C /\ p \in DOMAIN Cells' /\ Cells'[p] = Cells[p]
      BY <1>1, <1>4, <3>0, <3>1
    <3>3. p # S /\ p[1] # "popped"
      BY <3>1
    <3> QED
      BY <1>8, <3>2, <3>3
  <2>3. CASE \E i \in DOMAIN m_queue : p = <<"queue", i>>
    <3>1. p \in DOMAIN Cells /\ p \in DOMAIN Cells' /\ Cells'[p] = Cells[p]
      BY <1>1, <2>3, CellsAre, CellsArePrime DEF CellFacts
    <3>2. p # S /\ p[1] # "popped"
      BY <2>3
    <3> QED
      BY <1>4, <1>8, <3>1, <3>2
  <2>4. CASE \E u \in Threads \ {t} : \E i \in DOMAIN popped[u] : p = <<"popped", <<u, i>>>>
    <3>1. PICK u \in Threads \ {t} : \E i \in DOMAIN popped[u] : p = <<"popped", <<u, i>>>>
      BY <2>4
    <3>2. PICK i \in DOMAIN popped[u] : p = <<"popped", <<u, i>>>>
      BY <3>1
    <3>3. popped'[u] = popped[u]
      BY <1>1
    <3>4. p \in DOMAIN Cells /\ p \in DOMAIN Cells' /\ Cells'[p] = Cells[p]
      BY <1>6, <1>7, <3>2, <3>3
    <3>5. p # S /\ p[2][1] # t
      BY <3>2
    <3> QED
      BY <1>4, <1>8, <3>4, <3>5
  <2> QED
    BY <1>9, <2>1, <2>2, <2>3, <2>4
<1>10. LET q == <<"popped", <<t, 1>>>>
       IN  /\ S \in DOMAIN Cells' /\ q \in DOMAIN C /\ Cells'[S] = C[q]
           /\ G[S] = q /\ H[q] = S
  <2> DEFINE q == <<"popped", <<t, 1>>>>
  <2>1. q \in DOMAIN Cells /\ Cells[q] = popped[t][1].storage /\ q # S
    BY <1>2, <1>6
  <2>2. S \in DOMAIN Cells' /\ Cells'[S] = popped[t][1].storage
    <3>1. S \in DOMAIN Cells' /\ Cells'[S] = sb'[t].storage
      BY <1>5
    <3> QED
      BY <1>2, <3>1
  <2>3. q \in DOMAIN C /\ Cells'[S] = C[q]
    BY <1>4, <2>1, <2>2
  <2> HIDE DEF S
  <2>4. G[S] = q /\ H[q] = S
    BY <2>2, <2>3
  <2> QED
    BY <2>2, <2>3, <2>4
<1>11. ASSUME NEW i \in DOMAIN popped'[t]
       PROVE  LET p == <<"popped", <<t, i>>>>
                  q == <<"popped", <<t, i + 1>>>>
              IN  /\ p \in DOMAIN Cells' /\ q \in DOMAIN C /\ Cells'[p] = C[q]
                  /\ G[p] = q /\ H[q] = p
  <2> DEFINE p == <<"popped", <<t, i>>>>
  <2> DEFINE q == <<"popped", <<t, i + 1>>>>
  <2>1. /\ i \in Nat \ {0} /\ i + 1 \in DOMAIN popped[t]
        /\ popped'[t][i] = popped[t][i + 1]
    BY <1>2
  <2>2. q \in DOMAIN Cells /\ Cells[q] = popped[t][i + 1].storage
    BY <1>6, <2>1
  <2>3. p \in DOMAIN Cells' /\ Cells'[p] = popped'[t][i].storage
    BY <1>7
  <2>4. p # S /\ q # S
    OBVIOUS
  <2>5. q \in DOMAIN C /\ Cells'[p] = C[q]
    BY <1>4, <2>1, <2>2, <2>3, <2>4
  <2>6. /\ p[1] = "popped" /\ p[2][1] = t /\ q = <<"popped", <<t, p[2][2] + 1>>>>
        /\ q[1] = "popped" /\ q[2][1] = t /\ q[2][2] - 1 = i
        /\ q # <<"popped", <<t, 1>>>>
    BY <2>1
  <2>7. p = <<"popped", <<t, q[2][2] - 1>>>>
    BY <2>6
  <2> HIDE DEF p, q
  <2>8. G[p] = q
    BY <2>3, <2>4, <2>6
  <2>9. H[q] = p
    BY <2>5, <2>6, <2>7
  <2> QED
    BY <2>3, <2>5, <2>8, <2>9 DEF p, q
<1> HIDE DEF G, H
<1>12. ASSUME NEW p \in Full(Cells')
       PROVE  G[p] \in DOMAIN C /\ Cells'[p] = C[G[p]] /\ H[G[p]] = p
  <2>1. p \in DOMAIN Cells'
    BY DEF Full
  <2>2. CASE p = S
    BY <1>10, <2>2
  <2>3. CASE \E i \in DOMAIN popped'[t] : p = <<"popped", <<t, i>>>>
    <3>1. PICK i \in DOMAIN popped'[t] : p = <<"popped", <<t, i>>>>
      BY <2>3
    <3>2. LET q == <<"popped", <<t, i + 1>>>>
          IN  q \in DOMAIN C /\ Cells'[p] = C[q] /\ G[p] = q /\ H[q] = p
      BY <1>11, <3>1
    <3> QED
      BY <3>2
  <2>4. CASE \/ \E u \in Threads : p = <<"buf", u>> \/ (p = <<"sb", u>> /\ u # t)
             \/ \E i \in DOMAIN m_queue : p = <<"queue", i>>
             \/ \E u \in Threads \ {t} : \E i \in DOMAIN popped[u] : p = <<"popped", <<u, i>>>>
    BY <1>9, <2>4
  <2>5. \/ \E u \in Threads : p = <<"buf", u>> \/ p = <<"sb", u>>
        \/ \E i \in DOMAIN m_queue : p = <<"queue", i>>
        \/ \E u \in Threads : \E i \in DOMAIN popped'[u] : p = <<"popped", <<u, i>>>>
    BY <1>1, <2>1, CellsArePrime DEF CellFacts
  <2>6. CASE \E u \in Threads \ {t} : \E i \in DOMAIN popped'[u] : p = <<"popped", <<u, i>>>>
    <3>1. \A u \in Threads \ {t} : popped'[u] = popped[u]
      BY <1>1
    <3> QED
      BY <2>4, <2>6, <3>1
  <2> QED
    BY <2>2, <2>3, <2>4, <2>5, <2>6
<1>13. ASSUME NEW q \in Full(C)
       PROVE  H[q] \in DOMAIN Cells' /\ Cells'[H[q]] = C[q] /\ G[H[q]] = q
  <2>1. q \in DOMAIN Cells /\ q # S
    BY <1>4 DEF Full
  <2>2. CASE q = <<"popped", <<t, 1>>>>
    BY <1>10, <2>2
  <2>3. CASE \E i \in DOMAIN popped[t] : i # 1 /\ q = <<"popped", <<t, i>>>>
    <3>1. PICK i \in DOMAIN popped[t] : i # 1 /\ q = <<"popped", <<t, i>>>>
      BY <2>3
    <3>2. PICK j \in DOMAIN popped'[t] : j + 1 = i
      <4>1. i - 1 \in DOMAIN popped'[t] /\ (i - 1) + 1 = i
        BY <1>2, <3>1
      <4> QED
        BY <4>1
    <3> QED
      BY <1>11, <3>1, <3>2
  <2>4. CASE \/ \E u \in Threads : q = <<"buf", u>> \/ (q = <<"sb", u>> /\ u # t)
             \/ \E i \in DOMAIN m_queue : q = <<"queue", i>>
             \/ \E u \in Threads \ {t} : \E i \in DOMAIN popped[u] : q = <<"popped", <<u, i>>>>
    BY <1>9, <2>4
  <2>5. \/ \E u \in Threads : q = <<"buf", u>> \/ q = <<"sb", u>>
        \/ \E i \in DOMAIN m_queue : q = <<"queue", i>>
        \/ \E u \in Threads : \E i \in DOMAIN popped[u] : q = <<"popped", <<u, i>>>>
    BY <2>1, CellsAre DEF CellFacts
  <2> QED
    BY <2>1, <2>2, <2>3, <2>4, <2>5
<1>14. Transfers(C, G, H, Cells')
  BY <1>12, <1>13 DEF Transfers
<1>15. Owned(Cells', FreeOf(m_allocations'), memory')
  BY <1>3, <1>14, Transfer
<1> QED
  BY <1>15 DEF OwnedNow

\* A thread that is inside pop() has no vector of elements yet.
PopEmptyHanded == \A t \in Threads : pc[t] # "idle" => popped[t] = <<>>

\* Only PopReturns gives elements to a thread that is inside pop(), and it leaves pop().
LEMMA StepEmptyHanded ==
    ASSUME TypeOK, PopEmptyHanded, NEW t \in Threads, Step(t)
    PROVE  PopEmptyHanded'
<1> USE DEF PopEmptyHanded, Idle
<1>1. /\ pc \in [Threads -> {"idle", "waiting", "notified"}]
      /\ popped \in [Threads -> Seq(SizedBuffers)]
  BY DEF TypeOK
<1>2. ASSUME NotifyOne PROVE \A u \in Threads : pc'[u] # "idle" => pc[u] # "idle"
  BY <1>1, <1>2 DEF NotifyOne
<1>3. CASE Push(t) \/ WakeUp(t)
  BY <1>2, <1>3 DEF Push, WakeUp
<1>4. CASE PopWaits(t)
  BY <1>1, <1>4 DEF PopWaits
<1>5. CASE SpuriousWake(t)
  BY <1>1, <1>5 DEF SpuriousWake
<1>6. CASE PopReturns(t)
  BY <1>1, <1>6 DEF PopReturns, TakeAll
<1>7. CASE Pop(t)
  BY <1>1, <1>7 DEF Pop, TakeAll
<1>8. CASE TakeElement(t)
  BY <1>1, <1>8 DEF TakeElement
<1>9. ASSUME \/ \E n \in Sizes : Allocate(t, n) \/ Adopt(t, n) \/ Resize(t, n)
                                   \/ Reserve(t, n)
             \/ Reset(t) \/ Clear(t) \/ ToBuffer(t)
      PROVE  UNCHANGED <<pc, popped>>
  BY <1>9 DEF Allocate, Adopt, Resize, Reserve, Reset, Clear, ToBuffer
<1> QED
  BY <1>3, <1>4, <1>5, <1>6, <1>7, <1>8, <1>9 DEF Step

\* Every operation of a thread leaves every block owned once.
LEMMA StepOwned ==
    ASSUME TypeOK, OwnedNow, PopEmptyHanded,
           NEW t \in Threads, Step(t)
    PROVE  OwnedNow'
<1>1. Sizes \subseteq Nat
  BY BufferQueueAssumption
<1>2. ASSUME NEW n \in Sizes, Allocate(t, n) PROVE OwnedNow'
  BY <1>2, OwnedAllocate
<1>3. ASSUME NEW n \in Sizes, Adopt(t, n) PROVE OwnedNow'
  BY <1>3, OwnedAdopt
<1>4. ASSUME NEW n \in Sizes, Resize(t, n) PROVE OwnedNow'
  <2>1. UNCHANGED <<buf, m_queue, popped>>
    BY <1>4 DEF Resize
  <2>2. CASE Grow(t, n, n)
    BY <1>1, <2>1, <2>2, OwnedGrow
  <2>3. CASE sb' = [sb EXCEPT ![t].size = n] /\ UNCHANGED <<memory, m_allocations>>
    BY <2>1, <2>3, OwnedResize
  <2> QED
    BY <1>4, <2>2, <2>3 DEF Resize
<1>5. ASSUME NEW n \in Sizes, Reserve(t, n) PROVE OwnedNow'
  <2>1. UNCHANGED <<buf, m_queue, popped>> /\ Grow(t, n, sb[t].size)
    BY <1>5 DEF Reserve
  <2> QED
    BY <1>1, <2>1, OwnedGrow
<1>6. CASE Reset(t)
  BY <1>6, OwnedReset
<1>7. CASE Clear(t)
  BY <1>7, OwnedClear
<1>8. CASE ToBuffer(t)
  BY <1>8, OwnedToBuffer
<1>9. CASE Push(t)
  BY <1>9, OwnedPush
<1>10. CASE WakeUp(t) \/ PopWaits(t) \/ SpuriousWake(t)
  <2>1. UNCHANGED <<buf, sb, m_queue, popped, memory, m_allocations>>
    BY <1>10 DEF WakeUp, PopWaits, SpuriousWake
  <2> QED
    BY <2>1, OwnedSame
<1>11. CASE Pop(t) \/ PopReturns(t)
  <2>1. popped[t] = <<>> /\ TakeAll(t)
    BY <1>11 DEF Pop, PopReturns, PopEmptyHanded
  <2> QED
    BY <2>1, OwnedTakeAll
<1>12. CASE TakeElement(t)
  BY <1>12, OwnedTakeElement
<1> QED
  BY <1>2, <1>3, <1>4, <1>5, <1>6, <1>7, <1>8, <1>9, <1>10, <1>11, <1>12 DEF Step

\* The inductive invariant.
BlocksInv ==
    /\ TypeOK /\ OwnedNow /\ PopEmptyHanded
    /\ SizeInv
    /\ NoSleepOnElement /\ WaitBlocks

\* Nothing is allocated at the start, and nobody waits.
LEMMA BlocksInit == Init => BlocksInv
<1> SUFFICES ASSUME Init PROVE BlocksInv
  OBVIOUS
<1>1. TypeOK
  BY EmptyTypes DEF Init, TypeOK
<1>2. Full(Cells) = {}
  <2>1. ASSUME NEW p \in DOMAIN Cells PROVE Cells[p].data = Null
    <3>1. CASE \E t \in Threads : p = <<"buf", t>> \/ p = <<"sb", t>>
      <4>1. PICK t \in Threads : p = <<"buf", t>> \/ p = <<"sb", t>>
        BY <3>1
      <4>2. Cells[<<"buf", t>>] = buf[t] /\ Cells[<<"sb", t>>] = sb[t].storage
        BY CellsAre DEF CellFacts
      <4>3. buf[t].data = Null /\ sb[t].storage.data = Null
        BY EmptyTypes DEF Init
      <4> QED
        BY <4>1, <4>2, <4>3
    <3>2. DOMAIN m_queue = {} /\ \A t \in Threads : DOMAIN popped[t] = {}
      BY DEF Init
    <3> QED
      BY <3>1, <3>2, CellsAre DEF CellFacts
  <2> QED
    BY <2>1 DEF Full
<1>3. DOMAIN FreeOf(m_allocations) = {}
  <2>1. \A k \in Pools : DOMAIN m_allocations[k] = {}
    BY DEF Init
  <2> QED
    BY <2>1 DEF FreeOf
<1>4. OwnedNow
  BY <1>2, <1>3 DEF OwnedNow, Owned, Init
<1>5. PopEmptyHanded /\ NoSleepOnElement /\ WaitBlocks
  BY DEF Init, PopEmptyHanded, NoSleepOnElement, WaitBlocks
<1> QED
  BY <1>1, <1>4, <1>5, SizeInit DEF BlocksInv

\* Every step keeps the inductive invariant.
LEMMA BlocksNext == BlocksInv /\ [Next]_vars => BlocksInv'
<1> SUFFICES ASSUME BlocksInv, [Next]_vars PROVE BlocksInv'
  OBVIOUS
<1>2. CASE Next
  <2>1. PICK t \in Threads : Step(t)
    BY <1>2 DEF Next
  <2>2. TypeOK'
    BY <2>1, StepTypes DEF BlocksInv
  <2>3. OwnedNow'
    BY <2>1, StepOwned DEF BlocksInv
  <2>4. PopEmptyHanded'
    BY <2>1, StepEmptyHanded DEF BlocksInv
  <2>5. SizeInv'
    BY <2>1, StepSizes DEF BlocksInv
  <2>6. NoSleepOnElement' /\ WaitBlocks'
    BY <2>1, StepSleep DEF BlocksInv
  <2> QED
    BY <2>2, <2>3, <2>4, <2>5, <2>6 DEF BlocksInv
<1>3. CASE UNCHANGED vars
  <2>1. UNCHANGED <<m_blocking, memory, m_allocations, buf, asked, sb, moved, m_queue,
                    popped, pc>>
    BY <1>3 DEF vars
  <2>2. TypeOK'
    BY <2>1 DEF BlocksInv, TypeOK
  <2>3. OwnedNow'
    BY <2>1, OwnedSame DEF BlocksInv
  <2>4. PopEmptyHanded' /\ NoSleepOnElement' /\ WaitBlocks'
    BY <2>1 DEF BlocksInv, PopEmptyHanded, NoSleepOnElement, WaitBlocks
  <2>5. SizeInv'
    BY <2>1 DEF BlocksInv, SizeInv, FitsEverywhere, Fits, MovedEmpty
  <2> QED
    BY <2>2, <2>3, <2>4, <2>5 DEF BlocksInv
<1> QED
  BY <1>2, <1>3

\* The counts of OneOwner: a block in use has one place, a block that is not has none.
LEMMA OwnedCounts == BlocksInv => OneOwner
<1> SUFFICES ASSUME BlocksInv PROVE OneOwner
  OBVIOUS
<1> DEFINE F == FreeOf(m_allocations)
<1>1. TypeOK /\ Owned(Cells, F, memory)
  BY DEF BlocksInv, OwnedNow
<1>2. DOMAIN Cells = Places /\ \A p \in Places : Cells[p] = Content(p)
  BY DEF Cells
<1>3. DOMAIN F = Slots /\ \A s \in Slots : F[s] = m_allocations[s[1]][s[2]]
  BY DEF FreeOf, Slots
<1> HIDE DEF F
<1>4. ASSUME NEW b \in Blocks
      PROVE  /\ Holders(b) = {p \in Full(Cells) : Cells[p].data = b}
             /\ FreeSlots(b) = {s \in DOMAIN F : F[s] = b}
  <2>1. b # Null
    BY <1>1, BufferQueueAssumption
  <2>2. Holders(b) = {p \in Full(Cells) : Cells[p].data = b}
    BY <1>2, <2>1 DEF Holders, Full
  <2>3. FreeSlots(b) = {s \in DOMAIN F : F[s] = b}
    BY <1>3 DEF FreeSlots
  <2> QED
    BY <2>2, <2>3
<1>5. ASSUME NEW b \in Blocks
      PROVE  /\ \A p \in Holders(b) : memory[b] = [home |-> Content(p).deleter,
                                                   size |-> Content(p).size]
             /\ \A s \in FreeSlots(b) : memory[b].home = <<"pool", s[1]>>
  <2>1. ASSUME NEW p \in Holders(b)
        PROVE  memory[b] = [home |-> Content(p).deleter, size |-> Content(p).size]
    <3>1. p \in Full(Cells) /\ Cells[p].data = b /\ Cells[p] = Content(p)
      BY <1>2, <1>4 DEF Full
    <3>2. memory[Cells[p].data] = [home |-> Cells[p].deleter, size |-> Cells[p].size]
      BY <1>1, <3>1 DEF Owned
    <3> QED
      BY <3>1, <3>2
  <2>2. ASSUME NEW s \in FreeSlots(b) PROVE memory[b].home = <<"pool", s[1]>>
    <3>1. s \in DOMAIN F /\ F[s] = b
      BY <1>4
    <3>2. memory[F[s]] = [home |-> <<"pool", s[1]>>, size |-> PoolSize(s[1])]
      BY <1>1, <3>1 DEF Owned
    <3> QED
      BY <3>1, <3>2
  <2> QED
    BY <2>1, <2>2
<1>6. ASSUME NEW b \in Blocks
      PROVE  Cardinality(Holders(b)) + Cardinality(FreeSlots(b)) =
                IF memory[b] = Null THEN 0 ELSE 1
  <2>1. Cardinality({}) = 0 /\ \A x : Cardinality({x}) = 1
    BY FS_EmptySet, FS_Singleton
  <2>2. CASE memory[b] = Null
    <3>1. Holders(b) = {} /\ FreeSlots(b) = {}
      BY <1>1, <1>4, <2>2, OwnedInUse
    <3> QED
      BY <2>1, <2>2, <3>1
  <2>3. CASE \E p \in Full(Cells) : Cells[p].data = b
    <3>1. PICK p \in Full(Cells) : Cells[p].data = b
      BY <2>3
    <3>2. Holders(b) = {p}
      BY <1>1, <1>4, <3>1 DEF Owned
    <3>3. FreeSlots(b) = {}
      BY <1>1, <1>4, <3>1 DEF Owned
    <3>4. memory[b] # Null
      BY <1>1, <3>1, OwnedInUse
    <3>5. Cardinality(Holders(b)) = 1 /\ Cardinality(FreeSlots(b)) = 0
      BY <2>1, <3>2, <3>3
    <3> QED
      BY <3>4, <3>5
  <2>4. CASE \E s \in DOMAIN F : F[s] = b
    <3>1. PICK s \in DOMAIN F : F[s] = b
      BY <2>4
    <3>2. FreeSlots(b) = {s}
      BY <1>1, <1>4, <3>1 DEF Owned
    <3>3. Holders(b) = {}
      BY <1>1, <1>4, <3>1 DEF Owned
    <3>4. memory[b] # Null
      BY <1>1, <3>1, OwnedInUse
    <3>5. Cardinality(Holders(b)) = 0 /\ Cardinality(FreeSlots(b)) = 1
      BY <2>1, <3>2, <3>3
    <3> QED
      BY <3>4, <3>5
  <2>5. memory[b] # Null =>
          (\E p \in Full(Cells) : Cells[p].data = b) \/ (\E s \in DOMAIN F : F[s] = b)
    BY <1>1 DEF Owned
  <2> QED
    BY <2>2, <2>3, <2>4, <2>5
<1> QED
  BY <1>1, <1>5, <1>6 DEF OneOwner

\* The invariant holds throughout, whatever the threads do.
LEMMA BlocksAlways == Spec => []BlocksInv
BY BlocksInit, BlocksNext, PTL DEF Spec

\* Every block that operator new[] has given out is owned by exactly one buffer or free
\* list, and its owner gives it back to where it came from, however buffer's and
\* sized_buffer's moves, resize(), to_buffer(), log2_memory_pool's reuse and the
\* queue's push() and pop() interleave.
THEOREM BlockOwnedOnce == Spec => []OneOwner
BY BlocksAlways, OwnedCounts, PTL

\* size() of a sized_buffer that was not moved from never exceeds its storage, and the
\* block that allocate() picks by its rounded logarithm is never smaller than asked for.
THEOREM SizeBacked == Spec => []SizeFits
<1>1. BlocksInv => SizeFits
  BY SizesAre DEF BlocksInv, SizeInv
<1> QED
  BY <1>1, BlocksAlways, PTL

\* No thread sleeps in pop() on an element of the event_queue unless another one has
\* been notified, although push() notifies only one and the wait has no predicate.
THEOREM ElementNotSleptOn == Spec => []NoSleepOnElement
<1>1. BlocksInv => NoSleepOnElement
  BY DEF BlocksInv
<1> QED
  BY <1>1, BlocksAlways, PTL
================================================================================
