------------------------------- MODULE LossyFifo -------------------------------
(***************************************************************************)
(* What reactive_circular_lossy_queue promises its users: a FIFO of        *)
(* bounded capacity in which a push into a full queue drops the oldest     *)
(* element, and in which a change of capacity keeps the newest ones.       *)
(***************************************************************************)
EXTENDS Integers, Sequences

CONSTANTS Items,      \* the elements
          NoItem,     \* std::nullopt
          Capacities  \* the arguments of set_capacity()

VARIABLES queue,      \* the elements, oldest first
          capacity,
          out         \* what the last operation returned, released and signalled

vars == <<queue, capacity, out>>

Init ==
    /\ queue = <<>>
    /\ capacity = 0
    /\ out = [ret |-> NoItem, released |-> {}, wake |-> FALSE]

\* Returns the occupancy before the call; a queue of capacity zero discards u
\* and wakes nobody.
Push(u) ==
    /\ UNCHANGED capacity
    /\ \/ /\ capacity = 0
          /\ UNCHANGED queue
          /\ out' = [ret |-> Len(queue), released |-> {u}, wake |-> FALSE]
       \/ /\ Len(queue) < capacity
          /\ queue' = Append(queue, u)
          /\ out' = [ret |-> Len(queue), released |-> {}, wake |-> TRUE]
       \/ /\ capacity > 0
          /\ Len(queue) >= capacity
          /\ queue' = Append(Tail(queue), u)
          /\ out' = [ret |-> Len(queue), released |-> {Head(queue)}, wake |-> TRUE]

Pop ==
    /\ UNCHANGED capacity
    /\ \/ /\ queue = <<>>
          /\ UNCHANGED queue
          /\ out' = [ret |-> NoItem, released |-> {}, wake |-> FALSE]
       \/ /\ queue # <<>>
          /\ queue' = Tail(queue)
          /\ out' = [ret |-> Head(queue), released |-> {}, wake |-> FALSE]

\* Keeps the newest n elements, if there are that many, in order.
SetCapacity(n) ==
    LET drop == IF Len(queue) > n THEN Len(queue) - n ELSE 0 IN
    /\ capacity' = n
    /\ queue' = SubSeq(queue, drop + 1, Len(queue))
    /\ out' = [ret |-> NoItem,
               released |-> {queue[i] : i \in 1..drop},
               wake |-> FALSE]

Next ==
    \/ \E u \in Items : Push(u)
    \/ Pop
    \/ \E n \in Capacities : SetCapacity(n)

Spec == Init /\ [][Next]_vars
=============================================================================
