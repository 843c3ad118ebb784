----------------------------- MODULE MCEventQueue -----------------------------
(***************************************************************************)
(* The queues of event_queue.hpp for TLC: LossyQueue, the ring, and        *)
(* BufferQueue, the blocking queue with the buffers it carries.  They share *)
(* no state, and a behaviour is about one of them.                         *)
(***************************************************************************)
EXTENDS LossyQueue, BufferQueue, TLC

VARIABLE queue   \* the one that is used

QueueInit ==
    /\ RingInit /\ Init
    /\ queue \in {"lossy", "blocking"}

QueueNext ==
    /\ \/ queue = "lossy" /\ RingNext /\ UNCHANGED vars
       \/ queue = "blocking" /\ Next /\ UNCHANGED ringVars
    /\ UNCHANGED queue

QueueSpec == QueueInit /\ [][QueueNext]_<<vars, ringVars, queue>>

\* Threads and addresses are interchangeable.
Symmetry == Permutations(Threads) \cup Permutations(Blocks)
=============================================================================
