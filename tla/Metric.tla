-------------------------------- MODULE Metric --------------------------------
(***************************************************************************)
(* bfc::metric: an atomic<double> with store(), fetch_add() and            *)
(* fetch_sub().  Each atomic operation is one step.  Values are integers:  *)
(* an increment too small to change the double is the increment 0.         *)
(***************************************************************************)
EXTENDS Integers

CONSTANTS Updaters,  \* threads that update the metric
          Amounts,   \* arguments
          MaxAbs     \* bound: calls that would leave -MaxAbs..MaxAbs are not made

VARIABLES m_value,
          pc,        \* "idle", "load" or "cas": where the thread is in a call
          op,        \* "add" or "sub"
          val,       \* its argument
          old,       \* its local
          total      \* history: what the calls that have begun add up to

vars == <<m_value, pc, op, val, old, total>>

Init ==
    /\ m_value = 0
    /\ total = 0
    /\ pc = [u \in Updaters |-> "idle"]
    /\ op = [u \in Updaters |-> "add"]
    /\ val = [u \in Updaters |-> 0]
    /\ old = [u \in Updaters |-> 0]

Signed(o, v) == IF o = "add" THEN v ELSE -v

\* store(), while no other call is in progress (a store racing an add has no sum).
Store(v) ==
    /\ \A u \in Updaters : pc[u] = "idle"
    /\ m_value' = v
    /\ total' = v
    /\ UNCHANGED <<pc, op, val, old>>

\* fetch_add(v) or fetch_sub(v) is called.
Call(u, o, v) ==
    /\ pc[u] = "idle"
    /\ total + Signed(o, v) \in -MaxAbs..MaxAbs
    /\ total' = total + Signed(o, v)
    /\ pc' = [pc EXCEPT ![u] = "load"]
    /\ op' = [op EXCEPT ![u] = o]
    /\ val' = [val EXCEPT ![u] = v]
    /\ UNCHANGED <<m_value, old>>

\* old+val, or old-val.
Desired(u) == old[u] + Signed(op[u], val[u])

\* auto old = m_value.load(); an amount that changes nothing returns here.
Load(u) ==
    /\ pc[u] = "load"
    /\ old' = [old EXCEPT ![u] = m_value]
    /\ pc' = [pc EXCEPT ![u] =
                 IF m_value = m_value + Signed(op[u], val[u]) THEN "idle" ELSE "cas"]
    /\ UNCHANGED <<m_value, op, val, total>>

\* while (m_value.compare_exchange_strong(old, desired));
\* A successful exchange goes round again; the one that fails, having read
\* m_value into old, ends the loop.
Cas(u) ==
    /\ pc[u] = "cas"
    /\ IF m_value = old[u]
       THEN m_value' = Desired(u) /\ UNCHANGED <<old, pc>>
       ELSE /\ old' = [old EXCEPT ![u] = m_value]
            /\ pc' = [pc EXCEPT ![u] = "idle"]
            /\ UNCHANGED m_value
    /\ UNCHANGED <<op, val, total>>

Next ==
    \/ \E v \in Amounts : Store(v)
    \/ \E u \in Updaters :
          \/ Load(u) \/ Cas(u)
          \/ \E v \in Amounts, o \in {"add", "sub"} : Call(u, o, v)

Spec == Init /\ [][Next]_vars

-----------------------------------------------------------------------------

\* When no call is in progress the metric is the sum of the calls made since the
\* last store(): each fetch_add() and fetch_sub() was applied exactly once.
AddedOnce == (\A u \in Updaters : pc[u] = "idle") => m_value = total
=============================================================================
