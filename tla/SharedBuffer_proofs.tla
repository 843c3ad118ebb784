-------------------------- MODULE SharedBuffer_proofs --------------------------
(***************************************************************************)
(* shared_sized_buffer counts references exactly, deletes a storage once   *)
(* and not before its last view, and keeps every view inside its storage,  *)
(* for any finite sets of threads and views, any number of storages and    *)
(* any capacities.                                                         *)
(***************************************************************************)
EXTENDS SharedBuffer, FiniteSetTheorems, TLAPS

-----------------------------------------------------------------------------
(* The inductive invariant. *)

\* The storage each view refers to, and the one each thread has yet to release.
StorageOf == [v \in Views |-> view[v].st]
ToRelease == [t \in Threads |-> IF op[t].pc = "release" THEN op[t].st ELSE Null]

\* How many elements of S the function f maps to s.
Where(S, f, s) == {x \in S : f[x] = s}
Count(S, f, s) == Cardinality(Where(S, f, s))

\* The references to s that exist.
References(s) == Count(Views, StorageOf, s) + Count(Threads, ToRelease, s)

RefsCounted == \A s \in live : refs[s] = References(s)

\* What a view or a call refers to exists.
RefersToLive ==
    /\ \A v \in Views : view[v].st # Null => view[v].st \in live
    /\ \A t \in Threads : op[t].pc # "idle" => op[t].st \in live

\* A thread that is to delete a storage found its count at zero, alone.
DeletesLast ==
    /\ \A t \in Threads : op[t].pc = "delete" => refs[op[t].st] = 0
    /\ \A t, u \in Threads :
          op[t].pc = "delete" /\ op[u].pc = "delete" /\ op[t].st = op[u].st => t = u

\* A thread between two calls has nothing left to do.
IdleOps == \A t \in Threads : op[t].pc = "idle" => op[t] = Idle

\* The size that clear(), reserve() and resize() set after release_ref() fits the
\* storage the view has by then.
PendingFits ==
    \A t \in Threads : op[t].v # NoView =>
        /\ Owner[op[t].v] = t
        /\ IF view[op[t].v].st = Null THEN op[t].size = 0
           ELSE /\ view[op[t].v].off = 0
                /\ op[t].size <= cap[view[op[t].v].st]

\* A view without storage is empty, unless its clear() has not returned.
EmptyViews == \A v \in Views : view[v].st = Null /\ MayRead(v) => view[v] = Empty

RefInv == RefsCounted /\ RefersToLive /\ DeletesLast
ShapeInv == IdleOps /\ PendingFits /\ EmptyViews /\ ViewsInRange
Inv == TypeOK /\ RefInv /\ ShapeInv

-----------------------------------------------------------------------------
(* Counting. *)

\* A count is a number.
LEMMA CountType ==
    ASSUME NEW S, IsFiniteSet(S), NEW f, NEW s
    PROVE  IsFiniteSet(Where(S, f, s)) /\ Count(S, f, s) \in Nat
<1>1. Where(S, f, s) \subseteq S
  BY DEF Where
<1> QED
  BY <1>1, FS_Subset, FS_CardinalityType DEF Count

\* A count is zero when and only when there is nothing to count.
LEMMA CountZero ==
    ASSUME NEW S, IsFiniteSet(S), NEW f, NEW s
    PROVE  Count(S, f, s) = 0 <=> \A x \in S : f[x] # s
<1>1. IsFiniteSet(Where(S, f, s))
  BY CountType
<1>2. Where(S, f, s) = {} <=> \A x \in S : f[x] # s
  BY DEF Where
<1>3. Count(S, f, s) = 0 <=> Where(S, f, s) = {}
  BY <1>1, FS_EmptySet DEF Count
<1> QED
  BY <1>2, <1>3

\* Changing the value at one element changes the counts of its old and its new
\* value.
LEMMA CountChange ==
    ASSUME NEW S, IsFiniteSet(S), NEW f, NEW g, NEW e \in S, NEW s,
           \A x \in S \ {e} : g[x] = f[x]
    PROVE  Count(S, g, s) = Count(S, f, s) - (IF f[e] = s THEN 1 ELSE 0)
                                           + (IF g[e] = s THEN 1 ELSE 0)
<1> DEFINE C == Where(S \ {e}, f, s)
<1>1. C \subseteq S /\ e \notin C
  BY DEF Where
<1>2. Where(S, f, s) = IF f[e] = s THEN C \cup {e} ELSE C
  BY DEF Where
<1>3. Where(S, g, s) = IF g[e] = s THEN C \cup {e} ELSE C
  BY DEF Where
<1> HIDE DEF C
<1>4. IsFiniteSet(C) /\ Cardinality(C) \in Nat
  BY <1>1, FS_Subset, FS_CardinalityType
<1>5. Cardinality(C \cup {e}) = Cardinality(C) + 1
  BY <1>1, <1>4, FS_AddElement
<1>6. Count(S, f, s) = Cardinality(C) + (IF f[e] = s THEN 1 ELSE 0)
  BY <1>2, <1>4, <1>5 DEF Count
<1>7. Count(S, g, s) = Cardinality(C) + (IF g[e] = s THEN 1 ELSE 0)
  BY <1>3, <1>4, <1>5 DEF Count
<1> QED
  BY <1>4, <1>6, <1>7

\* The number of references is a natural number.
LEMMA ReferencesType ==
    ASSUME NEW s
    PROVE  /\ References(s) \in Nat
           /\ Count(Views, StorageOf, s) \in Nat
           /\ Count(Threads, ToRelease, s) \in Nat
<1>1. Count(Views, StorageOf, s) \in Nat
  BY CountType, SharedBufferAssumption
<1>2. Count(Threads, ToRelease, s) \in Nat
  BY CountType, SharedBufferAssumption
<1> QED
  BY <1>1, <1>2 DEF References

\* A storage that does not exist has no references.
LEMMA NoReferences ==
    ASSUME Inv, NEW s \in Storages \ live
    PROVE  References(s) = 0
<1>1. \A v \in Views : StorageOf[v] # s
  BY SharedBufferAssumption DEF Inv, RefInv, RefersToLive, StorageOf
<1>2. \A t \in Threads : ToRelease[t] # s
  BY SharedBufferAssumption DEF Inv, RefInv, RefersToLive, ToRelease
<1>3. Count(Views, StorageOf, s) = 0
  BY <1>1, CountZero, SharedBufferAssumption
<1>4. Count(Threads, ToRelease, s) = 0
  BY <1>2, CountZero, SharedBufferAssumption
<1> QED
  BY <1>3, <1>4 DEF References

\* Nothing refers to a storage whose count is zero.
LEMMA ZeroUnused ==
    ASSUME Inv, NEW s \in live, refs[s] = 0
    PROVE  /\ \A v \in Views : view[v].st # s
           /\ \A t \in Threads : op[t].pc = "release" => op[t].st # s
<1>1. Count(Views, StorageOf, s) = 0 /\ Count(Threads, ToRelease, s) = 0
  BY ReferencesType DEF Inv, RefInv, RefsCounted, References
<1>2. \A v \in Views : StorageOf[v] # s
  BY <1>1, CountZero, SharedBufferAssumption
<1>3. \A t \in Threads : ToRelease[t] # s
  BY <1>1, CountZero, SharedBufferAssumption
<1> QED
  BY <1>2, <1>3 DEF StorageOf, ToRelease

\* A storage that something refers to has a count of at least one.
LEMMA UsedPositive ==
    ASSUME Inv, NEW s \in live,
           \/ \E v \in Views : view[v].st = s
           \/ \E t \in Threads : op[t].pc = "release" /\ op[t].st = s
    PROVE  refs[s] \in Nat \ {0}
<1>1. refs[s] \in Nat
  BY DEF Inv, TypeOK
<1> QED
  BY <1>1, ZeroUnused

-----------------------------------------------------------------------------
(* An operation that gives the view v of an idle thread t the storage b: the *)
(* old storage of v, if it had one, is what t releases next.                 *)

Rebound(t, v, b) ==
    /\ op[t].pc = "idle"
    /\ \A w \in Views : view'[w].st = IF w = v THEN b ELSE view[w].st
    /\ \A u \in Threads :
          IF u = t /\ view[v].st # Null
          THEN op'[u].pc = "release" /\ op'[u].st = view[v].st
          ELSE op'[u].pc = op[u].pc /\ op'[u].st = op[u].st

\* Only b gains a reference; the old storage's is now the thread's.
LEMMA ReboundReferences ==
    ASSUME TypeOK, NEW t \in Threads, NEW v \in Views, NEW b, Rebound(t, v, b),
           NEW s \in Storages
    PROVE  References(s)' = References(s) + (IF b = s THEN 1 ELSE 0)
<1> USE SharedBufferAssumption
<1>1. /\ StorageOf[v] = view[v].st /\ StorageOf'[v] = b
      /\ \A w \in Views \ {v} : StorageOf'[w] = StorageOf[w]
  BY DEF Rebound, StorageOf
<1>2. /\ ToRelease[t] = Null /\ ToRelease'[t] = view[v].st
      /\ \A u \in Threads \ {t} : ToRelease'[u] = ToRelease[u]
  BY DEF Rebound, ToRelease
<1>3. Count(Views, StorageOf', s) = Count(Views, StorageOf, s)
        - (IF view[v].st = s THEN 1 ELSE 0) + (IF b = s THEN 1 ELSE 0)
  <2> DEFINE f == StorageOf
             g == StorageOf'
  <2>1. f[v] = view[v].st /\ g[v] = b /\ \A w \in Views \ {v} : g[w] = f[w]
    BY <1>1
  <2>2. IsFiniteSet(Views)
    OBVIOUS
  <2> HIDE DEF f, g
  <2>3. Count(Views, g, s) = Count(Views, f, s) - (IF f[v] = s THEN 1 ELSE 0)
                                                + (IF g[v] = s THEN 1 ELSE 0)
    BY ONLY <2>1, <2>2, v \in Views, CountChange
  <2> QED
    BY <2>1, <2>3 DEF f, g
<1>4. Count(Threads, ToRelease', s) = Count(Threads, ToRelease, s)
        - (IF Null = s THEN 1 ELSE 0) + (IF view[v].st = s THEN 1 ELSE 0)
  BY <1>2, CountChange
<1>5. References(s)' = Count(Views, StorageOf', s) + Count(Threads, ToRelease', s)
  BY DEF References
<1>6. s # Null
  OBVIOUS
<1> QED
  BY <1>3, <1>4, <1>5, <1>6, ReferencesType DEF References

\* v refers to what another view refers to, which is counted (b is a storage), or
\* to nothing (b is Null).
LEMMA ReboundAcquires ==
    ASSUME Inv, NEW t \in Threads, NEW v \in Views, NEW b, Rebound(t, v, b),
           b # Null => \E w \in Views : b = view[w].st,
           Acquire(b), live' = live
    PROVE  RefInv'
<1> USE SharedBufferAssumption
<1>1. b = Null \/ b \in live
  BY DEF Inv, RefInv, RefersToLive
<1>2. \A s \in Storages : refs'[s] = refs[s] + (IF b = s THEN 1 ELSE 0)
  BY <1>1 DEF Acquire, Inv, TypeOK
<1>3. RefsCounted'
  <2> SUFFICES ASSUME NEW s \in live PROVE refs'[s] = References(s)'
    BY DEF RefsCounted
  <2>1. s \in Storages
    BY DEF Inv, TypeOK
  <2> QED
    BY <1>2, <2>1, ReboundReferences DEF Inv, RefInv, RefsCounted
<1>4. RefersToLive'
  BY <1>1 DEF Rebound, RefersToLive, Inv, RefInv
<1>5. DeletesLast'
  <2>1. \A u \in Threads : op[u].pc = "delete" => op[u].st # b
    <3> SUFFICES ASSUME NEW u \in Threads, op[u].pc = "delete", op[u].st = b PROVE FALSE
      OBVIOUS
    <3>1. b \in live /\ refs[b] = 0
      BY DEF Inv, RefInv, DeletesLast, RefersToLive
    <3>2. b # Null
      BY <3>1 DEF Inv, TypeOK
    <3> QED
      BY <3>1, <3>2, ZeroUnused
  <2>2. \A u \in Threads : op'[u].pc = "delete" => /\ op[u].pc = "delete"
                                                   /\ op'[u].st = op[u].st
    BY DEF Rebound
  <2>3. \A u \in Threads : op[u].pc = "delete" => op[u].st \in Storages
    BY DEF Inv, RefInv, RefersToLive, TypeOK
  <2> QED
    BY <1>2, <2>1, <2>2, <2>3 DEF DeletesLast, Inv, RefInv, TypeOK
<1> QED
  BY <1>3, <1>4, <1>5 DEF RefInv

\* v refers to a new storage, of which it is the only view.
LEMMA ReboundNew ==
    ASSUME Inv, NEW t \in Threads, NEW v \in Views, NEW b \in Storages, NEW c,
           Rebound(t, v, b), NewStorage(b, c)
    PROVE  RefInv'
<1> USE SharedBufferAssumption
<1>1. b \notin live /\ live' = live \cup {b} /\ live \subseteq Storages
  BY DEF NewStorage, Inv, TypeOK
<1>2. \A s \in Storages : refs'[s] = IF s = b THEN 1 ELSE refs[s]
  BY DEF NewStorage, Inv, TypeOK
<1>3. RefsCounted'
  <2> SUFFICES ASSUME NEW s \in live' PROVE refs'[s] = References(s)'
    BY DEF RefsCounted
  <2>1. References(s)' = References(s) + (IF b = s THEN 1 ELSE 0)
    BY <1>1, ReboundReferences DEF Inv
  <2>2. CASE s = b
    BY <1>1, <1>2, <2>1, <2>2, NoReferences
  <2>3. CASE s # b
    BY <1>1, <1>2, <2>1, <2>3, ReferencesType DEF Inv, RefInv, RefsCounted
  <2> QED
    BY <2>2, <2>3
<1>4. RefersToLive'
  BY <1>1 DEF Rebound, RefersToLive, Inv, RefInv
<1>5. DeletesLast'
  <2>1. \A u \in Threads : op'[u].pc = "delete" => /\ op[u].pc = "delete"
                                                   /\ op'[u].st = op[u].st
                                                   /\ op[u].st \in live
    BY DEF Rebound, Inv, RefInv, RefersToLive
  <2> QED
    BY <1>1, <1>2, <2>1 DEF DeletesLast, Inv, RefInv
<1> QED
  BY <1>3, <1>4, <1>5 DEF RefInv

-----------------------------------------------------------------------------
(* References: every action is one of the two above, or one of these. *)

\* std::move() passes the reference on.
LEMMA MoveReferences ==
    ASSUME Inv, NEW t \in Threads, NEW v \in Views, NEW w \in Views, Move(t, v, w),
           NEW s \in Storages
    PROVE  References(s)' = References(s)
<1> USE SharedBufferAssumption
<1> DEFINE f == StorageOf
           h == [x \in Views |-> IF x = w THEN Null ELSE f[x]]
           g == StorageOf'
           p == ToRelease
           q == ToRelease'
<1>1. v # w /\ s # Null /\ IsFiniteSet(Views) /\ IsFiniteSet(Threads)
  BY DEF Move
<1>2. \A x \in Views : g[x] = IF x = v THEN f[w] ELSE IF x = w THEN Null ELSE f[x]
  BY <1>1 DEF Move, Inv, TypeOK, StorageOf, Empty
<1>3. /\ p[t] = Null /\ q[t] = f[v]
      /\ \A u \in Threads \ {t} : q[u] = p[u]
  BY DEF Move, MayChange, ReleaseOld, Releasing, Inv, TypeOK, StorageOf, ToRelease
<1>4. References(s)' = Count(Views, g, s) + Count(Threads, q, s)
  BY DEF References
<1>5. /\ References(s) = Count(Views, f, s) + Count(Threads, p, s)
      /\ Count(Views, f, s) \in Nat /\ Count(Threads, p, s) \in Nat
  BY ReferencesType DEF References
<1>6. \A x \in Views \ {w} : h[x] = f[x]
  OBVIOUS
<1>7. \A x \in Views \ {v} : g[x] = h[x]
  BY <1>1, <1>2
<1>8. h[w] = Null /\ h[v] = f[v] /\ g[v] = f[w]
  BY <1>1, <1>2
<1> HIDE DEF f, h, g, p, q
<1>9. Count(Views, h, s) = Count(Views, f, s) - (IF f[w] = s THEN 1 ELSE 0)
                                              + (IF h[w] = s THEN 1 ELSE 0)
  BY ONLY <1>1, <1>6, w \in Views, CountChange
<1>10. Count(Views, g, s) = Count(Views, h, s) - (IF h[v] = s THEN 1 ELSE 0)
                                               + (IF g[v] = s THEN 1 ELSE 0)
  BY ONLY <1>1, <1>7, v \in Views, CountChange
<1>11. Count(Threads, q, s) = Count(Threads, p, s) - (IF p[t] = s THEN 1 ELSE 0)
                                                   + (IF q[t] = s THEN 1 ELSE 0)
  BY ONLY <1>1, <1>3, t \in Threads, CountChange
<1> QED
  BY <1>1, <1>3, <1>4, <1>5, <1>8, <1>9, <1>10, <1>11

\* std::move() keeps the counts exact.
LEMMA MoveRefs ==
    ASSUME Inv, NEW t \in Threads, NEW v \in Views, NEW w \in Views, Move(t, v, w)
    PROVE  RefInv'
<1> USE SharedBufferAssumption
<1>1. refs' = refs /\ live' = live /\ live \subseteq Storages /\ op[t].pc = "idle"
  BY DEF Move, MayChange, Inv, TypeOK
<1>2. RefsCounted'
  <2> SUFFICES ASSUME NEW s \in live PROVE refs'[s] = References(s)'
    BY <1>1 DEF RefsCounted
  <2> QED
    BY <1>1, MoveReferences DEF Inv, RefInv, RefsCounted
<1>3. \A x \in Views : \/ view'[x].st = Null
                       \/ \E y \in Views : view'[x].st = view[y].st
  BY DEF Move, Inv, TypeOK, Empty
<1>4. \A u \in Threads : \/ op'[u] = op[u]
                         \/ /\ op'[u].pc = "release"
                            /\ op'[u].st = view[v].st /\ view[v].st # Null
  BY DEF Move, ReleaseOld, Releasing, Inv, TypeOK
<1>5. RefersToLive'
  BY <1>1, <1>3, <1>4 DEF RefersToLive, Inv, RefInv
<1>6. DeletesLast'
  BY <1>1, <1>4 DEF DeletesLast, Inv, RefInv
<1> QED
  BY <1>2, <1>5, <1>6 DEF RefInv

\* What a thread does after its last release_ref() changes no reference.
LEMMA ReturnKeeps ==
    ASSUME TypeOK, NEW t \in Threads, Return(t)
    PROVE  /\ \A v \in Views : view'[v].st = view[v].st
           /\ op'[t] = Idle /\ \A u \in Threads \ {t} : op'[u] = op[u]
BY DEF TypeOK, Return, Idle

\* release_ref() gives up the reference that was the thread's to release.
LEMMA ReleaseReferences ==
    ASSUME Inv, NEW t \in Threads, ReleaseRef(t), NEW s \in Storages
    PROVE  References(s)' = References(s) - (IF op[t].st = s THEN 1 ELSE 0)
<1> USE SharedBufferAssumption
<1> DEFINE p == ToRelease
           q == ToRelease'
<1>1. s # Null /\ IsFiniteSet(Threads)
  OBVIOUS
<1>2. StorageOf' = StorageOf
  BY ReturnKeeps DEF ReleaseRef, Inv, StorageOf
<1>3. /\ p[t] = op[t].st /\ q[t] = Null
      /\ \A u \in Threads \ {t} : q[u] = p[u]
  BY ReturnKeeps DEF ReleaseRef, Inv, TypeOK, ToRelease, Idle
<1>4. References(s)' = Count(Views, StorageOf, s) + Count(Threads, q, s)
  BY <1>2 DEF References
<1>5. /\ References(s) = Count(Views, StorageOf, s) + Count(Threads, p, s)
      /\ Count(Views, StorageOf, s) \in Nat /\ Count(Threads, p, s) \in Nat
  BY ReferencesType DEF References
<1>6. \A u \in Threads \ {t} : q[u] = p[u]
  BY <1>3
<1> HIDE DEF p, q
<1>7. Count(Threads, q, s) = Count(Threads, p, s) - (IF p[t] = s THEN 1 ELSE 0)
                                                  + (IF q[t] = s THEN 1 ELSE 0)
  BY ONLY <1>1, <1>6, t \in Threads, CountChange
<1> QED
  BY <1>1, <1>3, <1>4, <1>5, <1>7

\* release_ref() counts down once; the thread that finds one reference is the only
\* one to delete.
LEMMA ReleaseRefs ==
    ASSUME Inv, NEW t \in Threads, ReleaseRef(t)
    PROVE  RefInv'
<1> DEFINE s0 == op[t].st
<1>1. /\ op[t].pc = "release" /\ s0 \in live /\ live \subseteq Storages
      /\ live' = live /\ refs' = [refs EXCEPT ![s0] = @ - 1]
  BY DEF ReleaseRef, Inv, RefInv, RefersToLive, TypeOK
<1>2. refs[s0] \in Nat \ {0}
  BY <1>1, UsedPositive
<1>3. RefsCounted'
  <2> SUFFICES ASSUME NEW s \in live PROVE refs'[s] = References(s)'
    BY <1>1 DEF RefsCounted
  <2>1. References(s)' = References(s) - (IF s0 = s THEN 1 ELSE 0)
    BY <1>1, ReleaseReferences
  <2>2. refs'[s] = refs[s] - (IF s0 = s THEN 1 ELSE 0)
    BY <1>1 DEF Inv, TypeOK
  <2> QED
    BY <2>1, <2>2 DEF Inv, RefInv, RefsCounted
<1>4. /\ \A v \in Views : view'[v].st = view[v].st
      /\ \A u \in Threads \ {t} : op'[u] = op[u]
      /\ \/ op'[t].pc = "idle"
         \/ op'[t].pc = "delete" /\ op'[t].st = s0 /\ refs[s0] = 1
  BY ReturnKeeps DEF ReleaseRef, Inv, TypeOK, Idle
<1>5. RefersToLive'
  BY <1>1, <1>4 DEF RefersToLive, Inv, RefInv
<1>6. \A u \in Threads \ {t} : op[u].pc = "delete" => op[u].st # s0
  BY <1>2 DEF Inv, RefInv, DeletesLast
<1>7. refs[s0] = 1 => refs'[s0] = 0
  BY <1>1 DEF Inv, TypeOK
<1>8. \A s \in Storages \ {s0} : refs'[s] = refs[s]
  BY <1>1 DEF Inv, TypeOK
<1>9. \A u \in Threads : op[u].pc = "delete" => op[u].st \in Storages
  BY <1>1 DEF Inv, RefInv, RefersToLive
<1>10. DeletesLast'
  <2> HIDE DEF s0
  <2> QED
    BY <1>4, <1>6, <1>7, <1>8, <1>9 DEF DeletesLast, Inv, RefInv
<1> QED
  BY <1>3, <1>5, <1>10 DEF RefInv

\* The storage that is deleted has no view, no pending release and no other
\* deleter.
LEMMA DeleteRefs ==
    ASSUME Inv, NEW t \in Threads, Delete(t)
    PROVE  RefInv'
<1> DEFINE s0 == op[t].st
<1>1. /\ op[t].pc = "delete" /\ s0 \in live /\ refs[s0] = 0
      /\ live' = live \ {s0} /\ refs' = refs
  BY DEF Delete, Inv, RefInv, RefersToLive, DeletesLast
<1>2. /\ \A v \in Views : view'[v].st = view[v].st
      /\ \A u \in Threads \ {t} : op'[u] = op[u]
      /\ op'[t] = Idle
  BY ReturnKeeps DEF Delete, Inv
<1>3. /\ \A v \in Views : view[v].st # s0
      /\ \A u \in Threads \ {t} : op[u].pc # "idle" => op[u].st # s0
  <2>1. /\ \A v \in Views : view[v].st # s0
        /\ \A u \in Threads : op[u].pc = "release" => op[u].st # s0
    BY <1>1, ZeroUnused
  <2>2. \A u \in Threads \ {t} : op[u].pc = "delete" => op[u].st # s0
    BY <1>1 DEF Inv, RefInv, DeletesLast
  <2>3. \A u \in Threads : op[u].pc \in {"idle", "release", "delete"}
    BY DEF Inv, TypeOK
  <2> QED
    BY <2>1, <2>2, <2>3
<1>4. StorageOf' = StorageOf /\ ToRelease' = ToRelease
  BY <1>1, <1>2 DEF StorageOf, ToRelease, Idle
<1>5. RefsCounted'
  <2> SUFFICES ASSUME NEW s \in live PROVE refs'[s] = References(s)'
    BY <1>1 DEF RefsCounted
  <2> QED
    BY <1>1, <1>4 DEF Inv, RefInv, RefsCounted, References
<1>6. RefersToLive'
  BY <1>1, <1>2, <1>3 DEF RefersToLive, Inv, RefInv, Idle
<1>7. DeletesLast'
  BY <1>1, <1>2 DEF DeletesLast, Inv, RefInv, Idle
<1> QED
  BY <1>5, <1>6, <1>7 DEF RefInv

\* A step that changes no reference.
LEMMA RefsKept ==
    ASSUME Inv, UNCHANGED <<live, refs, op>>,
           \A v \in Views : view'[v].st = view[v].st
    PROVE  RefInv'
<1>1. StorageOf' = StorageOf /\ ToRelease' = ToRelease
  BY DEF StorageOf, ToRelease
<1>2. RefsCounted'
  <2> SUFFICES ASSUME NEW s \in live PROVE refs'[s] = References(s)'
    BY DEF RefsCounted
  <2> QED
    BY <1>1 DEF Inv, RefInv, RefsCounted, References
<1>3. RefersToLive' /\ DeletesLast'
  BY DEF RefersToLive, DeletesLast, Inv, RefInv
<1> QED
  BY <1>2, <1>3 DEF RefInv

-----------------------------------------------------------------------------
(* Which actions rebind a view. *)

\* Install() gives v the storage of what is installed.
LEMMA InstallRebinds ==
    ASSUME TypeOK, NEW t \in Threads, NEW v \in Views, MayChange(t, v),
           NEW out, Install(t, v, out)
    PROVE  Rebound(t, v, out.st)
BY DEF TypeOK, MayChange, Install, ReleaseOld, Releasing, Rebound

\* Growing a view gives it the new storage.
LEMMA GrowRebinds ==
    ASSUME TypeOK, NEW t \in Threads, NEW v \in Views, MayChange(t, v),
           NEW c, NEW n, Grow(t, v, c, n)
    PROVE  \E s \in Storages : NewStorage(s, c) /\ Rebound(t, v, s)
<1> PICK s \in Storages :
        /\ NewStorage(s, c)
        /\ IF view[v].st = Null
           THEN view' = [view EXCEPT ![v].st = s, ![v].size = n] /\ UNCHANGED op
           ELSE /\ view' = [view EXCEPT ![v].st = s]
                /\ op' = [op EXCEPT ![t] = Releasing(view[v].st, v, n)]
  BY DEF Grow
<1>1. Rebound(t, v, s)
  BY DEF TypeOK, MayChange, Releasing, Rebound
<1> QED
  BY <1>1

\* Every step keeps the counts exact.
LEMMA NextRefs ==
    ASSUME Inv, [Next]_vars
    PROVE  RefInv'
<1> USE SharedBufferAssumption DEF Inv
<1>1. ASSUME NEW t \in Threads, ReleaseRef(t) PROVE RefInv'
  BY <1>1, ReleaseRefs
<1>2. ASSUME NEW t \in Threads, Delete(t) PROVE RefInv'
  BY <1>2, DeleteRefs
<1>3. ASSUME NEW t \in Threads, NEW v \in Views, Destroy(t, v) PROVE RefInv'
  <2>1. Rebound(t, v, Null) /\ Acquire(Null) /\ live' = live
    BY <1>3, InstallRebinds DEF Destroy, Acquire, Empty
  <2> QED
    BY <2>1, ReboundAcquires
<1>4. ASSUME NEW t \in Threads, NEW v \in Views, Clear(t, v) PROVE RefInv'
  <2>1. Rebound(t, v, Null) /\ Acquire(Null) /\ live' = live
    BY <1>4 DEF Clear, MayChange, Releasing, Rebound, Acquire, TypeOK
  <2> QED
    BY <2>1, ReboundAcquires
<1>5. ASSUME NEW t \in Threads, NEW v \in Views, NEW w \in Views, Copy(t, v, w)
      PROVE  RefInv'
  <2>1. Rebound(t, v, view[w].st) /\ Acquire(view[w].st) /\ live' = live
    BY <1>5, InstallRebinds DEF Copy
  <2> QED
    BY <2>1, ReboundAcquires
<1>6. ASSUME NEW t \in Threads, NEW v \in Views, NEW w \in Views, Move(t, v, w)
      PROVE  RefInv'
  BY <1>6, MoveRefs
<1>7. ASSUME NEW t \in Threads, NEW v \in Views, NEW w \in Views,
             NEW o \in 0..(Word - 1), NEW n \in 0..(Word - 1), Subview(t, v, w, o, n)
      PROVE  RefInv'
  <2>1. Rebound(t, v, view[w].st) /\ Acquire(view[w].st) /\ live' = live
    BY <1>7, InstallRebinds DEF Subview
  <2> QED
    BY <2>1, ReboundAcquires
<1>8. ASSUME NEW t \in Threads, NEW v \in Views, NEW c, Allocate(t, v, c) PROVE RefInv'
  <2>1. \E s \in Storages : NewStorage(s, c) /\ Rebound(t, v, s)
    BY <1>8, InstallRebinds DEF Allocate
  <2> QED
    BY <2>1, ReboundNew
<1>9. ASSUME NEW t \in Threads, NEW v \in Views, NEW c, CopyFrom(t, v, c) PROVE RefInv'
  <2>1. \E s \in Storages : NewStorage(s, c) /\ Rebound(t, v, s)
    BY <1>9, InstallRebinds DEF CopyFrom
  <2> QED
    BY <2>1, ReboundNew
<1>10. ASSUME NEW t \in Threads, NEW v \in Views, NEW c, NEW n, Adopt(t, v, c, n)
       PROVE  RefInv'
  <2>1. \E s \in Storages : NewStorage(s, c) /\ Rebound(t, v, s)
    BY <1>10, InstallRebinds DEF Adopt
  <2> QED
    BY <2>1, ReboundNew
<1>11. ASSUME NEW t \in Threads, NEW v \in Views, NEW c, Reserve(t, v, c) PROVE RefInv'
  BY <1>11, GrowRebinds, ReboundNew DEF Reserve
<1>12. ASSUME NEW t \in Threads, NEW v \in Views, NEW c, ResizeGrows(t, v, c)
       PROVE  RefInv'
  BY <1>12, GrowRebinds, ReboundNew DEF ResizeGrows
<1>13. ASSUME NEW t \in Threads, NEW v \in Views, NEW c, ResizeInPlace(t, v, c)
       PROVE  RefInv'
  <2>1. \A w \in Views : view'[w].st = view[w].st
    BY <1>13 DEF ResizeInPlace, TypeOK
  <2> QED
    BY <1>13, <2>1, RefsKept DEF ResizeInPlace
<1>14. CASE UNCHANGED vars
  BY <1>14, RefsKept DEF vars
<1> QED
  BY <1>1, <1>2, <1>3, <1>4, <1>5, <1>6, <1>7, <1>8, <1>9, <1>10, <1>11, <1>12,
     <1>13, <1>14 DEF Next, Continue, Call

-----------------------------------------------------------------------------
(* The shape of views and calls. *)

ViewRecords == [st : Storages \cup {Null}, off : 0..MaxCapacity, size : 0..MaxCapacity]

CallRecords == [pc : {"idle", "release", "delete"}, st : Storages \cup {Null},
                v : Views \cup {NoView}, size : 0..MaxCapacity]

ShapeOK ==
    /\ view \in [Views -> ViewRecords]
    /\ op \in [Threads -> CallRecords]
    /\ ShapeInv

\* Storages keep their capacity while they exist.
CapKept ==
    /\ cap' \in [Storages -> 0..MaxCapacity]
    /\ \A s \in live : cap'[s] = cap[s]

\* Nobody else is about to change a view that its idle owner may change.
LEMMA OwnedReadable ==
    ASSUME Inv, NEW t \in Threads, NEW v \in Views, MayChange(t, v)
    PROVE  MayRead(v) /\ op[t] = Idle
BY SharedBufferAssumption
   DEF Inv, ShapeInv, IdleOps, PendingFits, MayChange, MayRead, Idle

\* A record that fits its storage is installed in v.
LEMMA InstallShape ==
    ASSUME Inv, NEW t \in Threads, NEW v \in Views, MayChange(t, v),
           NEW out \in ViewRecords, Install(t, v, out), CapKept,
           out.st = Null => out = Empty,
           out.st # Null => out.off + out.size <= cap'[out.st]
    PROVE  ShapeOK'
<1> USE SharedBufferAssumption
<1>1. MayRead(v) /\ op[t] = Idle /\ Owner[v] = t
  BY OwnedReadable DEF MayChange
<1>2. /\ view' = [view EXCEPT ![v] = out]
      /\ view' \in [Views -> ViewRecords]
  BY DEF Install, Inv, TypeOK, ViewRecords
<1>3. /\ op' \in [Threads -> CallRecords]
      /\ \A u \in Threads : op'[u] = op[u] \/ (op'[u].pc = "release" /\ op'[u].v = NoView)
      /\ \A u \in Threads : op'[u].v = op[u].v
  BY <1>1 DEF Install, ReleaseOld, Releasing, Inv, TypeOK, CallRecords, Idle
<1>4. IdleOps'
  BY <1>3 DEF IdleOps, Inv, ShapeInv
<1>5. ViewsInRange'
  BY <1>2 DEF ViewsInRange, CapKept, Inv, ShapeInv, RefInv, RefersToLive
<1>6. PendingFits'
  <2> SUFFICES ASSUME NEW u \in Threads, op'[u].v # NoView
               PROVE  /\ Owner[op'[u].v] = u
                      /\ IF view'[op'[u].v].st = Null THEN op'[u].size = 0
                         ELSE /\ view'[op'[u].v].off = 0
                              /\ op'[u].size <= cap'[view'[op'[u].v].st]
    BY DEF PendingFits
  <2>1. op'[u] = op[u] /\ op[u].v # v /\ op[u].v \in Views
    BY <1>1, <1>3 DEF MayRead, Inv, TypeOK
  <2>2. view'[op[u].v] = view[op[u].v]
    BY <1>2, <2>1 DEF Inv, TypeOK
  <2> QED
    BY <2>1, <2>2 DEF PendingFits, CapKept, Inv, ShapeInv, RefInv, RefersToLive
<1>7. EmptyViews'
  BY <1>2, <1>3 DEF EmptyViews, MayRead, Inv, ShapeInv
<1> QED
  BY <1>2, <1>3, <1>4, <1>5, <1>6, <1>7 DEF ShapeOK, ShapeInv

\* std::move() leaves w empty.
LEMMA MoveShape ==
    ASSUME Inv, NEW t \in Threads, NEW v \in Views, NEW w \in Views, Move(t, v, w)
    PROVE  ShapeOK'
<1> USE SharedBufferAssumption
<1>1. /\ MayRead(v) /\ MayRead(w) /\ op[t] = Idle /\ v # w
      /\ cap' = cap
  BY OwnedReadable DEF Move
<1>2. /\ view' \in [Views -> ViewRecords]
      /\ view'[v] = view[w] /\ view'[w] = Empty
      /\ \A x \in Views \ {v, w} : view'[x] = view[x]
  BY <1>1 DEF Move, Inv, TypeOK, ViewRecords, Empty
<1>3. /\ op' \in [Threads -> CallRecords]
      /\ \A u \in Threads : op'[u] = op[u] \/ (op'[u].pc = "release" /\ op'[u].v = NoView)
      /\ \A u \in Threads : op'[u].v = op[u].v
  BY <1>1 DEF Move, ReleaseOld, Releasing, Inv, TypeOK, CallRecords, Idle
<1>4. IdleOps'
  BY <1>3 DEF IdleOps, Inv, ShapeInv
<1>5. ViewsInRange'
  BY <1>1, <1>2 DEF ViewsInRange, Inv, ShapeInv, Empty
<1>6. PendingFits'
  <2> SUFFICES ASSUME NEW u \in Threads, op'[u].v # NoView
               PROVE  /\ Owner[op'[u].v] = u
                      /\ IF view'[op'[u].v].st = Null THEN op'[u].size = 0
                         ELSE /\ view'[op'[u].v].off = 0
                              /\ op'[u].size <= cap'[view'[op'[u].v].st]
    BY DEF PendingFits
  <2>1. op'[u] = op[u] /\ op[u].v \in Views \ {v, w}
    BY <1>1, <1>3 DEF MayRead, Inv, TypeOK
  <2> QED
    BY <1>1, <1>2, <2>1 DEF PendingFits, Inv, ShapeInv
<1>7. EmptyViews'
  BY <1>1, <1>2, <1>3 DEF EmptyViews, MayRead, Inv, ShapeInv
<1> QED
  BY <1>2, <1>3, <1>4, <1>5, <1>6, <1>7 DEF ShapeOK, ShapeInv

\* clear() and the growing operations give v the storage b now, and the size n
\* after release_ref(), if there is something to release.
LEMMA PendingShape ==
    ASSUME Inv, NEW t \in Threads, NEW v \in Views, MayChange(t, v), CapKept,
           NEW b \in Storages \cup {Null}, NEW n \in 0..MaxCapacity,
           view[v].st # Null,
           view' = [view EXCEPT ![v].st = b],
           op' = [op EXCEPT ![t] = Releasing(view[v].st, v, n)],
           b = Null => n = 0,
           b # Null => /\ view[v].off = 0
                       /\ n <= cap'[b] /\ view[v].size <= cap'[b]
    PROVE  ShapeOK'
<1> USE SharedBufferAssumption
<1>1. MayRead(v) /\ op[t] = Idle /\ Owner[v] = t
  BY OwnedReadable DEF MayChange
<1>2. /\ view' \in [Views -> ViewRecords]
      /\ view'[v] = [view[v] EXCEPT !.st = b]
      /\ view[v] \in ViewRecords
      /\ \A x \in Views \ {v} : view'[x] = view[x]
  BY DEF Inv, TypeOK, ViewRecords
<1>3. /\ op' \in [Threads -> CallRecords]
      /\ op'[t] = Releasing(view[v].st, v, n)
      /\ \A u \in Threads \ {t} : op'[u] = op[u]
  BY DEF Inv, TypeOK, CallRecords, Releasing
<1>4. IdleOps'
  BY <1>3 DEF IdleOps, Inv, ShapeInv, Releasing
<1>5. ViewsInRange'
  BY <1>2 DEF ViewsInRange, CapKept, Inv, ShapeInv, RefInv, RefersToLive, ViewRecords
<1>6. PendingFits'
  <2> SUFFICES ASSUME NEW u \in Threads, op'[u].v # NoView
               PROVE  /\ Owner[op'[u].v] = u
                      /\ IF view'[op'[u].v].st = Null THEN op'[u].size = 0
                         ELSE /\ view'[op'[u].v].off = 0
                              /\ op'[u].size <= cap'[view'[op'[u].v].st]
    BY DEF PendingFits
  <2>1. CASE u = t
    BY <1>1, <1>2, <1>3, <2>1 DEF Releasing, ViewRecords
  <2>2. CASE u # t
    <3>1. op'[u] = op[u] /\ op[u].v \in Views \ {v}
      BY <1>1, <1>3, <2>2 DEF MayRead, Inv, TypeOK
    <3> QED
      BY <1>2, <3>1 DEF PendingFits, CapKept, Inv, ShapeInv, RefInv, RefersToLive
  <2> QED
    BY <2>1, <2>2
<1>7. EmptyViews'
  <2> SUFFICES ASSUME NEW x \in Views, view'[x].st = Null,
                      \A u \in Threads : op'[u].v # x
               PROVE  view'[x] = Empty
    BY DEF EmptyViews, MayRead
  <2>1. x # v
    BY <1>3 DEF Releasing
  <2>2. \A u \in Threads : op[u].v # x
    BY <1>1, <1>3, <2>1 DEF Idle
  <2> QED
    BY <1>2, <2>1, <2>2 DEF EmptyViews, MayRead, Inv, ShapeInv
<1> QED
  BY <1>2, <1>3, <1>4, <1>5, <1>6, <1>7 DEF ShapeOK, ShapeInv

\* Offset and size of v are set while no call is under way in its thread.
LEMMA InPlaceShape ==
    ASSUME Inv, NEW t \in Threads, NEW v \in Views, MayChange(t, v), CapKept,
           op' = op, NEW out \in ViewRecords, view' = [view EXCEPT ![v] = out],
           out.st = Null => out = Empty,
           out.st # Null => out.off + out.size <= cap'[out.st]
    PROVE  ShapeOK'
<1> USE SharedBufferAssumption
<1>1. MayRead(v) /\ op[t] = Idle /\ Owner[v] = t
  BY OwnedReadable DEF MayChange
<1>2. /\ view' \in [Views -> ViewRecords]
      /\ op' \in [Threads -> CallRecords]
  BY DEF Inv, TypeOK, ViewRecords, CallRecords
<1>3. IdleOps'
  BY DEF IdleOps, Inv, ShapeInv
<1>4. ViewsInRange'
  BY <1>2 DEF ViewsInRange, CapKept, Inv, ShapeInv, RefInv, RefersToLive
<1>5. PendingFits'
  <2> SUFFICES ASSUME NEW u \in Threads, op[u].v # NoView
               PROVE  /\ Owner[op[u].v] = u
                      /\ IF view'[op[u].v].st = Null THEN op[u].size = 0
                         ELSE /\ view'[op[u].v].off = 0
                              /\ op[u].size <= cap'[view'[op[u].v].st]
    BY DEF PendingFits
  <2>1. op[u].v # v /\ op[u].v \in Views
    BY <1>1 DEF MayRead, Inv, TypeOK
  <2>2. view'[op[u].v] = view[op[u].v]
    BY <2>1 DEF Inv, TypeOK
  <2> QED
    BY <2>1, <2>2 DEF PendingFits, CapKept, Inv, ShapeInv, RefInv, RefersToLive
<1>6. EmptyViews'
  BY <1>2 DEF EmptyViews, MayRead, Inv, ShapeInv
<1> QED
  BY <1>2, <1>3, <1>4, <1>5, <1>6 DEF ShapeOK, ShapeInv

\* The end of a call sets the size that was pending.
LEMMA ReturnShape ==
    ASSUME Inv, NEW t \in Threads, op[t].pc # "idle", Return(t), cap' = cap
    PROVE  ShapeOK'
<1> USE SharedBufferAssumption
<1> PICK v, n : v = op[t].v /\ n = op[t].size
  OBVIOUS
<1>1. /\ op' \in [Threads -> CallRecords]
      /\ op'[t] = Idle /\ \A u \in Threads \ {t} : op'[u] = op[u]
  BY DEF Return, Inv, TypeOK, CallRecords, Idle
<1>2. /\ view' \in [Views -> ViewRecords]
      /\ \A x \in Views \ {v} : view'[x] = view[x]
      /\ v # NoView => /\ view'[v].st = view[v].st
                       /\ view'[v].off = 0 /\ view'[v].size = n
  <2>1. v \in Views \cup {NoView} /\ n \in 0..MaxCapacity
    BY DEF Inv, TypeOK
  <2>2. view \in [Views -> ViewRecords]
    BY DEF Inv, TypeOK, ViewRecords
  <2>3. CASE v = NoView
    BY <2>2, <2>3 DEF Return
  <2>4. CASE v # NoView
    <3> DEFINE h == [view EXCEPT ![v].off = 0]
    <3>1. v \in Views /\ 0 \in 0..MaxCapacity
      BY <2>1, <2>4
    <3>2. view' = [h EXCEPT ![v].size = n]
      BY <2>4 DEF Return
    <3>3. /\ h \in [Views -> ViewRecords]
          /\ h[v].st = view[v].st /\ h[v].off = 0
          /\ \A x \in Views \ {v} : h[x] = view[x]
      BY <2>2, <3>1 DEF ViewRecords
    <3> HIDE DEF h
    <3> QED
      BY <2>1, <3>1, <3>2, <3>3 DEF ViewRecords
  <2> QED
    BY <2>3, <2>4
<1>3. v \in Views \cup {NoView} /\ n \in 0..MaxCapacity
  BY DEF Inv, TypeOK
<1>4. v # NoView => /\ Owner[v] = t
                    /\ IF view[v].st = Null THEN n = 0 ELSE n <= cap[view[v].st]
  BY <1>3 DEF PendingFits, Inv, ShapeInv
<1>5. \A u \in Threads \ {t} : op[u].v # NoView => op[u].v # v
  BY <1>4 DEF PendingFits, Inv, ShapeInv
<1>6. IdleOps'
  BY <1>1 DEF IdleOps, Inv, ShapeInv
<1>7. ViewsInRange'
  <2> SUFFICES ASSUME NEW x \in Views, view'[x].st # Null
               PROVE  view'[x].off + view'[x].size <= cap'[view'[x].st]
    BY DEF ViewsInRange
  <2>1. CASE x = v
    <3>1. /\ view'[x].st = view[x].st /\ view'[x].off = 0 /\ view'[x].size = n
          /\ n \in Nat /\ n <= cap'[view[x].st]
      BY <1>2, <1>3, <1>4, <2>1
    <3>2. 0 + n = n
      BY <3>1
    <3> QED
      BY <3>1, <3>2
  <2>2. CASE x # v
    BY <1>2, <2>2 DEF ViewsInRange, Inv, ShapeInv
  <2> QED
    BY <2>1, <2>2
<1>8. PendingFits'
  <2> SUFFICES ASSUME NEW u \in Threads, op'[u].v # NoView
               PROVE  /\ Owner[op'[u].v] = u
                      /\ IF view'[op'[u].v].st = Null THEN op'[u].size = 0
                         ELSE /\ view'[op'[u].v].off = 0
                              /\ op'[u].size <= cap'[view'[op'[u].v].st]
    BY DEF PendingFits
  <2>1. u # t /\ op'[u] = op[u] /\ op[u].v \in Views \ {v}
    BY <1>1, <1>5 DEF Idle, Inv, TypeOK
  <2> QED
    BY <1>2, <2>1 DEF PendingFits, Inv, ShapeInv
<1>9. EmptyViews'
  <2> SUFFICES ASSUME NEW x \in Views, view'[x].st = Null,
                      \A u \in Threads : op'[u].v # x
               PROVE  view'[x] = Empty
    BY DEF EmptyViews, MayRead
  <2>1. CASE x = v
    <3>1. view'[x] \in ViewRecords /\ view'[x].off = 0 /\ view'[x].size = 0
      BY <1>2, <1>4, <2>1
    <3> QED
      BY <3>1 DEF ViewRecords, Empty
  <2>2. CASE x # v
    BY <1>1, <1>2, <2>2 DEF EmptyViews, MayRead, Inv, ShapeInv
  <2> QED
    BY <2>1, <2>2
<1> QED
  BY <1>1, <1>2, <1>6, <1>7, <1>8, <1>9 DEF ShapeOK, ShapeInv

\* Whether release_ref() returns or finds the last reference.
LEMMA ReleaseShape ==
    ASSUME Inv, NEW t \in Threads, ReleaseRef(t)
    PROVE  ShapeOK'
<1>1. op[t].pc = "release" /\ cap' = cap
  BY DEF ReleaseRef
<1>2. CASE refs[op[t].st] # 1
  BY <1>1, <1>2, ReturnShape DEF ReleaseRef
<1>3. CASE refs[op[t].st] = 1
  <2>1. /\ view' = view /\ op' \in [Threads -> CallRecords]
        /\ op'[t].pc = "delete"
        /\ \A u \in Threads : op'[u].v = op[u].v /\ op'[u].size = op[u].size
        /\ \A u \in Threads \ {t} : op'[u] = op[u]
    BY <1>3, SMTT(30) DEF ReleaseRef, Inv, TypeOK, CallRecords
  <2>2. view' \in [Views -> ViewRecords]
    BY <2>1 DEF Inv, TypeOK, ViewRecords
  <2>3. IdleOps'
    BY <2>1 DEF IdleOps, Inv, ShapeInv
  <2>4. PendingFits'
    BY <1>1, <2>1 DEF PendingFits, Inv, ShapeInv
  <2>5. EmptyViews' /\ ViewsInRange'
    BY <1>1, <2>1 DEF EmptyViews, MayRead, ViewsInRange, Inv, ShapeInv
  <2> QED
    BY <2>1, <2>2, <2>3, <2>4, <2>5 DEF ShapeOK, ShapeInv
<1> QED
  BY <1>2, <1>3

\* A new storage leaves the capacities of the others.
LEMMA NewStorageCap ==
    ASSUME Inv, NEW s \in Storages, NEW c \in 0..MaxCapacity, NewStorage(s, c)
    PROVE  /\ CapKept /\ cap'[s] = c
           /\ live' \subseteq Storages /\ refs' \in [Storages -> Nat]
BY DEF Inv, TypeOK, NewStorage, CapKept

\* allocate(), copy_from() and adopt(): the new storage has c bytes, n in use.
LEMMA FreshShape ==
    ASSUME Inv, NEW t \in Threads, NEW v \in Views, MayChange(t, v),
           NEW c \in 0..MaxCapacity, NEW n \in 0..MaxCapacity, n <= c,
           NEW s \in Storages, NewStorage(s, c),
           Install(t, v, [st |-> s, off |-> 0, size |-> n])
    PROVE  ShapeOK' /\ TypeOK'
<1> DEFINE out == [st |-> s, off |-> 0, size |-> n]
<1>1. /\ CapKept /\ cap'[s] = c
      /\ live' \subseteq Storages /\ refs' \in [Storages -> Nat]
  BY NewStorageCap
<1>2. out \in ViewRecords /\ out.st # Null /\ out.off + out.size <= cap'[out.st]
  BY <1>1, SharedBufferAssumption DEF ViewRecords
<1> HIDE DEF out
<1>3. ShapeOK'
  BY <1>1, <1>2, InstallShape DEF out
<1> QED
  BY <1>1, <1>3 DEF TypeOK, ShapeOK, CapKept, ViewRecords, CallRecords

\* reserve() and resize(): the new storage holds what the view had.
LEMMA GrowShape ==
    ASSUME Inv, NEW t \in Threads, NEW v \in Views, MayChange(t, v),
           NEW c \in 0..MaxCapacity, NEW n \in 0..MaxCapacity, n <= c,
           view[v].off = 0, c > Capacity(v), Grow(t, v, c, n)
    PROVE  ShapeOK' /\ TypeOK'
<1> USE SharedBufferAssumption
<1> PICK s \in Storages :
        /\ NewStorage(s, c)
        /\ IF view[v].st = Null
           THEN view' = [view EXCEPT ![v].st = s, ![v].size = n] /\ UNCHANGED op
           ELSE /\ view' = [view EXCEPT ![v].st = s]
                /\ op' = [op EXCEPT ![t] = Releasing(view[v].st, v, n)]
  BY DEF Grow
<1>1. /\ CapKept /\ cap'[s] = c
      /\ live' \subseteq Storages /\ refs' \in [Storages -> Nat]
  BY NewStorageCap
<1>2. view \in [Views -> ViewRecords] /\ view[v] \in ViewRecords
  BY DEF Inv, TypeOK, ViewRecords
<1>3. CASE view[v].st = Null
  <2> DEFINE out == [st |-> s, off |-> 0, size |-> n]
  <2>1. view' = [view EXCEPT ![v] = out] /\ op' = op
    BY <1>2, <1>3 DEF ViewRecords
  <2>2. out \in ViewRecords /\ out.st # Null /\ out.off + out.size <= cap'[out.st]
    BY <1>1 DEF ViewRecords
  <2> HIDE DEF out
  <2>3. ShapeOK'
    BY <1>1, <2>1, <2>2, InPlaceShape
  <2> QED
    BY <1>1, <2>3 DEF TypeOK, ShapeOK, CapKept, ViewRecords, CallRecords
<1>4. CASE view[v].st # Null
  <2>1. view[v].size <= cap[view[v].st] /\ cap[view[v].st] \in Nat
    BY <1>2, <1>4 DEF ViewsInRange, Inv, ShapeInv, TypeOK, ViewRecords
  <2>2. cap[view[v].st] < c
    BY <1>4, <2>1 DEF Capacity
  <2>3. view[v].size <= c
    BY <1>2, <2>1, <2>2 DEF ViewRecords
  <2>4. ShapeOK'
    BY <1>1, <1>4, <2>3, PendingShape
  <2> QED
    BY <1>1, <2>4 DEF TypeOK, ShapeOK, CapKept, ViewRecords, CallRecords
<1> QED
  BY <1>3, <1>4

\* Copying and taking subviews adds a reference to a storage that exists.
LEMMA AcquireType ==
    ASSUME TypeOK, NEW s \in Storages \cup {Null}, Acquire(s)
    PROVE  refs' \in [Storages -> Nat]
BY SharedBufferAssumption DEF TypeOK, Acquire

\* Every step keeps the types and the shape of views and calls.
LEMMA NextShape ==
    ASSUME Inv, [Next]_vars
    PROVE  TypeOK' /\ ShapeInv'
<1> SUFFICES TypeOK' /\ ShapeOK'
  BY DEF ShapeOK
<1> USE SharedBufferAssumption
<1>0. /\ view \in [Views -> ViewRecords] /\ TypeOK
      /\ cap' = cap => CapKept
      /\ Empty \in ViewRecords
  BY DEF Inv, TypeOK, ViewRecords, CapKept, Empty
<1>a. ASSUME live' \subseteq Storages, refs' \in [Storages -> Nat], CapKept, ShapeOK'
      PROVE  TypeOK' /\ ShapeOK'
  BY <1>a DEF TypeOK, ShapeOK, CapKept, ViewRecords, CallRecords
<1>1. ASSUME NEW t \in Threads, ReleaseRef(t) PROVE TypeOK' /\ ShapeOK'
  <2>1. op[t].st \in live /\ refs[op[t].st] \in Nat \ {0}
    BY <1>1, UsedPositive DEF ReleaseRef, Inv, RefInv, RefersToLive
  <2>2. refs' \in [Storages -> Nat]
    <3> PICK s0 : s0 = op[t].st
      OBVIOUS
    <3>1. refs' = [refs EXCEPT ![s0] = @ - 1] /\ refs[s0] - 1 \in Nat
      BY <1>1, <2>1 DEF ReleaseRef
    <3> QED
      BY <3>1 DEF Inv, TypeOK
  <2> QED
    BY <1>0, <1>1, <1>a, <2>2, ReleaseShape DEF ReleaseRef, TypeOK
<1>2. ASSUME NEW t \in Threads, Delete(t) PROVE TypeOK' /\ ShapeOK'
  BY <1>0, <1>2, <1>a, ReturnShape DEF Delete, TypeOK
<1>3. ASSUME NEW t \in Threads, NEW v \in Views, Destroy(t, v) PROVE TypeOK' /\ ShapeOK'
  <2>1. ShapeOK'
    BY <1>0, <1>3, InstallShape DEF Destroy, Empty
  <2> QED
    BY <1>0, <1>3, <1>a, <2>1 DEF Destroy, TypeOK
<1>4. ASSUME NEW t \in Threads, NEW v \in Views, Clear(t, v) PROVE TypeOK' /\ ShapeOK'
  <2>1. ShapeOK'
    <3>1. /\ MayChange(t, v) /\ view[v].st # Null /\ CapKept
          /\ view' = [view EXCEPT ![v].st = Null]
          /\ op' = [op EXCEPT ![t] = Releasing(view[v].st, v, 0)]
      BY <1>0, <1>4 DEF Clear
    <3>2. Null \in Storages \cup {Null} /\ 0 \in 0..MaxCapacity
      OBVIOUS
    <3> QED
      BY <3>1, <3>2, PendingShape
  <2> QED
    BY <1>0, <1>4, <1>a, <2>1 DEF Clear, TypeOK
<1>5. ASSUME NEW t \in Threads, NEW v \in Views, NEW w \in Views, Copy(t, v, w)
      PROVE  TypeOK' /\ ShapeOK'
  <2>1. /\ view[w] \in ViewRecords /\ cap' = cap /\ live' = live
        /\ view[w].st = Null => view[w] = Empty
        /\ view[w].st # Null => view[w].off + view[w].size <= cap'[view[w].st]
    BY <1>0, <1>5 DEF Copy, Inv, ShapeInv, EmptyViews, ViewsInRange
  <2>2. ShapeOK'
    BY <1>0, <1>5, <2>1, InstallShape DEF Copy
  <2>3. refs' \in [Storages -> Nat]
    BY <1>0, <1>5, <2>1, AcquireType DEF Copy, ViewRecords
  <2> QED
    BY <1>0, <1>a, <2>1, <2>2, <2>3 DEF TypeOK
<1>6. ASSUME NEW t \in Threads, NEW v \in Views, NEW w \in Views, Move(t, v, w)
      PROVE  TypeOK' /\ ShapeOK'
  BY <1>0, <1>6, <1>a, MoveShape DEF Move, TypeOK
<1>7. ASSUME NEW t \in Threads, NEW v \in Views, NEW w \in Views,
             NEW o \in 0..(Word - 1), NEW n \in 0..(Word - 1), Subview(t, v, w, o, n)
      PROVE  TypeOK' /\ ShapeOK'
  <2> DEFINE out == [st |-> view[w].st, off |-> view[w].off + o, size |-> n]
  <2>1. /\ view[w] \in ViewRecords /\ view[w].st \in Storages /\ view[w].st # Null
        /\ cap' = cap /\ live' = live /\ cap[view[w].st] \in 0..MaxCapacity
        /\ view[w].off + view[w].size <= cap[view[w].st]
        /\ o <= view[w].size /\ n <= (view[w].size - o) % Word
    BY <1>0, <1>7 DEF Subview, InRange, Inv, ShapeInv, ViewsInRange, ViewRecords, TypeOK
  <2>2. view[w].off \in 0..MaxCapacity /\ view[w].size \in 0..MaxCapacity
    BY <2>1 DEF ViewRecords
  <2>3. (view[w].size - o) % Word = view[w].size - o
    <3> PICK z, m, k : z = view[w].size /\ m = MaxCapacity /\ k = Word
      OBVIOUS
    <3>1. z \in 0..m /\ o \in Nat /\ o <= z /\ m \in Nat /\ k \in Nat /\ m < k
      BY <2>1, <2>2
    <3>2. (z - o) % k = z - o
      BY ONLY <3>1
    <3> QED
      BY <3>2
  <2>4. n <= view[w].size - o
    BY <2>1, <2>3
  <2>5. /\ view[w].off + o \in 0..MaxCapacity /\ n \in 0..MaxCapacity
        /\ (view[w].off + o) + n <= cap[view[w].st]
    BY <2>1, <2>2, <2>4
  <2>6. /\ out \in ViewRecords /\ out.st # Null
        /\ out.off + out.size <= cap'[out.st]
    BY <2>1, <2>5 DEF ViewRecords
  <2>7. Install(t, v, out) /\ MayChange(t, v) /\ Acquire(view[w].st)
    BY <1>7 DEF Subview
  <2>8. refs' \in [Storages -> Nat]
    BY <1>0, <2>1, <2>7, AcquireType
  <2> HIDE DEF out
  <2>9. ShapeOK'
    BY <1>0, <2>1, <2>6, <2>7, InstallShape
  <2> QED
    BY <1>0, <1>a, <2>1, <2>8, <2>9 DEF TypeOK
<1>8. ASSUME NEW t \in Threads, NEW v \in Views, NEW c \in 0..MaxCapacity,
             Allocate(t, v, c)
      PROVE  TypeOK' /\ ShapeOK'
  <2>1. 0 \in 0..MaxCapacity /\ 0 <= c
    OBVIOUS
  <2> QED
    BY <1>8, <2>1, FreshShape DEF Allocate
<1>9. ASSUME NEW t \in Threads, NEW v \in Views, NEW c \in 0..MaxCapacity,
             CopyFrom(t, v, c)
      PROVE  TypeOK' /\ ShapeOK'
  <2>1. c <= c
    OBVIOUS
  <2> QED
    BY <1>9, <2>1, FreshShape DEF CopyFrom
<1>10. ASSUME NEW t \in Threads, NEW v \in Views, NEW c \in 0..MaxCapacity,
              NEW n \in 0..MaxCapacity, Adopt(t, v, c, n)
       PROVE  TypeOK' /\ ShapeOK'
  BY <1>10, FreshShape DEF Adopt
<1>11. ASSUME NEW t \in Threads, NEW v \in Views, NEW c \in 0..MaxCapacity,
              Reserve(t, v, c)
       PROVE  TypeOK' /\ ShapeOK'
  <2> PICK n : n = view[v].size
    OBVIOUS
  <2>1. MayChange(t, v) /\ view[v].off = 0 /\ c > Capacity(v) /\ Grow(t, v, c, n)
    BY <1>11 DEF Reserve
  <2>2. view[v] \in ViewRecords /\ n \in 0..MaxCapacity
    BY <1>0 DEF ViewRecords
  <2>3. n <= c
    <3>1. CASE view[v].st = Null
      <4>1. view[v] = Empty
        BY <2>1, <3>1, OwnedReadable DEF Inv, ShapeInv, EmptyViews
      <4> QED
        BY <4>1 DEF Empty
    <3>2. CASE view[v].st # Null
      <4>1. 0 + n <= cap[view[v].st] /\ cap[view[v].st] \in 0..MaxCapacity
        BY <2>1, <2>2, <3>2 DEF Inv, ShapeInv, ViewsInRange, TypeOK, ViewRecords
      <4>2. cap[view[v].st] - 0 < c
        BY <2>1, <3>2, <4>1 DEF Capacity
      <4> QED
        BY <2>2, <4>1, <4>2
    <3> QED
      BY <3>1, <3>2
  <2> QED
    BY <2>1, <2>2, <2>3, GrowShape
<1>12. ASSUME NEW t \in Threads, NEW v \in Views, NEW c \in 0..MaxCapacity,
              ResizeGrows(t, v, c)
       PROVE  TypeOK' /\ ShapeOK'
  <2>1. c <= c
    OBVIOUS
  <2> QED
    BY <1>12, <2>1, GrowShape DEF ResizeGrows
<1>13. ASSUME NEW t \in Threads, NEW v \in Views, NEW c \in 0..MaxCapacity,
              ResizeInPlace(t, v, c)
       PROVE  TypeOK' /\ ShapeOK'
  <2> DEFINE out == [st |-> view[v].st, off |-> 0, size |-> c]
  <2>1. /\ MayChange(t, v) /\ view[v].off = 0 /\ c <= Capacity(v) /\ op' = op
        /\ cap' = cap /\ live' = live /\ refs' = refs
    BY <1>13 DEF ResizeInPlace
  <2>2. view[v] \in ViewRecords
    BY <1>0
  <2>3. view' = [view EXCEPT ![v] = out]
    <3>1. [view[v] EXCEPT !.size = c] = out
      BY <2>1, <2>2 DEF ViewRecords
    <3>2. view' = [view EXCEPT ![v] = [view[v] EXCEPT !.size = c]]
      BY <1>13 DEF ResizeInPlace
    <3> QED
      BY <3>1, <3>2
  <2>4. out \in ViewRecords
    BY <2>2 DEF ViewRecords
  <2>5. out.st = Null => out = Empty
    <3> SUFFICES ASSUME view[v].st = Null PROVE c = 0
      BY DEF Empty
    <3> QED
      BY <2>1 DEF Capacity
  <2>6. out.st # Null => out.off + out.size <= cap'[out.st]
    <3> SUFFICES ASSUME view[v].st # Null PROVE 0 + c <= cap[view[v].st]
      BY <2>1
    <3>1. cap[view[v].st] \in 0..MaxCapacity
      BY <1>0, <2>2 DEF TypeOK, ViewRecords
    <3> QED
      BY <2>1, <3>1 DEF Capacity
  <2> HIDE DEF out
  <2>7. ShapeOK'
    BY <1>0, <2>1, <2>3, <2>4, <2>5, <2>6, InPlaceShape
  <2> QED
    BY <1>0, <1>a, <2>1, <2>7 DEF TypeOK
<1>14. CASE UNCHANGED vars
  BY <1>14 DEF vars, Inv, TypeOK, ShapeOK, ShapeInv, ViewRecords, CallRecords, IdleOps,
     PendingFits, EmptyViews, MayRead, ViewsInRange
<1> QED
  BY <1>1, <1>2, <1>3, <1>4, <1>5, <1>6, <1>7, <1>8, <1>9, <1>10, <1>11, <1>12,
     <1>13, <1>14 DEF Next, Continue, Call

-----------------------------------------------------------------------------
(* The theorems. *)

\* There is nothing to count at first.
LEMMA InitInv == Init => Inv
<1> SUFFICES ASSUME Init PROVE Inv
  OBVIOUS
<1> USE SharedBufferAssumption
<1>1. TypeOK
  BY DEF Init, TypeOK, Empty, Idle
<1>2. RefInv
  BY DEF Init, RefInv, RefsCounted, RefersToLive, DeletesLast, Empty, Idle
<1>3. ShapeInv
  BY DEF Init, ShapeInv, IdleOps, PendingFits, EmptyViews, ViewsInRange, Empty, Idle
<1> QED
  BY <1>1, <1>2, <1>3 DEF Inv

\* Every reachable state satisfies the inductive invariant.
LEMMA InvHolds == Spec => []Inv
<1>1. Inv /\ [Next]_vars => Inv'
  BY NextRefs, NextShape DEF Inv
<1> QED
  BY <1>1, InitInv, PTL DEF Spec

\* The count of every storage is exact at every step of every thread: acquire()
\* and release_ref() lose and invent no reference.
THEOREM CountExact == Spec => []RefsExact
<1>1. Inv => RefsExact
  <2> SUFFICES ASSUME Inv, NEW s \in live
               PROVE  refs[s] = Cardinality({v \in Views : view[v].st = s})
                        + Cardinality({t \in Threads : op[t].pc = "release"
                                                         /\ op[t].st = s})
    BY DEF RefsExact, Inv
  <2>1. s \in Storages /\ s # Null
    BY SharedBufferAssumption DEF Inv, TypeOK
  <2>2. Where(Views, StorageOf, s) = {v \in Views : view[v].st = s}
    BY DEF Where, StorageOf
  <2>3. Where(Threads, ToRelease, s)
          = {t \in Threads : op[t].pc = "release" /\ op[t].st = s}
    BY <2>1 DEF Where, ToRelease
  <2>4. refs[s] = Cardinality(Where(Views, StorageOf, s))
                    + Cardinality(Where(Threads, ToRelease, s))
    BY DEF Inv, RefInv, RefsCounted, References, Count
  <2> QED
    BY <2>2, <2>3, <2>4
<1> QED
  BY <1>1, InvHolds, PTL

\* A storage is deleted once, by one thread, when nothing refers to it any more.
THEOREM StorageOutlivesViews == Spec => []NoUseAfterFree
<1>1. Inv => NoUseAfterFree
  <2> SUFFICES ASSUME Inv, NEW t \in Threads, op[t].pc = "delete"
               PROVE  /\ \A v \in Views : view[v].st # op[t].st
                      /\ \A u \in Threads \ {t} : op[u].st # op[t].st
    BY DEF NoUseAfterFree, Inv, RefInv, RefersToLive
  <2>1. op[t].st \in live /\ refs[op[t].st] = 0
    BY DEF Inv, RefInv, RefersToLive, DeletesLast
  <2>2. /\ \A v \in Views : view[v].st # op[t].st
        /\ \A u \in Threads : op[u].pc = "release" => op[u].st # op[t].st
    BY <2>1, ZeroUnused
  <2>3. \A u \in Threads \ {t} : op[u].pc = "delete" => op[u].st # op[t].st
    BY DEF Inv, RefInv, DeletesLast
  <2>4. \A u \in Threads : op[u].pc = "idle" => op[u].st # op[t].st
    BY <2>1, SharedBufferAssumption DEF Inv, ShapeInv, IdleOps, Idle, TypeOK
  <2>5. \A u \in Threads : op[u].pc \in {"idle", "release", "delete"}
    BY DEF Inv, TypeOK
  <2> QED
    BY <2>2, <2>3, <2>4, <2>5
<1> QED
  BY <1>1, InvHolds, PTL

\* Every view lies inside its storage, for any arguments of subview(), reserve()
\* and resize() and whatever the width of size_t.
THEOREM ViewInside == Spec => []ViewsInRange
<1>1. Inv => ViewsInRange
  BY DEF Inv, ShapeInv
<1> QED
  BY <1>1, InvHolds, PTL

================================================================================
