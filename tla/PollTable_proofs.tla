---------------------------- MODULE PollTable_proofs ----------------------------
(***************************************************************************)
(* Theorems about PollTable, for any set of fds and any bound of m_gen.    *)
(***************************************************************************)
EXTENDS PollTable, FiniteSetTheorems, TLAPS

\* A context has an fd exactly while its registration is active.
CtxIsActive == ctx_fd = active

\* Every entry but the wake pipe's belongs to an active registration, which remembers
\* its index.
EntriesOwned ==
    \A i \in 2..Len(m_poll_entries) :
        /\ m_poll_entries[i].reg \in active
        /\ poll_index[m_poll_entries[i].reg] = i

\* The entries not visited yet are those of different registrations, none of a
\* generation still to come; and an entry that is still the registered one was put
\* there by the last poll(), and its callback has not run since.
DispatchFresh ==
    \A i \in DOMAIN m_dispatch :
        /\ m_dispatch[i].reg \in Regs
        /\ m_dispatch[i].gen <= m_gen
        /\ \A j \in DOMAIN m_dispatch : m_dispatch[i].reg = m_dispatch[j].reg => i = j
        /\ Current(m_dispatch[i]) => m_dispatch[i].reg \in fresh

\* m_poll_entries and the indices that point into it agree, in both directions.
Table ==
    /\ Len(m_poll_entries) = 1 + Cardinality(active)
    /\ m_poll_entries[1].reg = Wake
    /\ \A r \in Regs :
          IF r \in active
          THEN /\ r[1] \in known
               /\ poll_index[r] \in DOMAIN m_poll_entries
               /\ m_poll_entries[poll_index[r]].reg = r
               /\ m_poll_entries[poll_index[r]].gen = reg_gen[r]
          ELSE poll_index[r] = 0
    /\ EntriesOwned

\* The inductive invariant.
Inv ==
    /\ TypeOK
    /\ Table
    /\ CtxIsActive
    /\ ArmedAsAsked
    /\ DupsOwned
    /\ DispatchFresh

-----------------------------------------------------------------------------
(* The vectors. *)

\* A registration is a pair, and the wake pipe is none.
LEMMA RegsPairs ==
    /\ \A f \in Fds : <<f, "read">> \in Regs /\ <<f, "write">> \in Regs
    /\ \A r \in Regs : r[1] \in Fds /\ r[2] \in {"read", "write"} /\ r = <<r[1], r[2]>>
    /\ Wake \notin Regs
BY DEF Regs, Wake

\* The active registrations can be counted.
LEMMA ActiveFinite ==
    ASSUME NEW a \in SUBSET Regs
    PROVE  /\ IsFiniteSet(a) /\ Cardinality(a) \in Nat
           /\ \A r \in a : Cardinality(a \ {r}) = Cardinality(a) - 1
           /\ \A r : r \notin a => Cardinality(a \cup {r}) = Cardinality(a) + 1
<1>1. IsFiniteSet({"read", "write"})
  <2>1. IsFiniteSet({}) /\ IsFiniteSet({} \cup {"read"})
    BY FS_EmptySet, FS_AddElement
  <2>2. IsFiniteSet(({} \cup {"read"}) \cup {"write"})
    BY <2>1, FS_AddElement
  <2>3. ({} \cup {"read"}) \cup {"write"} = {"read", "write"}
    OBVIOUS
  <2> QED
    BY <2>2, <2>3
<1>2. IsFiniteSet(Regs)
  BY <1>1, PollTableAssumption, FS_Product DEF Regs
<1>3. IsFiniteSet(a) /\ Cardinality(a) \in Nat
  BY <1>2, FS_Subset, FS_CardinalityType
<1> QED
  BY <1>3, FS_AddElement, FS_RemoveElement

\* The entry of an active registration is not the wake pipe's.
LEMMA ActiveIndex ==
    ASSUME TypeOK, Table, NEW r \in active
    PROVE  /\ Len(m_poll_entries) \in Nat
           /\ DOMAIN m_poll_entries = 1..Len(m_poll_entries)
           /\ poll_index[r] \in 2..Len(m_poll_entries)
<1>1. r \in Regs /\ m_poll_entries \in Seq(Entries)
  BY DEF TypeOK
<1>2. Len(m_poll_entries) \in Nat /\ DOMAIN m_poll_entries = 1..Len(m_poll_entries)
  BY <1>1
<1>3. poll_index[r] \in 1..Len(m_poll_entries) /\ m_poll_entries[poll_index[r]].reg = r
  BY <1>1, <1>2 DEF Table
<1>4. poll_index[r] # 1
  BY <1>1, <1>3, RegsPairs DEF Table
<1> QED
  BY <1>2, <1>3, <1>4

\* set_poll_events() changes the events of one entry.
LEMMA SetEvents ==
    ASSUME TypeOK, NEW i \in DOMAIN m_poll_entries, NEW ev \in {"none", "in", "out"},
           NEW E, E = SetPollEvents(i, ev)
    PROVE  /\ E \in Seq(Entries)
           /\ Len(E) = Len(m_poll_entries) /\ DOMAIN E = DOMAIN m_poll_entries
           /\ \A j \in DOMAIN m_poll_entries :
                 /\ E[j].reg = m_poll_entries[j].reg
                 /\ E[j].gen = m_poll_entries[j].gen
                 /\ E[j].events = IF j = i THEN ev ELSE m_poll_entries[j].events
<1>1. /\ m_poll_entries \in Seq(Entries)
      /\ Len(m_poll_entries) \in Nat /\ DOMAIN m_poll_entries = 1..Len(m_poll_entries)
  BY DEF TypeOK
<1>2. E = [m_poll_entries EXCEPT ![i].events = ev]
  BY DEF SetPollEvents
<1>3. ASSUME NEW j \in DOMAIN m_poll_entries
      PROVE  E[j] = IF j = i THEN [m_poll_entries[j] EXCEPT !.events = ev] ELSE m_poll_entries[j]
  BY <1>1, <1>2
<1>4. ASSUME NEW j \in DOMAIN m_poll_entries
      PROVE  m_poll_entries[j] \in Entries
  BY <1>1
<1>5. ASSUME NEW j \in DOMAIN m_poll_entries
      PROVE  /\ E[j] \in Entries
             /\ E[j].reg = m_poll_entries[j].reg
             /\ E[j].gen = m_poll_entries[j].gen
             /\ E[j].events = IF j = i THEN ev ELSE m_poll_entries[j].events
  BY <1>3, <1>4 DEF Entries
<1>6. DOMAIN E = DOMAIN m_poll_entries
  BY <1>2
<1>7. E = [j \in 1..Len(m_poll_entries) |-> E[j]]
  BY <1>1, <1>2
<1>8. E \in Seq(Entries) /\ Len(E) = Len(m_poll_entries)
  BY <1>1, <1>5, <1>7
<1> QED
  BY <1>5, <1>6, <1>8

\* So it keeps the table.
LEMMA EventsTable ==
    ASSUME TypeOK, Table, NEW r \in active, NEW ev \in {"none", "in", "out"},
           m_poll_entries' = SetPollEvents(poll_index[r], ev),
           known \subseteq known', UNCHANGED <<active, poll_index, reg_gen>>
    PROVE  /\ m_poll_entries' \in Seq(Entries)
           /\ Len(m_poll_entries') = Len(m_poll_entries)
           /\ Table'
           /\ \A s \in active : m_poll_entries'[poll_index[s]].events =
                 IF s = r THEN ev ELSE m_poll_entries[poll_index[s]].events
<1>1. /\ Len(m_poll_entries) \in Nat /\ DOMAIN m_poll_entries = 1..Len(m_poll_entries)
      /\ \A s \in active : poll_index[s] \in 2..Len(m_poll_entries)
  BY ActiveIndex
<1>2. poll_index[r] \in DOMAIN m_poll_entries
  BY <1>1
<1>3. /\ m_poll_entries' \in Seq(Entries)
      /\ Len(m_poll_entries') = Len(m_poll_entries)
      /\ DOMAIN m_poll_entries' = DOMAIN m_poll_entries
      /\ \A j \in DOMAIN m_poll_entries :
            /\ m_poll_entries'[j].reg = m_poll_entries[j].reg
            /\ m_poll_entries'[j].gen = m_poll_entries[j].gen
            /\ m_poll_entries'[j].events =
                  IF j = poll_index[r] THEN ev ELSE m_poll_entries[j].events
  BY <1>2, SetEvents
<1>4. active \subseteq Regs
  BY DEF TypeOK
<1>5. EntriesOwned'
  BY <1>1, <1>3 DEF Table, EntriesOwned
<1>6. Table'
  <2>1. 1 \in DOMAIN m_poll_entries
    BY <1>1
  <2>2. Len(m_poll_entries)' = 1 + Cardinality(active) /\ m_poll_entries'[1].reg = Wake
    BY <1>3, <2>1 DEF Table
  <2>3. ASSUME NEW s \in Regs, s \in active
        PROVE  /\ s[1] \in known' /\ poll_index[s] \in DOMAIN m_poll_entries'
               /\ m_poll_entries'[poll_index[s]].reg = s
               /\ m_poll_entries'[poll_index[s]].gen = reg_gen[s]
    BY <1>3, <2>3 DEF Table
  <2>4. ASSUME NEW s \in Regs, s \notin active PROVE poll_index[s] = 0
    BY <2>4 DEF Table
  <2> QED
    BY <1>5, <2>2, <2>3, <2>4 DEF Table
<1>7. ASSUME NEW s \in active, s # r PROVE poll_index[s] # poll_index[r]
  BY <1>4, <1>7 DEF Table
<1> QED
  BY <1>1, <1>3, <1>6, <1>7

\* add_poll_entry() puts a new registration, of a new generation, at the end.
LEMMA AppendTable ==
    ASSUME TypeOK, Table, NEW r \in Regs, r \notin active, NEW ev \in {"none", "in", "out"},
           PutPollEntry(r, ev), active' = active \cup {r},
           known \subseteq known', r[1] \in known'
    PROVE  /\ m_poll_entries' \in Seq(Entries)
           /\ poll_index' \in [Regs -> 0..Len(m_poll_entries')]
           /\ reg_gen' \in [Regs -> 0..m_gen']
           /\ m_gen' = m_gen + 1 /\ m_gen' \in 0..MaxGen
           /\ \A s \in Regs : reg_gen'[s] = IF s = r THEN m_gen + 1 ELSE reg_gen[s]
           /\ Table'
           /\ \A s \in active' : m_poll_entries'[poll_index'[s]].events =
                 IF s = r THEN ev ELSE m_poll_entries[poll_index[s]].events
<1> DEFINE L == Len(m_poll_entries)
<1> DEFINE e == [reg |-> r, gen |-> m_gen + 1, events |-> ev]
<1>1. poll_index[r] = 0
  BY DEF Table
<1>2. /\ m_gen < MaxGen /\ m_gen' = m_gen + 1
      /\ m_poll_entries' = Append(m_poll_entries, e)
      /\ poll_index' = [poll_index EXCEPT ![r] = L + 1]
      /\ reg_gen' = [reg_gen EXCEPT ![r] = m_gen + 1]
  BY <1>1 DEF PutPollEntry
<1>3. /\ m_poll_entries \in Seq(Entries) /\ L \in Nat /\ DOMAIN m_poll_entries = 1..L
      /\ poll_index \in [Regs -> 0..L] /\ reg_gen \in [Regs -> 0..m_gen]
      /\ m_gen \in 0..MaxGen /\ MaxGen \in Nat /\ active \subseteq Regs
  BY PollTableAssumption DEF TypeOK
<1>4. e \in Entries /\ m_gen' \in 0..MaxGen
  BY <1>2, <1>3 DEF Entries
<1>5. /\ m_poll_entries' \in Seq(Entries) /\ Len(m_poll_entries') = L + 1
      /\ DOMAIN m_poll_entries' = 1..(L + 1)
      /\ \A j \in 1..L : m_poll_entries'[j] = m_poll_entries[j]
      /\ m_poll_entries'[L + 1] = e
  BY <1>2, <1>3, <1>4
<1>6. poll_index' \in [Regs -> 0..Len(m_poll_entries')]
  BY <1>2, <1>3, <1>5
<1>7. reg_gen' \in [Regs -> 0..m_gen']
  BY <1>2, <1>3
<1>8. \A s \in Regs : reg_gen'[s] = IF s = r THEN m_gen + 1 ELSE reg_gen[s]
  BY <1>2, <1>3
<1>9. \A s \in Regs : poll_index'[s] = IF s = r THEN L + 1 ELSE poll_index[s]
  BY <1>2, <1>3
<1>10. \A s \in active : poll_index[s] \in 2..L
  BY ActiveIndex
<1>11. L = 1 + Cardinality(active) /\ Cardinality(active) \in Nat
  BY <1>3, ActiveFinite DEF Table
<1>12. L \in 1..L
  BY <1>3, <1>11
<1>13. EntriesOwned'
  <2> SUFFICES ASSUME NEW j \in 2..(L + 1)
               PROVE  /\ m_poll_entries'[j].reg \in active'
                      /\ poll_index'[m_poll_entries'[j].reg] = j
    BY <1>5 DEF EntriesOwned
  <2>1. CASE j = L + 1
    BY <1>5, <1>9, <2>1
  <2>2. CASE j # L + 1
    <3>1. j \in 2..L /\ j \in 1..L
      BY <1>3, <2>2
    <3>2. m_poll_entries[j].reg \in active /\ poll_index[m_poll_entries[j].reg] = j
      BY <3>1 DEF Table, EntriesOwned
    <3> QED
      BY <1>3, <1>5, <1>9, <3>1, <3>2
  <2> QED
    BY <2>1, <2>2
<1>14. ASSUME NEW s \in active
       PROVE  s # r /\ poll_index'[s] = poll_index[s] /\ poll_index[s] \in 1..L
  BY <1>3, <1>9, <1>10
<1>15. Table'
  <2>1. Len(m_poll_entries') = 1 + Cardinality(active')
    <3>1. Cardinality(active') = Cardinality(active) + 1
      BY <1>3, ActiveFinite
    <3> QED
      BY <1>5, <1>11, <3>1
  <2>2. m_poll_entries'[1].reg = Wake
    BY <1>3, <1>5, <1>11 DEF Table
  <2>3. ASSUME NEW s \in Regs, s \in active'
        PROVE  /\ s[1] \in known' /\ poll_index'[s] \in DOMAIN m_poll_entries'
               /\ m_poll_entries'[poll_index'[s]].reg = s
               /\ m_poll_entries'[poll_index'[s]].gen = reg_gen'[s]
    <3>1. CASE s = r
      BY <1>3, <1>5, <1>8, <1>9, <3>1
    <3>2. CASE s # r
      <4>1. s \in active
        BY <2>3, <3>2
      <4> QED
        BY <1>3, <1>5, <1>8, <1>14, <4>1 DEF Table
    <3> QED
      BY <3>1, <3>2
  <2>4. ASSUME NEW s \in Regs, s \notin active' PROVE poll_index'[s] = 0
    BY <1>9, <2>4 DEF Table
  <2> QED
    BY <1>13, <2>1, <2>2, <2>3, <2>4 DEF Table
<1>16. ASSUME NEW s \in active'
       PROVE  m_poll_entries'[poll_index'[s]].events =
                 IF s = r THEN ev ELSE m_poll_entries[poll_index[s]].events
  BY <1>5, <1>9, <1>14
<1> QED
  BY <1>2, <1>4, <1>5, <1>6, <1>7, <1>8, <1>15, <1>16

\* remove_poll_entry_by_index() moves the last entry into the gap, and
\* update_poll_index() tells its registration.
LEMMA RemoveTable ==
    ASSUME TypeOK, Table, NEW r \in active,
           m_poll_entries' = EntriesWithout(poll_index[r]), poll_index' = IndexWithout(r),
           active' = active \ {r}, UNCHANGED <<known, reg_gen>>
    PROVE  /\ m_poll_entries' \in Seq(Entries)
           /\ poll_index' \in [Regs -> 0..Len(m_poll_entries')]
           /\ Table'
           /\ \A s \in active' : m_poll_entries'[poll_index'[s]].events =
                 m_poll_entries[poll_index[s]].events
<1> DEFINE L == Len(m_poll_entries)
<1> DEFINE p == poll_index[r]
<1> DEFINE moved == m_poll_entries[L].reg
<1>1. /\ m_poll_entries \in Seq(Entries) /\ L \in Nat /\ DOMAIN m_poll_entries = 1..L
      /\ active \subseteq Regs /\ p \in 2..L
      /\ \A s \in active : poll_index[s] \in 2..L
  BY ActiveIndex DEF TypeOK
<1>2. m_poll_entries' = [j \in 1..(L - 1) |-> m_poll_entries[IF j = p THEN L ELSE j]]
  BY <1>1 DEF EntriesWithout
<1>3. ASSUME NEW j \in 1..(L - 1)
      PROVE  m_poll_entries[IF j = p THEN L ELSE j] \in Entries
  BY <1>1
<1>4. /\ m_poll_entries' \in Seq(Entries) /\ Len(m_poll_entries') = L - 1
      /\ DOMAIN m_poll_entries' = 1..(L - 1)
      /\ \A j \in 1..(L - 1) :
            m_poll_entries'[j] = IF j = p THEN m_poll_entries[L] ELSE m_poll_entries[j]
  BY <1>1, <1>2, <1>3
<1>5. /\ moved \in active /\ poll_index[moved] = L /\ moved[1] \in known
      /\ \A j \in 2..L : /\ m_poll_entries[j].reg \in active
                          /\ poll_index[m_poll_entries[j].reg] = j
  <2>1. L \in 2..L
    BY <1>1
  <2> QED
    BY <1>1, <2>1 DEF Table, EntriesOwned
<1>6. \A s \in Regs : poll_index'[s] =
         IF s = r THEN 0
         ELSE IF s = moved /\ p \in 1..(L - 1) /\ s[1] \in known THEN p ELSE poll_index[s]
  BY DEF IndexWithout
<1> HIDE DEF L, p, moved
<1>7. ASSUME NEW s \in active, s # r
      PROVE  /\ s \in Regs /\ m_poll_entries[poll_index[s]].reg = s
             /\ poll_index[s] # p
             /\ poll_index'[s] \in 2..(L - 1)
             /\ m_poll_entries'[poll_index'[s]] = m_poll_entries[poll_index[s]]
  <2>1. s \in Regs /\ m_poll_entries[poll_index[s]].reg = s /\ r \in Regs
    BY <1>1 DEF Table
  <2>2. m_poll_entries[p].reg = r
    BY <1>1 DEF Table, p
  <2>3. poll_index[s] # p
    BY <1>7, <2>1, <2>2
  <2>4. CASE s = moved
    <3>1. poll_index[s] = L /\ p \in 1..(L - 1) /\ p \in 2..(L - 1)
      BY <1>1, <1>5, <2>3, <2>4
    <3>2. poll_index'[s] = p
      BY <1>5, <1>6, <1>7, <2>1, <2>4, <3>1
    <3> QED
      BY <1>4, <2>1, <2>3, <3>1, <3>2
  <2>5. CASE s # moved
    <3>1. poll_index'[s] = poll_index[s]
      BY <1>6, <1>7, <2>1, <2>5
    <3>2. poll_index[s] # L
      BY <1>5, <2>1, <2>5 DEF moved, L
    <3>3. poll_index[s] \in 2..(L - 1) /\ poll_index[s] \in 1..(L - 1)
      BY <1>1, <3>2
    <3> QED
      BY <1>4, <2>1, <2>3, <3>1, <3>3
  <2> QED
    BY <2>4, <2>5
<1>8. ASSUME NEW s \in Regs, s \notin active' PROVE poll_index'[s] = 0
  BY <1>5, <1>6, <1>8 DEF Table
<1>9. EntriesOwned'
  <2> SUFFICES ASSUME NEW j \in 2..(L - 1)
               PROVE  /\ m_poll_entries'[j].reg \in active'
                      /\ poll_index'[m_poll_entries'[j].reg] = j
    BY <1>4 DEF EntriesOwned
  <2>1. j \in 1..(L - 1) /\ j \in 2..L /\ j # L
    BY <1>1
  <2>2. CASE j = p
    <3>1. m_poll_entries'[j].reg = moved
      BY <1>4, <2>1, <2>2 DEF moved
    <3>2. moved # r
      BY <1>5, <2>1, <2>2 DEF p
    <3> QED
      BY <1>1, <1>5, <1>6, <2>1, <2>2, <3>1, <3>2
  <2>3. CASE j # p
    <3>1. m_poll_entries'[j] = m_poll_entries[j]
      BY <1>4, <2>1, <2>3
    <3>2. m_poll_entries[j].reg \in active /\ poll_index[m_poll_entries[j].reg] = j
      BY <1>5, <2>1
    <3>3. m_poll_entries[j].reg # r /\ m_poll_entries[j].reg # moved
      BY <1>5, <2>1, <2>3, <3>2 DEF p
    <3> QED
      BY <1>1, <1>6, <3>1, <3>2, <3>3
  <2> QED
    BY <2>2, <2>3
<1>10. Table'
  <2>1. Len(m_poll_entries') = 1 + Cardinality(active')
    <3>1. Cardinality(active) \in Nat /\ Cardinality(active') = Cardinality(active) - 1
      BY <1>1, ActiveFinite
    <3>2. L = 1 + Cardinality(active)
      BY DEF Table, L
    <3> QED
      BY <1>4, <3>1, <3>2
  <2>2. m_poll_entries'[1].reg = Wake
    <3>1. 1 \in 1..(L - 1) /\ 1 # p
      BY <1>1
    <3> QED
      BY <1>4, <3>1 DEF Table
  <2>3. ASSUME NEW s \in Regs, s \in active'
        PROVE  /\ s[1] \in known' /\ poll_index'[s] \in DOMAIN m_poll_entries'
               /\ m_poll_entries'[poll_index'[s]].reg = s
               /\ m_poll_entries'[poll_index'[s]].gen = reg_gen'[s]
    <3>1. s \in active /\ s # r
      BY <2>3
    <3>2. poll_index'[s] \in 1..(L - 1)
      BY <1>1, <1>7, <3>1
    <3> QED
      BY <1>4, <1>7, <3>1, <3>2 DEF Table
  <2> QED
    BY <1>8, <1>9, <2>1, <2>2, <2>3 DEF Table
<1>11. poll_index' \in [Regs -> 0..Len(m_poll_entries')]
  <2>1. poll_index' = [s \in Regs |-> poll_index'[s]]
    BY DEF IndexWithout
  <2>2. ASSUME NEW s \in Regs PROVE poll_index'[s] \in 0..(L - 1)
    <3>1. CASE s \in active'
      <4>1. s \in active /\ s # r
        BY <3>1
      <4> QED
        BY <1>1, <1>7, <4>1
    <3>2. CASE s \notin active'
      BY <1>1, <1>8, <3>2
    <3> QED
      BY <3>1, <3>2
  <2> QED
    BY <1>4, <2>1, <2>2
<1> QED
  BY <1>4, <1>7, <1>10, <1>11

\* An entry of the snapshot that was not the registered one does not become it: a
\* registration added since has a later generation.
LEMMA DispatchKept ==
    ASSUME TypeOK, Table, DispatchFresh, UNCHANGED m_dispatch, m_gen' \in Int, m_gen <= m_gen',
           \A s \in active' : reg_gen'[s] <= m_gen =>
               s \in active /\ reg_gen'[s] = reg_gen[s] /\ (s \in fresh => s \in fresh')
    PROVE  DispatchFresh'
<1> SUFFICES ASSUME NEW i \in DOMAIN m_dispatch
             PROVE  /\ m_dispatch[i].reg \in Regs
                    /\ m_dispatch[i].gen <= m_gen'
                    /\ \A j \in DOMAIN m_dispatch :
                          m_dispatch[i].reg = m_dispatch[j].reg => i = j
                    /\ Current(m_dispatch[i])' => m_dispatch[i].reg \in fresh'
  BY DEF DispatchFresh, Current
<1>1. /\ m_dispatch[i].reg \in Regs /\ m_dispatch[i].gen <= m_gen
      /\ \A j \in DOMAIN m_dispatch : m_dispatch[i].reg = m_dispatch[j].reg => i = j
      /\ Current(m_dispatch[i]) => m_dispatch[i].reg \in fresh
  BY DEF DispatchFresh
<1>2. m_gen \in Int /\ m_dispatch[i].gen \in Int
  BY PollTableAssumption DEF TypeOK, Entries
<1>3. m_dispatch[i].gen <= m_gen'
  BY <1>1, <1>2
<1>4. ASSUME Current(m_dispatch[i])' PROVE m_dispatch[i].reg \in fresh'
  <2>1. /\ m_dispatch[i].reg \in active' /\ reg_gen'[m_dispatch[i].reg] = m_dispatch[i].gen
    BY <1>4 DEF Current
  <2>2. /\ m_dispatch[i].reg \in active
        /\ reg_gen[m_dispatch[i].reg] = m_dispatch[i].gen
        /\ m_dispatch[i].reg \in fresh => m_dispatch[i].reg \in fresh'
    BY <1>1, <2>1
  <2>3. Current(m_dispatch[i])
    BY <1>1, <2>2 DEF Current, Table
  <2> QED
    BY <1>1, <2>2, <2>3
<1> QED
  BY <1>1, <1>3, <1>4

-----------------------------------------------------------------------------
(* The operations. *)

\* add_read(), for a registration that is new or there already.
LEMMA AddReadInv ==
    ASSUME Inv, NEW f \in Fds, AddRead(f)
    PROVE  Inv'
<1> DEFINE r == <<f, "read">>
<1> USE DEF Inv, AddRead, historyVars, runVars
<1>1. r \in Regs /\ r[1] = f /\ r[2] = "read" /\ active \subseteq Regs
  BY RegsPairs DEF TypeOK
<1>2. /\ m_poll_entries' \in Seq(Entries)
      /\ poll_index' \in [Regs -> 0..Len(m_poll_entries')]
      /\ reg_gen' \in [Regs -> 0..m_gen'] /\ m_gen' \in 0..MaxGen /\ m_gen <= m_gen'
      /\ Table'
      /\ \A s \in active' : m_poll_entries'[poll_index'[s]].events =
            IF s = r THEN "in" ELSE m_poll_entries[poll_index[s]].events
      /\ \A s \in active' : reg_gen'[s] <= m_gen => s \in active /\ reg_gen'[s] = reg_gen[s]
  <2>0. m_gen \in Nat /\ reg_gen \in [Regs -> 0..m_gen]
    BY PollTableAssumption DEF TypeOK
  <2>1. CASE r \in active
    <3>1. poll_index[r] # 0
      BY <2>1, ActiveIndex
    <3>2. m_poll_entries' = SetPollEvents(poll_index[r], "in") /\ active' = active
          /\ UNCHANGED <<m_gen, poll_index, reg_gen>>
      BY <2>1, <3>1 DEF PutPollEntry
    <3>3. /\ m_poll_entries' \in Seq(Entries)
          /\ Len(m_poll_entries') = Len(m_poll_entries)
          /\ Table'
          /\ \A s \in active : m_poll_entries'[poll_index[s]].events =
                IF s = r THEN "in" ELSE m_poll_entries[poll_index[s]].events
      BY <2>1, <3>2, EventsTable
    <3>4. poll_index' \in [Regs -> 0..Len(m_poll_entries')] /\ m_gen' \in 0..MaxGen
      BY <3>2, <3>3 DEF TypeOK
    <3>5. m_gen <= m_gen' /\ reg_gen' \in [Regs -> 0..m_gen']
      BY <2>0, <3>2
    <3>6. \A s \in active' : s \in active /\ reg_gen'[s] = reg_gen[s]
      BY <3>2
    <3> QED
      BY <3>2, <3>3, <3>4, <3>5, <3>6
  <2>2. CASE r \notin active
    <3>1. /\ m_poll_entries' \in Seq(Entries)
          /\ poll_index' \in [Regs -> 0..Len(m_poll_entries')]
          /\ reg_gen' \in [Regs -> 0..m_gen']
          /\ m_gen' = m_gen + 1 /\ m_gen' \in 0..MaxGen
          /\ \A s \in Regs : reg_gen'[s] = IF s = r THEN m_gen + 1 ELSE reg_gen[s]
          /\ Table'
          /\ \A s \in active' : m_poll_entries'[poll_index'[s]].events =
                IF s = r THEN "in" ELSE m_poll_entries[poll_index[s]].events
      BY <1>1, <2>2, AppendTable
    <3>2. m_gen <= m_gen'
      BY <2>0, <3>1
    <3>3. ASSUME NEW s \in active', reg_gen'[s] <= m_gen
          PROVE  s \in active /\ reg_gen'[s] = reg_gen[s]
      <4>1. s \in Regs /\ (s # r => s \in active)
        BY <1>1
      <4>2. reg_gen'[r] = m_gen + 1
        BY <1>1, <3>1
      <4>3. s # r
        BY <2>0, <3>3, <4>2
      <4> QED
        BY <3>1, <4>1, <4>3
    <3> QED
      BY <3>1, <3>2, <3>3
  <2> QED
    BY <2>1, <2>2
<1>3. \A s \in active' : s = r \/ s \in active
  OBVIOUS
<1>4. TypeOK'
  BY <1>1, <1>2 DEF TypeOK, ReplaceCb
<1>5. CtxIsActive'
  BY DEF CtxIsActive
<1>6. ArmedAsAsked'
  <2> SUFFICES ASSUME NEW s \in active'
               PROVE  m_poll_entries'[poll_index'[s]].events =
                        IF s[2] = "read" THEN "in"
                        ELSE IF s[1] \in wanted' THEN "out" ELSE "none"
    BY DEF ArmedAsAsked
  <2>1. CASE s = r
    BY <1>1, <1>2, <2>1
  <2>2. CASE s # r
    <3>1. s \in active /\ s[2] = "read" => s[1] # f
      BY <1>1, <1>3, <2>2, RegsPairs
    <3> QED
      BY <1>2, <2>2, <3>1, <1>1, RegsPairs DEF ArmedAsAsked
  <2> QED
    BY <2>1, <2>2
<1>7. DupsOwned'
  BY <1>1 DEF DupsOwned
<1>8. DispatchFresh'
  BY <1>2, DispatchKept
<1> QED
  BY <1>2, <1>4, <1>5, <1>6, <1>7, <1>8

\* add_write() does too, with the duplicate it makes or finds.
LEMMA AddWriteInv ==
    ASSUME Inv, NEW f \in Fds, AddWrite(f)
    PROVE  Inv'
<1> DEFINE r == <<f, "write">>
<1> USE DEF Inv, AddWrite, NeedsDup, runVars
<1>1. r \in Regs /\ r[1] = f /\ r[2] = "write" /\ active \subseteq Regs
  BY RegsPairs DEF TypeOK
<1>2. /\ m_poll_entries' \in Seq(Entries)
      /\ poll_index' \in [Regs -> 0..Len(m_poll_entries')]
      /\ reg_gen' \in [Regs -> 0..m_gen'] /\ m_gen' \in 0..MaxGen /\ m_gen <= m_gen'
      /\ Table'
      /\ \A s \in active' : m_poll_entries'[poll_index'[s]].events =
            IF s = r THEN "none" ELSE m_poll_entries[poll_index[s]].events
      /\ \A s \in active' : reg_gen'[s] <= m_gen => s \in active /\ reg_gen'[s] = reg_gen[s]
  <2>0. m_gen \in Nat /\ reg_gen \in [Regs -> 0..m_gen]
    BY PollTableAssumption DEF TypeOK
  <2>1. CASE r \in active
    <3>1. poll_index[r] # 0
      BY <2>1, ActiveIndex
    <3>2. m_poll_entries' = SetPollEvents(poll_index[r], "none") /\ active' = active
          /\ UNCHANGED <<m_gen, poll_index, reg_gen>>
      BY <2>1, <3>1 DEF PutPollEntry
    <3>3. /\ m_poll_entries' \in Seq(Entries)
          /\ Len(m_poll_entries') = Len(m_poll_entries)
          /\ Table'
          /\ \A s \in active : m_poll_entries'[poll_index[s]].events =
                IF s = r THEN "none" ELSE m_poll_entries[poll_index[s]].events
      BY <2>1, <3>2, EventsTable
    <3>4. poll_index' \in [Regs -> 0..Len(m_poll_entries')] /\ m_gen' \in 0..MaxGen
      BY <3>2, <3>3 DEF TypeOK
    <3>5. m_gen <= m_gen' /\ reg_gen' \in [Regs -> 0..m_gen']
      BY <2>0, <3>2
    <3>6. \A s \in active' : s \in active /\ reg_gen'[s] = reg_gen[s]
      BY <3>2
    <3> QED
      BY <3>2, <3>3, <3>4, <3>5, <3>6
  <2>2. CASE r \notin active
    <3>1. /\ m_poll_entries' \in Seq(Entries)
          /\ poll_index' \in [Regs -> 0..Len(m_poll_entries')]
          /\ reg_gen' \in [Regs -> 0..m_gen']
          /\ m_gen' = m_gen + 1 /\ m_gen' \in 0..MaxGen
          /\ \A s \in Regs : reg_gen'[s] = IF s = r THEN m_gen + 1 ELSE reg_gen[s]
          /\ Table'
          /\ \A s \in active' : m_poll_entries'[poll_index'[s]].events =
                IF s = r THEN "none" ELSE m_poll_entries[poll_index[s]].events
      BY <1>1, <2>2, AppendTable
    <3>2. m_gen <= m_gen'
      BY <2>0, <3>1
    <3>3. ASSUME NEW s \in active', reg_gen'[s] <= m_gen
          PROVE  s \in active /\ reg_gen'[s] = reg_gen[s]
      <4>1. s \in Regs /\ (s # r => s \in active)
        BY <1>1
      <4>2. reg_gen'[r] = m_gen + 1
        BY <1>1, <3>1
      <4>3. s # r
        BY <2>0, <3>3, <4>2
      <4> QED
        BY <3>1, <4>1, <4>3
    <3> QED
      BY <3>1, <3>2, <3>3
  <2> QED
    BY <2>1, <2>2
<1>3. \A s \in active' : s = r \/ s \in active
  OBVIOUS
<1>4. TypeOK'
  <2>1. dups' \in [Fds -> Nat]
    BY DEF TypeOK
  <2> QED
    BY <1>1, <1>2, <2>1 DEF TypeOK, ReplaceCb
<1>5. CtxIsActive'
  BY DEF CtxIsActive
<1>6. ArmedAsAsked'
  <2> SUFFICES ASSUME NEW s \in active'
               PROVE  m_poll_entries'[poll_index'[s]].events =
                        IF s[2] = "read" THEN "in"
                        ELSE IF s[1] \in wanted' THEN "out" ELSE "none"
    BY DEF ArmedAsAsked
  <2>1. CASE s = r
    BY <1>1, <1>2, <2>1
  <2>2. CASE s # r
    <3>1. s \in active /\ s[2] = "write" => s[1] # f
      BY <1>1, <1>3, <2>2, RegsPairs
    <3> QED
      BY <1>2, <2>2, <3>1, <1>1, RegsPairs DEF ArmedAsAsked
  <2> QED
    BY <2>1, <2>2
<1>7. DupsOwned'
  <2>1. \A g \in Fds : dups'[g] = IF g = f /\ r \notin active THEN dups[g] + 1 ELSE dups[g]
    BY <1>1 DEF CtxIsActive, TypeOK, DupsOwned
  <2>2. \A g \in Fds : <<g, "write">> \in active' <=> g = f \/ <<g, "write">> \in active
    OBVIOUS
  <2> QED
    BY <2>1, <2>2 DEF DupsOwned
<1>8. DispatchFresh'
  BY <1>2, DispatchKept
<1> QED
  BY <1>2, <1>4, <1>5, <1>6, <1>7, <1>8

\* add_write() whose dup() fails only leaves an entry behind.
LEMMA AddWriteFailsInv ==
    ASSUME Inv, NEW f \in Fds, AddWriteFails(f)
    PROVE  Inv'
<1> USE DEF Inv, AddWriteFails, runVars
<1>1. TypeOK'
  BY DEF TypeOK
<1>2. Table' /\ CtxIsActive' /\ ArmedAsAsked' /\ DupsOwned'
  BY DEF Table, EntriesOwned, CtxIsActive, ArmedAsAsked, DupsOwned
<1>3. DispatchFresh'
  BY PollTableAssumption, DispatchKept DEF TypeOK
<1> QED
  BY <1>1, <1>2, <1>3

\* rem_read() moves an entry and keeps the others where their registrations look.
LEMMA RemReadInv ==
    ASSUME Inv, NEW f \in Fds, RemRead(f)
    PROVE  Inv'
<1> DEFINE r == <<f, "read">>
<1> USE DEF Inv
<1>0. r \in Regs /\ r[1] = f /\ r[2] = "read" /\ active = ctx_fd
  BY RegsPairs DEF CtxIsActive
<1>a. ASSUME NEW g \in Fds, g \in known', \A k \in {"read", "write"} : <<g, k>> \notin active',
             \A k \in {"read", "write"} : g # f => (<<g, k>> \in active <=> <<g, k>> \in active')
      PROVE  g \in m_pending_cleanup' \cup dup_failed'
  <2>1. CASE g = f
    BY <1>a, <2>1 DEF RemRead, Cleanup
  <2>2. CASE g # f
    BY <1>a, <2>2 DEF RemRead, Cleanup, DupsOwned
  <2> QED
    BY <2>1, <2>2
<1>1. CASE r \notin active
  <2>1. UNCHANGED <<m_poll_entries, poll_index, active, ctx_fd, fresh, callable, known, reg_gen,
                    m_gen, dups, wanted, m_dispatch, running, phase>>
    BY <1>0, <1>1 DEF RemRead, runVars
  <2>2. m_pending_cleanup' \subseteq Fds /\ dup_failed' \subseteq Fds
    BY DEF RemRead, Cleanup, TypeOK
  <2>3. TypeOK'
    BY <2>1, <2>2 DEF TypeOK
  <2>4. DupsOwned'
    BY <1>a, <2>1, <2>3 DEF DupsOwned, TypeOK
  <2>5. Table' /\ CtxIsActive' /\ ArmedAsAsked' /\ DispatchFresh'
    BY <2>1 DEF Table, EntriesOwned, CtxIsActive, ArmedAsAsked, DispatchFresh, Current
  <2> QED
    BY <2>3, <2>4, <2>5
<1>2. CASE r \in active
  <2> USE <1>0, <1>2 DEF RemRead, Unregister, runVars
  <2>1. /\ m_poll_entries' \in Seq(Entries)
        /\ poll_index' \in [Regs -> 0..Len(m_poll_entries')]
        /\ Table'
        /\ \A s \in active' : m_poll_entries'[poll_index'[s]].events =
              m_poll_entries[poll_index[s]].events
    BY RemoveTable
  <2>2. TypeOK'
    BY <2>1 DEF TypeOK, RetireCb, Cleanup
  <2>3. CtxIsActive'
    BY DEF CtxIsActive
  <2>4. ArmedAsAsked'
    <3> SUFFICES ASSUME NEW s \in active'
                 PROVE  m_poll_entries'[poll_index'[s]].events =
                          IF s[2] = "read" THEN "in"
                          ELSE IF s[1] \in wanted' THEN "out" ELSE "none"
      BY DEF ArmedAsAsked
    <3>1. s \in active /\ s # r /\ s \in Regs
      BY <2>2 DEF TypeOK
    <3>2. s[2] = "read" => s[1] # f
      BY <3>1, RegsPairs
    <3> QED
      BY <2>1, <3>1, <3>2, RegsPairs DEF ArmedAsAsked
  <2>5. DupsOwned'
    <3>1. \A g \in Fds : dups'[g] = dups[g] /\ (<<g, "write">> \in active' <=> <<g, "write">> \in active)
      OBVIOUS
    <3>2. ASSUME NEW g \in known', \A k \in {"read", "write"} : <<g, k>> \notin active'
          PROVE  g \in m_pending_cleanup' \cup dup_failed'
      <4>1. g \in Fds
        BY DEF TypeOK
      <4>2. \A k \in {"read", "write"} : g # f => (<<g, k>> \in active <=> <<g, k>> \in active')
        OBVIOUS
      <4> QED
        BY <1>a, <3>2, <4>1, <4>2
    <3> QED
      BY <3>1, <3>2 DEF DupsOwned
  <2>6. DispatchFresh'
    <3>1. m_gen \in Nat /\ active \subseteq Regs
      BY PollTableAssumption DEF TypeOK
    <3>2. \A s \in active' : s \in active /\ (s \in fresh => s \in fresh')
      OBVIOUS
    <3> QED
      BY <3>1, <3>2, DispatchKept
  <2> QED
    BY <2>1, <2>2, <2>3, <2>4, <2>5, <2>6
<1> QED
  BY <1>1, <1>2

\* rem_write() also closes the duplicate and drops the request.
LEMMA RemWriteInv ==
    ASSUME Inv, NEW f \in Fds, RemWrite(f)
    PROVE  Inv'
<1> DEFINE r == <<f, "write">>
<1> USE DEF Inv
<1>0. r \in Regs /\ r[1] = f /\ r[2] = "write" /\ active = ctx_fd
  BY RegsPairs DEF CtxIsActive
<1>a. ASSUME NEW g \in Fds, g \in known', \A k \in {"read", "write"} : <<g, k>> \notin active',
             \A k \in {"read", "write"} : g # f => (<<g, k>> \in active <=> <<g, k>> \in active')
      PROVE  g \in m_pending_cleanup' \cup dup_failed'
  <2>1. CASE g = f
    BY <1>a, <2>1 DEF RemWrite, Cleanup
  <2>2. CASE g # f
    BY <1>a, <2>2 DEF RemWrite, Cleanup, DupsOwned
  <2> QED
    BY <2>1, <2>2
<1>1. CASE r \notin active
  <2>1. UNCHANGED <<m_poll_entries, poll_index, active, ctx_fd, fresh, callable, known, reg_gen,
                    m_gen, dups, wanted, m_dispatch, running, phase>>
    BY <1>0, <1>1 DEF RemWrite, runVars
  <2>2. m_pending_cleanup' \subseteq Fds /\ dup_failed' \subseteq Fds
    BY DEF RemWrite, Cleanup, TypeOK
  <2>3. TypeOK'
    BY <2>1, <2>2 DEF TypeOK
  <2>4. DupsOwned'
    BY <1>a, <2>1, <2>3 DEF DupsOwned, TypeOK
  <2>5. Table' /\ CtxIsActive' /\ ArmedAsAsked' /\ DispatchFresh'
    BY <2>1 DEF Table, EntriesOwned, CtxIsActive, ArmedAsAsked, DispatchFresh, Current
  <2> QED
    BY <2>3, <2>4, <2>5
<1>2. CASE r \in active
  <2> USE <1>0, <1>2 DEF RemWrite, Unregister, runVars
  <2>1. /\ m_poll_entries' \in Seq(Entries)
        /\ poll_index' \in [Regs -> 0..Len(m_poll_entries')]
        /\ Table'
        /\ \A s \in active' : m_poll_entries'[poll_index'[s]].events =
              m_poll_entries[poll_index[s]].events
    BY RemoveTable
  <2>1b. dups' \in [Fds -> Nat] /\ wanted' \subseteq Fds
    <3>1. dups[f] = 1 /\ dups \in [Fds -> Nat]
      BY <1>2 DEF DupsOwned, TypeOK
    <3> QED
      BY <3>1 DEF TypeOK
  <2>2. TypeOK'
    BY <2>1, <2>1b DEF TypeOK, RetireCb, Cleanup
  <2>3. CtxIsActive'
    BY DEF CtxIsActive
  <2>4. ArmedAsAsked'
    <3> SUFFICES ASSUME NEW s \in active'
                 PROVE  m_poll_entries'[poll_index'[s]].events =
                          IF s[2] = "read" THEN "in"
                          ELSE IF s[1] \in wanted' THEN "out" ELSE "none"
      BY DEF ArmedAsAsked
    <3>1. s \in active /\ s # r /\ s \in Regs
      BY <2>2 DEF TypeOK
    <3>2. s[2] = "write" => s[1] # f
      BY <3>1, RegsPairs
    <3> QED
      BY <2>1, <3>1, <3>2, RegsPairs DEF ArmedAsAsked
  <2>5. DupsOwned'
    <3>1. \A g \in Fds : dups'[g] = IF <<g, "write">> \in active' THEN 1 ELSE 0
      <4> TAKE g \in Fds
      <4>1. dups \in [Fds -> Nat] /\ dups[g] = (IF <<g, "write">> \in active THEN 1 ELSE 0)
        BY DEF TypeOK, DupsOwned
      <4>2. CASE g = f
        BY <1>2, <4>1, <4>2
      <4>3. CASE g # f
        BY <4>1, <4>3
      <4> QED
        BY <4>2, <4>3
    <3>2. ASSUME NEW g \in known', \A k \in {"read", "write"} : <<g, k>> \notin active'
          PROVE  g \in m_pending_cleanup' \cup dup_failed'
      <4>1. g \in Fds
        BY DEF TypeOK
      <4>2. \A k \in {"read", "write"} : g # f => (<<g, k>> \in active <=> <<g, k>> \in active')
        OBVIOUS
      <4> QED
        BY <1>a, <3>2, <4>1, <4>2
    <3> QED
      BY <3>1, <3>2 DEF DupsOwned
  <2>6. DispatchFresh'
    <3>1. m_gen \in Nat /\ active \subseteq Regs
      BY PollTableAssumption DEF TypeOK
    <3>2. \A s \in active' : s \in active /\ (s \in fresh => s \in fresh')
      OBVIOUS
    <3> QED
      BY <3>1, <3>2, DispatchKept
  <2> QED
    BY <2>1, <2>2, <2>3, <2>4, <2>5, <2>6
<1> QED
  BY <1>1, <1>2

\* req_write() arms the entry of an active registration.
LEMMA ReqWriteInv ==
    ASSUME Inv, NEW f \in Fds, ReqWrite(f)
    PROVE  Inv'
<1> DEFINE r == <<f, "write">>
<1> USE DEF Inv, ReqWrite, runVars
<1>1. r \in active /\ r \in Regs /\ r[1] = f /\ r[2] = "write"
  BY RegsPairs
<1>2. /\ m_poll_entries' \in Seq(Entries)
      /\ Len(m_poll_entries') = Len(m_poll_entries)
      /\ Table'
      /\ \A s \in active : m_poll_entries'[poll_index[s]].events =
            IF s = r THEN "out" ELSE m_poll_entries[poll_index[s]].events
  BY <1>1, EventsTable
<1>3. TypeOK'
  BY <1>2 DEF TypeOK
<1>4. ArmedAsAsked'
  <2> SUFFICES ASSUME NEW s \in active
               PROVE  m_poll_entries'[poll_index[s]].events =
                        IF s[2] = "read" THEN "in"
                        ELSE IF s[1] \in wanted' THEN "out" ELSE "none"
    BY DEF ArmedAsAsked
  <2>1. CASE s = r
    BY <1>1, <1>2, <2>1
  <2>2. CASE s # r
    <3>1. s \in Regs
      BY DEF TypeOK
    <3>2. s[2] = "read" \/ s[1] # f
      BY <2>2, <3>1, RegsPairs
    <3> QED
      BY <1>2, <2>2, <3>2 DEF ArmedAsAsked
  <2> QED
    BY <2>1, <2>2
<1>5. CtxIsActive' /\ DupsOwned'
  BY DEF CtxIsActive, DupsOwned
<1>6. DispatchFresh'
  BY PollTableAssumption, DispatchKept DEF TypeOK
<1> QED
  BY <1>2, <1>3, <1>4, <1>5, <1>6

-----------------------------------------------------------------------------
(* run(). *)

\* The snapshot has one entry for a registration, the registered one.
LEMMA PollInv ==
    ASSUME Inv, NEW ready \in SUBSET (2..Len(m_poll_entries)), Poll(ready)
    PROVE  Inv'
<1> USE DEF Inv, Poll, entryVars
<1>1. /\ m_poll_entries \in Seq(Entries) /\ Len(m_poll_entries) \in Nat
      /\ DOMAIN m_poll_entries = 1..Len(m_poll_entries) /\ active \subseteq Regs
      /\ m_gen \in Nat /\ reg_gen \in [Regs -> 0..m_gen]
  BY PollTableAssumption DEF TypeOK
<1>2. ASSUME NEW i \in ready
      PROVE  /\ i \in Nat /\ m_poll_entries[i] \in Entries
             /\ m_poll_entries[i].reg \in active /\ poll_index[m_poll_entries[i].reg] = i
             /\ m_poll_entries[i].gen = reg_gen[m_poll_entries[i].reg]
  <2>1. i \in 2..Len(m_poll_entries) /\ i \in 1..Len(m_poll_entries) /\ i \in Nat
    BY <1>1
  <2>2. m_poll_entries[i].reg \in active /\ poll_index[m_poll_entries[i].reg] = i
    BY <2>1 DEF Table, EntriesOwned
  <2> QED
    BY <1>1, <2>1, <2>2 DEF Table
<1>3. /\ DOMAIN m_dispatch' = ready
      /\ \A i \in ready : m_dispatch'[i] = m_poll_entries[i]
  OBVIOUS
<1>4. TypeOK'
  <2>1. DOMAIN m_dispatch' \subseteq Nat /\ m_dispatch' \in [DOMAIN m_dispatch' -> Entries]
    BY <1>2
  <2>2. fresh' \subseteq Regs
    BY <1>1, <1>2
  <2> QED
    BY <2>1, <2>2 DEF TypeOK, Phases
<1>5. Table' /\ CtxIsActive' /\ ArmedAsAsked' /\ DupsOwned'
  BY DEF Table, EntriesOwned, CtxIsActive, ArmedAsAsked, DupsOwned
<1>6. DispatchFresh'
  <2> SUFFICES ASSUME NEW i \in ready
               PROVE  /\ m_dispatch'[i].reg \in Regs
                      /\ m_dispatch'[i].gen <= m_gen
                      /\ \A j \in ready : m_dispatch'[i].reg = m_dispatch'[j].reg => i = j
                      /\ m_dispatch'[i].reg \in fresh'
    BY <1>3 DEF DispatchFresh
  <2>1. m_poll_entries[i].reg \in Regs /\ m_poll_entries[i].gen <= m_gen
    BY <1>1, <1>2
  <2>2. \A j \in ready : m_poll_entries[i].reg = m_poll_entries[j].reg => i = j
    BY <1>2
  <2> QED
    BY <1>3, <2>1, <2>2
<1> QED
  BY <1>4, <1>5, <1>6

\* What visiting an entry leaves of the snapshot.
LEMMA VisitRest ==
    ASSUME TypeOK, NEW i \in DOMAIN m_dispatch, Visit(i)
    PROVE  /\ DOMAIN m_dispatch' = DOMAIN m_dispatch \ {i}
           /\ \A j \in DOMAIN m_dispatch' : m_dispatch'[j] = m_dispatch[j]
           /\ DOMAIN m_dispatch' \subseteq Nat
           /\ m_dispatch' \in [DOMAIN m_dispatch' -> Entries]
<1> USE DEF Visit
<1>1. /\ DOMAIN m_dispatch' = DOMAIN m_dispatch \ {i}
      /\ \A j \in DOMAIN m_dispatch \ {i} : m_dispatch'[j] = m_dispatch[j]
  OBVIOUS
<1>2. DOMAIN m_dispatch \subseteq Nat /\ \A j \in DOMAIN m_dispatch : m_dispatch[j] \in Entries
  BY DEF TypeOK
<1>3. m_dispatch' = [j \in DOMAIN m_dispatch' |-> m_dispatch'[j]]
  BY <1>1
<1> QED
  BY <1>1, <1>2, <1>3

\* An entry that is not the registered one is passed over.
LEMMA DispatchSkipInv ==
    ASSUME Inv, NEW i \in DOMAIN m_dispatch, DispatchSkip(i)
    PROVE  Inv'
<1> USE DEF Inv, DispatchSkip, entryVars, historyVars
<1>1. /\ DOMAIN m_dispatch' = DOMAIN m_dispatch \ {i}
      /\ \A j \in DOMAIN m_dispatch' : m_dispatch'[j] = m_dispatch[j]
      /\ DOMAIN m_dispatch' \subseteq Nat
      /\ m_dispatch' \in [DOMAIN m_dispatch' -> Entries]
  BY VisitRest
<1>2. TypeOK'
  BY <1>1 DEF TypeOK
<1>3. DispatchFresh'
  BY <1>1 DEF DispatchFresh, Current
<1> QED
  BY <1>2, <1>3 DEF Table, EntriesOwned, CtxIsActive, ArmedAsAsked, DupsOwned

\* The callback of an entry runs, and what is left of the snapshot is about others.
LEMMA DispatchCallInv ==
    ASSUME Inv, NEW i \in DOMAIN m_dispatch, DispatchCall(i)
    PROVE  Inv' /\ running' \in fresh
<1> DEFINE r == m_dispatch[i].reg
<1> USE DEF Inv, DispatchCall
<1>1. /\ DOMAIN m_dispatch' = DOMAIN m_dispatch \ {i}
      /\ \A j \in DOMAIN m_dispatch' : m_dispatch'[j] = m_dispatch[j]
      /\ DOMAIN m_dispatch' \subseteq Nat
      /\ m_dispatch' \in [DOMAIN m_dispatch' -> Entries]
  BY VisitRest
<1>2. r \in active /\ r \in Regs /\ r \in fresh
  BY DEF DispatchFresh, Current
<1>3. /\ m_poll_entries' \in Seq(Entries)
      /\ Len(m_poll_entries') = Len(m_poll_entries)
      /\ Table'
      /\ \A s \in active : m_poll_entries'[poll_index[s]].events =
            IF s = r /\ r[2] = "write" THEN "none" ELSE m_poll_entries[poll_index[s]].events
  <2>1. CASE r[2] = "write"
    BY <1>2, <2>1, EventsTable DEF Disarm
  <2>2. CASE r[2] # "write"
    <3>1. m_poll_entries' = m_poll_entries
      BY <2>2 DEF Disarm
    <3> QED
      BY <2>2, <3>1 DEF Table, EntriesOwned, TypeOK
  <2> QED
    BY <2>1, <2>2
<1>4. TypeOK'
  BY <1>1, <1>2, <1>3 DEF TypeOK, Phases
<1>5. ArmedAsAsked'
  <2> SUFFICES ASSUME NEW s \in active
               PROVE  m_poll_entries'[poll_index[s]].events =
                        IF s[2] = "read" THEN "in"
                        ELSE IF s[1] \in wanted' THEN "out" ELSE "none"
    BY DEF ArmedAsAsked
  <2>1. s \in Regs
    BY DEF TypeOK
  <2>2. CASE s = r
    BY <1>3, <2>1, <2>2, RegsPairs DEF ArmedAsAsked
  <2>3. CASE s # r
    <3>1. s[2] = "write" /\ r[2] = "write" => s[1] # r[1]
      BY <1>2, <2>1, <2>3, RegsPairs
    <3>2. s[2] = "write" => (s[1] \in wanted' <=> s[1] \in wanted)
      BY <3>1
    <3> QED
      BY <1>3, <2>1, <2>3, <3>2, RegsPairs DEF ArmedAsAsked
  <2> QED
    BY <2>2, <2>3
<1>6. CtxIsActive' /\ DupsOwned'
  BY DEF CtxIsActive, DupsOwned
<1>7. DispatchFresh'
  <2> SUFFICES ASSUME NEW j \in DOMAIN m_dispatch'
               PROVE  /\ m_dispatch'[j].reg \in Regs
                      /\ m_dispatch'[j].gen <= m_gen'
                      /\ \A k \in DOMAIN m_dispatch' :
                            m_dispatch'[j].reg = m_dispatch'[k].reg => j = k
                      /\ Current(m_dispatch[j])' => m_dispatch'[j].reg \in fresh'
    BY DEF DispatchFresh, Current
  <2>1. j \in DOMAIN m_dispatch /\ j # i /\ m_dispatch'[j] = m_dispatch[j]
    BY <1>1
  <2>2. m_dispatch[j].reg # r
    BY <2>1 DEF DispatchFresh
  <2>3. Current(m_dispatch[j])' <=> Current(m_dispatch'[j])
    BY <2>1 DEF Current
  <2>4. Current(m_dispatch[j])' => Current(m_dispatch[j])
    BY <2>1 DEF Current
  <2> QED
    BY <1>1, <2>1, <2>2, <2>4 DEF DispatchFresh
<1> QED
  BY <1>2, <1>3, <1>4, <1>5, <1>6, <1>7

\* The cleanup erases only fds with nothing registered.
LEMMA EraseUnusedInv ==
    ASSUME Inv, EraseUnused
    PROVE  Inv'
<1> USE DEF Inv, EraseUnused
<1>1. /\ Unused \subseteq known \cap m_pending_cleanup
      /\ \A f \in Unused : <<f, "read">> \notin active /\ <<f, "write">> \notin active
  BY DEF Unused
<1>2. active \subseteq Regs /\ \A r \in active : r[1] \notin Unused
  <2>1. active \subseteq Regs
    BY DEF TypeOK
  <2>2. ASSUME NEW r \in active, r[1] \in Unused PROVE FALSE
    <3>1. r = <<r[1], r[2]>> /\ r[2] \in {"read", "write"}
      BY <2>1, RegsPairs
    <3>2. CASE r[2] = "read"
      BY <1>1, <2>2, <3>1, <3>2
    <3>3. CASE r[2] = "write"
      BY <1>1, <2>2, <3>1, <3>3
    <3> QED
      BY <3>1, <3>2, <3>3
  <2> QED
    BY <2>1, <2>2
<1>3. active' = active /\ ctx_fd' = ctx_fd
  BY <1>2 DEF CtxIsActive
<1>4. dups' = dups
  <2>1. \A f \in Fds : ~(f \in Unused /\ <<f, "write">> \in ctx_fd)
    BY <1>1 DEF CtxIsActive
  <2> QED
    BY <2>1 DEF TypeOK
<1>5. \A r \in Regs : poll_index'[r] = poll_index[r]
  BY <1>2 DEF Table
<1>6. poll_index' = poll_index
  BY <1>5 DEF TypeOK
<1>7. /\ reg_gen' \in [Regs -> 0..m_gen] /\ m_gen \in Nat
      /\ \A r \in active : reg_gen'[r] = reg_gen[r]
  BY <1>2, PollTableAssumption DEF TypeOK
<1>8. TypeOK'
  BY <1>3, <1>4, <1>6, <1>7 DEF TypeOK, Phases
<1>9. Table'
  <2>1. EntriesOwned'
    BY <1>3, <1>6 DEF Table, EntriesOwned
  <2>2. \A r \in active : r[1] \in known'
    BY <1>2 DEF Table
  <2> QED
    BY <1>2, <1>3, <1>6, <1>7, <2>1, <2>2 DEF Table
<1>10. CtxIsActive' /\ ArmedAsAsked'
  BY <1>3, <1>6 DEF CtxIsActive, ArmedAsAsked
<1>11. DupsOwned'
  <2>1. ASSUME NEW f \in known', \A k \in {"read", "write"} : <<f, k>> \notin active'
        PROVE  f \in dup_failed'
    <3>1. f \in known /\ f \notin Unused /\ \A k \in {"read", "write"} : <<f, k>> \notin active
      BY <1>3, <2>1
    <3>2. f \notin m_pending_cleanup
      BY <3>1 DEF Unused
    <3>3. f \in dup_failed
      BY <3>1, <3>2 DEF DupsOwned
    <3> QED
      BY <3>1, <3>3
  <2> QED
    BY <1>3, <1>4, <2>1 DEF DupsOwned
<1>12. DispatchFresh'
  BY <1>3, <1>7, DispatchKept
<1> QED
  BY <1>8, <1>9, <1>10, <1>11, <1>12

\* The table of a new reactor holds the wake pipe only.
LEMMA InitInv == Init => Inv
<1> SUFFICES ASSUME Init PROVE Inv
  OBVIOUS
<1> USE DEF Init
<1> DEFINE e == [reg |-> Wake, gen |-> 0, events |-> "in"]
<1>1. /\ m_poll_entries = <<e>> /\ e \in Entries
  BY PollTableAssumption DEF Entries
<1>2. m_poll_entries \in Seq(Entries) /\ Len(m_poll_entries) = 1
  BY <1>1
<1>3. DOMAIN m_dispatch = {} /\ m_dispatch \in [{} -> Entries]
  OBVIOUS
<1>4. /\ poll_index \in [Regs -> 0..Len(m_poll_entries)]
      /\ reg_gen \in [Regs -> 0..m_gen] /\ m_gen \in 0..MaxGen
      /\ dups \in [Fds -> Nat]
  BY <1>2, PollTableAssumption
<1>5. TypeOK
  BY <1>2, <1>3, <1>4 DEF TypeOK, Phases
<1>6. Table
  <2>1. Cardinality(active) = 0
    BY FS_EmptySet
  <2>2. EntriesOwned
    BY <1>2 DEF EntriesOwned
  <2> QED
    BY <1>1, <1>2, <2>1, <2>2 DEF Table
<1>7. CtxIsActive /\ ArmedAsAsked /\ DupsOwned /\ DispatchFresh
  BY <1>3 DEF CtxIsActive, ArmedAsAsked, DupsOwned, DispatchFresh
<1> QED
  BY <1>5, <1>6, <1>7 DEF Inv

\* Every operation and every step of run() keeps the invariant.
LEMMA NextInv == Inv /\ [Next]_vars => Inv'
<1> SUFFICES ASSUME Inv, [Next]_vars PROVE Inv'
  OBVIOUS
<1> USE DEF entryVars, historyVars, runVars
<1>1. ASSUME NEW f \in Fds, Call(f) PROVE Inv'
  BY <1>1, AddReadInv, AddWriteInv, AddWriteFailsInv, RemReadInv, RemWriteInv, ReqWriteInv
     DEF Call
<1>2. CASE LoopTest \/ CallbackReturn \/ DispatchDone \/ Schedule \/ UNCHANGED vars
  <2>1. /\ UNCHANGED <<entryVars, historyVars, m_dispatch>>
        /\ phase' \in Phases /\ running' \in {running, Nothing}
        /\ callable' \in {callable, "registered"}
    BY <1>2 DEF LoopTest, CallbackReturn, DispatchDone, Schedule, vars, Phases, Inv, TypeOK
  <2>2. TypeOK'
    BY <2>1 DEF Inv, TypeOK
  <2>3. Table' /\ CtxIsActive' /\ ArmedAsAsked' /\ DupsOwned' /\ DispatchFresh'
    BY <2>1 DEF Inv, Table, EntriesOwned, CtxIsActive, ArmedAsAsked, DupsOwned, DispatchFresh,
                Current
  <2> QED
    BY <2>2, <2>3 DEF Inv
<1> QED
  BY <1>1, <1>2, PollInv, DispatchSkipInv, DispatchCallInv, EraseUnusedInv DEF Next

-----------------------------------------------------------------------------
(* The theorems. *)

\* For any number of fds, added and removed in any order, from any callback: the entry
\* that poll() watches for a registration is at the index the registration remembers.
THEOREM TableConsistent == Spec => []TableMatches
<1>1. Inv => TableMatches
  BY DEF Inv, Table, TableMatches
<1> QED
  BY <1>1, InitInv, NextInv, PTL DEF Spec

\* poll() waits for writability exactly while a write notification is asked for.
THEOREM WriteArmed == Spec => []ArmedAsAsked
<1>1. Inv => ArmedAsAsked
  BY DEF Inv
<1> QED
  BY <1>1, InitInv, NextInv, PTL DEF Spec

\* Every duplicate is closed exactly once.
THEOREM DuplicatesClosed == Spec => []DupsOwned
<1>1. Inv => DupsOwned
  BY DEF Inv
<1> QED
  BY <1>1, InitInv, NextInv, PTL DEF Spec

\* No callback runs for an event of an earlier registration of its fd, nor twice for
\* one poll().
THEOREM CallbackNotStale == Spec => NoStaleCallback
<1>1. Inv /\ [Next]_vars => [running' \notin {running, Nothing} => running' \in fresh]_vars
  <2> SUFFICES ASSUME Inv, Next, running' \notin {running, Nothing}
               PROVE  running' \in fresh
    BY DEF vars, runVars
  <2> USE DEF entryVars, historyVars, runVars
  <2>1. PICK i \in DOMAIN m_dispatch : DispatchCall(i)
    BY DEF Next, Call, AddRead, AddWrite, AddWriteFails, RemRead, RemWrite, ReqWrite,
           LoopTest, Poll, DispatchSkip, CallbackReturn, DispatchDone, EraseUnused, Schedule
  <2> QED
    BY <2>1, DispatchCallInv
<1> QED
  BY <1>1, InitInv, NextInv, PTL DEF Spec, NoStaleCallback

=============================================================================
