---------------------------- MODULE SihaLibProofs ----------------------------
(***************************************************************************)
(* The resources lib/siha.c holds for a process, for any size of its file  *)
(* table and address space and any number of sessions.                     *)
(***************************************************************************)
EXTENDS SihaLib, FiniteSetTheorems, TLAPS

------------------------------------------------------------------------------
(***************************************************************************)
(* The invariant.                                                          *)
(***************************************************************************)

\* The devices initRMs opens for a slot.
Own(slot) == {"SIHAMgr", AccelConfig(slot), RMCommBox(slot)}

\* A slot that was initialised has a structure.
HasRMs == \A s \in Slot : session[s] # "closed" => m_rms \in RMs

\* The library's pointer to the rm_comm_box of an open slot.
BoxInv ==
  \A s \in Slot : session[s] = "open" =>
    RMCOMMBOX[s] \in Places /\ windows[RMCOMMBOX[s]] = RMCommBox(s)

\* What FinaliseUnmapRMs of one slot unmaps is not the rm_comm_box of another
\* open slot: the structure it looks in may be that slot's.
ApartInv ==
  \A s, u \in Slot :
    s # u /\ session[s] = "open" /\ session[u] # "closed" =>
      RMCOMMBOX[s] \notin {m_rms.map[AccelConfig(u)], m_rms.map[RMCommBox(u)]}

\* A careful process has at most one slot initialised,
OneSlotInv ==
  careful => \A s, u \in Slot :
    session[s] # "closed" /\ session[u] # "closed" => s = u

\* whose structure has the files that were opened for it, each once,
FilesInv ==
  careful /\ (\A s \in Slot : session[s] # "failed") =>
    /\ \A s \in Slot : session[s] = "open" => \A d \in Own(s) : m_rms.fd[d] \in Fd
    /\ \A d \in Device : \A x \in Fd :
         files[x] = d <=> \E s \in Slot :
           session[s] = "open" /\ d \in Own(s) /\ x = m_rms.fd[d]

\* and the two windows through which the slot can be reached.
WindowsInv ==
  careful => \A s \in Slot :
    LET own == {AccelConfig(s), RMCommBox(s)}
    IN  /\ session[s] = "closed" => \A p \in Places : windows[p] \notin own
        /\ session[s] = "open" =>
             \A d \in own : /\ m_rms.map[d] \in Places
                            /\ windows[m_rms.map[d]] = d
                            /\ \A p \in Places : windows[p] = d => p = m_rms.map[d]

LibInv ==
  /\ TypeOK /\ HasRMs /\ BoxInv /\ ApartInv /\ OneSlotInv /\ FilesInv
  /\ WindowsInv /\ StdioKept

------------------------------------------------------------------------------
(***************************************************************************)
(* Tables.                                                                 *)
(***************************************************************************)

\* There is an i-th lowest free entry if there are that many.
LEMMA LowestIsFree ==
  ASSUME NEW table, IsFiniteSet(Free(table)), Free(table) \subseteq Nat,
         NEW i \in 1..Cardinality(Free(table))
  PROVE  /\ Lowest(i, table) \in Free(table)
         /\ Cardinality({y \in Free(table) : y <= Lowest(i, table)}) = i
<1> DEFINE S == Free(table)
           Below(x) == {y \in S : y <= x}
           rank == [x \in S |-> Cardinality(Below(x))]
           n == Cardinality(S)
<1>1. n \in Nat
  BY FS_CardinalityType
<1>2. ASSUME NEW x \in S
      PROVE  /\ IsFiniteSet(Below(x)) /\ Cardinality(Below(x)) \in 1..n
  <2>1. /\ IsFiniteSet(Below(x)) /\ Cardinality(Below(x)) <= n
    <3>1. Below(x) \in SUBSET S
      OBVIOUS
    <3> HIDE DEF Below, S
    <3> QED BY <3>1, FS_Subset DEF S
  <2>2. Cardinality(Below(x)) \in Nat
    BY <2>1, FS_CardinalityType
  <2>3. x \in Below(x)
    OBVIOUS
  <2>4. Cardinality(Below(x)) # 0
    BY <2>1, <2>3, FS_EmptySet
  <2> QED BY <1>1, <2>1, <2>2, <2>4
<1>3. rank \in [S -> 1..n]
  BY <1>2
<1>4. ASSUME NEW x \in S, NEW y \in S, x < y
      PROVE  rank[x] # rank[y]
  <2>1. Below(x) \in SUBSET Below(y)
    BY <1>4
  <2>2. y \in Below(y) /\ y \notin Below(x)
    BY <1>4
  <2>3. Below(x) # Below(y)
    BY <2>2
  <2>4. IsFiniteSet(Below(y)) /\ rank[x] = Cardinality(Below(x))
          /\ rank[y] = Cardinality(Below(y))
    BY <1>2
  <2> HIDE DEF Below, rank, S
  <2> QED BY ONLY <2>1, <2>3, <2>4, FS_Subset
<1>5. rank \in Injection(S, 1..n)
  <2>1. ASSUME NEW x \in S, NEW y \in S, rank[x] = rank[y] PROVE x = y
    <3>1. x \in Nat /\ y \in Nat
      OBVIOUS
    <3> HIDE DEF rank, S
    <3> QED BY ONLY <1>4, <2>1, <3>1
  <2> HIDE DEF rank, S, n
  <2> QED BY ONLY <1>3, <2>1 DEF Injection, IsInjective
<1>6. rank \in Surjection(S, 1..n)
  <2>1. IsFiniteSet(1..n) /\ Cardinality(1..n) = n
    BY <1>1, FS_Interval
  <2> HIDE DEF rank
  <2> QED BY <1>5, <2>1, FS_Injection
<1>7. \E x \in S : Cardinality(Below(x)) = i
  BY <1>6 DEF Surjection
<1> QED BY <1>7 DEF Lowest

\* Different turns get different entries.
LEMMA LowestDiffer ==
  ASSUME NEW table, IsFiniteSet(Free(table)), Free(table) \subseteq Nat,
         NEW i \in 1..Cardinality(Free(table)),
         NEW j \in 1..Cardinality(Free(table)), i # j
  PROVE  Lowest(i, table) # Lowest(j, table)
<1>1. Cardinality({y \in Free(table) : y <= Lowest(i, table)}) = i
  BY LowestIsFree
<1>2. Cardinality({y \in Free(table) : y <= Lowest(j, table)}) = j
  BY LowestIsFree
<1> QED BY <1>1, <1>2

\* The turns of the devices of a slot.
LEMMA Turns ==
  ASSUME NEW slot \in Slot
  PROVE  /\ \A d \in Device : Turn(d, slot) \in 0..3
         /\ \A d \in Device : Turn(d, slot) # 0 <=> d \in Own(slot)
         /\ \A d, e \in Device : Turn(d, slot) = Turn(e, slot) /\ Turn(d, slot) # 0
                                   => d = e
BY DEF Turn, Own, Slot, Device, AccelConfig, RMCommBox

\* The fields of a structure when n calls succeeded.
Filled(field, slot, n, table, failed, zero) ==
  \A d \in Device : field[d] = Field(Turn(d, slot), n, table, failed, zero)

\* n devices of a slot have an entry each that was free, and nobody else.
Shared(field, slot, n, table, failed, zero) ==
  /\ \A d \in Device :
       IF Turn(d, slot) \in 1..n
         THEN /\ field[d] \in DOMAIN table /\ table[field[d]] = "free"
              /\ Holders(field, field[d], n, slot) = {d}
         ELSE field[d] \in {failed, zero}
  /\ \A d \in Device : Turn(d, slot) = 0 => field[d] = zero

\* n devices of a slot get an entry each, and nobody else has it.
LEMMA FieldsOfTable ==
  ASSUME NEW table, DOMAIN table \in SUBSET Nat, IsFiniteSet(DOMAIN table),
         NEW slot \in Slot, NEW n \in 0..3, n <= Cardinality(Free(table)),
         NEW failed, NEW zero, NEW field,
         Filled(field, slot, n, table, failed, zero)
  PROVE  Shared(field, slot, n, table, failed, zero)
<1>1. IsFiniteSet(Free(table)) /\ Free(table) \subseteq Nat
  BY FS_Subset DEF Free
<1>2. Cardinality(Free(table)) \in Nat
  BY <1>1, FS_CardinalityType
<1>3. ASSUME NEW i \in 1..n PROVE Lowest(i, table) \in Free(table)
  <2>1. i \in 1..Cardinality(Free(table))
    BY <1>2
  <2> QED BY ONLY <1>1, <2>1, LowestIsFree
<1>4. \A i, j \in 1..n : i # j => Lowest(i, table) # Lowest(j, table)
  BY <1>1, <1>2, LowestDiffer
<1>5. ASSUME NEW d \in Device, Turn(d, slot) \in 1..n
      PROVE  /\ field[d] \in DOMAIN table /\ table[field[d]] = "free"
             /\ Holders(field, field[d], n, slot) = {d}
  <2>1. \A e \in Device : Turn(e, slot) \in 1..n => field[e] = Lowest(Turn(e, slot), table)
    BY DEF Field, Filled
  <2>2. field[d] \in DOMAIN table /\ table[field[d]] = "free"
    BY <1>3, <1>5, <2>1 DEF Free
  <2>3. ASSUME NEW e \in Device, Turn(e, slot) \in 1..n, field[e] = field[d]
        PROVE  e = d
    <3>1. Turn(e, slot) = Turn(d, slot)
      BY ONLY <1>4, <1>5, <2>1, <2>3
    <3> QED BY <1>5, <3>1, Turns
  <2> QED BY <1>5, <2>2, <2>3 DEF Holders
<1>6. ASSUME NEW d \in Device, Turn(d, slot) \notin 1..n
      PROVE  field[d] \in {failed, zero} /\ (Turn(d, slot) = 0 => field[d] = zero)
  BY <1>6 DEF Field, Filled
<1> QED BY <1>5, <1>6 DEF Shared

------------------------------------------------------------------------------
(***************************************************************************)
(* What InitializeMapRMs obtains.                                          *)
(***************************************************************************)

\* n files: each of the first n devices has a file of its own, that was free
\* before; the rest of the file table is as it was.
LEMMA FilesObtained ==
  ASSUME TypeOK, NEW slot \in Slot, NEW n \in 0..3, n <= Cardinality(Free(files))
  PROVE  LET fd == initRMs(slot, n)
             table == Opened(fd, n, slot)
         IN  /\ fd \in [Device -> Fd \cup {-1}]
             /\ table \in [Fd -> Device \cup {"stdio", "free"}]
             /\ \A d \in Device : Turn(d, slot) \in 1..n =>
                  fd[d] \in Fd /\ files[fd[d]] = "free" /\ table[fd[d]] = d
             /\ \A x \in Fd : table[x] # files[x] =>
                  \E d \in Device : Turn(d, slot) \in 1..n /\ x = fd[d]
<1> DEFINE fd == initRMs(slot, n)
           table == Opened(fd, n, slot)
<1>1. /\ Fd \in SUBSET Nat /\ IsFiniteSet(Fd) /\ DOMAIN files = Fd /\ 0 \in Fd
  BY LimitsAssumption, FS_Interval DEF TypeOK, Fd
<1>2. Filled(fd, slot, n, files, -1, 0) /\ fd = [d \in Device |-> fd[d]]
  BY DEF initRMs, Filled
<1> HIDE DEF fd
<1>3. \A d \in Device :
        IF Turn(d, slot) \in 1..n
          THEN /\ fd[d] \in Fd /\ files[fd[d]] = "free"
               /\ Holders(fd, fd[d], n, slot) = {d}
          ELSE fd[d] \in {-1, 0}
  <2>1. Shared(fd, slot, n, files, -1, 0)
    BY ONLY <1>1, <1>2, FieldsOfTable, slot \in Slot, n \in 0..3,
            n <= Cardinality(Free(files))
  <2> QED BY <1>1, <2>1 DEF Shared
<1>4. fd \in [Device -> Fd \cup {-1}]
  BY <1>1, <1>2, <1>3
<1>5. ASSUME NEW d \in Device, Turn(d, slot) \in 1..n
      PROVE  table[fd[d]] = d
  BY <1>3, <1>5 DEF Opened, The
<1>6. ASSUME NEW x \in Fd
      PROVE  \/ table[x] = files[x]
             \/ \E d \in Device : Turn(d, slot) \in 1..n /\ x = fd[d]
  BY DEF Opened, Holders
<1>7. table \in [Fd -> Device \cup {"stdio", "free"}]
  <2>1. \A x \in Fd : table[x] \in Device \cup {"stdio", "free"}
    BY <1>5, <1>6 DEF TypeOK
  <2>2. table = [x \in Fd |-> table[x]]
    BY DEF Opened
  <2> HIDE DEF table
  <2> QED BY <2>1, <2>2
<1> HIDE DEF table
<1> QED BY <1>3, <1>4, <1>5, <1>6, <1>7 DEF fd, table

\* k windows, after all three files: the same.
LEMMA WindowsObtained ==
  ASSUME TypeOK, NEW slot \in Slot, NEW n \in 0..3, NEW k \in 0..3,
         n < 3 => k = 0, k <= Cardinality(Free(windows)),
         NEW fd, NEW table,
         n = 3 => \A d \in Device : Turn(d, slot) \in 1..3 => table[fd[d]] = d
  PROVE  LET map == mapRMs(slot, n, k)
             space == Mapped(map, k, slot, fd, table)
         IN  /\ map \in [Device -> Address]
             /\ space \in [Places -> Device \cup {"free"}]
             /\ \A d \in Device : Turn(d, slot) = 0 => map[d] = NULL
             /\ \A d \in Device : IF Turn(d, slot) \in 1..k
                  THEN /\ map[d] \in Places /\ windows[map[d]] = "free"
                       /\ space[map[d]] = d
                  ELSE map[d] \notin Places
             /\ \A x \in Places : space[x] # windows[x] =>
                  \E d \in Device : Turn(d, slot) \in 1..k /\ x = map[d]
<1> DEFINE map == mapRMs(slot, n, k)
           space == Mapped(map, k, slot, fd, table)
<1>1. /\ Places \in SUBSET Nat /\ IsFiniteSet(Places) /\ DOMAIN windows = Places
      /\ NULL \notin Places /\ MAP_FAILED \notin Places
  BY LimitsAssumption DEF TypeOK
<1>2. /\ \A d \in Device :
           IF Turn(d, slot) \in 1..k
             THEN /\ map[d] \in Places /\ windows[map[d]] = "free"
                  /\ Holders(map, map[d], k, slot) = {d}
             ELSE map[d] \in {MAP_FAILED, NULL}
      /\ \A d \in Device : Turn(d, slot) = 0 => map[d] = NULL
  <2>1. CASE n < 3
    BY <2>1, Turns DEF mapRMs
  <2>2. CASE ~(n < 3)
    <3>1. Filled(map, slot, k, windows, MAP_FAILED, NULL)
      BY <2>2 DEF mapRMs, Filled
    <3> HIDE DEF map
    <3>2. Shared(map, slot, k, windows, MAP_FAILED, NULL)
      BY ONLY <1>1, <3>1, FieldsOfTable, slot \in Slot, k \in 0..3,
              k <= Cardinality(Free(windows))
    <3> QED BY <1>1, <3>2 DEF Shared
  <2> QED BY <2>1, <2>2
<1>3. map \in [Device -> Address]
  <2>1. \A d \in Device : map[d] \in Address
    BY <1>2 DEF Address
  <2>2. map = [d \in Device |-> map[d]]
    BY DEF mapRMs
  <2> HIDE DEF map
  <2> QED BY <2>1, <2>2
<1> HIDE DEF map
<1>4. ASSUME NEW d \in Device, Turn(d, slot) \in 1..k
      PROVE  space[map[d]] = d
  <2>1. n = 3 /\ Turn(d, slot) \in 1..3
    BY <1>4
  <2>2. space[map[d]] = table[fd[d]]
    BY <1>2, <1>4 DEF Mapped, The, MappedFd
  <2> QED BY <2>1, <2>2
<1>5. ASSUME NEW x \in Places
      PROVE  \/ space[x] = windows[x]
             \/ \E d \in Device : Turn(d, slot) \in 1..k /\ x = map[d]
  BY DEF Mapped, Holders
<1>6. space \in [Places -> Device \cup {"free"}]
  <2>1. \A x \in Places : space[x] \in Device \cup {"free"}
    BY <1>4, <1>5 DEF TypeOK
  <2>2. space = [x \in Places |-> space[x]]
    BY DEF Mapped
  <2> HIDE DEF space
  <2> QED BY <2>1, <2>2
<1> HIDE DEF space
<1> QED BY <1>1, <1>2, <1>3, <1>4, <1>5, <1>6 DEF map, space

\* InitializeMapRMs gets n files and k windows for the devices of its slot,
\* in the order of their turns, and changes nothing else.
Obtains(slot, n, k) ==
  /\ n < 3 => k = 0
  /\ m_rms' \in RMs
  /\ files' \in [Fd -> Device \cup {"stdio", "free"}]
  /\ windows' \in [Places -> Device \cup {"free"}]
  /\ \A d \in Device : Turn(d, slot) \in 1..n =>
       /\ m_rms'.fd[d] \in Fd /\ files[m_rms'.fd[d]] = "free"
       /\ files'[m_rms'.fd[d]] = d
  /\ \A x \in Fd : files'[x] # files[x] =>
       \E d \in Device : Turn(d, slot) \in 1..n /\ x = m_rms'.fd[d]
  /\ \A d \in Device : Turn(d, slot) = 0 => m_rms'.map[d] = NULL
  /\ \A d \in Device : IF Turn(d, slot) \in 1..k
       THEN /\ m_rms'.map[d] \in Places /\ windows[m_rms'.map[d]] = "free"
            /\ windows'[m_rms'.map[d]] = d
       ELSE m_rms'.map[d] \notin Places
  /\ \A x \in Places : windows'[x] # windows[x] =>
       \E d \in Device : Turn(d, slot) \in 1..k /\ x = m_rms'.map[d]
  /\ IF k = 3
       THEN /\ RMCOMMBOX' = [RMCOMMBOX EXCEPT ![slot] = m_rms'.map[RMCommBox(slot)]]
            /\ session' = [session EXCEPT ![slot] = "open"]
       ELSE /\ RMCOMMBOX' = RMCOMMBOX
            /\ session' = [session EXCEPT ![slot] = "failed"]

LEMMA InitializeEffect ==
  ASSUME TypeOK, NEW slot \in Slot, InitializeMapRMs(slot)
  PROVE  \E n, k \in 0..3 : Obtains(slot, n, k)
<1>1. PICK n \in 0..3, k \in 0..3 :
        /\ n <= Cardinality(Free(files)) /\ k <= Cardinality(Free(windows))
        /\ n < 3 => k = 0
        /\ m_rms' = [fd |-> initRMs(slot, n), map |-> mapRMs(slot, n, k)]
        /\ files' = Opened(initRMs(slot, n), n, slot)
        /\ windows' = Mapped(mapRMs(slot, n, k), k, slot, initRMs(slot, n), files')
        /\ IF k = 3
             THEN /\ RMCOMMBOX' = [RMCOMMBOX EXCEPT
                                     ![slot] = mapRMs(slot, n, k)[RMCommBox(slot)]]
                  /\ session' = [session EXCEPT ![slot] = "open"]
             ELSE /\ session' = [session EXCEPT ![slot] = "failed"]
                  /\ RMCOMMBOX' = RMCOMMBOX
  BY DEF InitializeMapRMs, configDMSlots
<1> DEFINE fd == initRMs(slot, n)
           map == mapRMs(slot, n, k)
<1>2. /\ fd \in [Device -> Fd \cup {-1}]
      /\ files' \in [Fd -> Device \cup {"stdio", "free"}]
      /\ \A d \in Device : Turn(d, slot) \in 1..n =>
           fd[d] \in Fd /\ files[fd[d]] = "free" /\ files'[fd[d]] = d
      /\ \A x \in Fd : files'[x] # files[x] =>
           \E d \in Device : Turn(d, slot) \in 1..n /\ x = fd[d]
  BY <1>1, FilesObtained
<1>3. /\ map \in [Device -> Address]
      /\ windows' \in [Places -> Device \cup {"free"}]
      /\ \A d \in Device : Turn(d, slot) = 0 => map[d] = NULL
      /\ \A d \in Device : IF Turn(d, slot) \in 1..k
           THEN map[d] \in Places /\ windows[map[d]] = "free" /\ windows'[map[d]] = d
           ELSE map[d] \notin Places
      /\ \A x \in Places : windows'[x] # windows[x] =>
           \E d \in Device : Turn(d, slot) \in 1..k /\ x = map[d]
  <2>1. n = 3 => \A d \in Device : Turn(d, slot) \in 1..3 => files'[fd[d]] = d
    BY <1>2
  <2> QED BY <1>1, <2>1, WindowsObtained
<1>4. m_rms'.fd = fd /\ m_rms'.map = map /\ m_rms' \in RMs
  BY <1>1, <1>2, <1>3 DEF RMs
<1> HIDE DEF fd, map
<1>5. Obtains(slot, n, k)
  BY <1>1, <1>2, <1>3, <1>4 DEF Obtains, fd, map
<1> QED BY <1>5

------------------------------------------------------------------------------
(***************************************************************************)
(* The invariant is kept.                                                  *)
(***************************************************************************)

\* The devices of different slots differ, except for the SIHA manager.
LEMMA OwnDevices ==
  /\ \A s \in Slot : /\ AccelConfig(s) \in Device /\ RMCommBox(s) \in Device
                     /\ Own(s) \subseteq Device
                     /\ AccelConfig(s) # RMCommBox(s)
                     /\ AccelConfig(s) # "SIHAMgr" /\ RMCommBox(s) # "SIHAMgr"
  /\ \A s, u \in Slot : s # u =>
       AccelConfig(s) \notin Own(u) /\ RMCommBox(s) \notin Own(u)
  /\ \A d \in Device : d # "stdio" /\ d # "free"
BY DEF Slot, AccelConfig, RMCommBox, Own, Device

LEMMA InitHolds ==
  Init => LibInv
<1> SUFFICES ASSUME Init PROVE LibInv
  OBVIOUS
<1>1. TypeOK
  BY LimitsAssumption DEF Init, TypeOK, Address, Fd, Stdio
<1>2. FilesInv
  BY OwnDevices DEF Init, FilesInv
<1>3. WindowsInv
  BY OwnDevices DEF Init, WindowsInv
<1>4. StdioKept
  BY LimitsAssumption DEF Init, StdioKept, Fd, Stdio
<1> QED
  BY <1>1, <1>2, <1>3, <1>4 DEF Init, LibInv, HasRMs, BoxInv, ApartInv, OneSlotInv

LEMMA InitializeKeeps ==
  ASSUME LibInv, NEW slot \in Slot, InitializeMapRMs(slot)
  PROVE  LibInv'
<1>0. /\ TypeOK /\ HasRMs /\ BoxInv /\ ApartInv /\ OneSlotInv /\ FilesInv
      /\ WindowsInv /\ StdioKept
  BY DEF LibInv
<1>1. PICK n \in 0..3, k \in 0..3 : Obtains(slot, n, k)
  BY <1>0, InitializeEffect
<1>2. /\ careful' = careful /\ inits < MaxInits[careful] /\ inits' = inits + 1
      /\ careful => \A s \in Slot : session[s] = "closed"
  BY DEF InitializeMapRMs
<1>3. /\ session' \in [Slot -> {"closed", "open", "failed"}]
      /\ session'[slot] = (IF k = 3 THEN "open" ELSE "failed")
      /\ \A s \in Slot : s # slot => session'[s] = session[s]
  BY <1>0, <1>1 DEF Obtains, TypeOK
<1>4. /\ RMCOMMBOX' \in [Slot -> Address]
      /\ k = 3 => RMCOMMBOX'[slot] = m_rms'.map[RMCommBox(slot)]
      /\ \A s \in Slot : s # slot => RMCOMMBOX'[s] = RMCOMMBOX[s]
  <2>1. m_rms'.map[RMCommBox(slot)] \in Address
    BY <1>1, OwnDevices DEF Obtains, RMs
  <2> QED BY <1>0, <1>1, <2>1 DEF Obtains, TypeOK
<1>5. TypeOK'
  <2>1. inits' \in 0..MaxInits[careful']
    BY <1>0, <1>2, LimitsAssumption DEF TypeOK
  <2> QED BY <1>0, <1>1, <1>2, <1>3, <1>4, <2>1 DEF Obtains, TypeOK
<1>6. HasRMs'
  BY <1>1 DEF Obtains, HasRMs
<1>7. BoxInv'
  <2> SUFFICES ASSUME NEW s \in Slot, session'[s] = "open"
               PROVE  RMCOMMBOX'[s] \in Places /\ windows'[RMCOMMBOX'[s]] = RMCommBox(s)
    BY DEF BoxInv
  <2>1. CASE s = slot
    <3>1. k = 3
      BY <1>3, <2>1
    <3>2. RMCommBox(slot) \in Device /\ Turn(RMCommBox(slot), slot) \in 1..3
      BY OwnDevices, Turns DEF Own
    <3> QED BY <1>1, <1>4, <2>1, <3>1, <3>2 DEF Obtains
  <2>2. CASE s # slot
    <3>1. RMCOMMBOX'[s] = RMCOMMBOX[s] /\ session[s] = "open"
      BY <1>3, <1>4, <2>2
    <3>2. RMCOMMBOX[s] \in Places /\ windows[RMCOMMBOX[s]] = RMCommBox(s)
      BY <1>0, <3>1 DEF BoxInv
    <3>3. windows'[RMCOMMBOX[s]] = windows[RMCOMMBOX[s]]
      <4>1. RMCommBox(s) # "free"
        BY OwnDevices
      <4> QED BY <1>1, <3>2, <4>1 DEF Obtains
    <3> QED BY <3>1, <3>2, <3>3
  <2> QED BY <2>1, <2>2
<1>8. ApartInv'
  <2> SUFFICES ASSUME NEW s \in Slot, NEW u \in Slot, s # u, session'[s] = "open",
                      session'[u] # "closed", NEW d \in {AccelConfig(u), RMCommBox(u)}
               PROVE  RMCOMMBOX'[s] # m_rms'.map[d]
    BY DEF ApartInv
  <2>1. d \in Device /\ d \in Own(u)
    BY OwnDevices DEF Own
  <2>2. RMCOMMBOX'[s] \in Places
    BY <1>7 DEF BoxInv
  <2>3. CASE u = slot
    <3>1. RMCOMMBOX'[s] = RMCOMMBOX[s] /\ session[s] = "open"
      BY <1>3, <1>4, <2>3
    <3>2. windows[RMCOMMBOX[s]] = RMCommBox(s) /\ RMCommBox(s) # "free"
      BY <1>0, <3>1, OwnDevices DEF BoxInv
    <3> QED BY <1>1, <2>1, <2>2, <3>1, <3>2 DEF Obtains
  <2>4. CASE u # slot
    <3>1. d \notin Own(slot)
      BY <2>4, OwnDevices
    <3>2. m_rms'.map[d] = NULL
      BY <1>1, <2>1, <3>1, Turns DEF Obtains
    <3> QED BY <2>2, <3>2, LimitsAssumption
  <2> QED BY <2>3, <2>4
<1>9. OneSlotInv'
  BY <1>2, <1>3 DEF OneSlotInv
<1>10. FilesInv'
  <2> SUFFICES ASSUME careful, \A s \in Slot : session'[s] # "failed",
                      NEW d \in Device
               PROVE  /\ \A s \in Slot : session'[s] = "open" /\ d \in Own(s) =>
                           m_rms'.fd[d] \in Fd
                      /\ \A x \in Fd : files'[x] = d <=> \E s \in Slot :
                           session'[s] = "open" /\ d \in Own(s) /\ x = m_rms'.fd[d]
    BY <1>2, OwnDevices DEF FilesInv
  <2>1. n = 3 /\ k = 3
    BY <1>1, <1>3 DEF Obtains
  <2>2. \A s \in Slot : session'[s] = "open" <=> s = slot
    BY <1>2, <1>3, <2>1
  <2>3. \A x \in Fd : files[x] # d
    BY <1>0, <1>2 DEF FilesInv
  <2>4. d \in Own(slot) <=> Turn(d, slot) \in 1..3
    BY Turns
  <2>5. ASSUME NEW x \in Fd, files'[x] = d PROVE d \in Own(slot) /\ x = m_rms'.fd[d]
    <3>1. PICK e \in Device : Turn(e, slot) \in 1..n /\ x = m_rms'.fd[e]
      BY <1>1, <2>3, <2>5 DEF Obtains
    <3>2. files'[x] = e
      BY <1>1, <3>1 DEF Obtains
    <3> QED BY <2>1, <2>4, <2>5, <3>1, <3>2
  <2>6. ASSUME d \in Own(slot)
        PROVE  m_rms'.fd[d] \in Fd /\ files'[m_rms'.fd[d]] = d
    BY <1>1, <2>1, <2>4, <2>6 DEF Obtains
  <2> QED BY <2>2, <2>5, <2>6
<1>11. WindowsInv'
  <2> SUFFICES ASSUME careful, NEW s \in Slot, NEW d \in {AccelConfig(s), RMCommBox(s)}
               PROVE  /\ session'[s] = "closed" => \A p \in Places : windows'[p] # d
                      /\ session'[s] = "open" =>
                           /\ m_rms'.map[d] \in Places
                           /\ windows'[m_rms'.map[d]] = d
                           /\ \A p \in Places : windows'[p] = d => p = m_rms'.map[d]
    BY <1>2 DEF WindowsInv
  <2>1. d \in Device /\ d \in Own(s)
    BY OwnDevices DEF Own
  <2>2. \A p \in Places : windows[p] # d
    BY <1>0, <1>2 DEF WindowsInv
  <2>3. \A p \in Places : windows'[p] = d => d \in Own(slot) /\ p = m_rms'.map[d]
    <3> SUFFICES ASSUME NEW p \in Places, windows'[p] = d
                 PROVE  d \in Own(slot) /\ p = m_rms'.map[d]
      OBVIOUS
    <3>1. PICK e \in Device : Turn(e, slot) \in 1..k /\ p = m_rms'.map[e]
      BY <1>1, <2>2 DEF Obtains
    <3>2. windows'[p] = e
      BY <1>1, <3>1 DEF Obtains
    <3> QED BY <3>1, <3>2, Turns
  <2>4. CASE s = slot
    <3>1. session'[s] = "open" => Turn(d, slot) \in 1..k
      BY <1>3, <2>1, <2>4, Turns
    <3>2. session'[s] # "closed"
      BY <1>3, <2>4
    <3> QED BY <1>1, <2>1, <2>3, <3>1, <3>2 DEF Obtains
  <2>5. CASE s # slot
    <3>1. session'[s] = "closed"
      BY <1>2, <1>3, <2>5
    <3>2. d \notin Own(slot)
      BY <2>5, OwnDevices
    <3> QED BY <2>3, <3>1, <3>2
  <2> QED BY <2>4, <2>5
<1>12. StdioKept'
  <2> SUFFICES ASSUME careful, NEW x \in Stdio PROVE files'[x] = "stdio"
    BY <1>2 DEF StdioKept
  <2>1. x \in Fd /\ files[x] = "stdio"
    BY <1>0, LimitsAssumption DEF StdioKept, Stdio, Fd
  <2> QED BY <1>1, <2>1 DEF Obtains
<1> QED
  BY <1>5, <1>6, <1>7, <1>8, <1>9, <1>10, <1>11, <1>12 DEF LibInv

LEMMA FinaliseKeeps ==
  ASSUME LibInv, NEW slot \in Slot, FinaliseUnmapRMs(slot)
  PROVE  LibInv'
<1>0. /\ TypeOK /\ HasRMs /\ BoxInv /\ ApartInv /\ OneSlotInv /\ FilesInv
      /\ WindowsInv /\ StdioKept
  BY DEF LibInv
<1> DEFINE own == {AccelConfig(slot), RMCommBox(slot)}
<1>1. /\ session[slot] # "closed"
      /\ careful => session[slot] = "open"
      /\ session' = [session EXCEPT ![slot] = "closed"]
      /\ m_rms' = m_rms /\ RMCOMMBOX' = RMCOMMBOX
      /\ inits' = inits /\ careful' = careful
  BY DEF FinaliseUnmapRMs
<1>2. /\ files' \in [Fd -> Device \cup {"stdio", "free"}]
      /\ \A x \in Fd : files'[x] = IF \E d \in Own(slot) : m_rms.fd[d] = x
                                     THEN "free" ELSE files[x]
  BY <1>0 DEF FinaliseUnmapRMs, closeFDs, Release, Own, TypeOK
<1>3. /\ windows' \in [Places -> Device \cup {"free"}]
      /\ \A p \in Places : windows'[p] = IF \E d \in own : m_rms.map[d] = p
                                           THEN "free" ELSE windows[p]
  BY <1>0 DEF FinaliseUnmapRMs, unmapRMs, Release, TypeOK
<1>4. /\ session' \in [Slot -> {"closed", "open", "failed"}]
      /\ session'[slot] = "closed"
      /\ \A s \in Slot : s # slot => session'[s] = session[s]
  BY <1>0, <1>1 DEF TypeOK
<1>5. TypeOK'
  BY <1>0, <1>1, <1>2, <1>3, <1>4 DEF TypeOK
<1>6. HasRMs'
  BY <1>0, <1>1, <1>4 DEF HasRMs
<1>7. BoxInv'
  <2> SUFFICES ASSUME NEW s \in Slot, session'[s] = "open"
               PROVE  RMCOMMBOX[s] \in Places /\ windows'[RMCOMMBOX[s]] = RMCommBox(s)
    BY <1>1 DEF BoxInv
  <2>1. s # slot /\ session[s] = "open"
    BY <1>4
  <2>2. RMCOMMBOX[s] \in Places /\ windows[RMCOMMBOX[s]] = RMCommBox(s)
    BY <1>0, <2>1 DEF BoxInv
  <2>3. \A d \in own : m_rms.map[d] # RMCOMMBOX[s]
    BY <1>0, <1>1, <2>1 DEF ApartInv
  <2> QED BY <1>3, <2>2, <2>3
<1>8. ApartInv'
  BY <1>0, <1>1, <1>4 DEF ApartInv
<1>9. OneSlotInv'
  BY <1>0, <1>1, <1>4 DEF OneSlotInv
<1>10. ASSUME careful PROVE \A s \in Slot : s # slot => session[s] = "closed"
  BY <1>0, <1>1, <1>10 DEF OneSlotInv
<1>11. ASSUME careful
       PROVE  \A d \in Device : \A x \in Fd :
                files[x] = d <=> d \in Own(slot) /\ x = m_rms.fd[d]
  <2>1. \A s \in Slot : session[s] = "open" <=> s = slot
    BY <1>1, <1>10, <1>11
  <2>2. \A s \in Slot : session[s] # "failed"
    BY <1>1, <1>10, <1>11
  <2> QED BY <1>0, <1>11, <2>1, <2>2 DEF FilesInv
<1>12. FilesInv'
  <2> SUFFICES ASSUME careful, NEW d \in Device, NEW x \in Fd
               PROVE  files'[x] # d
    <3>1. careful => \A s \in Slot : session'[s] # "open"
      BY <1>4, <1>10
    <3> QED BY <1>1, <3>1 DEF FilesInv
  <2> QED BY <1>2, <1>11, OwnDevices
<1>13. WindowsInv'
  <2> SUFFICES ASSUME careful, NEW s \in Slot, NEW d \in {AccelConfig(s), RMCommBox(s)},
                      NEW p \in Places
               PROVE  windows'[p] # d
    <3>1. careful => \A s \in Slot : session'[s] # "open"
      BY <1>4, <1>10
    <3> QED BY <1>1, <3>1 DEF WindowsInv
  <2>1. d # "free"
    BY OwnDevices
  <2>2. CASE s = slot
    <3>1. windows[p] = d => p = m_rms.map[d]
      BY <1>0, <1>1, <2>2 DEF WindowsInv
    <3> QED BY <1>3, <2>1, <2>2, <3>1
  <2>3. CASE s # slot
    <3>1. windows[p] # d
      BY <1>0, <1>10, <2>3 DEF WindowsInv
    <3> QED BY <1>3, <2>1, <3>1
  <2> QED BY <2>2, <2>3
<1>14. StdioKept'
  <2> SUFFICES ASSUME careful, NEW x \in Stdio PROVE files'[x] = "stdio"
    BY <1>1 DEF StdioKept
  <2>1. x \in Fd /\ files[x] = "stdio"
    BY <1>0, LimitsAssumption DEF StdioKept, Stdio, Fd
  <2>2. \A d \in Own(slot) : m_rms.fd[d] # x
    BY <1>11, <2>1, OwnDevices
  <2> QED BY <1>2, <2>1, <2>2
<1> QED
  BY <1>5, <1>6, <1>7, <1>8, <1>9, <1>12, <1>13, <1>14 DEF LibInv

\* The invariant holds of every reachable state.
LEMMA LibInvariant ==
  Spec => []LibInv
<1>1. LibInv /\ [Next]_vars => LibInv'
  <2> SUFFICES ASSUME LibInv, [Next]_vars PROVE LibInv'
    OBVIOUS
  <2>1. CASE \E slot \in Slot : InitializeMapRMs(slot)
    BY <2>1, InitializeKeeps
  <2>2. CASE \E slot \in Slot : FinaliseUnmapRMs(slot)
    BY <2>2, FinaliseKeeps
  <2>3. CASE UNCHANGED vars
    BY <2>3 DEF vars, LibInv, TypeOK, HasRMs, BoxInv, ApartInv, OneSlotInv,
                FilesInv, WindowsInv, StdioKept
  <2> QED BY <2>1, <2>2, <2>3 DEF Next, Exited
<1> QED BY <1>1, InitHolds, PTL DEF Spec

------------------------------------------------------------------------------
(***************************************************************************)
(* Theorems.                                                               *)
(***************************************************************************)

\* Type correctness.
THEOREM LibTypeCorrect ==
  Spec => []TypeOK
<1>1. LibInv => TypeOK
  BY DEF LibInv
<1> QED BY <1>1, LibInvariant, PTL

\* Whatever is opened, closed, opened again or failed to open on either slot,
\* and in any order, the transfer functions on an open slot reach the
\* rm_comm_box of that slot.
THEOREM TransfersReach ==
  Spec => []TransfersReachTheirSlot
<1>1. LibInv => TransfersReachTheirSlot
  BY DEF LibInv, BoxInv, TransfersReachTheirSlot, Reached
<1> QED BY <1>1, LibInvariant, PTL

\* A process that uses one slot at a time starts the module it means to.
THEOREM StartReaches ==
  Spec => []StartReachesItsSlot
<1>1. LibInv => StartReachesItsSlot
  BY DEF LibInv, WindowsInv, StartReachesItsSlot, Reached
<1> QED BY <1>1, LibInvariant, PTL

\* It keeps its standard input, output and error, through any number of
\* sessions and through failures of open and mmap.
THEOREM StdioIsKept ==
  Spec => []StdioKept
<1>1. LibInv => StdioKept
  BY DEF LibInv
<1> QED BY <1>1, LibInvariant, PTL

\* Its device files are those of the open slot, each once.
THEOREM FilesAreOfOpenSlots ==
  Spec => []FilesOfOpenSlots
<1>1. LibInv => FilesOfOpenSlots
  <2> SUFFICES ASSUME LibInv, careful, \A s \in Slot : session[s] # "failed",
                      NEW d \in Device
               PROVE  Cardinality({x \in Fd : files[x] = d}) =
                        IF \E s \in Slot : session[s] = "open" /\ Turn(d, s) # 0
                          THEN 1 ELSE 0
    BY DEF FilesOfOpenSlots
  <2>1. \A x \in Fd : files[x] = d <=> \E s \in Slot :
          session[s] = "open" /\ d \in Own(s) /\ x = m_rms.fd[d]
    BY DEF LibInv, FilesInv
  <2>2. \A s \in Slot : Turn(d, s) # 0 <=> d \in Own(s)
    BY Turns
  <2>3. CASE \E s \in Slot : session[s] = "open" /\ d \in Own(s)
    <3>1. {x \in Fd : files[x] = d} \subseteq {m_rms.fd[d]}
      BY <2>1
    <3>2. m_rms.fd[d] \in Fd
      BY <2>3 DEF LibInv, FilesInv
    <3>3. {x \in Fd : files[x] = d} = {m_rms.fd[d]}
      BY <2>1, <2>3, <3>2
    <3> QED BY <2>2, <2>3, <3>3, FS_Singleton
  <2>4. CASE ~ \E s \in Slot : session[s] = "open" /\ d \in Own(s)
    <3>1. {x \in Fd : files[x] = d} = {}
      BY <2>1, <2>4
    <3> QED BY <2>2, <2>4, <3>1, FS_EmptySet
  <2> QED BY <2>3, <2>4
<1> QED BY <1>1, LibInvariant, PTL

\* No register window of a closed slot is left.
THEOREM ClosedSlotsUnmapped ==
  Spec => []ClosedSlotUnmapped
<1>1. LibInv => ClosedSlotUnmapped
  BY DEF LibInv, WindowsInv, ClosedSlotUnmapped
<1> QED BY <1>1, LibInvariant, PTL

==============================================================================
