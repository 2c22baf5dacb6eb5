------------------------------- MODULE SihaLib -------------------------------
(***************************************************************************)
(* What lib/siha.c holds of the operating system on behalf of one process: *)
(* the device files and register windows recorded in the RMs structure     *)
(* m_rms points to, and the RMCOMMBOX pointer of each slot.  One structure *)
(* has fields for both slots, and InitializeMapRMs allocates a new one,    *)
(* zeroed, on every call.                                                  *)
(*                                                                         *)
(* careful says how the process uses the library.  TRUE: one slot at a     *)
(* time, and not at all after a failed InitializeMapRMs, as every main.c   *)
(* and the cells of a notebook run in order do.  FALSE: cells are run in   *)
(* any order and again, so that both slots may be open together, an open   *)
(* slot may be opened once more, and AcapdAccel, which ignores the result  *)
(* of InitializeMapRMs, may go on to close what it failed to open.         *)
(*                                                                         *)
(* Left out: the path dfxmgr_uio_by_name looks up (a failed look-up is one *)
(* of the reasons for open to fail) and the memory of the old structures.  *)
(***************************************************************************)
EXTENDS Integers, FiniteSets

CONSTANTS
  MaxFd,      \* the process may have files 0..MaxFd open
  Places,     \* places in its address space for register windows
  MaxInits,   \* bound: calls of InitializeMapRMs a careful process makes,
              \* and another one
  NULL, MAP_FAILED

ASSUME LimitsAssumption ==
  /\ MaxFd \in Nat /\ MaxFd >= 2
  /\ Places \subseteq Nat /\ IsFiniteSet(Places)
  /\ NULL \notin Places /\ MAP_FAILED \notin Places
  /\ MaxInits \in [BOOLEAN -> Nat]

VARIABLES
  m_rms,      \* the latest RMs structure
  RMCOMMBOX,  \* per slot, where the library believes its rm_comm_box is
  files,      \* the file table of the process
  windows,    \* its address space: the device mapped at each place
  session,    \* what InitializeMapRMs and FinaliseUnmapRMs did last per slot
  inits,      \* calls of InitializeMapRMs so far
  careful     \* how the process uses the library

vars == <<m_rms, RMCOMMBOX, files, windows, session, inits, careful>>

Slot == {0, 1}
Fd == 0..MaxFd
Stdio == 0..2

AccelConfig(slot) == IF slot = 0 THEN "AccelConfig_0" ELSE "AccelConfig_1"
RMCommBox(slot) == IF slot = 0 THEN "RMCommBox_0" ELSE "RMCommBox_1"

Device == {"SIHAMgr"} \cup {AccelConfig(s) : s \in Slot}
                      \cup {RMCommBox(s) : s \in Slot}

Address == Places \cup {NULL, MAP_FAILED}

RMs == [fd : [Device -> Fd \cup {-1}], map : [Device -> Address]]

TypeOK ==
  /\ m_rms \in RMs \cup {NULL}
  /\ RMCOMMBOX \in [Slot -> Address]
  /\ files \in [Fd -> Device \cup {"stdio", "free"}]
  /\ windows \in [Places -> Device \cup {"free"}]
  /\ session \in [Slot -> {"closed", "open", "failed"}]
  /\ careful \in BOOLEAN
  /\ inits \in 0..MaxInits[careful]

Init ==
  /\ m_rms = NULL
  /\ RMCOMMBOX = [slot \in Slot |-> NULL]
  /\ files = [fd \in Fd |-> IF fd \in Stdio THEN "stdio" ELSE "free"]
  /\ windows = [m \in Places |-> "free"]
  /\ session = [slot \in Slot |-> "closed"]
  /\ inits = 0
  /\ careful \in BOOLEAN

------------------------------------------------------------------------------

Free(table) == {x \in DOMAIN table : table[x] = "free"}

\* open and mmap hand out the lowest free entry: this is the i-th they take.
Lowest(i, table) ==
  CHOOSE x \in Free(table) : Cardinality({y \in Free(table) : y <= x}) = i

\* The order in which initRMs opens and mapRMs maps; 0 is not at all.
Turn(device, slot) ==
  CASE device = "SIHAMgr"         -> 1
    [] device = AccelConfig(slot) -> 2
    [] device = RMCommBox(slot)   -> 3
    [] OTHER                      -> 0

\* A field after n calls succeeded and call n + 1, if there was one, failed.
Field(turn, n, table, failed, zero) ==
  IF turn \in 1..n THEN Lowest(turn, table)
  ELSE IF turn = n + 1 THEN failed ELSE zero

\* The fd fields when initRMs gets n files.
initRMs(slot, n) ==
  [d \in Device |-> Field(Turn(d, slot), n, files, -1, 0)]

\* Mutant: a window that could not be mapped is marked like a file, by -1.
mapRMsMinusOne(slot, n, k) ==
  [d \in Device |-> IF n < 3 THEN NULL
                    ELSE Field(Turn(d, slot), k, windows, -1, NULL)]

\* The window fields when, after that, mapRMs gets k windows.
mapRMs(slot, n, k) ==
  [d \in Device |-> IF n < 3 THEN NULL
                    ELSE Field(Turn(d, slot), k, windows, MAP_FAILED, NULL)]

\* Mutant: AccelConfig is mapped through the file of the SIHA manager.
MappedFdManager(slot, d) == IF d = AccelConfig(slot) THEN "SIHAMgr" ELSE d

\* The field whose file mapRMs maps to obtain window d.
MappedFd(slot, d) == d

\* The devices, of the first n of a slot, whose field holds entry x.
Holders(field, x, n, slot) ==
  {d \in Device : Turn(d, slot) \in 1..n /\ field[d] = x}

The(set) == CHOOSE d \in set : TRUE

\* The file table once the first n files are open at the descriptors in fd.
Opened(fd, n, slot) ==
  [x \in Fd |-> LET got == Holders(fd, x, n, slot)
                IN  IF got = {} THEN files[x] ELSE The(got)]

\* The address space once the first k windows are mapped where map says.
Mapped(map, k, slot, fd, table) ==
  [x \in Places |-> LET got == Holders(map, x, k, slot)
                    IN  IF got = {} THEN windows[x]
                        ELSE table[fd[MappedFd(slot, The(got))]]]

\* A table after the entries the fields of Devices hold were given back.
\* close(-1), munmap(NULL) and munmap(MAP_FAILED) do nothing.
Release(table, field, Devices) ==
  [x \in DOMAIN table |->
     IF \E d \in Devices : field[d] = x THEN "free" ELSE table[x]]

\* Mutant: slot 0's pointer is set whichever slot was initialised.
configDMSlotsZero(slot, box) == RMCOMMBOX' = [RMCOMMBOX EXCEPT ![0] = box]

configDMSlots(slot, box) == RMCOMMBOX' = [RMCOMMBOX EXCEPT ![slot] = box]

\* n files and k windows are obtained; what is missing fails.
InitializeMapRMs(slot) ==
  /\ inits < MaxInits[careful]
  /\ inits' = inits + 1
  /\ careful' = careful
  /\ careful => \A s \in Slot : session[s] = "closed"
  /\ \E n, k \in 0..3 :
       /\ n <= Cardinality(Free(files)) /\ k <= Cardinality(Free(windows))
       /\ n < 3 => k = 0
       /\ LET fd == initRMs(slot, n)
              map == mapRMs(slot, n, k)
          IN  /\ m_rms' = [fd |-> fd, map |-> map]
              /\ files' = Opened(fd, n, slot)
              /\ windows' = Mapped(map, k, slot, fd, files')
              /\ IF k = 3
                   THEN /\ configDMSlots(slot, map[RMCommBox(slot)])
                        /\ session' = [session EXCEPT ![slot] = "open"]
                   ELSE /\ session' = [session EXCEPT ![slot] = "failed"]
                        /\ UNCHANGED RMCOMMBOX

\* Mutant: only the rm_comm_box is unmapped.
unmapRMsBoxOnly(slot) == Release(windows, m_rms.map, {RMCommBox(slot)})

unmapRMs(slot) ==
  Release(windows, m_rms.map, {AccelConfig(slot), RMCommBox(slot)})

\* Mutant: every field of the structure is closed, whichever slot it is for.
closeFDsAll(slot) == Release(files, m_rms.fd, Device)

\* Mutant: the SIHA manager stays open.
closeFDsKeepManager(slot) ==
  Release(files, m_rms.fd, {AccelConfig(slot), RMCommBox(slot)})

closeFDs(slot) ==
  Release(files, m_rms.fd, {"SIHAMgr", AccelConfig(slot), RMCommBox(slot)})

\* The structure and RMCOMMBOX[slot] keep their stale values.
FinaliseUnmapRMs(slot) ==
  /\ session[slot] # "closed"
  /\ careful => session[slot] = "open"
  /\ windows' = unmapRMs(slot)
  /\ files' = closeFDs(slot)
  /\ session' = [session EXCEPT ![slot] = "closed"]
  /\ UNCHANGED <<m_rms, RMCOMMBOX, inits, careful>>

\* The process is gone: main returned -1, or there is nothing more to do.
Exited ==
  /\ inits = MaxInits[careful] \/ \E s \in Slot : session[s] = "failed"
  /\ UNCHANGED vars

Next ==
  \/ \E slot \in Slot : InitializeMapRMs(slot) \/ FinaliseUnmapRMs(slot)
  \/ Exited

Spec == Init /\ [][Next]_vars

------------------------------------------------------------------------------
(***************************************************************************)
(* Properties.                                                             *)
(***************************************************************************)

Reached(address) == IF address \in Places THEN windows[address] ELSE "nothing"

\* The four transfer functions on an open slot access the rm_comm_box of
\* that slot, whatever was opened, closed or failed in between (siha.c:7-10,
\* 162-204).
TransfersReachTheirSlot ==
  \A s \in Slot : session[s] = "open" => Reached(RMCOMMBOX[s]) = RMCommBox(s)

\* The other properties are those of a process that uses one slot at a time.
\* StartAccel and StopAccel on an open slot write the AccelConfig register
\* of that slot (siha.c:136-154).
StartReachesItsSlot ==
  careful => \A s \in Slot : session[s] = "open" =>
    Reached(m_rms.map[AccelConfig(s)]) = AccelConfig(s)

\* The library never closes a descriptor it did not open: the zero fields of
\* the other slot are descriptor 0 (siha.c:206-216).
StdioKept == careful => \A fd \in Stdio : files[fd] = "stdio"

\* Unless an initialisation failed, the device files the process has open are
\* those of the open slot, each once, and none when no slot is open.
FilesOfOpenSlots ==
  careful /\ (\A s \in Slot : session[s] # "failed") =>
    \A d \in Device :
      Cardinality({fd \in Fd : files[fd] = d}) =
        IF \E s \in Slot : session[s] = "open" /\ Turn(d, s) # 0 THEN 1 ELSE 0

\* A closed slot has no register window left, so that a stale pointer to one
\* cannot reach its hardware (siha.c:123-134).
ClosedSlotUnmapped ==
  careful => \A s \in Slot : session[s] = "closed" =>
    \A m \in Places : windows[m] \notin {AccelConfig(s), RMCommBox(s)}

==============================================================================
