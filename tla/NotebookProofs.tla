---------------------------- MODULE NotebookProofs ----------------------------
(***************************************************************************)
(* One Jupyter kernel and two slots, for every set of cells, every buffer  *)
(* and every number of cells run and accelerators exchanged.               *)
(*                                                                         *)
(* Each slot goes through sessions of SlotSession, one for each cell that  *)
(* is run on it, and is settled in between: nothing runs on it that could  *)
(* touch the buffer the cells share.                                       *)
(***************************************************************************)
EXTENDS NotebookKernel, TLAPS

\* Each slot as the proofs about sessions see it.  The places of data in the
\* applications play no part here.
S0 == INSTANCE SlotSessionProofs WITH
  Workloads <- Cells, CpuMayOvertake <- FALSE,
  reg <- reg0, start <- start0, done <- done0, run <- run0,
  conf <- conf0, accelOn <- accelOn0, fifo <- fifo0, view <- <<>>, results <- <<>>,
  FIR_RELOAD <- 0, FIR_CONFIG <- 0, FIR_INPUT <- 0, FIR_RESULT <- 0,
  FFT_CONFIG <- 0, FFT_DATA_IN <- 0, FFT_RESULT <- 0,
  AES_DKB <- 0, AES_EKB <- 0, AES_EB <- 0, AES_DB <- 0, AES_RESULT <- 0

S1 == INSTANCE SlotSessionProofs WITH
  Workloads <- Cells, CpuMayOvertake <- FALSE,
  reg <- reg1, start <- start1, done <- done1, run <- run1,
  conf <- conf1, accelOn <- accelOn1, fifo <- fifo1, view <- <<>>, results <- <<>>,
  FIR_RELOAD <- 0, FIR_CONFIG <- 0, FIR_INPUT <- 0, FIR_RESULT <- 0,
  FFT_CONFIG <- 0, FFT_DATA_IN <- 0, FFT_RESULT <- 0,
  AES_DKB <- 0, AES_EKB <- 0, AES_EB <- 0, AES_DB <- 0, AES_RESULT <- 0

------------------------------------------------------------------------------
(***************************************************************************)
(* A step of a slot is one of a session.                                   *)
(***************************************************************************)

LEMMA Cpu0 == Slot0!Cpu => S0!Cpu
<1>1. /\ Slot0!Call = S0!Call /\ \A op : Slot0!At(op) <=> S0!At(op)
      /\ \A ch : Slot0!Fields(ch) = S0!Fields(ch)
  BY DEF Slot0!Call, S0!Call, Slot0!At, S0!At, Slot0!Fields, S0!Fields
<1>2. /\ \A ch : Slot0!WriteDescriptor(ch) <=> S0!WriteDescriptor(ch)
      /\ \A ch : Slot0!WriteApcr(ch) <=> S0!WriteApcr(ch)
      /\ \A ch : Slot0!ReadDone(ch) <=> S0!ReadDone(ch)
      /\ \A ch : Slot0!ReadNotDone(ch) <=> S0!ReadNotDone(ch)
  BY <1>1 DEF Slot0!WriteDescriptor, S0!WriteDescriptor, Slot0!MayWriteDescriptor,
     S0!MayWriteDescriptor, Slot0!WriteApcr, S0!WriteApcr, Slot0!MayWriteApcr,
     S0!MayWriteApcr, Slot0!ReadDone, S0!ReadDone, Slot0!ReadNotDone, S0!ReadNotDone,
     Slot0!Return, S0!Return, Slot0!vars, S0!vars
<1>3. Slot0!Load => S0!Load
  BY <1>1 DEF Slot0!Load, S0!Load, Slot0!Raw, S0!Raw, Slot0!Return, S0!Return
<1>4. Slot0!StartAccel \/ Slot0!Observe => S0!StartAccel \/ S0!Observe
  BY <1>1 DEF Slot0!StartAccel, S0!StartAccel, Slot0!Observe, S0!Observe, Slot0!hwVars,
     S0!hwVars, Slot0!Return, S0!Return
<1> QED BY <1>1, <1>2, <1>3, <1>4
  DEF Slot0!Cpu, S0!Cpu, Slot0!DataToAccel, S0!DataToAccel, Slot0!DataFromAccel,
      S0!DataFromAccel, Slot0!DataToAccelDone, S0!DataToAccelDone,
      Slot0!DataFromAccelDone, S0!DataFromAccelDone

LEMMA Hw0 == Slot0!Hardware => S0!Hardware
BY DEF Slot0!Hardware, S0!Hardware, Slot0!Begin, S0!Begin, Slot0!Finish, S0!Finish,
       Slot0!ConfigBeat, S0!ConfigBeat, Slot0!PayloadBeat, S0!PayloadBeat,
       Slot0!ResultBeat, S0!ResultBeat, Slot0!Advance, S0!Advance,
       Slot0!Channel, S0!Channel, Slot0!ReadBeat, S0!ReadBeat, Slot0!Raw, S0!Raw,
       Slot0!Processed, S0!Processed, Slot0!cpuVars, S0!cpuVars

LEMMA Cpu1 == Slot1!Cpu => S1!Cpu
<1>1. /\ Slot1!Call = S1!Call /\ \A op : Slot1!At(op) <=> S1!At(op)
      /\ \A ch : Slot1!Fields(ch) = S1!Fields(ch)
  BY DEF Slot1!Call, S1!Call, Slot1!At, S1!At, Slot1!Fields, S1!Fields
<1>2. /\ \A ch : Slot1!WriteDescriptor(ch) <=> S1!WriteDescriptor(ch)
      /\ \A ch : Slot1!WriteApcr(ch) <=> S1!WriteApcr(ch)
      /\ \A ch : Slot1!ReadDone(ch) <=> S1!ReadDone(ch)
      /\ \A ch : Slot1!ReadNotDone(ch) <=> S1!ReadNotDone(ch)
  BY <1>1 DEF Slot1!WriteDescriptor, S1!WriteDescriptor, Slot1!MayWriteDescriptor,
     S1!MayWriteDescriptor, Slot1!WriteApcr, S1!WriteApcr, Slot1!MayWriteApcr,
     S1!MayWriteApcr, Slot1!ReadDone, S1!ReadDone, Slot1!ReadNotDone, S1!ReadNotDone,
     Slot1!Return, S1!Return, Slot1!vars, S1!vars
<1>3. Slot1!Load => S1!Load
  BY <1>1 DEF Slot1!Load, S1!Load, Slot1!Raw, S1!Raw, Slot1!Return, S1!Return
<1>4. Slot1!StartAccel \/ Slot1!Observe => S1!StartAccel \/ S1!Observe
  BY <1>1 DEF Slot1!StartAccel, S1!StartAccel, Slot1!Observe, S1!Observe, Slot1!hwVars,
     S1!hwVars, Slot1!Return, S1!Return
<1> QED BY <1>1, <1>2, <1>3, <1>4
  DEF Slot1!Cpu, S1!Cpu, Slot1!DataToAccel, S1!DataToAccel, Slot1!DataFromAccel,
      S1!DataFromAccel, Slot1!DataToAccelDone, S1!DataToAccelDone,
      Slot1!DataFromAccelDone, S1!DataFromAccelDone

LEMMA Hw1 == Slot1!Hardware => S1!Hardware
BY DEF Slot1!Hardware, S1!Hardware, Slot1!Begin, S1!Begin, Slot1!Finish, S1!Finish,
       Slot1!ConfigBeat, S1!ConfigBeat, Slot1!PayloadBeat, S1!PayloadBeat,
       Slot1!ResultBeat, S1!ResultBeat, Slot1!Advance, S1!Advance,
       Slot1!Channel, S1!Channel, Slot1!ReadBeat, S1!ReadBeat, Slot1!Raw, S1!Raw,
       Slot1!Processed, S1!Processed, Slot1!cpuVars, S1!cpuVars

\* The assumptions about sessions, for the cells.
LEMMA CellsOK ==
  \A w \in Cells :
    /\ w.freeRunning \in BOOLEAN
    /\ Len(w.calls) \in Nat
    /\ \A i \in 1..Len(w.calls) : S0!CallOK(w.calls[i]) /\ S1!CallOK(w.calls[i])
BY CellsAssumption
   DEF Slot0!CallOK, Slot0!CallOps, S0!CallOK, S0!CallOps, S1!CallOK, S1!CallOps

------------------------------------------------------------------------------
(***************************************************************************)
(* The invariant.                                                          *)
(***************************************************************************)

\* A cell that is right on its slot if the movers are ready in time.
CellInTime(c) ==
  /\ c.slot = 0 => S0!SoundInTime(c.calls)
  /\ c.slot = 1 => S1!SoundInTime(c.calls)

On(s) == ~Idle /\ app.slot = s

KernelInv ==
  /\ S0!TypeOK /\ S1!TypeOK
  /\ On(0) => S0!InTimeSession
  /\ ~On(0) => S0!Settled
  /\ On(1) => S1!InTimeSession
  /\ ~On(1) => S1!Settled

\* What is known of a slot at any moment.
LEMMA Moment0 ==
  /\ S0!Settled /\ S0!TypeOK /\ pc = 1 /\ stage = 1 /\ S0!SoundInTime(app.calls)
       => S0!InTimeSession
  /\ S0!InTimeSession /\ Idle => S0!Settled
  /\ S0!InTimeSession => S0!TypeOK /\ S0!ResultsExact
<1>1. S0!Settled /\ S0!TypeOK /\ pc = 1 /\ stage = 1 /\ S0!SoundInTime(app.calls)
        => S0!InTimeSession
  BY S0!SessionLaunch, SlotsAssumption, CellsOK
<1>2. S0!InTimeSession /\ Idle => S0!Settled
  BY S0!SessionEnd, SlotsAssumption, CellsOK DEF Idle, S0!Terminated
<1>3. S0!InTimeSession => S0!TypeOK /\ S0!ResultsExact
  BY S0!SessionExact, SlotsAssumption, CellsOK DEF S0!InTimeSession, S0!InTimeInv
<1> QED BY <1>1, <1>2, <1>3

\* And of its steps.
LEMMA Step0 ==
  /\ S0!InTimeSession /\ S0!Next => S0!InTimeSession' /\ app' = app
  /\ S0!InTimeSession /\ UNCHANGED S0!vars => S0!InTimeSession'
  /\ S0!Settled /\ S0!TypeOK /\ S0!Hardware => S0!Settled' /\ mem' = mem
  /\ S0!Settled /\ UNCHANGED slot0 => S0!Settled'
  /\ S0!TypeOK /\ S0!Hardware => S0!TypeOK'
<1>1. S0!InTimeSession /\ [S0!Next]_(S0!vars) => S0!InTimeSession' /\ app' = app
  BY S0!SessionInTimeStep, SlotsAssumption, CellsOK
<1>2. S0!Settled /\ S0!TypeOK /\ S0!Hardware => S0!Settled' /\ mem' = mem
  BY S0!SettledHardware, SlotsAssumption, CellsOK
<1>3. S0!Settled /\ UNCHANGED slot0 => S0!Settled'
  BY S0!SettledKept, SlotsAssumption, CellsOK DEF S0!slotVars, slot0
<1>4. S0!TypeOK /\ S0!Hardware => S0!TypeOK'
  BY S0!HardwareTypeOK, SlotsAssumption, CellsOK
<1> QED BY <1>1, <1>2, <1>3, <1>4

\* A slot that is loaded.
Registers0 ==
  /\ reg0 \in [S0!Channel -> [S0!Register -> Nat]]
  /\ start0 \in [S0!Channel -> BOOLEAN] /\ done0 \in [S0!Channel -> BOOLEAN]
  /\ run0 \in [S0!Channel -> S0!Transfer]
  /\ conf0 \in S0!Conf /\ fifo0 \in Seq(S0!Beat)

Loaded0 ==
  /\ reg0 = [ch \in S0!Channel |-> [r \in S0!Register |-> 0]]
  /\ start0 = [ch \in S0!Channel |-> FALSE] /\ done0 = [ch \in S0!Channel |-> FALSE]
  /\ run0 = [ch \in S0!Channel |-> S0!NoTransfer]
  /\ conf0 = [t \in Tids |-> <<>>] /\ fifo0 = <<>>

LEMMA Loading0 ==
  /\ Loaded0 => S0!Settled /\ Registers0
  /\ Slot0!HwInit => Loaded0 /\ mem \in [Addr -> S0!Beat]
  /\ \A free : Slot0!LoadModule(free) => Loaded0' /\ accelOn0' = free
<1>1. Loaded0 => S0!Settled /\ Registers0
  BY S0!LoadedSettled, SlotsAssumption, CellsOK DEF Loaded0, Registers0
<1>2. Slot0!Channel = S0!Channel /\ Slot0!Register = S0!Register
      /\ Slot0!NoTransfer = S0!NoTransfer
  BY DEF Slot0!Channel, S0!Channel, Slot0!Register, S0!Register,
         Slot0!NoTransfer, S0!NoTransfer
<1>3. Slot0!HwInit => mem \in [Addr -> S0!Beat]
  BY SlotsAssumption DEF Slot0!HwInit, Slot0!Raw, S0!Beat
<1>4. Slot0!HwInit => Loaded0
  BY <1>2 DEF Slot0!HwInit, Loaded0
<1>5. \A free : Slot0!LoadModule(free) => Loaded0' /\ accelOn0' = free
  BY <1>2 DEF Slot0!LoadModule, Loaded0
<1> QED BY <1>1, <1>3, <1>4, <1>5

\* The same for slot 1.
LEMMA Moment1 ==
  /\ S1!Settled /\ S1!TypeOK /\ pc = 1 /\ stage = 1 /\ S1!SoundInTime(app.calls)
       => S1!InTimeSession
  /\ S1!InTimeSession /\ Idle => S1!Settled
  /\ S1!InTimeSession => S1!TypeOK /\ S1!ResultsExact
<1>1. S1!Settled /\ S1!TypeOK /\ pc = 1 /\ stage = 1 /\ S1!SoundInTime(app.calls)
        => S1!InTimeSession
  BY S1!SessionLaunch, SlotsAssumption, CellsOK
<1>2. S1!InTimeSession /\ Idle => S1!Settled
  BY S1!SessionEnd, SlotsAssumption, CellsOK DEF Idle, S1!Terminated
<1>3. S1!InTimeSession => S1!TypeOK /\ S1!ResultsExact
  BY S1!SessionExact, SlotsAssumption, CellsOK DEF S1!InTimeSession, S1!InTimeInv
<1> QED BY <1>1, <1>2, <1>3

LEMMA Step1 ==
  /\ S1!InTimeSession /\ S1!Next => S1!InTimeSession' /\ app' = app
  /\ S1!InTimeSession /\ UNCHANGED S1!vars => S1!InTimeSession'
  /\ S1!Settled /\ S1!TypeOK /\ S1!Hardware => S1!Settled' /\ mem' = mem
  /\ S1!Settled /\ UNCHANGED slot1 => S1!Settled'
  /\ S1!TypeOK /\ S1!Hardware => S1!TypeOK'
<1>1. S1!InTimeSession /\ [S1!Next]_(S1!vars) => S1!InTimeSession' /\ app' = app
  BY S1!SessionInTimeStep, SlotsAssumption, CellsOK
<1>2. S1!Settled /\ S1!TypeOK /\ S1!Hardware => S1!Settled' /\ mem' = mem
  BY S1!SettledHardware, SlotsAssumption, CellsOK
<1>3. S1!Settled /\ UNCHANGED slot1 => S1!Settled'
  BY S1!SettledKept, SlotsAssumption, CellsOK DEF S1!slotVars, slot1
<1>4. S1!TypeOK /\ S1!Hardware => S1!TypeOK'
  BY S1!HardwareTypeOK, SlotsAssumption, CellsOK
<1> QED BY <1>1, <1>2, <1>3, <1>4

Registers1 ==
  /\ reg1 \in [S1!Channel -> [S1!Register -> Nat]]
  /\ start1 \in [S1!Channel -> BOOLEAN] /\ done1 \in [S1!Channel -> BOOLEAN]
  /\ run1 \in [S1!Channel -> S1!Transfer]
  /\ conf1 \in S1!Conf /\ fifo1 \in Seq(S1!Beat)

Loaded1 ==
  /\ reg1 = [ch \in S1!Channel |-> [r \in S1!Register |-> 0]]
  /\ start1 = [ch \in S1!Channel |-> FALSE] /\ done1 = [ch \in S1!Channel |-> FALSE]
  /\ run1 = [ch \in S1!Channel |-> S1!NoTransfer]
  /\ conf1 = [t \in Tids |-> <<>>] /\ fifo1 = <<>>

LEMMA Loading1 ==
  /\ Loaded1 => S1!Settled /\ Registers1
  /\ Slot1!HwInit => Loaded1 /\ mem \in [Addr -> S1!Beat]
  /\ \A free : Slot1!LoadModule(free) => Loaded1' /\ accelOn1' = free
<1>1. Loaded1 => S1!Settled /\ Registers1
  BY S1!LoadedSettled, SlotsAssumption, CellsOK DEF Loaded1, Registers1
<1>2. Slot1!Channel = S1!Channel /\ Slot1!Register = S1!Register
      /\ Slot1!NoTransfer = S1!NoTransfer
  BY DEF Slot1!Channel, S1!Channel, Slot1!Register, S1!Register,
         Slot1!NoTransfer, S1!NoTransfer
<1>3. Slot1!HwInit => mem \in [Addr -> S1!Beat]
  BY SlotsAssumption DEF Slot1!HwInit, Slot1!Raw, S1!Beat
<1>4. Slot1!HwInit => Loaded1
  BY <1>2 DEF Slot1!HwInit, Loaded1
<1>5. \A free : Slot1!LoadModule(free) => Loaded1' /\ accelOn1' = free
  BY <1>2 DEF Slot1!LoadModule, Loaded1
<1> QED BY <1>1, <1>3, <1>4, <1>5

\* The types of the slots, apart from the cell being run.
LEMMA Types ==
  /\ S0!TypeOK <=> /\ Registers0 /\ accelOn0 \in BOOLEAN
                   /\ mem \in [Addr -> S0!Beat]
                   /\ app \in Cells /\ pc \in 1..(Len(app.calls) + 1)
                   /\ stage \in 1..4
  /\ S1!TypeOK <=> /\ Registers1 /\ accelOn1 \in BOOLEAN
                   /\ mem \in [Addr -> S0!Beat]
                   /\ app \in Cells /\ pc \in 1..(Len(app.calls) + 1)
                   /\ stage \in 1..4
<1>1. S1!Beat = S0!Beat
  BY DEF S0!Beat, S1!Beat, S0!Conf, S1!Conf
<1>2. S0!TypeOK <=> /\ Registers0 /\ accelOn0 \in BOOLEAN
                   /\ mem \in [Addr -> S0!Beat]
                   /\ app \in Cells /\ pc \in 1..(Len(app.calls) + 1)
                   /\ stage \in 1..4
  BY DEF S0!TypeOK, S0!HwTypeOK, Registers0
<1>3. S1!TypeOK <=> /\ Registers1 /\ accelOn1 \in BOOLEAN
                   /\ mem \in [Addr -> S0!Beat]
                   /\ app \in Cells /\ pc \in 1..(Len(app.calls) + 1)
                   /\ stage \in 1..4
  BY <1>1 DEF S1!TypeOK, S1!HwTypeOK, Registers1
<1> QED BY <1>2, <1>3

\* All of this is so after a step, too.
LEMMA Moment0Next ==
  /\ S0!Settled' /\ S0!TypeOK' /\ pc' = 1 /\ stage' = 1 /\ S0!SoundInTime(app'.calls)
       => S0!InTimeSession'
  /\ S0!InTimeSession' /\ Idle' => S0!Settled'
  /\ S0!InTimeSession' => S0!TypeOK'
  /\ Loaded0' => S0!Settled' /\ Registers0'
<1> DEFINE Known ==
      /\ S0!Settled /\ S0!TypeOK /\ pc = 1 /\ stage = 1 /\ S0!SoundInTime(app.calls)
           => S0!InTimeSession
      /\ S0!InTimeSession /\ Idle => S0!Settled
      /\ S0!InTimeSession => S0!TypeOK
      /\ Loaded0 => S0!Settled /\ Registers0
<1>1. Known
  BY Moment0, Loading0
<1> HIDE DEF Known
<1>2. Known'
  BY <1>1, PTL
<1> QED BY <1>2 DEF Known

LEMMA Moment1Next ==
  /\ S1!Settled' /\ S1!TypeOK' /\ pc' = 1 /\ stage' = 1 /\ S1!SoundInTime(app'.calls)
       => S1!InTimeSession'
  /\ S1!InTimeSession' /\ Idle' => S1!Settled'
  /\ S1!InTimeSession' => S1!TypeOK'
  /\ Loaded1' => S1!Settled' /\ Registers1'
<1> DEFINE Known ==
      /\ S1!Settled /\ S1!TypeOK /\ pc = 1 /\ stage = 1 /\ S1!SoundInTime(app.calls)
           => S1!InTimeSession
      /\ S1!InTimeSession /\ Idle => S1!Settled
      /\ S1!InTimeSession => S1!TypeOK
      /\ Loaded1 => S1!Settled /\ Registers1
<1>1. Known
  BY Moment1, Loading1
<1> HIDE DEF Known
<1>2. Known'
  BY <1>1, PTL
<1> QED BY <1>2 DEF Known

LEMMA TypesNext ==
  /\ S0!TypeOK' <=> /\ Registers0' /\ accelOn0' \in BOOLEAN
                    /\ mem' \in [Addr -> S0!Beat]
                    /\ app' \in Cells /\ pc' \in 1..(Len(app'.calls) + 1)
                    /\ stage' \in 1..4
  /\ S1!TypeOK' <=> /\ Registers1' /\ accelOn1' \in BOOLEAN
                    /\ mem' \in [Addr -> S0!Beat]
                    /\ app' \in Cells /\ pc' \in 1..(Len(app'.calls) + 1)
                    /\ stage' \in 1..4
<1> DEFINE Known0 ==
      S0!TypeOK <=> /\ Registers0 /\ accelOn0 \in BOOLEAN
                    /\ mem \in [Addr -> S0!Beat]
                    /\ app \in Cells /\ pc \in 1..(Len(app.calls) + 1)
                    /\ stage \in 1..4
    Known1 ==
      S1!TypeOK <=> /\ Registers1 /\ accelOn1 \in BOOLEAN
                    /\ mem \in [Addr -> S0!Beat]
                    /\ app \in Cells /\ pc \in 1..(Len(app.calls) + 1)
                    /\ stage \in 1..4
<1>1. Known0 /\ Known1
  BY Types
<1> HIDE DEF Known0, Known1
<1>2. Known0' /\ Known1'
  BY <1>1, PTL
<1> QED BY <1>2 DEF Known0, Known1

LEMMA KernelStart == KernelInit => KernelInv
<1> SUFFICES ASSUME KernelInit PROVE KernelInv
  OBVIOUS
<1>1. Loaded0 /\ Loaded1 /\ mem \in [Addr -> S0!Beat]
  BY Loading0, Loading1 DEF KernelInit
<1>2. S0!Settled /\ S1!Settled /\ Registers0 /\ Registers1
  BY <1>1, Loading0, Loading1
<1>3. accelOn0 \in BOOLEAN /\ accelOn1 \in BOOLEAN
  BY DEF KernelInit, FreeRunning
<1>4. app \in Cells /\ Len(app.calls) \in Nat /\ pc = Len(app.calls) + 1 /\ stage = 1
  BY CellsOK DEF KernelInit
<1>5. pc \in 1..(Len(app.calls) + 1) /\ stage \in 1..4 /\ Idle
  BY <1>4 DEF Idle
<1>6. S0!TypeOK /\ S1!TypeOK
  BY <1>1, <1>2, <1>3, <1>4, <1>5, Types
<1> QED BY <1>2, <1>5, <1>6 DEF KernelInv, On

LEMMA RunCellKeeps ==
  ASSUME KernelInv, NEW c \in Cells, CellInTime(c), RunCell(c)
  PROVE  KernelInv'
<1> USE DEF KernelInv
<1>1. app' = c /\ pc' = 1 /\ stage' = 1 /\ UNCHANGED <<slot0, slot1, mem>> /\ Idle
  BY DEF RunCell
<1>2. S0!Settled' /\ S1!Settled'
  BY <1>1, Step0, Step1 DEF On
<1>3. UNCHANGED <<Registers0, Registers1, accelOn0, accelOn1>>
  BY <1>1 DEF slot0, slot1, Registers0, Registers1
<1>4. S0!TypeOK' /\ S1!TypeOK'
  <2>1. /\ app' \in Cells /\ pc' \in 1..(Len(app'.calls) + 1) /\ stage' \in 1..4
    BY <1>1, CellsOK
  <2>2. /\ Registers0 /\ Registers1 /\ mem \in [Addr -> S0!Beat]
        /\ accelOn0 \in BOOLEAN /\ accelOn1 \in BOOLEAN
    BY Types
  <2>3. /\ Registers0' /\ Registers1' /\ mem' \in [Addr -> S0!Beat]
        /\ accelOn0' \in BOOLEAN /\ accelOn1' \in BOOLEAN
    BY <1>1, <1>3, <2>2
  <2> QED BY <2>1, <2>3, TypesNext
<1>5. app'.slot = 0 => S0!SoundInTime(app'.calls)
  BY <1>1 DEF CellInTime
<1>6. app'.slot = 1 => S1!SoundInTime(app'.calls)
  BY <1>1 DEF CellInTime
<1>7. app'.slot = 0 => S0!InTimeSession'
  BY <1>1, <1>2, <1>4, <1>5, Moment0Next
<1>8. app'.slot = 1 => S1!InTimeSession'
  BY <1>1, <1>2, <1>4, <1>6, Moment1Next
<1> QED BY <1>2, <1>4, <1>7, <1>8 DEF On

LEMMA ExchangeKeeps ==
  ASSUME KernelInv, NEW s \in {0, 1}, NEW accel, Exchange(s, accel)
  PROVE  KernelInv'
<1> USE DEF KernelInv
<1>1. UNCHANGED <<mem, app, pc, stage>> /\ Idle /\ Idle'
  BY DEF Exchange, cpu, Idle
<1>2. S0!Settled /\ S1!Settled
  BY <1>1 DEF On
<1>3. /\ Registers0 /\ Registers1 /\ mem \in [Addr -> S0!Beat]
      /\ accelOn0 \in BOOLEAN /\ accelOn1 \in BOOLEAN
      /\ app \in Cells /\ pc \in 1..(Len(app.calls) + 1) /\ stage \in 1..4
  BY Types
<1>4. FreeRunning(accel) \in BOOLEAN
  BY DEF FreeRunning
<1>5. CASE Slot0!LoadModule(FreeRunning(accel)) /\ UNCHANGED slot1
  <2>1. Loaded0' /\ accelOn0' \in BOOLEAN
    BY <1>4, <1>5, Loading0
  <2>2. S0!Settled' /\ Registers0'
    BY <2>1, Moment0Next
  <2>3. S1!Settled'
    BY <1>2, <1>5, Step1
  <2>4. UNCHANGED <<Registers1, accelOn1>>
    BY <1>5 DEF slot1, Registers1
  <2>5. S0!TypeOK' /\ S1!TypeOK'
    BY <1>1, <1>3, <2>1, <2>2, <2>4, TypesNext
  <2> QED BY <1>1, <2>2, <2>3, <2>5 DEF On
<1>6. CASE Slot1!LoadModule(FreeRunning(accel)) /\ UNCHANGED slot0
  <2>1. Loaded1' /\ accelOn1' \in BOOLEAN
    BY <1>4, <1>6, Loading1
  <2>2. S1!Settled' /\ Registers1'
    BY <2>1, Moment1Next
  <2>3. S0!Settled'
    BY <1>2, <1>6, Step0
  <2>4. UNCHANGED <<Registers0, accelOn0>>
    BY <1>6 DEF slot0, Registers0
  <2>5. S0!TypeOK' /\ S1!TypeOK'
    BY <1>1, <1>3, <2>1, <2>2, <2>4, TypesNext
  <2> QED BY <1>1, <2>2, <2>3, <2>5 DEF On
<1> QED BY <1>5, <1>6 DEF Exchange

\* A step of the slot the cell is run on.
LEMMA CellStepKeeps ==
  ASSUME KernelInv, ~Idle
  PROVE  /\ app.slot = 0 /\ S0!Next /\ UNCHANGED slot1 => KernelInv'
         /\ app.slot = 1 /\ S1!Next /\ UNCHANGED slot0 => KernelInv'
<1> USE DEF KernelInv
<1>1. ASSUME app.slot = 0, S0!Next, UNCHANGED slot1
      PROVE  KernelInv'
  <2>1. S0!InTimeSession' /\ app' = app
    BY <1>1, Step0 DEF On
  <2>2. S1!Settled'
    BY <1>1, Step1 DEF On
  <2>3. UNCHANGED <<Registers1, accelOn1>>
    BY <1>1 DEF slot1, Registers1
  <2>4. S0!TypeOK'
    BY <2>1, Moment0Next
  <2>5. S1!TypeOK'
    BY <2>3, <2>4, Types, TypesNext
  <2> QED BY <1>1, <2>1, <2>2, <2>4, <2>5, Moment0Next DEF On
<1>2. ASSUME app.slot = 1, S1!Next, UNCHANGED slot0
      PROVE  KernelInv'
  <2>1. S1!InTimeSession' /\ app' = app
    BY <1>2, Step1 DEF On
  <2>2. S0!Settled'
    BY <1>2, Step0 DEF On
  <2>3. UNCHANGED <<Registers0, accelOn0>>
    BY <1>2 DEF slot0, Registers0
  <2>4. S1!TypeOK'
    BY <2>1, Moment1Next
  <2>5. S0!TypeOK'
    BY <2>3, <2>4, Types, TypesNext
  <2> QED BY <1>2, <2>1, <2>2, <2>4, <2>5, Moment1Next DEF On
<1> QED BY <1>1, <1>2

\* A step of the hardware of a slot no cell is run on.
LEMMA IdleSlotKeeps ==
  ASSUME KernelInv
  PROVE  /\ ~On(0) /\ S0!Hardware /\ UNCHANGED slot1 => KernelInv'
         /\ ~On(1) /\ S1!Hardware /\ UNCHANGED slot0 => KernelInv'
<1> USE DEF KernelInv
<1>1. ASSUME ~On(0), S0!Hardware, UNCHANGED slot1
      PROVE  KernelInv'
  <2>1. S0!Settled' /\ mem' = mem /\ S0!TypeOK'
    BY <1>1, Step0
  <2>2. UNCHANGED <<app, pc, stage>>
    BY <1>1 DEF S0!Hardware, S0!cpuVars
  <2>3. UNCHANGED <<Registers1, accelOn1>> /\ UNCHANGED S1!vars
    BY <1>1, <2>1, <2>2 DEF slot1, Registers1, S1!vars
  <2>4. S1!TypeOK'
    BY <2>1, <2>3, Types, TypesNext
  <2>5. UNCHANGED <<On(0), On(1)>>
    BY <2>2 DEF On, Idle
  <2> QED BY <1>1, <2>1, <2>3, <2>4, <2>5, Step1
<1>2. ASSUME ~On(1), S1!Hardware, UNCHANGED slot0
      PROVE  KernelInv'
  <2>1. S1!Settled' /\ mem' = mem /\ S1!TypeOK'
    BY <1>2, Step1
  <2>2. UNCHANGED <<app, pc, stage>>
    BY <1>2 DEF S1!Hardware, S1!cpuVars
  <2>3. UNCHANGED <<Registers0, accelOn0>> /\ UNCHANGED S0!vars
    BY <1>2, <2>1, <2>2 DEF slot0, Registers0, S0!vars
  <2>4. S0!TypeOK'
    BY <2>1, <2>3, Types, TypesNext
  <2>5. UNCHANGED <<On(0), On(1)>>
    BY <2>2 DEF On, Idle
  <2> QED BY <1>2, <2>1, <2>3, <2>4, <2>5, Step0
<1> QED BY <1>1, <1>2

LEMMA KernelInvariant ==
  ASSUME \A c \in Cells : CellInTime(c)
  PROVE  KernelSpec => []KernelInv
<1>1. KernelInv /\ [KernelNext]_kernelVars => KernelInv'
  <2> SUFFICES ASSUME KernelInv, [KernelNext]_kernelVars PROVE KernelInv'
    OBVIOUS
  <2>1. CASE \E c \in Cells : RunCell(c)
    BY <2>1, RunCellKeeps
  <2>2. CASE \E s \in {0, 1} : \E c \in Cells : Exchange(s, c.accel)
    BY <2>2, ExchangeKeeps
  <2>3. CASE Step
    <3>1. ~Idle
      <4>1. Slot0!Cpu \/ Slot1!Cpu => pc \in 1..Len(app.calls)
        BY DEF Slot0!Cpu, Slot0!DataToAccel, Slot0!DataFromAccel,
               Slot0!DataToAccelDone, Slot0!DataFromAccelDone, Slot0!StartAccel,
               Slot0!Load, Slot0!Observe, Slot0!At,
               Slot1!Cpu, Slot1!DataToAccel, Slot1!DataFromAccel,
               Slot1!DataToAccelDone, Slot1!DataFromAccelDone, Slot1!StartAccel,
               Slot1!Load, Slot1!Observe, Slot1!At
      <4>2. app \in Cells /\ Len(app.calls) \in Nat
        BY Types, CellsOK DEF KernelInv
      <4> QED BY <2>3, <4>1, <4>2 DEF Step, Idle
    <3> QED BY <2>3, <3>1, Cpu0, Cpu1, CellStepKeeps DEF Step, S0!Next, S1!Next
  <2>4. CASE Hardware0
    <3>1. S0!Hardware /\ UNCHANGED slot1
      BY <2>4, Hw0 DEF Hardware0
    <3>2. CASE On(0)
      BY <3>1, <3>2, CellStepKeeps DEF On, S0!Next
    <3> QED BY <3>1, <3>2, IdleSlotKeeps
  <2>5. CASE Hardware1
    <3>1. S1!Hardware /\ UNCHANGED slot0
      BY <2>5, Hw1 DEF Hardware1
    <3>2. CASE On(1)
      BY <3>1, <3>2, CellStepKeeps DEF On, S1!Next
    <3> QED BY <3>1, <3>2, IdleSlotKeeps
  <2>6. CASE UNCHANGED kernelVars
    <3>1. UNCHANGED <<slot0, slot1, mem, app, pc, stage>>
      BY <2>6 DEF kernelVars, cpu
    <3>2. UNCHANGED <<Registers0, Registers1, accelOn0, accelOn1, On(0), On(1)>>
          /\ UNCHANGED <<S0!vars, S1!vars>>
      BY <3>1 DEF slot0, slot1, Registers0, Registers1, On, Idle, S0!vars, S1!vars
    <3>3. S0!TypeOK' /\ S1!TypeOK'
      BY <3>1, <3>2, Types, TypesNext DEF KernelInv
    <3> QED BY <3>1, <3>2, <3>3, Step0, Step1 DEF KernelInv
  <2> QED BY <2>1, <2>2, <2>3, <2>4, <2>5, <2>6 DEF KernelNext, Rest
<1> QED BY <1>1, KernelStart, PTL DEF KernelSpec

LEMMA InTimeCellsExact ==
  ASSUME \A c \in Cells : CellInTime(c)
  PROVE  KernelSpec => []CellResultsExact
<1>1. KernelInv => CellResultsExact
  <2> SUFFICES ASSUME KernelInv PROVE CellResultsExact
    OBVIOUS
  <2>1. S0!ResultsExact <=> Slot0!ResultsExact
    BY DEF S0!ResultsExact, Slot0!ResultsExact, S0!At, Slot0!At, S0!Call, Slot0!Call,
           S0!ProcessedOnce, Slot0!ProcessedOnce
  <2>2. S1!ResultsExact <=> Slot0!ResultsExact
    BY DEF S1!ResultsExact, Slot0!ResultsExact, S1!At, Slot0!At, S1!Call, Slot0!Call,
           S1!ProcessedOnce, Slot0!ProcessedOnce
  <2>3. app \in Cells /\ Len(app.calls) \in Nat /\ pc \in 1..(Len(app.calls) + 1)
    BY Types, CellsOK DEF KernelInv
  <2>4. CASE Idle
    BY <2>3, <2>4 DEF Idle, CellResultsExact, Slot0!ResultsExact, Slot0!At
  <2>5. CASE ~Idle
    <3>1. app.slot \in {0, 1}
      BY <2>3, CellsAssumption
    <3> QED BY <2>1, <2>2, <2>5, <3>1, Moment0, Moment1
            DEF KernelInv, On, CellResultsExact
  <2> QED BY <2>4, <2>5
<1> QED BY <1>1, KernelInvariant, PTL

LEMMA InTimeCellsPassive ==
  ASSUME \A c \in Cells : CellInTime(c)
  PROVE  KernelSpec => []OtherSlotPassive
<1>1. KernelInv => OtherSlotPassive
  <2>1. S0!Settled => Passive(start0, run0, fifo0)
    BY DEF S0!Settled, S0!BusyStarted, S0!Drained, S0!PLeft, Passive, S0!Channel
  <2>2. S1!Settled => Passive(start1, run1, fifo1)
    BY DEF S1!Settled, S1!BusyStarted, S1!Drained, S1!PLeft, Passive, S1!Channel
  <2> QED BY <2>1, <2>2 DEF KernelInv, On, OtherSlotPassive
<1> QED BY <1>1, KernelInvariant, PTL

------------------------------------------------------------------------------
(***************************************************************************)
(* The cells of the notebooks.                                             *)
(***************************************************************************)

App == INSTANCE NotebookApp

\* A cell of the notebooks whose data have their places in the buffer, at
\* word offsets that name a beat.
NotebookCell(c) ==
  \/ \E k, i, key, input :
       /\ S0!AESCellFits(k, i, key, input)
       /\ c.calls = App!AESCell(4 * k, 4 * i, key, input)
  \/ \E r, k, i, reload, fir_config, input :
       /\ S0!FIRCellFits(r, k, i, reload, fir_config, input)
       /\ c.calls = App!FIRCell(4 * r, 4 * k, 4 * i, reload, fir_config, input)
  \/ \E i, fft_config, input :
       /\ S0!FFTCellFits(i, fft_config, input)
       /\ c.calls = App!FFTCell(0, 4 * i, fft_config, input)

\* They are those of each slot.
LEMMA SameCells0 ==
  /\ \A o1, o2, d1, d2 :
       App!AESCell(o1, o2, d1, d2) = S0!Notebook!AESCell(o1, o2, d1, d2)
  /\ \A o1, o2, o3, d1, d2, d3 :
       App!FIRCell(o1, o2, o3, d1, d2, d3) = S0!Notebook!FIRCell(o1, o2, o3, d1, d2, d3)
  /\ \A o1, o2, d1, d2 :
       App!FFTCell(o1, o2, d1, d2) = S0!Notebook!FFTCell(o1, o2, d1, d2)
<1>1. \A d, o : App!load(d, o) = S0!Notebook!load(d, o)
  BY DEF App!load, S0!Notebook!load, App!loadData, S0!Notebook!loadData,
         App!Copied, S0!Notebook!Copied, App!WordsPerBeat, S0!Notebook!WordsPerBeat
<1>2. /\ \A o, n, tid : App!DataToAccel(o, n, tid) = S0!Notebook!DataToAccel(o, n, tid)
      /\ \A o, n : App!DataFromAccel(o, n) = S0!Notebook!DataFromAccel(o, n)
      /\ \A o : App!BytesToBeat(o) = S0!Notebook!BytesToBeat(o)
      /\ App!DataToAccelDone = S0!Notebook!DataToAccelDone
      /\ App!DataFromAccelDone = S0!Notebook!DataFromAccelDone
      /\ App!StartAccel = S0!Notebook!StartAccel
      /\ \A d : App!Words(d) = S0!Notebook!Words(d)
      /\ App!WordsPerBeat = S0!Notebook!WordsPerBeat
  BY DEF App!DataToAccel, S0!Notebook!DataToAccel, App!DataFromAccel,
         S0!Notebook!DataFromAccel, App!BytesToBeat, S0!Notebook!BytesToBeat,
         App!BytesPerBeat, S0!Notebook!BytesPerBeat,
         App!DataToAccelDone, S0!Notebook!DataToAccelDone,
         App!DataFromAccelDone, S0!Notebook!DataFromAccelDone,
         App!StartAccel, S0!Notebook!StartAccel, App!Words, S0!Notebook!Words,
         App!WordsPerBeat, S0!Notebook!WordsPerBeat
<1>3. /\ \A o, n, tid : App!config(o, n, tid) = S0!Notebook!config(o, n, tid)
      /\ \A o, n : App!config_fft(o, n) = S0!Notebook!config_fft(o, n)
      /\ \A o, n, tid, o2 : App!run(o, n, tid, o2) = S0!Notebook!run(o, n, tid, o2)
  BY <1>2 DEF App!config, S0!Notebook!config, App!config_fft, S0!Notebook!config_fft,
              App!run, S0!Notebook!run
<1>4. \A o, d, setup : App!retrieve(o, d, setup) = S0!Notebook!retrieve(o, d, setup)
  BY DEF App!retrieve, S0!Notebook!retrieve, App!Collect, S0!Notebook!Collect,
         App!WordsPerBeat, S0!Notebook!WordsPerBeat
<1>5. ASSUME NEW o1, NEW o2, NEW d1, NEW d2
      PROVE  App!AESCell(o1, o2, d1, d2) = S0!Notebook!AESCell(o1, o2, d1, d2)
  BY <1>1, <1>2, <1>3, <1>4, Zenon DEF App!AESCell, S0!Notebook!AESCell
<1>6. ASSUME NEW o1, NEW o2, NEW o3, NEW d1, NEW d2, NEW d3
      PROVE  App!FIRCell(o1, o2, o3, d1, d2, d3) = S0!Notebook!FIRCell(o1, o2, o3, d1, d2, d3)
  BY <1>1, <1>2, <1>3, <1>4, Zenon DEF App!FIRCell, S0!Notebook!FIRCell
<1>7. ASSUME NEW o1, NEW o2, NEW d1, NEW d2
      PROVE  App!FFTCell(o1, o2, d1, d2) = S0!Notebook!FFTCell(o1, o2, d1, d2)
  BY <1>1, <1>2, <1>3, <1>4, Zenon DEF App!FFTCell, S0!Notebook!FFTCell
<1> QED BY <1>5, <1>6, <1>7

LEMMA SameCells1 ==
  /\ \A o1, o2, d1, d2 :
       App!AESCell(o1, o2, d1, d2) = S1!Notebook!AESCell(o1, o2, d1, d2)
  /\ \A o1, o2, o3, d1, d2, d3 :
       App!FIRCell(o1, o2, o3, d1, d2, d3) = S1!Notebook!FIRCell(o1, o2, o3, d1, d2, d3)
  /\ \A o1, o2, d1, d2 :
       App!FFTCell(o1, o2, d1, d2) = S1!Notebook!FFTCell(o1, o2, d1, d2)
<1>1. \A d, o : App!load(d, o) = S1!Notebook!load(d, o)
  BY DEF App!load, S1!Notebook!load, App!loadData, S1!Notebook!loadData,
         App!Copied, S1!Notebook!Copied, App!WordsPerBeat, S1!Notebook!WordsPerBeat
<1>2. /\ \A o, n, tid : App!DataToAccel(o, n, tid) = S1!Notebook!DataToAccel(o, n, tid)
      /\ \A o, n : App!DataFromAccel(o, n) = S1!Notebook!DataFromAccel(o, n)
      /\ \A o : App!BytesToBeat(o) = S1!Notebook!BytesToBeat(o)
      /\ App!DataToAccelDone = S1!Notebook!DataToAccelDone
      /\ App!DataFromAccelDone = S1!Notebook!DataFromAccelDone
      /\ App!StartAccel = S1!Notebook!StartAccel
      /\ \A d : App!Words(d) = S1!Notebook!Words(d)
      /\ App!WordsPerBeat = S1!Notebook!WordsPerBeat
  BY DEF App!DataToAccel, S1!Notebook!DataToAccel, App!DataFromAccel,
         S1!Notebook!DataFromAccel, App!BytesToBeat, S1!Notebook!BytesToBeat,
         App!BytesPerBeat, S1!Notebook!BytesPerBeat,
         App!DataToAccelDone, S1!Notebook!DataToAccelDone,
         App!DataFromAccelDone, S1!Notebook!DataFromAccelDone,
         App!StartAccel, S1!Notebook!StartAccel, App!Words, S1!Notebook!Words,
         App!WordsPerBeat, S1!Notebook!WordsPerBeat
<1>3. /\ \A o, n, tid : App!config(o, n, tid) = S1!Notebook!config(o, n, tid)
      /\ \A o, n : App!config_fft(o, n) = S1!Notebook!config_fft(o, n)
      /\ \A o, n, tid, o2 : App!run(o, n, tid, o2) = S1!Notebook!run(o, n, tid, o2)
  BY <1>2 DEF App!config, S1!Notebook!config, App!config_fft, S1!Notebook!config_fft,
              App!run, S1!Notebook!run
<1>4. \A o, d, setup : App!retrieve(o, d, setup) = S1!Notebook!retrieve(o, d, setup)
  BY DEF App!retrieve, S1!Notebook!retrieve, App!Collect, S1!Notebook!Collect,
         App!WordsPerBeat, S1!Notebook!WordsPerBeat
<1>5. ASSUME NEW o1, NEW o2, NEW d1, NEW d2
      PROVE  App!AESCell(o1, o2, d1, d2) = S1!Notebook!AESCell(o1, o2, d1, d2)
  BY <1>1, <1>2, <1>3, <1>4, Zenon DEF App!AESCell, S1!Notebook!AESCell
<1>6. ASSUME NEW o1, NEW o2, NEW o3, NEW d1, NEW d2, NEW d3
      PROVE  App!FIRCell(o1, o2, o3, d1, d2, d3) = S1!Notebook!FIRCell(o1, o2, o3, d1, d2, d3)
  BY <1>1, <1>2, <1>3, <1>4, Zenon DEF App!FIRCell, S1!Notebook!FIRCell
<1>7. ASSUME NEW o1, NEW o2, NEW d1, NEW d2
      PROVE  App!FFTCell(o1, o2, d1, d2) = S1!Notebook!FFTCell(o1, o2, d1, d2)
  BY <1>1, <1>2, <1>3, <1>4, Zenon DEF App!FFTCell, S1!Notebook!FFTCell
<1> QED BY <1>5, <1>6, <1>7

LEMMA NotebookCellInTime ==
  ASSUME NEW c, NotebookCell(c)
  PROVE  CellInTime(c)
<1>1. /\ \A o, d : S0!Fits(o, d) <=> S1!Fits(o, d)
      /\ \A o1, d1, o2, d2 : S0!Disjoint(o1, d1, o2, d2) <=> S1!Disjoint(o1, d1, o2, d2)
  BY DEF S0!Fits, S1!Fits, S0!Disjoint, S1!Disjoint, S0!Apart, S1!Apart
<1>2. CASE \E k, i, key, input :
             /\ S0!AESCellFits(k, i, key, input)
             /\ c.calls = App!AESCell(4 * k, 4 * i, key, input)
  <2>1. PICK k, i, key, input :
             /\ S0!AESCellFits(k, i, key, input)
             /\ c.calls = App!AESCell(4 * k, 4 * i, key, input)
    BY <1>2
  <2>2. S1!AESCellFits(k, i, key, input)
    BY <1>1, <2>1 DEF S0!AESCellFits, S1!AESCellFits
  <2>3. S0!SoundInTime(c.calls)
    BY <2>1, S0!AESCellSound, SameCells0, SlotsAssumption, CellsOK
  <2>4. S1!SoundInTime(c.calls)
    BY <2>1, <2>2, S1!AESCellSound, SameCells1, SlotsAssumption, CellsOK
  <2> QED BY <2>3, <2>4 DEF CellInTime
<1>3. CASE \E r, k, i, reload, fir_config, input :
             /\ S0!FIRCellFits(r, k, i, reload, fir_config, input)
             /\ c.calls = App!FIRCell(4 * r, 4 * k, 4 * i, reload, fir_config, input)
  <2>1. PICK r, k, i, reload, fir_config, input :
             /\ S0!FIRCellFits(r, k, i, reload, fir_config, input)
             /\ c.calls = App!FIRCell(4 * r, 4 * k, 4 * i, reload, fir_config, input)
    BY <1>3
  <2>2. S1!FIRCellFits(r, k, i, reload, fir_config, input)
    BY <1>1, <2>1 DEF S0!FIRCellFits, S1!FIRCellFits
  <2>3. S0!SoundInTime(c.calls)
    BY <2>1, S0!FIRCellSound, SameCells0, SlotsAssumption, CellsOK
  <2>4. S1!SoundInTime(c.calls)
    BY <2>1, <2>2, S1!FIRCellSound, SameCells1, SlotsAssumption, CellsOK
  <2> QED BY <2>3, <2>4 DEF CellInTime
<1>4. CASE \E i, fft_config, input :
             /\ S0!FFTCellFits(i, fft_config, input)
             /\ c.calls = App!FFTCell(0, 4 * i, fft_config, input)
  <2>1. PICK i, fft_config, input :
             /\ S0!FFTCellFits(i, fft_config, input)
             /\ c.calls = App!FFTCell(0, 4 * i, fft_config, input)
    BY <1>4
  <2>2. S1!FFTCellFits(i, fft_config, input)
    BY <1>1, <2>1 DEF S0!FFTCellFits, S1!FFTCellFits
  <2>3. S0!SoundInTime(c.calls)
    BY <2>1, S0!FFTCellSound, SameCells0, SlotsAssumption, CellsOK
  <2>4. S1!SoundInTime(c.calls)
    BY <2>1, <2>2, S1!FFTCellSound, SameCells1, SlotsAssumption, CellsOK
  <2> QED BY <2>3, <2>4 DEF CellInTime
<1> QED BY <1>2, <1>3, <1>4 DEF NotebookCell

\* Whatever cells were run before, on whichever slot and with whatever
\* accelerators exchanged in between, a cell retrieves its own input,
\* processed once under its own configuration: the buffer all cells share
\* and the movers no cell waits for do not let one disturb another.
THEOREM NotebookResultsExact ==
  ASSUME \A c \in Cells : NotebookCell(c)
  PROVE  KernelSpec => []CellResultsExact
BY NotebookCellInTime, InTimeCellsExact

\* While a cell runs, the movers of the other slot touch neither the buffer
\* nor a stream, although the cell before left one that nobody awaited.
THEOREM NotebookSlotsApart ==
  ASSUME \A c \in Cells : NotebookCell(c)
  PROVE  KernelSpec => []OtherSlotPassive
BY NotebookCellInTime, InTimeCellsPassive

===============================================================================
