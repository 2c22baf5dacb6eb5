---------------------------- MODULE NotebookKernel ----------------------------
(***************************************************************************)
(* The notebooks AES-FFT.ipynb and AES-FIR-FFT.ipynb: one Jupyter kernel,  *)
(* one XRT buffer, two slots.  The cells are run by the user in any order  *)
(* and any number of times; a cell drives the one slot it names.  All of   *)
(* them place their data in the same part of the buffer, while the movers  *)
(* of the other slot are whatever the cell before left behind.             *)
(*                                                                         *)
(* Both slots are instances of SlotSession that share the buffer and the   *)
(* CPU.  As there, the aes and fir cells need movers that are ready in     *)
(* time (CpuMayOvertake is FALSE).                                         *)
(***************************************************************************)
EXTENDS Naturals, Sequences

CONSTANTS
  Addr, Data, Junk, Tids, FifoDepth,
  Cells,       \* workloads that also name a slot and the accelerator needed
  MaxCells     \* bounds the cells and exchanges of a behaviour

VARIABLES
  reg0, start0, done0, run0, conf0, accelOn0, fifo0,   \* slot 0
  reg1, start1, done1, run1, conf1, accelOn1, fifo1,   \* slot 1
  mem,           \* the XRT buffer of the kernel
  app, pc, stage,  \* the cell being run, as in SlotSession
  loaded,        \* the accelerator in each slot
  count          \* cells run and accelerators exchanged

slot0 == <<reg0, start0, done0, run0, conf0, accelOn0, fifo0>>
slot1 == <<reg1, start1, done1, run1, conf1, accelOn1, fifo1>>
cpu == <<app, pc, stage>>

kernelVars == <<slot0, slot1, mem, cpu, loaded, count>>

Slot0 == INSTANCE SlotSession WITH
  Workloads <- Cells, CpuMayOvertake <- FALSE,
  reg <- reg0, start <- start0, done <- done0, run <- run0,
  conf <- conf0, accelOn <- accelOn0, fifo <- fifo0

Slot1 == INSTANCE SlotSession WITH
  Workloads <- Cells, CpuMayOvertake <- FALSE,
  reg <- reg1, start <- start1, done <- done1, run <- run1,
  conf <- conf1, accelOn <- accelOn1, fifo <- fifo1

ASSUME CellsAssumption ==
  /\ MaxCells \in Nat
  /\ \A c \in Cells :
       /\ c.slot \in {0, 1} /\ c.freeRunning \in BOOLEAN
       /\ Len(c.calls) \in Nat
       /\ \A i \in 1..Len(c.calls) : Slot0!CallOK(c.calls[i])

ASSUME SlotsAssumption ==
  /\ Addr \subseteq Nat
  /\ Junk \in Data
  /\ Tids \subseteq Nat \ {0}
  /\ FifoDepth \in Nat \ {0}

Idle == pc > Len(app.calls)

FreeRunning(accel) ==
  \E c \in Cells : c.accel = accel /\ c.freeRunning

\* A kernel that has just imported siha: nothing run, one accelerator in
\* each slot.
KernelInit ==
  /\ Slot0!HwInit
  /\ Slot1!HwInit
  /\ app \in Cells
  /\ pc = Len(app.calls) + 1
  /\ stage = 1
  /\ loaded \in {l \in [{0, 1} -> {c.accel : c \in Cells}] :
                   \A s \in {0, 1} :
                     \E c \in Cells : c.slot = s /\ c.accel = l[s]}
  /\ accelOn0 = FreeRunning(loaded[0])
  /\ accelOn1 = FreeRunning(loaded[1])
  /\ count = 0

\* The user runs a cell whose accelerator is in its slot.
RunCell(c) ==
  /\ Idle
  /\ count < MaxCells
  /\ loaded[c.slot] = c.accel
  /\ app' = c
  /\ pc' = 1
  /\ stage' = 1
  /\ count' = count + 1
  /\ UNCHANGED <<slot0, slot1, mem, loaded>>

\* xmutil unloadapp and loadapp on one slot, between two cells.
Exchange(s, accel) ==
  /\ Idle
  /\ count < MaxCells
  /\ loaded[s] # accel
  /\ \E c \in Cells : c.slot = s /\ c.accel = accel
  /\ loaded' = [loaded EXCEPT ![s] = accel]
  /\ count' = count + 1
  /\ \/ s = 0 /\ Slot0!LoadModule(FreeRunning(accel)) /\ UNCHANGED slot1
     \/ s = 1 /\ Slot1!LoadModule(FreeRunning(accel)) /\ UNCHANGED slot0
  /\ UNCHANGED <<mem, cpu>>

\* A register access or a copy of the cell.
Step ==
  /\ \/ app.slot = 0 /\ Slot0!Cpu /\ UNCHANGED slot1
     \/ app.slot = 1 /\ Slot1!Cpu /\ UNCHANGED slot0
  /\ UNCHANGED <<loaded, count>>

Hardware0 == Slot0!Hardware /\ UNCHANGED <<slot1, loaded, count>>
Hardware1 == Slot1!Hardware /\ UNCHANGED <<slot0, loaded, count>>

Rest == Idle /\ UNCHANGED kernelVars

KernelNext ==
  \/ \E c \in Cells : RunCell(c)
  \/ \E s \in {0, 1} : \E c \in Cells : Exchange(s, c.accel)
  \/ Step
  \/ Hardware0
  \/ Hardware1
  \/ Rest

\* The process is scheduled, and a slot whose hardware can move moves.
KernelFairness ==
  /\ WF_kernelVars(Step)
  /\ WF_kernelVars(Hardware0)
  /\ WF_kernelVars(Hardware1)

KernelSpec == KernelInit /\ [][KernelNext]_kernelVars /\ KernelFairness

------------------------------------------------------------------------------

\* Whatever cells were run before on either slot, the cell being run
\* retrieves its own input, processed once under its own configuration by
\* the accelerator of its slot.
CellResultsExact == Slot0!ResultsExact

\* While a cell runs on one slot, the movers of the other neither read the
\* buffer nor write it, although nobody awaited the last MM2S transfer
\* there (siha.py:102).
Passive(start, run, fifo) ==
  /\ run["MM2S"].busy => run["MM2S"].left = 0
  /\ ~start["S2MM"]
  /\ fifo = <<>>

OtherSlotPassive ==
  ~Idle => /\ app.slot = 1 => Passive(start0, run0, fifo0)
           /\ app.slot = 0 => Passive(start1, run1, fifo1)

\* Every cell that is run ends.
CellsEnd == []<>Idle

==============================================================================
