----------------------------- MODULE SlotSession -----------------------------
(***************************************************************************)
(* An application driving one slot through lib/siha.c.                     *)
(*                                                                         *)
(* A workload is the sequence of library calls an application makes, in    *)
(* program order (modules AESApp, FIRApp, FFTApp and NotebookApp).  The    *)
(* CPU executes it one register access at a time while the hardware of     *)
(* RMCommBox runs concurrently.                                            *)
(*                                                                         *)
(* CpuMayOvertake says what is known about timing.  TRUE: nothing, the CPU *)
(* may reach the next register write on a mover before the mover has       *)
(* finished, or even begun, the transfer it was given.  FALSE: a mover     *)
(* that was started has sampled its descriptor before the CPU rewrites it, *)
(* and has finished before the CPU sets its start bit again.               *)
(***************************************************************************)
EXTENDS RMCommBox

CONSTANTS
  Workloads,       \* records [freeRunning |-> BOOLEAN, calls |-> sequence]
  CpuMayOvertake

ASSUME TimingAssumption == CpuMayOvertake \in BOOLEAN

CallOps == {"DataToAccel", "DataFromAccel", "DataToAccelDone",
            "DataFromAccelDone", "StartAccel", "Load", "Report", "Collect"}

CallOK(c) ==
  /\ c.op \in CallOps
  /\ c.op \in {"DataToAccel", "DataFromAccel"} => c.addr \in Nat /\ c.size \in Nat
  /\ c.op = "DataToAccel" => c.tid \in Nat
  /\ c.op = "Load" => \A a \in DOMAIN c.image : c.image[a] \in Data

ASSUME WorkloadsAssumption ==
  \A w \in Workloads :
    /\ w.freeRunning \in BOOLEAN
    /\ Len(w.calls) \in Nat
    /\ \A i \in 1..Len(w.calls) : CallOK(w.calls[i])

VARIABLES
  app,     \* the workload being executed
  pc,      \* index of the call being executed
  stage    \* index of its next register write

vars == <<reg, start, done, run, mem, conf, accelOn, fifo, app, pc, stage>>

cpuVars == <<app, pc, stage>>

Call == app.calls[pc]

At(op) == pc \in 1..Len(app.calls) /\ Call.op = op

Terminated == pc > Len(app.calls)

Return == pc' = pc + 1 /\ stage' = 1 /\ app' = app

\* Mutant: the stream of an earlier transfer is kept.
FieldsKeepTid(ch) == <<"addr", "size">>

\* The descriptor registers each call writes, in order, before APCR.  GIER
\* and IIER are written too; nothing in the program ever takes an interrupt.
Fields(ch) == IF ch = "MM2S" THEN <<"addr", "size", "tid">>
                             ELSE <<"addr", "size">>

MayWriteDescriptor(ch) == CpuMayOvertake \/ (start[ch] => run[ch].busy)
MayWriteApcr(ch) == CpuMayOvertake \/ ~start[ch]

TypeOK ==
  /\ HwTypeOK
  /\ app \in Workloads
  /\ pc \in 1..(Len(app.calls) + 1)
  /\ stage \in 1..4

Init ==
  /\ HwInit
  /\ app \in Workloads
  /\ accelOn = app.freeRunning
  /\ pc = 1
  /\ stage = 1

------------------------------------------------------------------------------

WriteDescriptor(ch) ==
  /\ stage <= Len(Fields(ch))
  /\ MayWriteDescriptor(ch)
  /\ reg' = [reg EXCEPT ![ch][Fields(ch)[stage]] = Call[Fields(ch)[stage]]]
  /\ stage' = stage + 1
  /\ UNCHANGED <<start, done, run, mem, conf, accelOn, fifo, app, pc>>

\* Mutant: the next call does not start with its first register write.
WriteApcrKeepsStage(ch) ==
  /\ stage = Len(Fields(ch)) + 1
  /\ MayWriteApcr(ch)
  /\ start' = [start EXCEPT ![ch] = TRUE]
  /\ pc' = pc + 1
  /\ stage' = stage + 1
  /\ UNCHANGED <<reg, done, run, mem, conf, accelOn, fifo, app>>

WriteApcr(ch) ==
  /\ stage = Len(Fields(ch)) + 1
  /\ MayWriteApcr(ch)
  /\ start' = [start EXCEPT ![ch] = TRUE]
  /\ Return
  /\ UNCHANGED <<reg, done, run, mem, conf, accelOn, fifo>>

DataToAccel ==
  /\ At("DataToAccel")
  /\ WriteDescriptor("MM2S") \/ WriteApcr("MM2S")

DataFromAccel ==
  /\ At("DataFromAccel")
  /\ WriteDescriptor("S2MM") \/ WriteApcr("S2MM")

\* Mutant: reading the done bit leaves it set.
ReadDoneSticky(ch) ==
  /\ done[ch]
  /\ Return
  /\ UNCHANGED hwVars

\* The polling loop.  The read that finds bit 1 set clears it and the call
\* returns; a read that finds it clear changes nothing.
ReadDone(ch) ==
  /\ done[ch]
  /\ done' = [done EXCEPT ![ch] = FALSE]
  /\ Return
  /\ UNCHANGED <<reg, start, run, mem, conf, accelOn, fifo>>

ReadNotDone(ch) == ~done[ch] /\ UNCHANGED vars

DataToAccelDone ==
  /\ At("DataToAccelDone")
  /\ ReadDone("MM2S") \/ ReadNotDone("MM2S")

DataFromAccelDone ==
  /\ At("DataFromAccelDone")
  /\ ReadDone("S2MM") \/ ReadNotDone("S2MM")

\* 0x81 to the AccelConfig window sets start and auto-restart; nothing in
\* the applications ever writes the 0x0 of StopAccel.
StartAccel ==
  /\ At("StartAccel")
  /\ accelOn' = TRUE
  /\ Return
  /\ UNCHANGED <<reg, start, done, run, mem, conf, fifo>>

\* The application copies its inputs to the buffer (memcpy, loadData).  A
\* buffer the process has just allocated holds junk everywhere else.
Load ==
  /\ At("Load")
  /\ mem' = [a \in Addr |->
               IF a \in DOMAIN Call.image THEN Raw(Call.image[a])
               ELSE IF Call.fresh THEN Raw(Junk) ELSE mem[a]]
  /\ Return
  /\ UNCHANGED <<reg, start, done, run, conf, accelOn, fifo>>

\* A progress message, or the application reading its results.
Observe ==
  /\ At("Report") \/ At("Collect")
  /\ Return
  /\ UNCHANGED hwVars

Cpu ==
  \/ DataToAccel
  \/ DataFromAccel
  \/ DataToAccelDone
  \/ DataFromAccelDone
  \/ StartAccel
  \/ Load
  \/ Observe

Hardware ==
  /\ \/ \E ch \in Channel : Begin(ch) \/ Finish(ch)
     \/ ConfigBeat
     \/ PayloadBeat
     \/ ResultBeat
  /\ UNCHANGED cpuVars

\* The process has ended; only the hardware may still move.
Exited == Terminated /\ UNCHANGED vars

Next == Cpu \/ Hardware \/ Exited

(***************************************************************************)
(* The operating system keeps scheduling the polling process, and each     *)
(* part of the hardware moves when it can.                                 *)
(***************************************************************************)
Fairness ==
  /\ WF_vars(Cpu)
  /\ \A ch \in Channel :
       /\ WF_vars(Begin(ch) /\ UNCHANGED cpuVars)
       /\ WF_vars(Finish(ch) /\ UNCHANGED cpuVars)
  /\ WF_vars(ConfigBeat /\ UNCHANGED cpuVars)
  /\ WF_vars(PayloadBeat /\ UNCHANGED cpuVars)
  /\ WF_vars(ResultBeat /\ UNCHANGED cpuVars)

Spec == Init /\ [][Next]_vars /\ Fairness

------------------------------------------------------------------------------
(***************************************************************************)
(* Properties.                                                             *)
(***************************************************************************)

\* No request is lost: whenever DataToAccel or DataFromAccel is about to set
\* the start bit of a mover, the bit is clear (siha.c:170, siha.c:182).
NoLostStart ==
  \A ch \in Channel :
    At(StartOp(ch)) /\ stage = Len(Fields(ch)) + 1 => ~start[ch]

\* When a Done call is about to return, the mover has finished everything
\* it was asked to do: the done bit it sees is not left over from an earlier
\* transfer (siha.c:187-204).
DoneIsFresh ==
  \A ch \in Channel :
    At(AwaitOp(ch)) /\ done[ch] => ~start[ch] /\ ~run[ch].busy

\* A descriptor is never rewritten while its mover may still sample it
\* (siha.c:164-167, siha.c:177-179).
DescriptorStable ==
  [][\A ch \in Channel : start[ch] /\ start'[ch] => reg'[ch] = reg[ch]]_vars

\* A message "... configured" or "Configure ... done" is printed only when
\* the module holds the whole configuration packet.
ReportsTrue == At("Report") => conf[Call.tid] = Call.want

ProcessedOnce(b, d, setup) ==
  /\ b.data = d
  /\ Len(b.by) = 1
  /\ \A t \in DOMAIN setup : b.by[1][t] = setup[t]

\* When the application reads its results, each beat is the corresponding
\* input beat, processed once, under the configuration of this run.
ResultsExact ==
  At("Collect") =>
    \A k \in 0..(Call.size - 1) :
      ProcessedOnce(mem[Call.addr + k], Call.want[k + 1], Call.conf)

\* S2MM is never about to overwrite a payload beat MM2S has still to read.
Unread == IF run["MM2S"].busy /\ run["MM2S"].tid \notin Tids
            THEN {a \in Addr : /\ a >= run["MM2S"].addr
                               /\ a < run["MM2S"].addr + run["MM2S"].left}
            ELSE {}

WriteBehindRead ==
  run["S2MM"].busy /\ run["S2MM"].left > 0 /\ fifo # <<>>
    => run["S2MM"].addr \notin Unread

\* The application runs to its end: none of its waits is for ever.
Termination == <>Terminated

==============================================================================
