---------------------------- MODULE AbortedProofs ----------------------------
(***************************************************************************)
(* The process that finds a slot quiet is as well off as the first one on  *)
(* a slot that was loaded for it, whatever the process before it did and   *)
(* wherever it was killed.                                                 *)
(*                                                                         *)
(* The calls of the second process are a workload of their own, and from   *)
(* its launch on the slot behaves as in a session of that workload.  What  *)
(* SlotSessionProofs says of a step of a session is used for it; only the  *)
(* start differs, since the module holds old packets.                      *)
(***************************************************************************)
EXTENDS AbortedSession, TLAPS

CONSTANTS FIR_RELOAD, FIR_CONFIG, FIR_INPUT, FIR_RESULT,
          FFT_CONFIG, FFT_DATA_IN, FFT_RESULT,
          AES_DKB, AES_EKB, AES_EB, AES_DB, AES_RESULT

\* The second process of w on its own.
Rest(w) == [freeRunning |-> w.freeRunning,
            calls |-> SubSeq(w.calls, w.second, Len(w.calls))]

RestPc == pc - app.second + 1

Second == INSTANCE SlotSessionProofs WITH
  Workloads <- {Rest(w) : w \in Workloads}, app <- Rest(app), pc <- RestPc,
  view <- <<>>, results <- <<>>

\* And when it waits for the movers where it relies on them.
Prompt == INSTANCE SlotSessionProofs WITH
  Workloads <- {Rest(w) : w \in Workloads}, app <- Rest(app), pc <- RestPc,
  view <- <<>>, results <- <<>>, CpuMayOvertake <- FALSE

------------------------------------------------------------------------------
(***************************************************************************)
(* The second process is a session.                                        *)
(***************************************************************************)

\* Its calls are the last ones of the workload.
LEMMA RestFacts ==
  ASSUME NEW w \in Workloads
  PROVE  /\ w.second \in 2..Len(w.calls) /\ Len(w.calls) \in Nat
         /\ Len(Rest(w).calls) = Len(w.calls) - w.second + 1
         /\ \A i \in 1..Len(Rest(w).calls) :
              Rest(w).calls[i] = w.calls[w.second + i - 1]
<1>1. Len(w.calls) \in Nat /\ w.second \in 2..Len(w.calls)
  BY WorkloadsAssumption, SecondAssumption
<1> DEFINE s == SubSeq(w.calls, w.second, Len(w.calls))
<1>2. /\ Len(s) = Len(w.calls) - w.second + 1
      /\ \A i \in 1..Len(s) : s[i] = w.calls[w.second + i - 1]
  BY <1>1
<1> QED BY <1>1, <1>2 DEF Rest

LEMMA SecondWorkloads ==
  \A w \in {Rest(x) : x \in Workloads} :
    /\ w.freeRunning \in BOOLEAN
    /\ Len(w.calls) \in Nat
    /\ \A i \in 1..Len(w.calls) : Second!CallOK(w.calls[i])
<1> SUFFICES ASSUME NEW x \in Workloads
             PROVE  /\ Rest(x).freeRunning \in BOOLEAN
                    /\ Len(Rest(x).calls) \in Nat
                    /\ \A i \in 1..Len(Rest(x).calls) :
                         Second!CallOK(Rest(x).calls[i])
  OBVIOUS
<1>1. /\ x.freeRunning \in BOOLEAN
      /\ \A i \in 1..Len(x.calls) : CallOK(x.calls[i])
  BY WorkloadsAssumption
<1>2. /\ Len(Rest(x).calls) \in Nat
      /\ \A i \in 1..Len(Rest(x).calls) :
           /\ x.second + i - 1 \in 1..Len(x.calls)
           /\ Rest(x).calls[i] = x.calls[x.second + i - 1]
  <2> DEFINE n == Len(x.calls)
             m == Len(Rest(x).calls)
             s == x.second
  <2>1. /\ s \in 2..n /\ n \in Nat /\ m = n - s + 1
        /\ \A i \in 1..m : Rest(x).calls[i] = x.calls[s + i - 1]
    BY RestFacts
  <2> HIDE DEF n, m, s
  <2>2. m \in Nat /\ \A i \in 1..m : s + i - 1 \in 1..n
    BY ONLY <2>1
  <2> QED BY ONLY <2>1, <2>2 DEF n, m, s
<1>3. \A c : CallOK(c) <=> Second!CallOK(c)
  BY DEF CallOK, Second!CallOK, CallOps, Second!CallOps
<1>4. Rest(x).freeRunning \in BOOLEAN
  BY <1>1 DEF Rest
<1> QED BY <1>1, <1>2, <1>3, <1>4

\* While it runs, the second process is at one of its own calls.
SecondRuns == pc >= app.second

LEMMA SecondCall ==
  ASSUME TypeOK, SecondRuns
  PROVE  /\ RestPc \in 1..(Len(Rest(app).calls) + 1)
         /\ RestPc \in 1..Len(Rest(app).calls) <=> pc \in 1..Len(app.calls)
         /\ pc \in 1..Len(app.calls) => Second!Call = Call
         /\ \A op : Second!At(op) <=> At(op)
<1>1. app \in Workloads /\ pc \in 1..(Len(app.calls) + 1)
  BY DEF TypeOK
<1>2. /\ RestPc \in 1..(Len(Rest(app).calls) + 1)
      /\ RestPc \in 1..Len(Rest(app).calls) <=> pc \in 1..Len(app.calls)
  <2> DEFINE n == Len(app.calls)
             m == Len(Rest(app).calls)
             s == app.second
  <2>1. s \in 2..n /\ n \in Nat /\ m = n - s + 1 /\ pc \in 1..(n + 1) /\ pc >= s
    BY <1>1, RestFacts DEF SecondRuns
  <2> HIDE DEF n, m, s
  <2>2. /\ pc - s + 1 \in 1..(m + 1)
        /\ pc - s + 1 \in 1..m <=> pc \in 1..n
    BY ONLY <2>1
  <2> QED BY ONLY <2>2 DEF RestPc, n, m, s
<1>3. ASSUME pc \in 1..Len(app.calls) PROVE Second!Call = Call
  <2>1. app.second + RestPc - 1 = pc
    BY <1>1, RestFacts DEF RestPc
  <2> QED BY <1>1, <1>2, <1>3, <2>1, RestFacts DEF Second!Call, Call
<1> QED BY <1>2, <1>3 DEF At, Second!At

LEMMA SecondType ==
  TypeOK /\ SecondRuns => Second!TypeOK
<1> SUFFICES ASSUME TypeOK, SecondRuns PROVE Second!TypeOK
  OBVIOUS
<1>1. Second!HwTypeOK
  BY DEF TypeOK, HwTypeOK, Second!HwTypeOK, Channel, Second!Channel,
         Register, Second!Register, Transfer, Second!Transfer,
         Beat, Second!Beat, Conf, Second!Conf
<1>2. RestPc \in 1..(Len(Rest(app).calls) + 1)
  BY SecondCall
<1> QED BY <1>1, <1>2 DEF TypeOK, Second!TypeOK

\* A register access of the second process is one of the session.
LEMMA SecondCpu ==
  ASSUME TypeOK, SecondRuns, Cpu
  PROVE  Second!Cpu
<1>1. /\ pc \in 1..Len(app.calls) /\ Second!Call = Call
      /\ \A op : Second!At(op) <=> At(op)
  BY SecondCall DEF Cpu, DataToAccel, DataFromAccel, DataToAccelDone,
     DataFromAccelDone, StartAccel, Load, Observe, At
<1>2. Return => Second!Return
  <2>1. pc \in Nat /\ app.second \in Nat
    BY RestFacts DEF TypeOK
  <2> QED BY <2>1 DEF Return, Second!Return, RestPc
<1>3. UNCHANGED <<app, pc>> => UNCHANGED <<Rest(app), RestPc>>
  BY DEF RestPc
<1>4. \A ch : Fields(ch) = Second!Fields(ch)
  BY DEF Fields, Second!Fields
<1>5. ASSUME NEW ch, WriteDescriptor(ch) PROVE Second!WriteDescriptor(ch)
  BY <1>1, <1>3, <1>4, <1>5
     DEF WriteDescriptor, Second!WriteDescriptor, MayWriteDescriptor,
         Second!MayWriteDescriptor
<1>6. ASSUME NEW ch, WriteApcr(ch) PROVE Second!WriteApcr(ch)
  BY <1>2, <1>4, <1>6 DEF WriteApcr, Second!WriteApcr, MayWriteApcr,
                          Second!MayWriteApcr
<1>7. ASSUME NEW ch, ReadDone(ch) PROVE Second!ReadDone(ch)
  BY <1>2, <1>7 DEF ReadDone, Second!ReadDone
<1>8. ASSUME NEW ch, ReadNotDone(ch) PROVE Second!ReadNotDone(ch)
  BY <1>3, <1>8 DEF ReadNotDone, Second!ReadNotDone, vars, Second!vars
<1>9. CASE DataToAccel
  BY <1>1, <1>5, <1>6, <1>9 DEF DataToAccel, Second!Cpu, Second!DataToAccel
<1>10. CASE DataFromAccel
  BY <1>1, <1>5, <1>6, <1>10 DEF DataFromAccel, Second!Cpu, Second!DataFromAccel
<1>11. CASE DataToAccelDone
  BY <1>1, <1>7, <1>8, <1>11
     DEF DataToAccelDone, Second!Cpu, Second!DataToAccelDone
<1>12. CASE DataFromAccelDone
  BY <1>1, <1>7, <1>8, <1>12
     DEF DataFromAccelDone, Second!Cpu, Second!DataFromAccelDone
<1>13. CASE StartAccel
  BY <1>1, <1>2, <1>13 DEF StartAccel, Second!Cpu, Second!StartAccel
<1>14. CASE Load
  BY <1>1, <1>2, <1>14 DEF Load, Second!Cpu, Second!Load, Raw, Second!Raw
<1>15. CASE Observe
  BY <1>1, <1>2, <1>15 DEF Observe, Second!Cpu, Second!Observe, hwVars,
                           Second!hwVars
<1> QED BY <1>9, <1>10, <1>11, <1>12, <1>13, <1>14, <1>15 DEF Cpu

\* The hardware knows nothing of processes.
LEMMA SecondHardware ==
  ASSUME Hardware
  PROVE  Second!Hardware
BY DEF Hardware, Second!Hardware, Begin, Second!Begin, Finish, Second!Finish,
       ConfigBeat, Second!ConfigBeat, PayloadBeat, Second!PayloadBeat,
       ResultBeat, Second!ResultBeat, Advance, Second!Advance,
       Channel, Second!Channel, ReadBeat, Second!ReadBeat, Raw, Second!Raw,
       Processed, Second!Processed, cpuVars, Second!cpuVars, RestPc

LEMMA PromptWorkloads ==
  \A w \in {Rest(x) : x \in Workloads} :
    /\ w.freeRunning \in BOOLEAN
    /\ Len(w.calls) \in Nat
    /\ \A i \in 1..Len(w.calls) : Prompt!CallOK(w.calls[i])
BY SecondWorkloads DEF Second!CallOK, Prompt!CallOK, Second!CallOps, Prompt!CallOps

\* An access that waits for the movers is one of a session in time.
LEMMA PromptCpu ==
  ASSUME TypeOK, SecondRuns, Cpu, InTime
  PROVE  Prompt!Cpu
<1>1. Second!Cpu
  BY SecondCpu
<1>2. /\ Prompt!Call = Second!Call
      /\ \A op : Prompt!At(op) <=> Second!At(op)
      /\ \A ch : Prompt!Fields(ch) = Second!Fields(ch)
      /\ Prompt!Return <=> Second!Return
      /\ Prompt!vars = Second!vars /\ Prompt!hwVars = Second!hwVars
  BY DEF Prompt!Call, Second!Call, Prompt!At, Second!At, Prompt!Fields,
         Second!Fields, Prompt!Return, Second!Return, Prompt!vars, Second!vars,
         Prompt!hwVars, Second!hwVars
<1>3. ASSUME NEW ch \in Channel, At(StartOp(ch))
      PROVE  /\ Second!WriteDescriptor(ch) => Prompt!WriteDescriptor(ch)
             /\ Second!WriteApcr(ch) => Prompt!WriteApcr(ch)
  <2>1. Second!Fields(ch) = Fields(ch)
    BY DEF Fields, Second!Fields
  <2>2. Second!WriteDescriptor(ch) => Prompt!MayWriteDescriptor(ch)
    BY <1>3, <2>1 DEF InTime, Second!WriteDescriptor, Prompt!MayWriteDescriptor
  <2>3. Second!WriteApcr(ch) => Prompt!MayWriteApcr(ch)
    BY <1>3, <2>1 DEF InTime, Second!WriteApcr, Prompt!MayWriteApcr
  <2> QED BY <1>2, <2>2, <2>3 DEF Second!WriteDescriptor, Prompt!WriteDescriptor,
             Second!WriteApcr, Prompt!WriteApcr
<1>4. /\ \A ch : Second!ReadDone(ch) => Prompt!ReadDone(ch)
      /\ \A ch : Second!ReadNotDone(ch) => Prompt!ReadNotDone(ch)
      /\ Second!Load => Prompt!Load
      /\ Second!Observe => Prompt!Observe
  <2>1. \A ch : Second!ReadDone(ch) => Prompt!ReadDone(ch)
    BY <1>2 DEF Second!ReadDone, Prompt!ReadDone
  <2>2. \A ch : Second!ReadNotDone(ch) => Prompt!ReadNotDone(ch)
    BY <1>2 DEF Second!ReadNotDone, Prompt!ReadNotDone, Prompt!vars, Second!vars
  <2>3. Second!Load => Prompt!Load
    BY <1>2 DEF Second!Load, Prompt!Load, Second!Raw, Prompt!Raw
  <2>4. Second!Observe => Prompt!Observe
    BY <1>2 DEF Second!Observe, Prompt!Observe, Prompt!hwVars, Second!hwVars
  <2> QED BY ONLY <2>1, <2>2, <2>3, <2>4
<1>5. Second!StartAccel => Prompt!StartAccel
  BY <1>2 DEF Second!StartAccel, Prompt!StartAccel
<1>6. \A op : Second!At(op) => At(op)
  BY SecondCall
<1>7. Second!DataToAccel => Prompt!DataToAccel
  <2>1. Second!DataToAccel => At(StartOp("MM2S"))
    BY <1>6 DEF Second!DataToAccel, StartOp
  <2> QED BY <1>2, <1>3, <2>1 DEF Second!DataToAccel, Prompt!DataToAccel, Channel
<1>8. Second!DataFromAccel => Prompt!DataFromAccel
  <2>1. Second!DataFromAccel => At(StartOp("S2MM"))
    BY <1>6 DEF Second!DataFromAccel, StartOp
  <2> QED BY <1>2, <1>3, <2>1 DEF Second!DataFromAccel, Prompt!DataFromAccel, Channel
<1>9. /\ Second!DataToAccelDone => Prompt!DataToAccelDone
      /\ Second!DataFromAccelDone => Prompt!DataFromAccelDone
  BY <1>2, <1>4 DEF Second!DataToAccelDone, Prompt!DataToAccelDone,
     Second!DataFromAccelDone, Prompt!DataFromAccelDone
<1> QED BY <1>1, <1>4, <1>5, <1>7, <1>8, <1>9 DEF Second!Cpu, Prompt!Cpu

LEMMA PromptHardware ==
  ASSUME Hardware
  PROVE  Prompt!Hardware
BY DEF Hardware, Prompt!Hardware, Begin, Prompt!Begin, Finish, Prompt!Finish,
       ConfigBeat, Prompt!ConfigBeat, PayloadBeat, Prompt!PayloadBeat,
       ResultBeat, Prompt!ResultBeat, Advance, Prompt!Advance,
       Channel, Prompt!Channel, ReadBeat, Prompt!ReadBeat, Raw, Prompt!Raw,
       Processed, Prompt!Processed, cpuVars, Prompt!cpuVars, RestPc

LEMMA PromptType ==
  TypeOK /\ SecondRuns => Prompt!TypeOK
<1> SUFFICES ASSUME TypeOK, SecondRuns PROVE Prompt!TypeOK
  OBVIOUS
<1>1. Prompt!HwTypeOK
  BY DEF TypeOK, HwTypeOK, Prompt!HwTypeOK, Channel, Prompt!Channel,
         Register, Prompt!Register, Transfer, Prompt!Transfer,
         Beat, Prompt!Beat, Conf, Prompt!Conf
<1>2. RestPc \in 1..(Len(Rest(app).calls) + 1)
  BY SecondCall
<1> QED BY <1>1, <1>2 DEF TypeOK, Prompt!TypeOK

------------------------------------------------------------------------------
(***************************************************************************)
(* Types.                                                                  *)
(***************************************************************************)

\* Whichever process runs, a step is one of a session.
Whole == INSTANCE SlotSessionProofs WITH view <- <<>>, results <- <<>>

LEMMA WholeCpu == Cpu => Whole!Cpu
<1>1. /\ Call = Whole!Call /\ \A op : At(op) <=> Whole!At(op)
      /\ \A ch : Fields(ch) = Whole!Fields(ch)
  BY DEF Call, Whole!Call, At, Whole!At, Fields, Whole!Fields
<1>2. /\ \A ch : WriteDescriptor(ch) <=> Whole!WriteDescriptor(ch)
      /\ \A ch : WriteApcr(ch) <=> Whole!WriteApcr(ch)
      /\ \A ch : ReadDone(ch) <=> Whole!ReadDone(ch)
      /\ \A ch : ReadNotDone(ch) <=> Whole!ReadNotDone(ch)
  BY <1>1 DEF WriteDescriptor, Whole!WriteDescriptor, MayWriteDescriptor,
     Whole!MayWriteDescriptor, WriteApcr, Whole!WriteApcr, MayWriteApcr,
     Whole!MayWriteApcr, ReadDone, Whole!ReadDone, ReadNotDone, Whole!ReadNotDone,
     Return, Whole!Return, vars, Whole!vars
<1>3. Load => Whole!Load
  BY <1>1 DEF Load, Whole!Load, Raw, Whole!Raw, Return, Whole!Return
<1>4. StartAccel \/ Observe => Whole!StartAccel \/ Whole!Observe
  BY <1>1 DEF StartAccel, Whole!StartAccel, Observe, Whole!Observe, hwVars,
     Whole!hwVars, Return, Whole!Return
<1> QED BY <1>1, <1>2, <1>3, <1>4
  DEF Cpu, Whole!Cpu, DataToAccel, Whole!DataToAccel, DataFromAccel,
      Whole!DataFromAccel, DataToAccelDone, Whole!DataToAccelDone,
      DataFromAccelDone, Whole!DataFromAccelDone

LEMMA WholeHardware == Hardware => Whole!Hardware
BY DEF Hardware, Whole!Hardware, Begin, Whole!Begin, Finish, Whole!Finish,
       ConfigBeat, Whole!ConfigBeat, PayloadBeat, Whole!PayloadBeat,
       ResultBeat, Whole!ResultBeat, Advance, Whole!Advance,
       Channel, Whole!Channel, ReadBeat, Whole!ReadBeat, Raw, Whole!Raw,
       Processed, Whole!Processed, cpuVars, Whole!cpuVars

LEMMA StepTypeOK == TypeOK /\ (Cpu \/ Hardware) => TypeOK'
<1>1. TypeOK <=> Whole!TypeOK
  BY DEF TypeOK, Whole!TypeOK, HwTypeOK, Whole!HwTypeOK, Channel, Whole!Channel,
         Register, Whole!Register, Transfer, Whole!Transfer,
         Beat, Whole!Beat, Conf, Whole!Conf
<1>2. TypeOK' <=> Whole!TypeOK'
  BY <1>1, PTL
<1>3. \A w \in Workloads :
        /\ w.freeRunning \in BOOLEAN
        /\ Len(w.calls) \in Nat
        /\ \A i \in 1..Len(w.calls) : Whole!CallOK(w.calls[i])
  BY WorkloadsAssumption DEF CallOK, Whole!CallOK, CallOps, Whole!CallOps
<1>4. Whole!TypeOK /\ Whole!Cpu => Whole!TypeOK'
  BY <1>3, Whole!CpuTypeOK, HardwareAssumption, TimingAssumption
<1>5. Whole!TypeOK /\ Whole!Hardware => Whole!TypeOK'
  BY <1>3, Whole!HardwareTypeOK, HardwareAssumption, TimingAssumption
<1> QED BY <1>1, <1>2, <1>4, <1>5, WholeCpu, WholeHardware

------------------------------------------------------------------------------
(***************************************************************************)
(* The invariant.                                                          *)
(***************************************************************************)

\* The user kills and launches processes one after the other.
ProcessInv ==
  /\ TypeOK
  /\ process \in 0..2 /\ foundQuiet \in BOOLEAN
  /\ process = 0 => pc = app.second /\ stage = 1
  /\ process = 2 => SecondRuns

LEMMA ProcessStep ==
  ASSUME ProcessInv, [AbortedNext]_abortedVars
  PROVE  ProcessInv'
<1> USE DEF ProcessInv
<1>1. CASE Running
  <2>1. TypeOK'
    BY <1>1, StepTypeOK DEF Running
  <2>2. app' = app /\ (pc' = pc \/ pc' = pc + 1)
    BY <1>1 DEF Running, Cpu, DataToAccel, DataFromAccel, DataToAccelDone,
       DataFromAccelDone, StartAccel, Load, Observe, WriteDescriptor, WriteApcr,
       ReadDone, ReadNotDone, Return, vars
  <2>3. pc \in Nat /\ app.second \in Nat
    BY RestFacts DEF TypeOK
  <2> QED BY <1>1, <2>1, <2>2, <2>3 DEF Running, crashVars, SecondRuns
<1>2. CASE Hardware /\ UNCHANGED crashVars
  <2>1. TypeOK'
    BY <1>2, StepTypeOK
  <2> QED BY <1>2, <2>1 DEF crashVars, Hardware, cpuVars, SecondRuns
<1>3. CASE End
  <2>1. app.second \in 1..(Len(app.calls) + 1)
    BY RestFacts DEF TypeOK
  <2>2. TypeOK'
    BY <1>3, <2>1 DEF End, TypeOK, HwTypeOK
  <2> QED BY <1>3, <2>2 DEF End
<1>4. CASE Reload
  <2>1. reg' \in [Channel -> [Register -> Nat]] /\ run' \in [Channel -> Transfer]
        /\ conf' \in Conf /\ fifo' \in Seq(Beat)
    BY <1>4 DEF Reload, LoadModule, NoTransfer, Transfer, Conf
  <2>2. start' \in [Channel -> BOOLEAN] /\ done' \in [Channel -> BOOLEAN]
        /\ accelOn' \in BOOLEAN
    BY <1>4, WorkloadsAssumption DEF Reload, LoadModule, TypeOK
  <2>3. TypeOK'
    BY <1>4, <2>1, <2>2 DEF Reload, LoadModule, TypeOK, HwTypeOK
  <2> QED BY <1>4, <2>3 DEF Reload
<1>5. CASE Launch
  <2>1. mem' \in [Addr -> Beat]
    BY <1>5, HardwareAssumption DEF Launch, Raw, Beat
  <2>2. TypeOK'
    BY <1>5, <2>1 DEF Launch, TypeOK, HwTypeOK
  <2>3. pc >= app.second
    BY <1>5, RestFacts DEF Launch, TypeOK
  <2> QED BY <1>5, <2>2, <2>3 DEF Launch, Quiet, SecondRuns
<1>6. CASE UNCHANGED abortedVars \/ (Exited /\ UNCHANGED crashVars)
  BY <1>6 DEF abortedVars, Exited, vars, crashVars, TypeOK, HwTypeOK, SecondRuns
<1> QED BY <1>1, <1>2, <1>3, <1>4, <1>5, <1>6 DEF AbortedNext

LEMMA ProcessInvariant == AbortedSpec => []ProcessInv
<1>1. AbortedInit => ProcessInv
  <2> SUFFICES ASSUME AbortedInit PROVE ProcessInv
    OBVIOUS
  <2>1. Len(app.calls) \in Nat /\ app.freeRunning \in BOOLEAN
    BY WorkloadsAssumption DEF AbortedInit, Init
  <2>2. mem \in [Addr -> Beat]
    BY HardwareAssumption DEF AbortedInit, Init, HwInit, Raw, Beat
  <2>3. run \in [Channel -> Transfer]
    BY DEF AbortedInit, Init, HwInit, NoTransfer, Transfer
  <2>4. TypeOK
    BY <2>1, <2>2, <2>3 DEF AbortedInit, Init, HwInit, TypeOK, HwTypeOK, Conf
  <2>5. process = 1 /\ foundQuiet = FALSE
    BY DEF AbortedInit
  <2>6. process \in 0..2 /\ process # 0 /\ process # 2
    BY ONLY <2>5
  <2>7. foundQuiet \in BOOLEAN
    BY ONLY <2>5, Zenon
  <2> QED BY ONLY <2>4, <2>6, <2>7 DEF ProcessInv
<1>2. ProcessInv /\ [AbortedNext]_abortedVars => ProcessInv'
  BY ProcessStep
<1> QED BY <1>1, <1>2, PTL DEF AbortedSpec

------------------------------------------------------------------------------
(***************************************************************************)
(* The second process.                                                     *)
(***************************************************************************)

\* v lists the views the second process goes through.
InStep(v) ==
  /\ Second!Follows(Rest(app).calls, v)
  /\ Second!Disciplined(Rest(app).calls, v)
  /\ Second!Correct(Rest(app).calls, v)
  /\ Second!Completed = v[RestPc]

\* Whatever packets the module holds, the second process of w is right if its
\* calls are done one after the other.
SoundSecond(w) == \A f \in Conf : Second!SoundAfter(Rest(w).calls, f)

\* A process that found the slot quiet is in step with it.
SecondInv ==
  process = 2 /\ foundQuiet /\ SoundSecond(app)
    => Second!SlotInv /\ \E v : InStep(v)

LEMMA SecondLaunchInStep ==
  Second!LaunchState =>
    /\ Second!SlotInv
    /\ Second!Completed = [Second!Ordered!Fresh EXCEPT !.conf = conf]
BY Second!LaunchInStep, HardwareAssumption, TimingAssumption, SecondWorkloads

\* It is when it is launched.
LEMMA SecondLaunched ==
  ASSUME ProcessInv, ProcessInv', Launch
  PROVE  SecondInv'
<1> SUFFICES ASSUME foundQuiet', SoundSecond(app)'
             PROVE  Second!SlotInv' /\ \E v : InStep(v)'
  BY DEF SecondInv
<1>1. Second!TypeOK'
  <2>1. (TypeOK /\ SecondRuns => Second!TypeOK)'
    BY SecondType, PTL
  <2> QED BY <2>1 DEF ProcessInv, Launch
<1>2. /\ pc = app.second /\ stage = 1 /\ pc \in Nat
      /\ app \in Workloads /\ conf \in Conf /\ conf' = conf /\ app' = app
  BY RestFacts DEF ProcessInv, Launch, TypeOK, HwTypeOK
<1>3. RestPc' = 1 /\ stage' = 1
  BY <1>2 DEF Launch, RestPc
<1>4. Second!SlotQuiet'
  BY DEF Launch, Quiet, Second!SlotQuiet, Channel, Second!Channel
<1>5. mem' = [a \in Addr |-> Second!Raw(Junk)]
  BY DEF Launch, Raw, Second!Raw
<1>6. Second!LaunchState'
  BY ONLY <1>1, <1>3, <1>4, <1>5 DEF Second!LaunchState, Second!Raw
<1>7. (Second!LaunchState =>
         /\ Second!SlotInv
         /\ Second!Completed = [Second!Ordered!Fresh EXCEPT !.conf = conf])'
  BY SecondLaunchInStep, PTL
<1>8. PICK v :
        /\ v[1] = [Second!Ordered!Fresh EXCEPT !.conf = conf]
        /\ Second!Follows(Rest(app).calls, v)
        /\ Second!Disciplined(Rest(app).calls, v)
        /\ Second!Correct(Rest(app).calls, v)
  BY <1>2 DEF SoundSecond, Second!SoundAfter
<1>9. Second!SlotInv' /\ Second!Completed' = [Second!Ordered!Fresh EXCEPT !.conf = conf]
  BY <1>2, <1>6, <1>7
<1>10. InStep(v)'
  BY <1>2, <1>3, <1>8, <1>9 DEF InStep
<1> QED BY <1>9, <1>10

\* A process stays with its calls.
LEMMA SameApp ==
  ASSUME Cpu \/ Hardware \/ UNCHANGED vars
  PROVE  app' = app
BY DEF Cpu, DataToAccel, DataFromAccel, DataToAccelDone, DataFromAccelDone,
       StartAccel, Load, Observe, WriteDescriptor, WriteApcr, ReadDone,
       ReadNotDone, Return, vars, Hardware, Begin, Finish, ConfigBeat,
       PayloadBeat, ResultBeat, cpuVars

\* And it stays in step.
LEMMA SecondStep ==
  ASSUME SecondInv, ProcessInv, process = 2, foundQuiet, SoundSecond(app),
         Cpu \/ Hardware \/ UNCHANGED vars
  PROVE  Second!SlotInv' /\ \E v : InStep(v)'
<1>1. Second!SlotInv /\ TypeOK /\ SecondRuns
  BY DEF SecondInv, ProcessInv
<1>2. PICK v : InStep(v)
  BY DEF SecondInv
<1>3. [Second!Next]_(Second!vars)
  <2>1. UNCHANGED vars => UNCHANGED Second!vars
    BY DEF vars, Second!vars, RestPc
  <2> QED BY <1>1, <2>1, SecondCpu, SecondHardware DEF Second!Next
<1>4. Second!SlotInv' /\ Second!Completed' = v[RestPc'] /\ Rest(app)' = Rest(app)
  BY <1>1, <1>2, <1>3, Second!InStepKept, HardwareAssumption, TimingAssumption,
     SecondWorkloads DEF InStep
<1>5. InStep(v)'
  BY <1>2, <1>4 DEF InStep
<1> QED BY <1>4, <1>5

LEMMA SecondInvariant == AbortedSpec => [](ProcessInv /\ SecondInv)
<1>1. AbortedInit => SecondInv
  BY DEF AbortedInit, SecondInv
<1>2. ASSUME ProcessInv, ProcessInv', SecondInv, [AbortedNext]_abortedVars
      PROVE  SecondInv'
  <2>1. CASE Launch
    BY <1>2, <2>1, SecondLaunched DEF ProcessInv, TypeOK
  <2>2. CASE End \/ Reload
    BY <2>2 DEF End, Reload, SecondInv
  <2>3. CASE (Cpu \/ Hardware \/ UNCHANGED vars) /\ UNCHANGED crashVars
    <3>1. app' = app
      BY <2>3, SameApp
    <3> QED BY <1>2, <2>3, <3>1, SecondStep DEF SecondInv, crashVars, SoundSecond
  <2> QED BY <1>2, <2>1, <2>2, <2>3
          DEF AbortedNext, Running, Exited, abortedVars, vars, crashVars
<1>3. ProcessInv /\ ProcessInv' /\ SecondInv /\ [AbortedNext]_abortedVars => SecondInv'
  BY <1>2
<1> QED BY <1>1, <1>3, ProcessInvariant, PTL DEF AbortedSpec

------------------------------------------------------------------------------
(***************************************************************************)
(* The second process with movers that are in time.                        *)
(***************************************************************************)

\* The second process of w relies on the movers and is right if it may,
\* whatever the module and the buffer hold.  A packet that is reported before
\* it is all there, as the aes test does, it does not report.
SoundPrompt(w) ==
  /\ w.reliant
  /\ Prompt!SoundInTime(Rest(w).calls)
  /\ \A i \in 1..Len(Rest(w).calls) : Rest(w).calls[i].op # "Report"

\* A process that found the slot quiet is in step with it.
PromptInv == process = 2 /\ foundQuiet /\ SoundPrompt(app) => Prompt!InTimeSession

PromptReady ==
  /\ Prompt!Settled /\ Prompt!TypeOK
  /\ RestPc = 1 /\ stage = 1
  /\ Prompt!SoundInTime(Rest(app).calls)

LEMMA PromptLaunch == PromptReady => Prompt!InTimeSession
BY Prompt!SessionLaunch, HardwareAssumption, PromptWorkloads DEF PromptReady

\* It is when it is launched: what a killed process leaves of a quiet slot is
\* what one that has ended leaves.
LEMMA PromptLaunched ==
  ASSUME ProcessInv, ProcessInv', Launch
  PROVE  PromptInv'
<1> SUFFICES ASSUME foundQuiet', SoundPrompt(app)' PROVE Prompt!InTimeSession'
  BY DEF PromptInv
<1>1. Prompt!TypeOK'
  <2>1. (TypeOK /\ SecondRuns => Prompt!TypeOK)'
    BY PromptType, PTL
  <2> QED BY <2>1 DEF ProcessInv, Launch
<1>2. RestPc' = 1 /\ stage' = 1
  BY RestFacts DEF ProcessInv, Launch, TypeOK, RestPc
<1>3. Prompt!Settled'
  <2>1. "MM2S" \in Channel /\ "S2MM" \in Channel
    BY DEF Channel
  <2>2. Quiet'
    BY DEF Launch, Quiet
  <2> QED BY <2>1, <2>2 DEF Quiet, Prompt!Settled, Prompt!BusyStarted,
             Prompt!Drained, Prompt!ConfigPending, Prompt!PLeft, Channel,
             Prompt!Channel
<1>4. Prompt!SoundInTime(Rest(app).calls)'
  BY DEF SoundPrompt
<1>5. PromptReady'
  BY ONLY <1>1, <1>2, <1>3, <1>4 DEF PromptReady
<1>6. (PromptReady => Prompt!InTimeSession)'
  BY PromptLaunch, PTL
<1> QED BY <1>5, <1>6

\* And it stays in step, since it waits for the movers.
LEMMA PromptStep ==
  ASSUME PromptInv, ProcessInv, process = 2, foundQuiet, SoundPrompt(app),
         (Cpu /\ InTime) \/ Hardware \/ UNCHANGED vars
  PROVE  Prompt!InTimeSession'
<1>1. Prompt!InTimeSession /\ TypeOK /\ SecondRuns
  BY DEF PromptInv, ProcessInv
<1>2. [Prompt!Next]_(Prompt!vars)
  <2>1. UNCHANGED vars => UNCHANGED Prompt!vars
    BY DEF vars, Prompt!vars, RestPc
  <2> QED BY <1>1, <2>1, PromptCpu, PromptHardware DEF Prompt!Next
<1> QED BY <1>1, <1>2, Prompt!SessionInTimeStep, HardwareAssumption,
           PromptWorkloads

LEMMA PromptInvariant == AbortedSpec => [](ProcessInv /\ PromptInv)
<1>1. AbortedInit => PromptInv
  BY DEF AbortedInit, PromptInv
<1>2. ASSUME ProcessInv, ProcessInv', PromptInv, [AbortedNext]_abortedVars
      PROVE  PromptInv'
  <2>1. CASE Launch
    BY <1>2, <2>1, PromptLaunched
  <2>2. CASE End \/ Reload
    BY <2>2 DEF End, Reload, PromptInv
  <2>3. CASE /\ (Cpu /\ (app.reliant => InTime)) \/ Hardware \/ UNCHANGED vars
             /\ UNCHANGED crashVars
    <3>1. app' = app
      BY <2>3, SameApp
    <3>2. SoundPrompt(app)' => SoundPrompt(app)
      BY <3>1 DEF SoundPrompt
    <3>3. SUFFICES ASSUME (process = 2)', foundQuiet', SoundPrompt(app)'
                   PROVE  Prompt!InTimeSession'
      BY DEF PromptInv
    <3>4. process = 2 /\ foundQuiet /\ SoundPrompt(app) /\ app.reliant
      BY <2>3, <3>2, <3>3 DEF crashVars, SoundPrompt
    <3> QED BY <1>2, <2>3, <3>4, PromptStep
  <2> QED BY <1>2, <2>1, <2>2, <2>3
          DEF AbortedNext, Running, Exited, abortedVars, vars, crashVars
<1>3. ProcessInv /\ ProcessInv' /\ PromptInv /\ [AbortedNext]_abortedVars => PromptInv'
  BY <1>2
<1> QED BY <1>1, <1>3, ProcessInvariant, PTL DEF AbortedSpec

------------------------------------------------------------------------------
(***************************************************************************)
(* What follows.                                                           *)
(***************************************************************************)

\* A process that finds the slot quiet gets the results of its own key,
\* configuration and input, and reports no packet too early, wherever the
\* process before it was killed and whatever that one did: of the process
\* before it nothing is assumed.  One that relies on the movers being ready in
\* time is given no more than that.
THEOREM QuietSlotIsEnough ==
  ASSUME \A w \in Workloads : SoundSecond(w) \/ SoundPrompt(w)
  PROVE  AbortedSpec => []QuietSlotSuffices
<1>1. ASSUME ProcessInv, SecondInv, process = 2, foundQuiet, SoundSecond(app)
      PROVE  ResultsExact /\ ReportsTrue
  <2>1. Second!ResultsExact /\ Second!ReportsTrue
    BY <1>1, Second!InStepExact, HardwareAssumption, TimingAssumption,
       SecondWorkloads DEF SecondInv, InStep
  <2>2. /\ \A op : Second!At(op) <=> At(op)
        /\ \A op : At(op) => Second!Call = Call
    BY <1>1, SecondCall DEF ProcessInv, At
  <2> QED BY <2>1, <2>2 DEF ResultsExact, Second!ResultsExact, ReportsTrue,
          Second!ReportsTrue, ProcessedOnce, Second!ProcessedOnce
<1>2. ASSUME ProcessInv, PromptInv, process = 2, foundQuiet, SoundPrompt(app)
      PROVE  ResultsExact /\ ReportsTrue
  <2>1. Prompt!ResultsExact
    BY <1>2, Prompt!SessionExact, HardwareAssumption, PromptWorkloads
       DEF PromptInv
  <2>2. /\ \A op : Second!At(op) <=> At(op)
        /\ \A op : At(op) => Second!Call = Call
    BY <1>2, SecondCall DEF ProcessInv, At
  <2>3. /\ \A op : Prompt!At(op) <=> At(op)
        /\ \A op : At(op) => Prompt!Call = Call
    BY <2>2 DEF Prompt!At, Second!At, Prompt!Call, Second!Call
  <2>4. ResultsExact
    BY <2>1, <2>3 DEF ResultsExact, Prompt!ResultsExact, ProcessedOnce,
       Prompt!ProcessedOnce
  <2>5. ~Prompt!At("Report")
    BY <1>2 DEF SoundPrompt, Prompt!At, Prompt!Call
  <2>6. ReportsTrue
    BY <2>3, <2>5 DEF ReportsTrue
  <2> QED BY <2>4, <2>6
<1>3. ProcessInv /\ SecondInv /\ PromptInv => QuietSlotSuffices
  BY <1>1, <1>2 DEF QuietSlotSuffices, ProcessInv, TypeOK
<1> QED BY <1>3, SecondInvariant, PromptInvariant, PTL

\* And one that relies on nothing never takes a request or a done bit for its
\* own that is not.
THEOREM QuietSlotHandshaked ==
  ASSUME \A w \in Workloads : w.reliant \/ SoundSecond(w)
  PROVE  AbortedSpec => []QuietSlotHandshakes
<1>1. ASSUME ProcessInv, SecondInv, process = 2, foundQuiet, ~app.reliant
      PROVE  NoLostStart /\ DoneIsFresh
  <2>0. SoundSecond(app)
    BY <1>1 DEF ProcessInv, TypeOK
  <2>1. Second!NoLostStart /\ Second!DoneIsFresh
    BY <1>1, <2>0, Second!HandshakeGives, HardwareAssumption, TimingAssumption,
       SecondWorkloads DEF SecondInv, InStep, Second!SlotInv, Second!Disciplined
  <2>2. \A op : Second!At(op) <=> At(op)
    BY <1>1, SecondCall DEF ProcessInv
  <2>3. /\ Channel = Second!Channel
        /\ \A ch : /\ StartOp(ch) = Second!StartOp(ch)
                   /\ AwaitOp(ch) = Second!AwaitOp(ch)
                   /\ Fields(ch) = Second!Fields(ch)
    BY DEF Channel, Second!Channel, StartOp, Second!StartOp, AwaitOp,
           Second!AwaitOp, Fields, Second!Fields
  <2>4. NoLostStart
    BY ONLY <2>1, <2>2, <2>3 DEF NoLostStart, Second!NoLostStart
  <2>5. DoneIsFresh
    BY ONLY <2>1, <2>2, <2>3 DEF DoneIsFresh, Second!DoneIsFresh
  <2> QED BY <2>4, <2>5
<1>2. ProcessInv /\ SecondInv => QuietSlotHandshakes
  BY <1>1 DEF QuietSlotHandshakes
<1> QED BY <1>2, SecondInvariant, PTL

\* The second process of w is fir or fft with files that fit.
SecondFits(w) == Second!FitsItsSlot(Rest(w).calls)

LEMMA SecondFitsIsSound ==
  ASSUME NEW w, SecondFits(w)
  PROVE  SoundSecond(w)
<1>1. Conf = Second!Conf
  BY DEF Conf, Second!Conf
<1> QED BY <1>1, Second!FitsIsSoundAfter, HardwareAssumption, TimingAssumption,
           SecondWorkloads DEF SecondFits, SoundSecond

\* The second process of w is an application or a cell whose data fit, on
\* movers that are ready in time, and it reports no packet.
PromptFits(w) ==
  /\ w.reliant
  /\ Prompt!Session(Rest(w).calls)
  /\ \A i \in 1..Len(Rest(w).calls) : Rest(w).calls[i].op # "Report"

LEMMA PromptFitsIsSound ==
  ASSUME NEW w, PromptFits(w)
  PROVE  SoundPrompt(w)
BY Prompt!SessionInTime, HardwareAssumption, PromptWorkloads
   DEF PromptFits, SoundPrompt

\* fir and fft are such processes: launched on a quiet slot they write the
\* file their input asks for.  So are the aes programs with a key file, and
\* the notebook's cells, where the movers are ready in time.
THEOREM SecondSessionResultsExact ==
  ASSUME \A w \in Workloads : SecondFits(w) \/ PromptFits(w)
  PROVE  AbortedSpec => []QuietSlotSuffices
BY SecondFitsIsSound, PromptFitsIsSound, QuietSlotIsEnough

\* And the polls of fir and fft are answered by their own transfers.
THEOREM SecondSessionHandshakes ==
  ASSUME \A w \in Workloads : w.reliant \/ SecondFits(w)
  PROVE  AbortedSpec => []QuietSlotHandshakes
BY SecondFitsIsSound, QuietSlotHandshaked

==============================================================================
