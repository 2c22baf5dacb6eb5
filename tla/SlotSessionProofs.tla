-------------------------- MODULE SlotSessionProofs --------------------------
(***************************************************************************)
(* Theorems about sessions on a slot, for every buffer, every FIFO depth   *)
(* and every set of workloads, and about the sessions of the applications  *)
(* and the notebook cells, whatever their offsets, their data and the      *)
(* lengths of their packets and inputs.                                    *)
(*                                                                         *)
(* Three kinds of program are told apart.  One that awaits each mover      *)
(* before it starts it again is safe at any relative speed of CPU and      *)
(* hardware.  One that also awaits its transfers before it touches the     *)
(* buffer implements OrderedCalls.  And one that does neither, but whose   *)
(* movers are ready in time, still gets the results of its own input.      *)
(*                                                                         *)
(* On a slot that was loaded for them, fir and fft are of the first two    *)
(* kinds.  On a slot that is used again, and for aes and the cells on any  *)
(* slot, the movers have to be ready in time.                              *)
(***************************************************************************)
EXTENDS ObservedSession, SequenceTheorems, TLAPS

\* The places of data in the buffer.
CONSTANTS FIR_RELOAD, FIR_CONFIG, FIR_INPUT, FIR_RESULT,
          FFT_CONFIG, FFT_DATA_IN, FFT_RESULT,
          AES_DKB, AES_EKB, AES_EB, AES_DB, AES_RESULT

FIR == INSTANCE FIRApp WITH
  RELOAD_OFFSET_MEM <- FIR_RELOAD, CONFIG_OFFSET_MEM <- FIR_CONFIG,
  INPUT_OFFSET_MEM <- FIR_INPUT, RESULT_OFFSET_MEM <- FIR_RESULT

FFT == INSTANCE FFTApp WITH
  CONFIG_OFFSET_MEM <- FFT_CONFIG, FFT_DATA_IN_OFFSET_MEM <- FFT_DATA_IN,
  RESULT_OFFSET_MEM <- FFT_RESULT

AES == INSTANCE AESApp WITH
  DKB_OFFSET_MEM <- AES_DKB, EKB_OFFSET_MEM <- AES_EKB,
  EB_OFFSET_MEM <- AES_EB, DB_OFFSET_MEM <- AES_DB,
  RESULT_OFFSET_MEM <- AES_RESULT

Notebook == INSTANCE NotebookApp

------------------------------------------------------------------------------
(***************************************************************************)
(* Type correctness.                                                       *)
(***************************************************************************)

\* Each start call writes two or three descriptor registers.
LEMMA FieldsFacts ==
  /\ Len(Fields("MM2S")) = 3
  /\ Len(Fields("S2MM")) = 2
  /\ \A ch \in Channel :
       /\ Len(Fields(ch)) \in 1..3
       /\ \A i \in 1..Len(Fields(ch)) : Fields(ch)[i] \in Register
BY DEF Fields, Channel, Register

\* The call the CPU is executing is one of the calls of its workload.
LEMMA CallFacts ==
  ASSUME TypeOK, NEW op \in CallOps, At(op)
  PROVE  /\ pc \in 1..Len(app.calls)
         /\ CallOK(Call)
         /\ Call.op = op
         /\ pc + 1 \in 1..(Len(app.calls) + 1)
<1>1. Len(app.calls) \in Nat /\ \A i \in 1..Len(app.calls) : CallOK(app.calls[i])
  BY WorkloadsAssumption DEF TypeOK
<1> QED
  BY <1>1 DEF TypeOK, At, Call

\* The value written to a descriptor register is a natural number.
LEMMA FieldValues ==
  ASSUME TypeOK, NEW ch \in Channel, At(StartOp(ch)),
         NEW i \in 1..Len(Fields(ch))
  PROVE  Call[Fields(ch)[i]] \in Nat
<1>1. CASE ch = "MM2S"
  BY <1>1, CallFacts DEF StartOp, CallOps, CallOK, Fields
<1>2. CASE ch = "S2MM"
  BY <1>2, CallFacts DEF StartOp, CallOps, CallOK, Fields
<1> QED
  BY <1>1, <1>2 DEF Channel


\* A beat read from the buffer, or from beyond it, is a beat.
LEMMA ReadBeatType ==
  ASSUME TypeOK, NEW a
  PROVE  ReadBeat(a) \in Beat
<1>1. Raw(Junk) \in Beat
  BY HardwareAssumption DEF Raw, Beat
<1> QED
  BY <1>1 DEF TypeOK, HwTypeOK, ReadBeat

\* Processing a beat gives a beat.
LEMMA ProcessedType ==
  ASSUME NEW b \in Beat, conf \in Conf
  PROVE  Processed(b) \in Beat
BY DEF Beat, Processed

\* A step of the movers or of the module keeps every variable in its type.
LEMMA HardwareTypeOK ==
  ASSUME TypeOK, Hardware
  PROVE  TypeOK'
<1> USE DEF TypeOK, HwTypeOK
<1>1. ASSUME NEW ch \in Channel, Begin(ch), UNCHANGED cpuVars
      PROVE  TypeOK'
  <2>1. run' \in [Channel -> Transfer]
    BY <1>1 DEF Begin, Transfer, Register
  <2>2. conf' \in Conf
    BY <1>1 DEF Begin, Conf
  <2> QED
    BY <1>1, <2>1, <2>2 DEF Begin, cpuVars
<1>2. ASSUME NEW ch \in Channel, Finish(ch), UNCHANGED cpuVars
      PROVE  TypeOK'
  <2>1. run' \in [Channel -> Transfer]
    BY <1>2 DEF Finish, Transfer
  <2> QED
    BY <1>2, <2>1 DEF Finish, cpuVars
<1>3. ASSUME NEW ch \in Channel, run[ch].left > 0, Advance(ch)
      PROVE  run' \in [Channel -> Transfer]
  BY <1>3 DEF Advance, Transfer
<1>4. ASSUME ConfigBeat, UNCHANGED cpuVars
      PROVE  TypeOK'
  <2>1. run' \in [Channel -> Transfer]
    BY <1>3, <1>4 DEF ConfigBeat, Channel
  <2>2. ReadBeat(run["MM2S"].addr).data \in Data
    BY ReadBeatType DEF Beat
  <2>3. conf' \in Conf
    BY <1>4, <2>2 DEF ConfigBeat, Conf
  <2> QED
    BY <1>4, <2>1, <2>3 DEF ConfigBeat, cpuVars
<1>5. ASSUME PayloadBeat, UNCHANGED cpuVars
      PROVE  TypeOK'
  <2>1. run' \in [Channel -> Transfer]
    BY <1>3, <1>5 DEF PayloadBeat, Channel
  <2>2. Processed(ReadBeat(run["MM2S"].addr)) \in Beat
    BY ReadBeatType, ProcessedType
  <2>3. fifo' \in Seq(Beat)
    BY <1>5, <2>2 DEF PayloadBeat
  <2> QED
    BY <1>5, <2>1, <2>3 DEF PayloadBeat, cpuVars
<1>6. ASSUME ResultBeat, UNCHANGED cpuVars
      PROVE  TypeOK'
  <2>1. run' \in [Channel -> Transfer]
    BY <1>3, <1>6 DEF ResultBeat, Channel
  <2>2. Head(fifo) \in Beat /\ Tail(fifo) \in Seq(Beat)
    BY <1>6 DEF ResultBeat
  <2> QED
    BY <1>6, <2>1, <2>2 DEF ResultBeat, cpuVars
<1> QED
  BY <1>1, <1>2, <1>4, <1>5, <1>6 DEF Hardware

\* After a descriptor register comes another one or APCR.
LEMMA NextStage ==
  ASSUME NEW ch \in Channel, NEW s \in 1..Len(Fields(ch))
  PROVE  s + 1 \in 1..4
<1>1. \A n \in 1..3 : s \in 1..n => s + 1 \in 1..4
  OBVIOUS
<1> QED
  BY <1>1, FieldsFacts

\* A call that returns leaves pc and stage in their types.
LEMMA ReturnType ==
  ASSUME TypeOK, NEW op \in CallOps, At(op), Return
  PROVE  /\ app' \in Workloads
         /\ pc' \in 1..(Len(app'.calls) + 1)
         /\ stage' \in 1..4
BY CallFacts DEF Return, TypeOK

\* A register access or a copy by the program keeps every variable in its
\* type.
LEMMA CpuTypeOK ==
  ASSUME TypeOK, Cpu
  PROVE  TypeOK'
<1> USE DEF TypeOK, HwTypeOK
<1>1. ASSUME NEW ch \in Channel, At(StartOp(ch)), WriteDescriptor(ch)
      PROVE  TypeOK'
  <2>1. stage \in 1..Len(Fields(ch))
    BY <1>1, FieldsFacts DEF WriteDescriptor
  <2>2. reg' \in [Channel -> [Register -> Nat]]
    BY <1>1, <2>1, FieldsFacts, FieldValues DEF WriteDescriptor
  <2>3. stage' \in 1..4
    BY <1>1, <2>1, NextStage DEF WriteDescriptor
  <2> QED
    BY <1>1, <2>2, <2>3 DEF WriteDescriptor
<1>2. ASSUME NEW ch \in Channel, At(StartOp(ch)), WriteApcr(ch)
      PROVE  TypeOK'
  <2>1. StartOp(ch) \in CallOps
    BY DEF StartOp, CallOps
  <2> QED
    BY <1>2, <2>1, ReturnType DEF WriteApcr
<1>3. ASSUME NEW ch \in Channel, At(AwaitOp(ch)), ReadDone(ch) \/ ReadNotDone(ch)
      PROVE  TypeOK'
  <2>1. AwaitOp(ch) \in CallOps
    BY DEF AwaitOp, CallOps
  <2>2. CASE ReadDone(ch)
    BY <1>3, <2>1, <2>2, ReturnType DEF ReadDone
  <2>3. CASE ReadNotDone(ch)
    BY <2>3 DEF ReadNotDone, vars
  <2> QED
    BY <1>3, <2>2, <2>3
<1>4. ASSUME StartAccel
      PROVE  TypeOK'
  BY <1>4, ReturnType DEF StartAccel, CallOps
<1>5. ASSUME Load
      PROVE  TypeOK'
  <2>1. \A a \in DOMAIN Call.image : Call.image[a] \in Data
    BY <1>5, CallFacts DEF Load, CallOps, CallOK
  <2>2. ASSUME NEW a \in Addr
        PROVE  (IF a \in DOMAIN Call.image THEN Raw(Call.image[a])
                ELSE IF Call.fresh THEN Raw(Junk) ELSE mem[a]) \in Beat
    BY <2>1, HardwareAssumption DEF Raw, Beat
  <2>3. mem' \in [Addr -> Beat]
    BY <1>5, <2>2 DEF Load
  <2> QED
    BY <1>5, <2>3, ReturnType DEF Load, CallOps
<1>6. ASSUME Observe
      PROVE  TypeOK'
  BY <1>6, ReturnType DEF Observe, CallOps, hwVars
<1>7. Channel = {"MM2S", "S2MM"}
  BY DEF Channel
<1>8. CASE DataToAccel
  BY <1>1, <1>2, <1>7, <1>8 DEF DataToAccel, StartOp
<1>9. CASE DataFromAccel
  BY <1>1, <1>2, <1>7, <1>9 DEF DataFromAccel, StartOp
<1>10. CASE DataToAccelDone
  BY <1>3, <1>7, <1>10 DEF DataToAccelDone, AwaitOp
<1>11. CASE DataFromAccelDone
  BY <1>3, <1>7, <1>11 DEF DataFromAccelDone, AwaitOp
<1> QED
  BY <1>4, <1>5, <1>6, <1>8, <1>9, <1>10, <1>11 DEF Cpu

\* Every variable keeps its type, whatever the application calls and however
\* the CPU and the hardware interleave.
THEOREM TypeCorrect == Spec => []TypeOK
<1>1. Init => TypeOK
  <2> SUFFICES ASSUME Init PROVE TypeOK
    OBVIOUS
  <2>1. Len(app.calls) \in Nat /\ app.freeRunning \in BOOLEAN
    BY WorkloadsAssumption DEF Init
  <2>2. mem \in [Addr -> Beat]
    BY HardwareAssumption DEF Init, HwInit, Raw, Beat
  <2>3. run \in [Channel -> Transfer]
    BY DEF Init, HwInit, NoTransfer, Transfer
  <2> QED
    BY <2>1, <2>2, <2>3 DEF Init, HwInit, TypeOK, HwTypeOK, Conf
<1>2. TypeOK /\ [Next]_vars => TypeOK'
  <2> SUFFICES ASSUME TypeOK, [Next]_vars PROVE TypeOK'
    OBVIOUS
  <2>1. CASE Cpu
    BY <2>1, CpuTypeOK
  <2>2. CASE Hardware
    BY <2>2, HardwareTypeOK
  <2>3. CASE UNCHANGED vars
    BY <2>3 DEF vars, TypeOK, HwTypeOK
  <2> QED
    BY <2>1, <2>2, <2>3 DEF Next, Exited
<1> QED
  BY <1>1, <1>2, PTL DEF Spec

------------------------------------------------------------------------------
(***************************************************************************)
(* The handshake.  For workloads that follow the discipline, the two bits  *)
(* of a mover and the position of the CPU determine each other: nothing    *)
(* outstanding, both bits clear; something outstanding, exactly one set.   *)
(***************************************************************************)
ChannelInv(ch) ==
  /\ ~Outstanding(app.calls, pc, ch) => ~start[ch] /\ ~done[ch]
  /\ Outstanding(app.calls, pc, ch) => (start[ch] <=> ~done[ch])
  /\ run[ch].busy => start[ch]

HandshakeInv == \A ch \in Channel : ChannelInv(ch)

\* What it takes of a program on one mover.
HandshakedOn(c, ch) ==
  \A p \in 1..Len(c) :
    /\ c[p].op = StartOp(ch) => ~Outstanding(c, p, ch)
    /\ c[p].op = AwaitOp(ch) => Outstanding(c, p, ch)

\* How one call changes what is outstanding.
LEMMA OutstandingStep ==
  ASSUME NEW c, NEW p \in Nat \ {0}, NEW ch \in Channel
  PROVE  Outstanding(c, p + 1, ch) <=>
           \/ c[p].op = StartOp(ch)
           \/ Outstanding(c, p, ch) /\ c[p].op # AwaitOp(ch)
<1>1. 1..((p + 1) - 1) = 1..(p - 1) \cup {p}
  OBVIOUS
<1>2. ASSUME NEW i \in 1..(p - 1)
      PROVE  (i + 1)..((p + 1) - 1) = (i + 1)..(p - 1) \cup {p}
  OBVIOUS
<1>3. (p + 1)..((p + 1) - 1) = {}
  OBVIOUS
<1> QED
  BY <1>1, <1>2, <1>3 DEF Outstanding

\* No mover is both started and awaited by one call, and no call starts or
\* awaits two movers.
LEMMA OpsDiffer ==
  /\ \A ch1, ch2 \in Channel : StartOp(ch1) # AwaitOp(ch2)
  /\ \A ch1, ch2 \in Channel : ch1 # ch2 =>
       StartOp(ch1) # StartOp(ch2) /\ AwaitOp(ch1) # AwaitOp(ch2)
BY DEF StartOp, AwaitOp, Channel

\* How a returning call changes what is outstanding in the workload.
LEMMA CallStep ==
  ASSUME TypeOK, NEW ch \in Channel, NEW op \in CallOps, At(op), Return
  PROVE  Outstanding(app.calls, pc, ch)' <=>
           \/ op = StartOp(ch)
           \/ Outstanding(app.calls, pc, ch) /\ op # AwaitOp(ch)
<1>1. pc \in Nat \ {0} /\ app.calls[pc].op = op
  BY CallFacts DEF Call
<1>2. Outstanding(app.calls, pc, ch)' <=> Outstanding(app.calls, pc + 1, ch)
  BY DEF Return
<1> QED
  BY <1>1, <1>2, OutstandingStep

\* A mover that begins, advances or finishes stays in step with what the
\* program has outstanding on it.
LEMMA HardwareKeepsChannel ==
  ASSUME TypeOK, NEW ch \in Channel, ChannelInv(ch), Hardware
  PROVE  ChannelInv(ch)'
<1>1. ChannelInv(ch)
  OBVIOUS
<1>2. Outstanding(app.calls, pc, ch)' <=> Outstanding(app.calls, pc, ch)
  BY DEF Hardware, cpuVars
<1>3. ASSUME NEW other \in Channel, Begin(other)
      PROVE  ChannelInv(ch)'
  <2>1. run[ch].busy' => start[ch]
    BY <1>1, <1>3 DEF Begin, ChannelInv, TypeOK, HwTypeOK
  <2> QED
    BY <1>1, <1>2, <1>3, <2>1 DEF Begin, ChannelInv
<1>4. ASSUME NEW other \in Channel, Finish(other)
      PROVE  ChannelInv(ch)'
  <2>1. CASE other = ch
    <3>1. start[ch] /\ Outstanding(app.calls, pc, ch)
      BY <1>1, <1>4, <2>1 DEF Finish, ChannelInv
    <3>2. ~start'[ch] /\ done'[ch] /\ ~run'[ch].busy
      BY <1>4, <2>1 DEF Finish, TypeOK, HwTypeOK, Transfer
    <3> QED
      BY <1>2, <3>1, <3>2 DEF ChannelInv
  <2>2. CASE other # ch
    BY <1>1, <1>2, <1>4, <2>2 DEF Finish, ChannelInv, TypeOK, HwTypeOK
  <2> QED
    BY <2>1, <2>2
<1>5. ASSUME ConfigBeat \/ PayloadBeat \/ ResultBeat
      PROVE  ChannelInv(ch)'
  <2>1. run[ch].busy' <=> run[ch].busy
    <3>1. PICK mover \in Channel : run[mover].busy /\ Advance(mover)
      BY <1>5 DEF ConfigBeat, PayloadBeat, ResultBeat, Channel
    <3> QED
      BY <3>1 DEF Advance, TypeOK, HwTypeOK, Transfer
  <2>2. UNCHANGED <<start, done>>
    BY <1>5 DEF ConfigBeat, PayloadBeat, ResultBeat
  <2> QED
    BY <1>1, <1>2, <2>1, <2>2 DEF ChannelInv
<1> QED
  BY <1>3, <1>4, <1>5 DEF Hardware

LEMMA HardwareKeepsHandshake ==
  ASSUME TypeOK, HandshakeInv, Hardware
  PROVE  HandshakeInv'
BY HardwareKeepsChannel DEF HandshakeInv

\* So does a call of a program that follows the discipline on that mover.
LEMMA CpuKeepsChannel ==
  ASSUME TypeOK, NEW ch \in Channel, HandshakedOn(app.calls, ch),
         ChannelInv(ch), Cpu
  PROVE  ChannelInv(ch)'
<1> USE DEF TypeOK, HwTypeOK
<1>1. ChannelInv(ch)
  OBVIOUS
<1>2. ASSUME NEW other \in Channel, At(StartOp(other)), WriteDescriptor(other)
      PROVE  ChannelInv(ch)'
  BY <1>1, <1>2 DEF WriteDescriptor, ChannelInv
<1>3. ASSUME NEW other \in Channel, At(StartOp(other)), WriteApcr(other)
      PROVE  ChannelInv(ch)'
  <2>0. StartOp(other) \in CallOps
    BY DEF StartOp, CallOps
  <2>1. CASE other = ch
    <3>1. pc \in 1..Len(app.calls) /\ app.calls[pc].op = StartOp(ch)
      BY <1>3, <2>1, CallFacts, <2>0 DEF Call
    <3>2. ~Outstanding(app.calls, pc, ch)
      BY <3>1 DEF HandshakedOn
    <3>3. Outstanding(app.calls, pc, ch)'
      BY <1>3, <2>0, <2>1, CallStep DEF WriteApcr
    <3>4. start'[ch] /\ ~done'[ch]
      BY <1>1, <1>3, <2>1, <3>2 DEF WriteApcr, ChannelInv
    <3> QED
      BY <3>3, <3>4 DEF ChannelInv
  <2>2. CASE other # ch
    <3>1. Outstanding(app.calls, pc, ch)' <=> Outstanding(app.calls, pc, ch)
      BY <1>3, <2>0, <2>2, CallStep, OpsDiffer DEF WriteApcr
    <3> QED
      BY <1>1, <1>3, <2>2, <3>1 DEF WriteApcr, ChannelInv
  <2> QED
    BY <2>1, <2>2
<1>4. ASSUME NEW other \in Channel, At(AwaitOp(other)), ReadDone(other)
      PROVE  ChannelInv(ch)'
  <2>0. AwaitOp(other) \in CallOps
    BY DEF AwaitOp, CallOps
  <2>1. CASE other = ch
    <3>1. pc \in 1..Len(app.calls) /\ app.calls[pc].op = AwaitOp(ch)
      BY <1>4, <2>1, CallFacts, <2>0 DEF Call
    <3>2. Outstanding(app.calls, pc, ch)
      BY <3>1 DEF HandshakedOn
    <3>3. ~Outstanding(app.calls, pc, ch)'
      BY <1>4, <2>0, <2>1, CallStep, OpsDiffer DEF ReadDone
    <3>4. ~start'[ch] /\ ~done'[ch]
      BY <1>1, <1>4, <2>1, <3>2 DEF ReadDone, ChannelInv
    <3>5. run'[ch].busy => start'[ch]
      BY <1>1, <1>4 DEF ReadDone, ChannelInv
    <3> QED
      BY <3>3, <3>4, <3>5 DEF ChannelInv
  <2>2. CASE other # ch
    <3>1. Outstanding(app.calls, pc, ch)' <=> Outstanding(app.calls, pc, ch)
      BY <1>4, <2>0, <2>2, CallStep, OpsDiffer DEF ReadDone
    <3> QED
      BY <1>1, <1>4, <2>2, <3>1 DEF ReadDone, ChannelInv
  <2> QED
    BY <2>1, <2>2
<1>5. ASSUME StartAccel \/ Load \/ Observe
      PROVE  ChannelInv(ch)'
  <2>1. PICK op \in {"StartAccel", "Load", "Report", "Collect"} : At(op)
    BY <1>5 DEF StartAccel, Load, Observe
  <2>2. Return /\ UNCHANGED <<start, done, run>>
    BY <1>5 DEF StartAccel, Load, Observe, hwVars
  <2>3. op \in CallOps /\ op # StartOp(ch) /\ op # AwaitOp(ch)
    BY DEF CallOps, StartOp, AwaitOp
  <2>4. Outstanding(app.calls, pc, ch)' <=> Outstanding(app.calls, pc, ch)
    BY <2>1, <2>2, <2>3, CallStep
  <2> QED
    BY <1>1, <2>2, <2>4 DEF ChannelInv
<1>6. ASSUME NEW other \in Channel, ReadNotDone(other)
      PROVE  ChannelInv(ch)'
  BY <1>1, <1>6 DEF ReadNotDone, vars, ChannelInv
<1>7. "MM2S" \in Channel /\ "S2MM" \in Channel
  BY DEF Channel
<1>8. CASE DataToAccel
  BY <1>2, <1>3, <1>7, <1>8 DEF DataToAccel, StartOp
<1>9. CASE DataFromAccel
  BY <1>2, <1>3, <1>7, <1>9 DEF DataFromAccel, StartOp
<1>10. CASE DataToAccelDone
  BY <1>4, <1>6, <1>7, <1>10 DEF DataToAccelDone, AwaitOp
<1>11. CASE DataFromAccelDone
  BY <1>4, <1>6, <1>7, <1>11 DEF DataFromAccelDone, AwaitOp
<1> QED
  BY <1>5, <1>8, <1>9, <1>10, <1>11 DEF Cpu

LEMMA CpuKeepsHandshake ==
  ASSUME TypeOK, Handshaked(app.calls), HandshakeInv, Cpu
  PROVE  HandshakeInv'
<1>1. \A ch \in Channel : HandshakedOn(app.calls, ch)
  BY DEF Handshaked, HandshakedOn
<1> QED BY <1>1, CpuKeepsChannel DEF HandshakeInv

\* The invariant holds initially, and every step keeps it.
LEMMA HandshakeInductive ==
  ASSUME \A w \in Workloads : Handshaked(w.calls)
  PROVE  Spec => []HandshakeInv
<1>1. Init => HandshakeInv
  <2> SUFFICES ASSUME Init, NEW ch \in Channel PROVE ChannelInv(ch)
    BY DEF HandshakeInv
  <2>1. ~Outstanding(app.calls, pc, ch)
    BY DEF Init, Outstanding
  <2> QED
    BY <2>1 DEF Init, HwInit, ChannelInv, NoTransfer
<1>2. TypeOK /\ HandshakeInv /\ [Next]_vars => HandshakeInv'
  <2> SUFFICES ASSUME TypeOK, HandshakeInv, [Next]_vars PROVE HandshakeInv'
    OBVIOUS
  <2>1. CASE Cpu
    BY <2>1, CpuKeepsHandshake DEF TypeOK
  <2>2. CASE Hardware
    BY <2>2, HardwareKeepsHandshake
  <2>3. CASE UNCHANGED vars
    BY <2>3 DEF vars, HandshakeInv, ChannelInv
  <2> QED
    BY <2>1, <2>2, <2>3 DEF Next, Exited
<1> QED
  BY <1>1, <1>2, TypeCorrect, PTL DEF Spec

\* What the invariant says of the calls of a disciplined program.
LEMMA HandshakeGives ==
  ASSUME TypeOK, HandshakeInv, Handshaked(app.calls)
  PROVE  NoLostStart /\ DoneIsFresh
<1>1. \A ch \in Channel : StartOp(ch) \in CallOps /\ AwaitOp(ch) \in CallOps
  BY DEF StartOp, AwaitOp, CallOps
<1>2. ASSUME NEW ch \in Channel, At(StartOp(ch))
      PROVE  ~start[ch]
  <2>1. pc \in 1..Len(app.calls) /\ app.calls[pc].op = StartOp(ch)
    BY <1>1, <1>2, CallFacts DEF Call
  <2>2. ~Outstanding(app.calls, pc, ch)
    BY <2>1 DEF Handshaked
  <2> QED BY <2>2 DEF HandshakeInv, ChannelInv
<1>3. ASSUME NEW ch \in Channel, At(AwaitOp(ch)), done[ch]
      PROVE  ~start[ch] /\ ~run[ch].busy
  <2>1. pc \in 1..Len(app.calls) /\ app.calls[pc].op = AwaitOp(ch)
    BY <1>1, <1>3, CallFacts DEF Call
  <2>2. Outstanding(app.calls, pc, ch)
    BY <2>1 DEF Handshaked
  <2> QED BY <1>3, <2>2 DEF HandshakeInv, ChannelInv
<1> QED BY <1>2, <1>3 DEF NoLostStart, DoneIsFresh

\* An application that follows the discipline never loses a request, with any
\* timing: DataToAccel and DataFromAccel find the start bit clear.
THEOREM HandshakedNoLostStart ==
  ASSUME \A w \in Workloads : Handshaked(w.calls)
  PROVE  Spec => []NoLostStart
<1>1. TypeOK /\ HandshakeInv => NoLostStart
  BY HandshakeGives DEF TypeOK
<1> QED
  BY <1>1, TypeCorrect, HandshakeInductive, PTL

\* In such an application every DataToAccelDone and DataFromAccelDone that
\* returns has seen the end of the latest transfer, not of an earlier one.
THEOREM HandshakedDoneIsFresh ==
  ASSUME \A w \in Workloads : Handshaked(w.calls)
  PROVE  Spec => []DoneIsFresh
<1>1. TypeOK /\ HandshakeInv => DoneIsFresh
  BY HandshakeGives DEF TypeOK
<1> QED
  BY <1>1, TypeCorrect, HandshakeInductive, PTL

\* In such an application no descriptor register of a mover changes from the
\* write of its start bit to the end of the transfer.
THEOREM HandshakedDescriptorStable ==
  ASSUME \A w \in Workloads : Handshaked(w.calls)
  PROVE  Spec => DescriptorStable
<1> DEFINE Kept == \A ch \in Channel : start[ch] /\ start'[ch] => reg'[ch] = reg[ch]
<1>1. TypeOK /\ HandshakeInv /\ [Next]_vars => [Kept]_vars
  <2> SUFFICES ASSUME TypeOK, HandshakeInv, Next, NEW ch \in Channel, start[ch]
               PROVE  reg'[ch] = reg[ch]
    OBVIOUS
  <2>1. ASSUME At(StartOp(ch))
        PROVE  FALSE
    <3>1. StartOp(ch) \in CallOps
      BY DEF StartOp, CallOps
    <3>2. pc \in 1..Len(app.calls) /\ app.calls[pc].op = StartOp(ch)
      BY <2>1, <3>1, CallFacts DEF Call
    <3> QED
      BY <3>2 DEF TypeOK, Handshaked, HandshakeInv, ChannelInv
  <2>2. ASSUME NEW other \in Channel, At(StartOp(other)), WriteDescriptor(other)
        PROVE  reg'[ch] = reg[ch]
    <3>1. other # ch
      BY <2>1, <2>2
    <3> QED
      BY <2>2, <3>1 DEF WriteDescriptor, TypeOK, HwTypeOK
  <2>3. CASE DataToAccel
    BY <2>2, <2>3 DEF DataToAccel, StartOp, Channel, WriteApcr
  <2>4. CASE DataFromAccel
    BY <2>2, <2>4 DEF DataFromAccel, StartOp, Channel, WriteApcr
  <2>5. CASE DataToAccelDone \/ DataFromAccelDone \/ StartAccel \/ Load \/ Observe
    BY <2>5 DEF DataToAccelDone, DataFromAccelDone, ReadDone, ReadNotDone,
                StartAccel, Load, Observe, vars, hwVars
  <2>6. CASE Hardware
    BY <2>6 DEF Hardware, Begin, Finish, ConfigBeat, PayloadBeat, ResultBeat
  <2>7. CASE Exited
    BY <2>7 DEF Exited, vars
  <2> QED
    BY <2>3, <2>4, <2>5, <2>6, <2>7 DEF Next, Cpu
<1> QED
  BY <1>1, TypeCorrect, HandshakeInductive, PTL DEF Spec, DescriptorStable

------------------------------------------------------------------------------
(***************************************************************************)
(* A session of a disciplined program implements OrderedCalls: for every   *)
(* buffer, FIFO depth, timing and program.                                 *)
(*                                                                         *)
(* The abstract view is the state the hardware will have reached when the  *)
(* transfers it was given are done.  The invariant says so, with what is   *)
(* pending on a mover read from its registers if it has not begun.         *)
(***************************************************************************)

------------------------------------------------------------------------------
(***************************************************************************)
(* The discipline.                                                         *)
(***************************************************************************)

\* v lists the views a program goes through if its calls are done one by one.
Follows(c, v) ==
  \A p \in 1..Len(c) : v[p + 1] = Ordered!Effect(c[p], v[p])

\* On a slot that was loaded for it.
Views(c, v) == v[1] = Ordered!Fresh /\ Follows(c, v)

\* Call q was the last before call p to start a transfer.
StartedBy(c, p, ch, q) ==
  /\ q \in 1..(p - 1)
  /\ c[q].op = StartOp(ch)
  /\ \A j \in (q + 1)..(p - 1) : c[j].op # StartOp(ch)

InBuffer(call) == call.addr..(call.addr + call.size - 1) \subseteq Addr

Apart(addr1, size1, addr2, size2) ==
  addr1 + size1 <= addr2 \/ addr2 + size2 <= addr1

\* Results may go where a payload comes from if the i-th beat of what the
\* module gives is written no further than where it was read.
Behind(from, to, v) ==
  \/ Apart(from.addr, from.size, to.addr, to.size)
  \/ from.tid \notin Tids /\ to.addr + Len(v.stream) <= from.addr + from.size

Disciplined(c, v) ==
  /\ Handshaked(c)
  /\ \A p \in 1..Len(c) :
       /\ c[p].op \in {"Load", "DataToAccel"} =>
            \A ch \in Channel : ~Outstanding(c, p, ch)
       /\ c[p].op = "DataFromAccel" =>
            /\ InBuffer(c[p])
            /\ c[p].size <= Len(v[p].stream)
            /\ Outstanding(c, p, "MM2S") =>
                 \A q : StartedBy(c, p, "MM2S", q) => Behind(c[q], c[p], v[p])
       /\ c[p].op = "Collect" =>
            InBuffer(c[p]) /\ ~Outstanding(c, p, "S2MM")

------------------------------------------------------------------------------
(***************************************************************************)
(* The invariant.                                                          *)
(***************************************************************************)

\* What is left of the transfer a mover was given, read from its registers if
\* it has not begun.
PAddr == [ch \in Channel |-> IF run[ch].busy THEN run[ch].addr
                                            ELSE reg[ch]["addr"]]
PLeft == [ch \in Channel |-> IF ~start[ch] THEN 0
                            ELSE IF run[ch].busy THEN run[ch].left
                            ELSE reg[ch]["size"]]
PTid == IF run["MM2S"].busy THEN run["MM2S"].tid ELSE reg["MM2S"]["tid"]

ConfigPending == start["MM2S"] /\ PTid \in Tids
PayloadPending == start["MM2S"] /\ PTid \notin Tids

\* The output beats the module holds, and those it will produce from the rest
\* of the payload.
PipeLen == Len(fifo) + IF PayloadPending THEN PLeft["MM2S"] ELSE 0

Pipe ==
  [i \in 1..PipeLen |->
     IF i <= Len(fifo) THEN fifo[i]
     ELSE Processed(ReadBeat(PAddr["MM2S"] + (i - Len(fifo)) - 1))]

\* The configuration packet being sent: the beats the module has, and the rest.
Held == IF run["MM2S"].busy THEN Len(conf[PTid]) ELSE 0

Packet ==
  [i \in 1..(Held + PLeft["MM2S"]) |->
     IF i <= Held THEN conf[PTid][i]
     ELSE ReadBeat(PAddr["MM2S"] + (i - Held) - 1).data]

\* What S2MM has still to write.
Target == PAddr["S2MM"]..(PAddr["S2MM"] + PLeft["S2MM"] - 1)

\* Buffer, configurations and results once all of this is done.
MemDone == [a \in Addr |-> IF a \in Target THEN Pipe[a - PAddr["S2MM"] + 1]
                                           ELSE mem[a]]
ConfDone == IF ConfigPending THEN [conf EXCEPT ![PTid] = Packet] ELSE conf
StreamDone == [i \in 1..(PipeLen - PLeft["S2MM"]) |-> Pipe[PLeft["S2MM"] + i]]

Completed == [mem |-> MemDone, conf |-> ConfDone, stream |-> StreamDone]

\* The registers hold what the call has written so far, and a mover was given
\* what the call that started it says.
DescriptorInv ==
  \A ch \in Channel :
    /\ At(StartOp(ch)) =>
         \A i \in 1..(stage - 1) :
           i <= Len(Fields(ch)) => reg[ch][Fields(ch)[i]] = Call[Fields(ch)[i]]
    /\ start[ch] =>
         \A q : StartedBy(app.calls, pc, ch, q) =>
           /\ PAddr[ch] + PLeft[ch] = app.calls[q].addr + app.calls[q].size
           /\ PAddr[ch] >= app.calls[q].addr
           /\ ch = "MM2S" => PTid = app.calls[q].tid

\* S2MM has somewhere to write and something to write there, and it does not
\* write where MM2S has still to read.
TargetInv ==
  /\ Target \subseteq Addr
  /\ PLeft["S2MM"] <= PipeLen
  /\ start["MM2S"] /\ start["S2MM"] =>
       \/ Apart(PAddr["MM2S"], PLeft["MM2S"], PAddr["S2MM"], PLeft["S2MM"])
       \/ PTid \notin Tids /\ PAddr["S2MM"] + Len(fifo) <= PAddr["MM2S"]

\* The slot is in step with the program.
SlotInv == TypeOK /\ HandshakeInv /\ DescriptorInv /\ TargetInv

\* The view is the one the calls made so far lead to.
ViewsInv == \A v : Views(app.calls, v) => view = v[pc]

------------------------------------------------------------------------------
(***************************************************************************)
(* Types.                                                                  *)
(***************************************************************************)

\* A function on 1..n is a sequence of length n.
LEMMA FunctionIsSeq ==
  ASSUME NEW S, NEW n \in Nat, NEW f \in [1..n -> S]
  PROVE  f \in Seq(S) /\ Len(f) = n
OBVIOUS

\* The rest of a sequence after its first m elements.
LEMMA RestOfSeq ==
  ASSUME NEW S, NEW s \in Seq(S), NEW m \in 0..Len(s)
  PROVE  SubSeq(s, m + 1, Len(s)) = [i \in 1..(Len(s) - m) |-> s[m + i]]
OBVIOUS

\* What is pending on a mover is well typed.
LEMMA PendingTypes ==
  ASSUME TypeOK
  PROVE  /\ PAddr \in [Channel -> Nat]
         /\ PLeft \in [Channel -> Nat]
         /\ PTid \in Nat
         /\ Len(fifo) \in Nat
         /\ PipeLen \in Nat
         /\ PipeLen >= Len(fifo)
<1> USE DEF TypeOK, HwTypeOK
<1>1. PAddr \in [Channel -> Nat]
  BY DEF PAddr, Transfer, Register
<1>2. PLeft \in [Channel -> Nat]
  BY DEF PLeft, Transfer, Register
<1>3. PTid \in Nat
  BY DEF PTid, Transfer, Register, Channel
<1>4. Len(fifo) \in Nat
  OBVIOUS
<1>5. PipeLen \in Nat /\ PipeLen >= Len(fifo)
  BY <1>2, <1>4 DEF PipeLen, Channel
<1> QED BY <1>1, <1>2, <1>3, <1>4, <1>5

LEMMA PipeType ==
  ASSUME TypeOK
  PROVE  Pipe \in [1..PipeLen -> Beat]
<1> SUFFICES ASSUME NEW i \in 1..PipeLen
             PROVE  (IF i <= Len(fifo) THEN fifo[i]
                     ELSE Processed(ReadBeat(PAddr["MM2S"] + (i - Len(fifo)) - 1)))
                      \in Beat
  BY DEF Pipe
<1>1. CASE i <= Len(fifo)
  BY <1>1, PendingTypes DEF TypeOK, HwTypeOK
<1>2. CASE ~(i <= Len(fifo))
  BY <1>2, ReadBeatType, ProcessedType DEF TypeOK, HwTypeOK
<1> QED BY <1>1, <1>2

------------------------------------------------------------------------------
(***************************************************************************)
(* A step of the hardware changes nothing of what will be.                 *)
(***************************************************************************)

\* A mover that begins takes what its registers hold.
LEMMA BeginKeeps ==
  ASSUME TypeOK, TargetInv, NEW ch \in Channel, Begin(ch)
  PROVE  Completed' = Completed /\ TargetInv'
<1> USE PendingTypes DEF TypeOK, HwTypeOK
<1>1. UNCHANGED <<reg, start, mem, fifo>> /\ start[ch] /\ ~run[ch].busy
  BY DEF Begin
<1>2. UNCHANGED <<PAddr, PLeft, PTid>>
  <2>1. \A c \in Channel : PAddr'[c] = PAddr[c] /\ PLeft'[c] = PLeft[c]
    BY DEF Begin, PAddr, PLeft
  <2>2. PTid' = PTid
    BY DEF Begin, PTid, Channel
  <2> QED BY <2>1, <2>2 DEF PAddr, PLeft
<1>3. UNCHANGED <<ConfigPending, PayloadPending, PipeLen, Target>>
  BY <1>1, <1>2 DEF ConfigPending, PayloadPending, PipeLen, Target
<1>4. Pipe' = Pipe
  <2>1. PayloadPending => conf' = conf
    BY DEF Begin, PayloadPending, PTid
  <2>2. PipeLen = Len(fifo) \/ PayloadPending
    BY DEF PipeLen
  <2>3. CASE PayloadPending
    BY <1>1, <1>2, <1>3, <2>1, <2>3 DEF Pipe, ReadBeat, Processed
  <2>4. CASE ~PayloadPending
    <3>1. \A i \in 1..PipeLen : i <= Len(fifo)
      BY <2>2, <2>4
    <3> QED BY <1>1, <1>3, <3>1 DEF Pipe
  <2> QED BY <2>3, <2>4
<1>5. ConfDone' = ConfDone
  <2>1. CASE ch = "MM2S" /\ ConfigPending
    <3>1. reg["MM2S"]["tid"] = PTid /\ conf' = [conf EXCEPT ![PTid] = <<>>]
      BY <1>1, <2>1 DEF Begin, PTid, ConfigPending
    <3>2. Held = 0 /\ Held' = 0
      BY <1>2, <2>1, <3>1 DEF Begin, Held, Conf, ConfigPending
    <3>3. Packet' = Packet
      BY <1>1, <1>2, <3>2 DEF Packet, ReadBeat
    <3> QED BY <1>2, <1>3, <2>1, <3>1, <3>3 DEF ConfDone
  <2>2. CASE ~(ch = "MM2S" /\ ConfigPending)
    <3>1. conf' = conf
      BY <2>2, <1>1 DEF Begin, ConfigPending, PTid
    <3>2. ConfigPending => run'["MM2S"] = run["MM2S"]
      BY <2>2 DEF Begin, Channel
    <3> QED BY <1>1, <1>2, <1>3, <3>1, <3>2 DEF ConfDone, Packet, Held, ReadBeat
  <2> QED BY <2>1, <2>2
<1>6. Completed' = Completed
  BY <1>1, <1>2, <1>3, <1>4, <1>5 DEF Completed, MemDone, StreamDone
<1>7. TargetInv'
  BY <1>1, <1>2, <1>3 DEF TargetInv, Apart
<1> QED BY <1>6, <1>7

\* A mover that finishes had nothing left to do.
LEMMA FinishKeeps ==
  ASSUME TypeOK, TargetInv, NEW ch \in Channel, Finish(ch)
  PROVE  Completed' = Completed /\ TargetInv'
<1> USE PendingTypes DEF TypeOK, HwTypeOK
<1>1. UNCHANGED <<reg, mem, conf, fifo>> /\ run[ch].busy /\ run[ch].left = 0
  BY DEF Finish
<1>2. PLeft' = PLeft
  <2>1. \A c \in Channel : PLeft'[c] = PLeft[c]
    BY DEF Finish, PLeft
  <2> QED BY <2>1 DEF PLeft
<1>3. \A c \in Channel \ {ch} : start'[c] = start[c] /\ run'[c] = run[c]
  BY DEF Finish
<1>4. \A c \in Channel \ {ch} : PAddr'[c] = PAddr[c]
  BY <1>1, <1>3 DEF PAddr
<1>5. PLeft[ch] = 0 /\ ~start'[ch]
  BY DEF Finish, PLeft
<1>6. PipeLen' = PipeLen
  <2>1. ch # "MM2S" => PTid' = PTid /\ PayloadPending' = PayloadPending
    BY <1>1, <1>3 DEF PTid, PayloadPending, Channel
  <2> QED BY <1>1, <1>2, <1>5, <2>1 DEF PipeLen, PayloadPending
<1>7. Pipe' = Pipe
  <2>1. ch = "MM2S" => PipeLen = Len(fifo)
    BY <1>5 DEF PipeLen
  <2>2. ch # "MM2S" => PAddr'["MM2S"] = PAddr["MM2S"]
    BY <1>4 DEF Channel
  <2>3. CASE ch = "MM2S"
    <3>1. \A i \in 1..PipeLen : i <= Len(fifo)
      BY <2>1, <2>3
    <3> QED BY <1>1, <1>6, <3>1 DEF Pipe
  <2>4. CASE ch # "MM2S"
    BY <1>1, <1>6, <2>2, <2>4 DEF Pipe, ReadBeat, Processed
  <2> QED BY <2>3, <2>4
<1>8. Target = Target' \/ (Target = {} /\ Target' = {})
  <2>1. CASE ch = "S2MM"
    <3>1. PLeft["S2MM"] = 0 /\ PLeft'["S2MM"] = 0 /\ PAddr'["S2MM"] \in Nat
      BY <1>1, <1>2, <1>5, <2>1 DEF PAddr, Finish, Transfer, Register
    <3> QED BY <3>1 DEF Target, Channel
  <2>2. CASE ch # "S2MM"
    BY <1>2, <1>4, <2>2 DEF Target, Channel
  <2> QED BY <2>1, <2>2
<1>9. MemDone' = MemDone
  <2>1. ASSUME NEW a \in Target PROVE PAddr'["S2MM"] = PAddr["S2MM"]
    <3>1. PLeft["S2MM"] # 0
      BY <2>1 DEF Target, Channel
    <3> QED BY <3>1, <1>4, <1>5 DEF Channel
  <2>2. Target' = Target
    BY <1>8
  <2> QED BY <1>1, <1>7, <2>1, <2>2 DEF MemDone
<1>10. StreamDone' = StreamDone
  BY <1>2, <1>6, <1>7 DEF StreamDone
<1>11. ConfDone' = ConfDone
  <2>1. CASE ch = "MM2S"
    <3>1. ConfigPending => Packet = conf[PTid]
      <4> SUFFICES ASSUME ConfigPending PROVE Packet = conf[PTid]
        OBVIOUS
      <4>1. PTid \in Tids /\ Held = Len(conf[PTid])
        BY <1>1, <2>1 DEF ConfigPending, Held
      <4>2. conf[PTid] \in Seq(Data)
        BY <4>1 DEF Conf
      <4>3. PLeft["MM2S"] = 0 /\ Len(conf[PTid]) \in Nat
        BY <1>5, <2>1, <4>2
      <4>4. \A i \in 1..(Held + PLeft["MM2S"]) : i <= Held
        BY <4>1, <4>3
      <4>5. Packet = [i \in 1..Len(conf[PTid]) |-> conf[PTid][i]]
        BY <4>1, <4>3, <4>4 DEF Packet
      <4> QED BY <4>2, <4>5
    <3>2. ~ConfigPending'
      BY <1>5, <2>1 DEF ConfigPending
    <3> QED BY <1>1, <3>1, <3>2 DEF ConfDone, ConfigPending, Conf
  <2>2. CASE ch # "MM2S"
    <3>1. start'["MM2S"] = start["MM2S"] /\ run'["MM2S"] = run["MM2S"]
          /\ PAddr'["MM2S"] = PAddr["MM2S"]
      BY <1>3, <1>4, <2>2 DEF Channel
    <3> QED BY <1>1, <1>2, <3>1
            DEF ConfDone, ConfigPending, Packet, Held, ReadBeat, PTid
  <2> QED BY <2>1, <2>2
<1>12. TargetInv'
  <2>1. start'["MM2S"] /\ start'["S2MM"] => FALSE
    BY <1>5 DEF Channel
  <2> QED BY <1>2, <1>6, <1>8, <2>1 DEF TargetInv
<1> QED BY <1>9, <1>10, <1>11, <1>12 DEF Completed

\* A mover that runs was started.
BusyStarted == \A ch \in Channel : run[ch].busy => start[ch]

LEMMA HandshakeBusy == HandshakeInv => BusyStarted
BY DEF HandshakeInv, ChannelInv, BusyStarted

\* A mover that advances has one beat less to do, one address further on.
LEMMA AdvanceFacts ==
  ASSUME TypeOK, BusyStarted, NEW ch \in Channel,
         run[ch].busy, run[ch].left > 0, Advance(ch), UNCHANGED <<reg, start>>
  PROVE  /\ start[ch]
         /\ PAddr[ch] = run[ch].addr /\ PLeft[ch] = run[ch].left
         /\ PAddr'[ch] = PAddr[ch] + 1 /\ PLeft'[ch] = PLeft[ch] - 1
         /\ run'[ch].busy /\ run'[ch].tid = run[ch].tid
         /\ \A c \in Channel \ {ch} :
              /\ run'[c] = run[c]
              /\ PAddr'[c] = PAddr[c]
              /\ PLeft'[c] = PLeft[c]
         /\ PTid' = PTid
<1> USE DEF TypeOK, HwTypeOK
<1>1. start[ch] /\ start'[ch]
  BY DEF BusyStarted
<1>2. run'[ch] = [busy |-> TRUE, addr |-> run[ch].addr + 1,
                  left |-> run[ch].left - 1, tid |-> run[ch].tid]
  BY DEF Advance
<1>3. \A c \in Channel \ {ch} : run'[c] = run[c]
  BY DEF Advance
<1>4. PAddr[ch] = run[ch].addr /\ PLeft[ch] = run[ch].left
  BY <1>1 DEF PAddr, PLeft
<1>5. PAddr'[ch] = PAddr[ch] + 1 /\ PLeft'[ch] = PLeft[ch] - 1
  BY <1>1, <1>2, <1>4 DEF PAddr, PLeft
<1>6. \A c \in Channel \ {ch} : PAddr'[c] = PAddr[c] /\ PLeft'[c] = PLeft[c]
  BY <1>3 DEF PAddr, PLeft
<1>7. PTid' = PTid
  BY <1>2, <1>3 DEF PTid, Channel
<1> QED BY <1>1, <1>2, <1>3, <1>4, <1>5, <1>6, <1>7

\* A configuration beat goes from the rest of its packet to the module.
LEMMA ConfigBeatKeeps ==
  ASSUME TypeOK, BusyStarted, TargetInv, ConfigBeat
  PROVE  Completed' = Completed /\ TargetInv'
<1> USE PendingTypes DEF TypeOK, HwTypeOK
<1>1. UNCHANGED <<reg, start, mem, fifo>> /\ "MM2S" \in Channel /\ "S2MM" \in Channel
  BY DEF ConfigBeat, Channel
<1>2. /\ start["MM2S"] /\ PTid = run["MM2S"].tid /\ PTid \in Tids
      /\ PAddr["MM2S"] = run["MM2S"].addr /\ PLeft["MM2S"] > 0
      /\ PAddr'["MM2S"] = PAddr["MM2S"] + 1 /\ PLeft'["MM2S"] = PLeft["MM2S"] - 1
      /\ PAddr'["S2MM"] = PAddr["S2MM"] /\ PLeft'["S2MM"] = PLeft["S2MM"]
      /\ PTid' = PTid /\ run["MM2S"].busy /\ run'["MM2S"].busy
      /\ PAddr["MM2S"] \in Nat /\ PLeft["MM2S"] \in Nat
  BY <1>1, AdvanceFacts DEF ConfigBeat, PTid
<1>3. ~PayloadPending /\ ~PayloadPending' /\ ConfigPending /\ ConfigPending'
  BY <1>1, <1>2 DEF PayloadPending, ConfigPending
<1>4. PipeLen = Len(fifo) /\ PipeLen' = PipeLen /\ Pipe' = Pipe
  <2>1. PipeLen = Len(fifo) /\ PipeLen' = PipeLen
    BY <1>1, <1>3 DEF PipeLen
  <2>2. \A i \in 1..PipeLen : i <= Len(fifo)
    BY <2>1
  <2> QED BY <1>1, <2>1, <2>2 DEF Pipe
<1>5. Target' = Target
  BY <1>2 DEF Target
<1>6. MemDone' = MemDone /\ StreamDone' = StreamDone
  BY <1>1, <1>2, <1>4, <1>5 DEF MemDone, StreamDone
<1>7. Packet' = Packet
  <2> DEFINE next == ReadBeat(PAddr["MM2S"]).data
  <2>1. conf' = [conf EXCEPT ![PTid] = Append(@, next)]
    BY <1>2 DEF ConfigBeat
  <2>2. conf[PTid] \in Seq(Data) /\ next \in Data
    BY <1>2, ReadBeatType DEF Conf, Beat
  <2>3. conf'[PTid] = Append(conf[PTid], next)
    BY <1>2, <2>1 DEF Conf
  <2> HIDE DEF next
  <2>4. /\ Held = Len(conf[PTid]) /\ Held \in Nat
        /\ Held' = Held + 1
        /\ \A i \in 1..Held : conf'[PTid][i] = conf[PTid][i]
        /\ conf'[PTid][Held + 1] = next
    BY <1>2, <2>2, <2>3 DEF Held

  <2>6. Held + PLeft["MM2S"] = (Held + PLeft["MM2S"])'
    BY <1>2, <2>4
  <2>7. ASSUME NEW i \in 1..(Held + PLeft["MM2S"])
        PROVE  Packet'[i] = Packet[i]
    <3> DEFINE rest(k) == ReadBeat(PAddr["MM2S"] + (k - Held) - 1).data
    <3>1. Packet[i] = IF i <= Held THEN conf[PTid][i] ELSE rest(i)
      BY <2>7 DEF Packet
    <3>2. Packet'[i] = IF i <= Held' THEN conf'[PTid'][i]
                       ELSE ReadBeat(PAddr'["MM2S"] + (i - Held') - 1).data
      <4>1. i \in 1..(Held + PLeft["MM2S"])'
        BY <2>6
      <4> QED BY <1>1, <4>1 DEF Packet, ReadBeat
    <3>3. CASE i <= Held
      BY <1>2, <2>4, <3>1, <3>2, <3>3
    <3>4. CASE i = Held + 1
      <4>1. PAddr["MM2S"] + (i - Held) - 1 = PAddr["MM2S"]
        BY <1>2, <2>4, <3>4
      <4>2. Packet[i] = next
        BY <2>4, <3>1, <3>4, <4>1 DEF next
      <4> QED BY <1>2, <2>4, <3>2, <3>4, <4>2
    <3>5. CASE i > Held + 1
      <4>1. PAddr'["MM2S"] + (i - Held') - 1 = PAddr["MM2S"] + (i - Held) - 1
        <5>1. \A a, h \in Nat : (a + 1) + (i - (h + 1)) - 1 = a + (i - h) - 1
          BY ONLY <2>4, <1>2, <2>7, PLeft["MM2S"] \in Nat
        <5> QED BY ONLY <1>2, <2>4, <5>1
      <4> QED BY <2>4, <3>1, <3>2, <3>5, <4>1
    <3> QED BY <2>4, <3>3, <3>4, <3>5
  <2> QED BY <2>6, <2>7 DEF Packet
<1>8. ConfDone' = ConfDone
  <2>1. \A t \in Tids : t # PTid => conf'[t] = conf[t]
    BY <1>2 DEF ConfigBeat, Conf
  <2>2. DOMAIN conf = Tids /\ DOMAIN conf' = Tids
    BY DEF Conf, ConfigBeat
  <2> QED BY <1>2, <1>3, <1>7, <2>1, <2>2 DEF ConfDone
<1>9. TargetInv'
  BY <1>1, <1>2, <1>4, <1>5 DEF TargetInv, Apart
<1> QED BY <1>6, <1>8, <1>9 DEF Completed

\* A payload beat goes from the rest of its transfer to the results.
LEMMA PayloadBeatKeeps ==
  ASSUME TypeOK, BusyStarted, TargetInv, PayloadBeat
  PROVE  Completed' = Completed /\ TargetInv'
<1> USE PendingTypes DEF TypeOK, HwTypeOK
<1>1. UNCHANGED <<reg, start, mem, conf>> /\ "MM2S" \in Channel /\ "S2MM" \in Channel
  BY DEF PayloadBeat, Channel
<1>2. /\ start["MM2S"] /\ PTid = run["MM2S"].tid /\ PTid \notin Tids
      /\ PAddr["MM2S"] = run["MM2S"].addr /\ PLeft["MM2S"] > 0
      /\ PAddr'["MM2S"] = PAddr["MM2S"] + 1 /\ PLeft'["MM2S"] = PLeft["MM2S"] - 1
      /\ PAddr'["S2MM"] = PAddr["S2MM"] /\ PLeft'["S2MM"] = PLeft["S2MM"]
      /\ PTid' = PTid
      /\ PAddr["MM2S"] \in Nat /\ PLeft["MM2S"] \in Nat
      /\ PAddr["S2MM"] \in Nat /\ PLeft["S2MM"] \in Nat
  BY <1>1, AdvanceFacts DEF PayloadBeat, PTid
<1>3. PayloadPending /\ PayloadPending' /\ ~ConfigPending /\ ~ConfigPending'
  BY <1>1, <1>2 DEF PayloadPending, ConfigPending
<1> DEFINE next == Processed(ReadBeat(PAddr["MM2S"]))
<1>4. next \in Beat /\ fifo' = Append(fifo, next)
  BY <1>2, ReadBeatType, ProcessedType DEF PayloadBeat
<1> HIDE DEF next
<1>5. /\ Len(fifo') = Len(fifo) + 1
      /\ \A i \in 1..Len(fifo) : fifo'[i] = fifo[i]
      /\ fifo'[Len(fifo) + 1] = next
  BY <1>4
<1>6. PipeLen' = PipeLen /\ PipeLen = Len(fifo) + PLeft["MM2S"]
  <2>1. PipeLen = Len(fifo) + PLeft["MM2S"]
    BY <1>3 DEF PipeLen
  <2>2. PipeLen' = Len(fifo') + PLeft'["MM2S"]
    BY <1>3 DEF PipeLen
  <2> QED BY <1>2, <1>5, <2>1, <2>2
<1>7. Pipe' = Pipe
  <2>1. ASSUME NEW i \in 1..PipeLen
        PROVE  Pipe'[i] = Pipe[i]
    <3> DEFINE rest(k) == Processed(ReadBeat(PAddr["MM2S"] + (k - Len(fifo)) - 1))
    <3>1. Pipe[i] = IF i <= Len(fifo) THEN fifo[i] ELSE rest(i)
      BY <2>1 DEF Pipe
    <3>2. Pipe'[i] = IF i <= Len(fifo') THEN fifo'[i]
                     ELSE Processed(ReadBeat(PAddr'["MM2S"] + (i - Len(fifo')) - 1))
      <4>1. i \in 1..PipeLen'
        BY <1>6
      <4> QED BY <1>1, <4>1 DEF Pipe, ReadBeat, Processed
    <3>3. CASE i <= Len(fifo)
      BY <1>5, <3>1, <3>2, <3>3
    <3>4. CASE i = Len(fifo) + 1
      <4>1. PAddr["MM2S"] + (i - Len(fifo)) - 1 = PAddr["MM2S"]
        BY <1>2, <3>4
      <4>2. Pipe[i] = next
        BY <3>1, <3>4, <4>1 DEF next
      <4> QED BY <1>5, <4>2, <3>2, <3>4
    <3>5. CASE i > Len(fifo) + 1
      <4>1. PAddr'["MM2S"] + (i - Len(fifo')) - 1 = PAddr["MM2S"] + (i - Len(fifo)) - 1
        BY <1>2, <1>5
      <4> QED BY <1>5, <3>1, <3>2, <3>5, <4>1
    <3> QED BY <3>3, <3>4, <3>5
  <2> QED BY <1>6, <2>1 DEF Pipe
<1>8. Target' = Target
  BY <1>2 DEF Target
<1>9. MemDone' = MemDone /\ StreamDone' = StreamDone
  BY <1>1, <1>2, <1>6, <1>7, <1>8 DEF MemDone, StreamDone
<1>10. ConfDone' = ConfDone
  BY <1>1, <1>3 DEF ConfDone
<1>11. TargetInv'
  <2>1. Target' \subseteq Addr /\ PLeft'["S2MM"] <= PipeLen'
    BY ONLY <1>2, <1>6, <1>8, TargetInv DEF TargetInv
  <2>2. start' = start /\ Len(fifo) \in Nat
    BY <1>1
  <2>3. CASE Apart(PAddr["MM2S"], PLeft["MM2S"], PAddr["S2MM"], PLeft["S2MM"])
    <3>1. Apart(PAddr["MM2S"], PLeft["MM2S"], PAddr["S2MM"], PLeft["S2MM"])'
      BY ONLY <1>2, <2>3 DEF Apart
    <3> QED BY ONLY <2>1, <3>1 DEF TargetInv
  <2>4. CASE PTid \notin Tids /\ PAddr["S2MM"] + Len(fifo) <= PAddr["MM2S"]
    <3>1. PTid' \notin Tids /\ PAddr'["S2MM"] + Len(fifo') <= PAddr'["MM2S"]
      BY ONLY <1>2, <1>5, <2>2, <2>4
    <3> QED BY ONLY <2>1, <3>1 DEF TargetInv
  <2> QED BY ONLY <2>1, <2>2, <2>3, <2>4, TargetInv DEF TargetInv
<1> QED BY <1>9, <1>10, <1>11 DEF Completed

\* A result goes from the module to its place in the buffer, which is not
\* where MM2S has still to read.
LEMMA ResultBeatKeeps ==
  ASSUME TypeOK, BusyStarted, TargetInv, ResultBeat
  PROVE  Completed' = Completed /\ TargetInv'
<1> USE PendingTypes DEF TypeOK, HwTypeOK
<1>1. UNCHANGED <<reg, start, conf>> /\ "MM2S" \in Channel /\ "S2MM" \in Channel
  BY DEF ResultBeat, Channel
<1>2. /\ start["S2MM"] /\ PAddr["S2MM"] = run["S2MM"].addr /\ PLeft["S2MM"] > 0
      /\ PAddr'["S2MM"] = PAddr["S2MM"] + 1 /\ PLeft'["S2MM"] = PLeft["S2MM"] - 1
      /\ PAddr'["MM2S"] = PAddr["MM2S"] /\ PLeft'["MM2S"] = PLeft["MM2S"]
      /\ PTid' = PTid /\ run'["MM2S"] = run["MM2S"]
      /\ PAddr["MM2S"] \in Nat /\ PLeft["MM2S"] \in Nat
      /\ PAddr["S2MM"] \in Nat /\ PLeft["S2MM"] \in Nat
  BY <1>1, AdvanceFacts DEF ResultBeat
<1>3. UNCHANGED <<PayloadPending, ConfigPending, Held>>
  BY <1>1, <1>2 DEF PayloadPending, ConfigPending, Held
<1>4. /\ Len(fifo) > 0 /\ Len(fifo') = Len(fifo) - 1
      /\ \A i \in 1..Len(fifo') : fifo'[i] = fifo[i + 1]
      /\ Head(fifo) = fifo[1]
  BY DEF ResultBeat
<1>5. PipeLen' = PipeLen - 1 /\ PipeLen \in Nat
  <2>1. CASE PayloadPending
    <3>1. PipeLen = Len(fifo) + PLeft["MM2S"]
      BY <2>1 DEF PipeLen
    <3>2. PipeLen' = Len(fifo') + PLeft'["MM2S"]
      BY <1>3, <2>1 DEF PipeLen
    <3> QED BY <1>2, <1>4, <3>1, <3>2
  <2>2. CASE ~PayloadPending
    BY <1>3, <1>4, <2>2 DEF PipeLen
  <2>3. PipeLen \in Nat
    BY PendingTypes
  <2> QED BY <2>1, <2>2, <2>3
\* what MM2S has still to read does not change
<1>6. ASSUME start["MM2S"], NEW a \in Nat,
             PAddr["MM2S"] <= a, a < PAddr["MM2S"] + PLeft["MM2S"]
      PROVE  ReadBeat(a)' = ReadBeat(a)
  <2>1. a # PAddr["S2MM"]
    <3>1. CASE Apart(PAddr["MM2S"], PLeft["MM2S"], PAddr["S2MM"], PLeft["S2MM"])
      BY <1>2, <1>6, <3>1 DEF Apart
    <3>2. CASE PAddr["S2MM"] + Len(fifo) <= PAddr["MM2S"]
      BY <1>2, <1>4, <1>6, <3>2
    <3> QED BY <1>2, <1>6, <3>1, <3>2 DEF TargetInv
  <2> QED BY <1>2, <2>1 DEF ResultBeat, ReadBeat
<1>7. \A i \in 1..PipeLen' : Pipe'[i] = Pipe[i + 1]
  <2> SUFFICES ASSUME NEW i \in 1..PipeLen' PROVE Pipe'[i] = Pipe[i + 1]
    OBVIOUS
  <2> DEFINE rest(k) == Processed(ReadBeat(PAddr["MM2S"] + k))
  <2>1. i + 1 \in 1..PipeLen
    BY <1>5
  <2>2. CASE i <= Len(fifo')
    <3>1. Pipe'[i] = fifo'[i]
      BY <2>2 DEF Pipe
    <3>2. Pipe[i + 1] = fifo[i + 1]
      BY <1>4, <2>1, <2>2 DEF Pipe
    <3> QED BY <1>4, <2>2, <3>1, <3>2
  <2>3. CASE i > Len(fifo')
    <3>1. PICK a \in Nat : a = PAddr["MM2S"] + (i - Len(fifo))
      BY <1>2, <1>4, <2>3
    <3>2. PayloadPending /\ PAddr["MM2S"] <= a /\ a < PAddr["MM2S"] + PLeft["MM2S"]
      <4>1. Len(fifo) \in Nat /\ i \in Nat /\ i <= PipeLen - 1
        BY ONLY <1>4, <1>5, PendingTypes, TypeOK, i \in 1..PipeLen'
      <4>2. PipeLen # Len(fifo)
        BY ONLY <1>4, <2>3, <4>1
      <4>3. PayloadPending /\ PipeLen = Len(fifo) + PLeft["MM2S"]
        BY ONLY <1>2, <4>1, <4>2 DEF PipeLen
      <4>4. \A base, left, len, j, x \in Nat :
              x = base + (j - len) /\ j > len - 1 /\ j <= len + left - 1
                => base <= x /\ x < base + left
        BY ONLY TRUE
      <4>5. i > Len(fifo) - 1
        <5>1. Len(fifo') = Len(fifo) - 1
          BY <1>4
        <5> QED BY ONLY <2>3, <5>1
      <4>6. i <= Len(fifo) + PLeft["MM2S"] - 1
        <5>1. \A n, m \in Nat : i \in Nat /\ i <= (n + m) - 1 => i <= n + m - 1
          BY ONLY TRUE
        <5>2. PLeft["MM2S"] \in Nat
          BY <1>2
        <5> QED BY ONLY <4>1, <4>3, <5>1, <5>2
      <4> QED BY ONLY <1>2, <3>1, <4>1, <4>3, <4>4, <4>5, <4>6
    <3>3. Pipe[i + 1] = Processed(ReadBeat(a))
      <4>1. PAddr["MM2S"] + ((i + 1) - Len(fifo)) - 1 = a
        BY <1>2, <3>1
      <4>2. ~(i + 1 <= Len(fifo))
        BY <1>4, <2>3
      <4>3. Pipe[i + 1] =
              Processed(ReadBeat(PAddr["MM2S"] + ((i + 1) - Len(fifo)) - 1))
        BY <2>1, <4>2 DEF Pipe
      <4> QED BY <4>1, <4>3
    <3>4. Pipe'[i] = Processed(ReadBeat(a))'
      <4>1. PAddr'["MM2S"] + (i - Len(fifo')) - 1 = a
        BY <1>2, <1>4, <3>1
      <4>2. ~(i <= Len(fifo'))
        BY <1>4, <2>3
      <4> QED BY <4>1, <4>2 DEF Pipe, Processed, ReadBeat
    <3> QED BY <1>1, <1>6, <3>2, <3>3, <3>4 DEF Processed, PayloadPending
  <2> QED BY <1>4, <2>2, <2>3
<1>8. Target = Target' \cup {PAddr["S2MM"]} /\ PAddr["S2MM"] \notin Target'
  <2>1. \A b, n \in Nat : n > 0 =>
          /\ b..(b + n - 1) = (b + 1)..((b + 1) + (n - 1) - 1) \cup {b}
          /\ b \notin (b + 1)..((b + 1) + (n - 1) - 1)
    BY ONLY TRUE
  <2>2. Target' = (PAddr["S2MM"] + 1)..((PAddr["S2MM"] + 1) + (PLeft["S2MM"] - 1) - 1)
    BY ONLY <1>2 DEF Target
  <2> QED BY ONLY <1>2, <2>1, <2>2 DEF Target
<1>9. MemDone' = MemDone
  <2>1. ASSUME NEW a \in Addr
        PROVE  MemDone'[a] = MemDone[a]
    <3>1. CASE a = PAddr["S2MM"]
      <4>1. MemDone'[a] = mem'[a] /\ MemDone[a] = Pipe[1]
        BY <1>2, <1>8, <3>1 DEF MemDone
      <4>2. mem'[a] = Head(fifo)
        BY <1>2, <3>1 DEF ResultBeat
      <4>3. Pipe[1] = fifo[1]
        BY <1>2, <1>4, <1>5 DEF Pipe, TargetInv
      <4> QED BY <1>4, <4>1, <4>2, <4>3
    <3>2. CASE a \in Target'
      <4>1. a - PAddr'["S2MM"] + 1 \in 1..PipeLen'
        <5>1. PLeft["S2MM"] <= PipeLen
          BY DEF TargetInv
        <5>2. a \in PAddr'["S2MM"]..(PAddr'["S2MM"] + PLeft'["S2MM"] - 1)
          BY <3>2 DEF Target
        <5> QED BY ONLY <1>2, <1>5, <5>1, <5>2
      <4>2. (a - PAddr'["S2MM"] + 1) + 1 = a - PAddr["S2MM"] + 1
        BY <1>2, HardwareAssumption
      <4> QED BY <1>7, <1>8, <3>2, <4>1, <4>2 DEF MemDone
    <3>3. CASE a # PAddr["S2MM"] /\ a \notin Target'
      BY <1>2, <1>8, <3>3 DEF MemDone, ResultBeat
    <3> QED BY <3>1, <3>2, <3>3
  <2> QED BY <2>1 DEF MemDone
<1>10. StreamDone' = StreamDone
  <2>1. PipeLen' - PLeft'["S2MM"] = PipeLen - PLeft["S2MM"]
    BY ONLY <1>2, <1>5
  <2>2. ASSUME NEW i \in 1..(PipeLen - PLeft["S2MM"])
        PROVE  Pipe'[PLeft'["S2MM"] + i] = Pipe[PLeft["S2MM"] + i]
    <3>1. PLeft'["S2MM"] + i \in 1..PipeLen' /\ (PLeft'["S2MM"] + i) + 1 = PLeft["S2MM"] + i
      BY ONLY <1>2, <1>5, <2>2
    <3> QED BY <1>7, <3>1
  <2> QED BY <2>1, <2>2 DEF StreamDone
<1>11. ConfDone' = ConfDone
  <2>1. CASE ~ConfigPending
    BY <1>1, <1>3, <2>1 DEF ConfDone
  <2>2. CASE ConfigPending
    <3>1. Held \in Nat
      BY <2>2 DEF Held, Conf, ConfigPending
    <3>2. ASSUME NEW i \in 1..(Held + PLeft["MM2S"]), ~(i <= Held)
          PROVE  Packet'[i] = Packet[i]
      <4>1. PICK a \in Nat : a = PAddr["MM2S"] + (i - Held) - 1
        BY <1>2, <3>1, <3>2
      <4>2. PAddr["MM2S"] <= a /\ a < PAddr["MM2S"] + PLeft["MM2S"]
        BY <1>2, <3>1, <3>2, <4>1
      <4>3. Packet[i] = ReadBeat(a).data
        BY <3>2, <4>1 DEF Packet
      <4>4. Packet'[i] = ReadBeat(a)'.data
        BY <1>2, <1>3, <3>2, <4>1 DEF Packet
      <4> QED BY <1>6, <2>2, <4>2, <4>3, <4>4 DEF ConfigPending
    <3>3. Packet' = Packet
      BY <1>1, <1>2, <1>3, <3>2 DEF Packet
    <3> QED BY <1>1, <1>2, <1>3, <3>3 DEF ConfDone
  <2> QED BY <2>1, <2>2
<1>12. TargetInv'
  <2>1. Target' \subseteq Addr /\ PLeft'["S2MM"] <= PipeLen'
    BY <1>2, <1>5, <1>8 DEF TargetInv
  <2>2. ASSUME start["MM2S"]
        PROVE  \/ Apart(PAddr["MM2S"], PLeft["MM2S"], PAddr["S2MM"], PLeft["S2MM"])'
               \/ PTid' \notin Tids /\ PAddr'["S2MM"] + Len(fifo') <= PAddr'["MM2S"]
    <3>0. Len(fifo) \in Nat
      BY ONLY PendingTypes, TypeOK
    <3>1. CASE Apart(PAddr["MM2S"], PLeft["MM2S"], PAddr["S2MM"], PLeft["S2MM"])
      BY ONLY <1>2, <3>1 DEF Apart
    <3>2. CASE PTid \notin Tids /\ PAddr["S2MM"] + Len(fifo) <= PAddr["MM2S"]
      BY ONLY <1>2, <1>4, <3>0, <3>2
    <3> QED BY <1>2, <2>2, <3>1, <3>2 DEF TargetInv
  <2> QED BY <1>1, <2>1, <2>2 DEF TargetInv
<1> QED BY <1>9, <1>10, <1>11, <1>12 DEF Completed

\* Whatever the hardware does, what the calls so far will have done is the
\* same.
LEMMA HardwareKeepsCompleted ==
  ASSUME TypeOK, BusyStarted, TargetInv, Hardware
  PROVE  Completed' = Completed /\ TargetInv'
BY BeginKeeps, FinishKeeps, ConfigBeatKeeps, PayloadBeatKeeps, ResultBeatKeeps
   DEF Hardware

------------------------------------------------------------------------------
(***************************************************************************)
(* A call that returns has the effect OrderedCalls gives it.               *)
(***************************************************************************)

\* MM2S has no packet to send and nothing left of a payload.
Drained == ~ConfigPending /\ PLeft["MM2S"] = 0

\* An idle mover has nothing left to do.
IdleMover ==
  /\ \A ch \in Channel : ~start[ch] => ~run[ch].busy /\ PLeft[ch] = 0
  /\ ~start["MM2S"] => /\ ~ConfigPending /\ ~PayloadPending
                       /\ PipeLen = Len(fifo) /\ Pipe = fifo
                       /\ ConfDone = conf /\ Drained
  /\ Drained => PipeLen = Len(fifo) /\ Pipe = fifo /\ ConfDone = conf
  /\ ~start["S2MM"] => /\ Target = {} /\ MemDone = mem
                       /\ StreamDone = Pipe

LEMMA IdleMovers == TypeOK /\ BusyStarted => IdleMover
<1> SUFFICES ASSUME TypeOK, BusyStarted PROVE IdleMover
  OBVIOUS
<1> USE DEF TypeOK, HwTypeOK
<1>1. \A ch \in Channel : ~start[ch] => ~run[ch].busy /\ PLeft[ch] = 0
  BY DEF BusyStarted, PLeft
<1>2. ASSUME Drained
      PROVE  PipeLen = Len(fifo) /\ Pipe = fifo /\ ConfDone = conf
  <2>1. ~ConfigPending /\ PLeft["MM2S"] = 0 /\ Len(fifo) \in Nat
    BY <1>2 DEF Drained
  <2>2. PipeLen = Len(fifo)
    BY <2>1 DEF PipeLen
  <2>3. \A i \in 1..Len(fifo) : i <= Len(fifo)
    OBVIOUS
  <2>4. Pipe = [i \in 1..Len(fifo) |-> fifo[i]]
    BY <2>2, <2>3 DEF Pipe
  <2>5. Pipe = fifo
    BY <2>4
  <2> QED BY <2>1, <2>2, <2>5 DEF ConfDone
<1>4. ~start["MM2S"] => ~ConfigPending /\ ~PayloadPending /\ Drained
  BY <1>1 DEF ConfigPending, PayloadPending, Drained, Channel
<1>3. ASSUME ~start["S2MM"]
      PROVE  Target = {} /\ MemDone = mem /\ StreamDone = Pipe
  <2>1. PLeft["S2MM"] = 0 /\ PAddr["S2MM"] \in Nat /\ PipeLen \in Nat
    BY <1>1, <1>3, PendingTypes DEF Channel
  <2>2. Target = {}
    BY <2>1 DEF Target
  <2>3. MemDone = mem
    BY <2>2 DEF MemDone
  <2>4. PipeLen - PLeft["S2MM"] = PipeLen /\ \A i \in 1..PipeLen : PLeft["S2MM"] + i = i
    BY ONLY <2>1
  <2>5. StreamDone = [i \in 1..PipeLen |-> Pipe[i]]
    BY <2>4 DEF StreamDone
  <2>6. StreamDone = Pipe
    BY <2>5 DEF Pipe
  <2> QED BY <2>2, <2>3, <2>6
<1> QED BY <1>1, <1>2, <1>3, <1>4 DEF IdleMover

\* So it has after a step.
LEMMA IdleAfter ==
  ASSUME TypeOK', BusyStarted'
  PROVE  IdleMover'
<1>1. (TypeOK /\ BusyStarted => IdleMover)'
  BY IdleMovers, PTL
<1> QED BY <1>1

\* Writing the descriptor of an idle mover starts nothing.
LEMMA DescriptorKeeps ==
  ASSUME TypeOK, BusyStarted, TargetInv,
         NEW ch \in Channel, At(StartOp(ch)), WriteDescriptor(ch), ~start[ch]
  PROVE  Completed' = Completed /\ TargetInv'
<1> USE DEF TypeOK, HwTypeOK
<1>1. UNCHANGED <<start, run, mem, conf, fifo>>
  BY DEF WriteDescriptor
<1>2. \A c \in Channel \ {ch} : reg'[c] = reg[c]
  BY DEF WriteDescriptor
<1>3. PLeft' = PLeft
  <2>1. \A c \in Channel : PLeft'[c] = PLeft[c]
    BY <1>1, <1>2, IdleMovers DEF PLeft, IdleMover
  <2> QED BY <2>1 DEF PLeft
<1>4. \A c \in Channel \ {ch} : PAddr'[c] = PAddr[c]
  BY <1>1, <1>2 DEF PAddr
<1>5. BusyStarted'
  BY BusyStarted DEF BusyStarted, WriteDescriptor
<1>6. TypeOK'
  BY CpuTypeOK, FieldsFacts DEF DataToAccel, DataFromAccel, Cpu, StartOp, Channel
<1>0. IdleMover /\ IdleMover'
  BY <1>5, <1>6, IdleMovers, IdleAfter
<1>7. CASE ch = "MM2S"
  <2>1. /\ PAddr'["S2MM"] = PAddr["S2MM"] /\ PipeLen = Len(fifo) /\ Pipe = fifo
        /\ PipeLen' = Len(fifo) /\ Pipe' = fifo /\ ConfDone = conf /\ ConfDone' = conf
    BY <1>0, <1>1, <1>4, <1>7 DEF Channel, IdleMover
  <2>2. Target' = Target
    BY <1>3, <2>1 DEF Target
  <2>3. TargetInv'
    BY <1>1, <1>3, <1>7, <2>1, <2>2 DEF TargetInv
  <2> QED BY <1>1, <1>3, <2>1, <2>2, <2>3 DEF Completed, MemDone, StreamDone
<1>8. CASE ch = "S2MM"
  <2>1. /\ PAddr'["MM2S"] = PAddr["MM2S"] /\ PTid' = PTid
        /\ UNCHANGED <<ConfigPending, PayloadPending>>
    BY <1>1, <1>2, <1>4, <1>8 DEF Channel, PTid, ConfigPending, PayloadPending
  <2>2. PipeLen' = PipeLen /\ Pipe' = Pipe
    <3>1. PipeLen' = PipeLen
      BY <1>1, <1>3, <2>1 DEF PipeLen
    <3> QED BY <1>1, <2>1, <3>1 DEF Pipe, ReadBeat, Processed
  <2>3. ConfDone' = ConfDone
    BY <1>1, <1>3, <2>1 DEF ConfDone, Packet, Held, ReadBeat
  <2>4. /\ Target = {} /\ Target' = {} /\ MemDone = mem /\ MemDone' = mem
        /\ StreamDone = Pipe /\ StreamDone' = Pipe
    BY <1>0, <1>1, <1>8, <2>2 DEF IdleMover, Channel
  <2>5. TargetInv'
    BY <1>1, <1>3, <1>8, <2>2, <2>4 DEF TargetInv
  <2> QED BY <2>3, <2>4, <2>5 DEF Completed
<1> QED BY <1>7, <1>8 DEF Channel

\* When a start call returns, its mover is to do what the call says.
LEMMA StartedFacts ==
  ASSUME TypeOK, BusyStarted, DescriptorInv,
         NEW ch \in Channel, At(StartOp(ch)), WriteApcr(ch), ~start[ch]
  PROVE  /\ start'[ch] /\ PAddr'[ch] = Call.addr /\ PLeft'[ch] = Call.size
         /\ ch = "MM2S" => PTid' = Call.tid
         /\ \A c \in Channel \ {ch} :
              /\ start'[c] = start[c] /\ PAddr'[c] = PAddr[c]
              /\ PLeft'[c] = PLeft[c]
         /\ ch # "MM2S" => PTid' = PTid
         /\ UNCHANGED <<reg, run, mem, conf, fifo, app>>
         /\ Call.addr \in Nat /\ Call.size \in Nat
         /\ Call.op = StartOp(ch) /\ pc \in 1..Len(app.calls)
<1> USE DEF TypeOK, HwTypeOK
<1>1. UNCHANGED <<reg, run, mem, conf, fifo, app>> /\ start' = [start EXCEPT ![ch] = TRUE]
  BY DEF WriteApcr, Return
<1>2. \A i \in 1..Len(Fields(ch)) : reg[ch][Fields(ch)[i]] = Call[Fields(ch)[i]]
  BY FieldsFacts DEF DescriptorInv, WriteApcr
<1>3. reg[ch]["addr"] = Call.addr /\ reg[ch]["size"] = Call.size
  BY <1>2, FieldsFacts DEF Fields, Channel
<1>4. ch = "MM2S" => reg[ch]["tid"] = Call.tid
  BY <1>2, FieldsFacts DEF Fields
<1>5. ~run[ch].busy
  BY IdleMovers DEF IdleMover
<1>6. start'[ch] /\ PAddr'[ch] = Call.addr /\ PLeft'[ch] = Call.size
  BY <1>1, <1>3, <1>5 DEF PAddr, PLeft
<1>7. \A c \in Channel \ {ch} :
        start'[c] = start[c] /\ PAddr'[c] = PAddr[c] /\ PLeft'[c] = PLeft[c]
  BY <1>1 DEF PAddr, PLeft
<1>8. (ch = "MM2S" => PTid' = Call.tid) /\ (ch # "MM2S" => PTid' = PTid)
  BY <1>1, <1>4, <1>5 DEF PTid
<1>9. StartOp(ch) \in CallOps
  BY DEF StartOp, CallOps
<1>10. pc \in 1..Len(app.calls) /\ Call.op = StartOp(ch)
  BY <1>9, CallFacts
<1>11. Call.addr \in Nat /\ Call.size \in Nat
  BY <1>3 DEF Register
<1> QED BY <1>1, <1>6, <1>7, <1>8, <1>10, <1>11

\* DataToAccel with a configuration packet, when nothing else is going on.
LEMMA ConfigStartEffect ==
  ASSUME TypeOK, BusyStarted, DescriptorInv, At("DataToAccel"),
         WriteApcr("MM2S"), ~start["MM2S"], ~start["S2MM"], Call.tid \in Tids,
         TypeOK', BusyStarted'
  PROVE  Completed' = Ordered!Effect(Call, Completed) /\ TargetInv'
<1> USE DEF TypeOK, HwTypeOK
<1> "MM2S" \in Channel /\ "S2MM" \in Channel
  BY DEF Channel
<1>1. /\ start'["MM2S"] /\ PAddr'["MM2S"] = Call.addr /\ PLeft'["MM2S"] = Call.size
      /\ PTid' = Call.tid /\ ~start'["S2MM"] /\ PLeft'["S2MM"] = PLeft["S2MM"]
      /\ UNCHANGED <<reg, run, mem, conf, fifo, app>>
      /\ Call.addr \in Nat /\ Call.size \in Nat /\ Call.op = "DataToAccel"
  BY StartedFacts DEF StartOp
<1>2. IdleMover /\ IdleMover'
  BY IdleMovers, IdleAfter
<1>3. Completed = [mem |-> mem, conf |-> conf, stream |-> fifo]
  BY <1>2 DEF Completed, IdleMover
<1>4. ConfigPending' /\ ~PayloadPending'
  BY <1>1 DEF ConfigPending, PayloadPending
<1>5. PipeLen' = Len(fifo) /\ Pipe' = fifo
  <2>1. PipeLen' = Len(fifo)
    BY <1>1, <1>4 DEF PipeLen
  <2>2. \A i \in 1..Len(fifo) : i <= Len(fifo)
    OBVIOUS
  <2>3. Pipe' = [i \in 1..Len(fifo) |-> fifo[i]]
    BY <1>1, <2>1, <2>2 DEF Pipe
  <2> QED BY <2>1, <2>3
<1>6. Target' = {} /\ MemDone' = mem /\ StreamDone' = fifo
  BY <1>1, <1>2, <1>5 DEF IdleMover
<1> DEFINE sent == [k \in 1..Call.size |-> ReadBeat(Call.addr + k - 1).data]
<1>7. Packet' = sent
  <2>1. Held' = 0
    BY <1>1, <1>2 DEF IdleMover, Held
  <2>2. Held' + PLeft'["MM2S"] = Call.size
    BY <1>1, <2>1
  <2>3. \A i \in 1..Call.size : ~(i <= Held') /\ PAddr'["MM2S"] + (i - Held') - 1 = Call.addr + i - 1
    BY <1>1, <2>1
  <2> QED BY <1>1, <2>2, <2>3 DEF Packet, ReadBeat
<1>8. ConfDone' = [conf EXCEPT ![Call.tid] = sent]
  BY <1>1, <1>4, <1>7 DEF ConfDone
<1>9. Ordered!Effect(Call, Completed) = Ordered!Configured(Call, Completed)
  BY <1>1 DEF Ordered!Effect
<1>10. Ordered!Configured(Call, Completed) =
         [mem |-> mem, conf |-> [conf EXCEPT ![Call.tid] = sent], stream |-> fifo]
  <2>1. \A a : Ordered!ReadBeat(Completed, a) = ReadBeat(a)
    BY <1>3 DEF Ordered!ReadBeat, Ordered!Raw, ReadBeat, Raw
  <2>2. Ordered!Configured(Call, Completed) = [Completed EXCEPT !.conf[Call.tid] = sent]
    BY <2>1 DEF Ordered!Configured
  <2> HIDE DEF sent
  <2> QED BY ONLY <1>3, <2>2
<1>11. TargetInv'
  <2>1. PLeft'["S2MM"] = 0
    BY <1>1, <1>2 DEF IdleMover
  <2> QED BY <1>1, <1>5, <1>6, <2>1 DEF TargetInv
<1> QED BY <1>6, <1>8, <1>9, <1>10, <1>11 DEF Completed

\* DataToAccel with a payload, when nothing else is going on.
LEMMA PayloadStartEffect ==
  ASSUME TypeOK, BusyStarted, DescriptorInv, At("DataToAccel"),
         WriteApcr("MM2S"), ~start["MM2S"], ~start["S2MM"], Call.tid \notin Tids,
         TypeOK', BusyStarted'
  PROVE  Completed' = Ordered!Effect(Call, Completed) /\ TargetInv'
<1> USE DEF TypeOK, HwTypeOK
<1> "MM2S" \in Channel /\ "S2MM" \in Channel
  BY DEF Channel
<1>1. /\ start'["MM2S"] /\ PAddr'["MM2S"] = Call.addr /\ PLeft'["MM2S"] = Call.size
      /\ PTid' = Call.tid /\ ~start'["S2MM"] /\ PLeft'["S2MM"] = PLeft["S2MM"]
      /\ UNCHANGED <<reg, run, mem, conf, fifo, app>>
      /\ Call.addr \in Nat /\ Call.size \in Nat /\ Call.op = "DataToAccel"
  BY StartedFacts DEF StartOp
<1>2. IdleMover /\ IdleMover'
  BY IdleMovers, IdleAfter
<1>3. Completed = [mem |-> mem, conf |-> conf, stream |-> fifo]
  BY <1>2 DEF Completed, IdleMover
<1>4. PayloadPending' /\ ~ConfigPending'
  BY <1>1 DEF ConfigPending, PayloadPending
<1> DEFINE sent == [k \in 1..Call.size |-> Processed(ReadBeat(Call.addr + k - 1))]
<1>5. sent \in Seq(Beat) /\ Len(sent) = Call.size
  <2>1. \A k \in 1..Call.size : Processed(ReadBeat(Call.addr + k - 1)) \in Beat
    BY ReadBeatType, ProcessedType
  <2>2. sent \in [1..Call.size -> Beat]
    BY <2>1
  <2>3. Call.size \in Nat
    BY <1>1
  <2> HIDE DEF sent
  <2> QED BY ONLY <2>2, <2>3, FunctionIsSeq
<1> HIDE DEF sent
<1>6. PipeLen' = Len(fifo) + Call.size
  BY <1>1, <1>4 DEF PipeLen
<1>7. Pipe' = fifo \o sent
  <2>1. /\ fifo \o sent \in Seq(Beat) /\ Len(fifo \o sent) = PipeLen'
        /\ \A i \in 1..PipeLen' : (fifo \o sent)[i] =
             IF i <= Len(fifo) THEN fifo[i] ELSE sent[i - Len(fifo)]
    BY <1>5, <1>6, ConcatProperties
  <2>2. ASSUME NEW i \in 1..PipeLen'
        PROVE  Pipe'[i] = (fifo \o sent)[i]
    <3>1. Pipe'[i] = IF i <= Len(fifo) THEN fifo[i]
                     ELSE Processed(ReadBeat(Call.addr + (i - Len(fifo)) - 1))
      BY <1>1 DEF Pipe, ReadBeat, Processed
    <3>2. CASE i <= Len(fifo)
      BY <2>1, <3>1, <3>2
    <3>3. CASE ~(i <= Len(fifo))
      <4>1. i - Len(fifo) \in 1..Call.size
        BY <1>1, <1>6, <3>3
      <4>2. (fifo \o sent)[i] = sent[i - Len(fifo)]
        BY <2>1, <3>3
      <4>3. sent[i - Len(fifo)] = Processed(ReadBeat(Call.addr + (i - Len(fifo)) - 1))
        BY <4>1 DEF sent
      <4> QED BY <3>1, <3>3, <4>2, <4>3
    <3> QED BY <3>2, <3>3
  <2>3. Pipe' \in Seq(Beat) /\ Len(Pipe') = PipeLen'
    <3>1. (TypeOK => Pipe \in [1..PipeLen -> Beat])'
      BY PipeType, PTL
    <3>2. PipeLen' \in Nat
      BY <1>1, <1>6
    <3> QED BY <3>1, <3>2, FunctionIsSeq
  <2> QED BY <2>1, <2>2, <2>3, SeqEqual
<1>8. Target' = {} /\ MemDone' = mem /\ StreamDone' = fifo \o sent
  BY <1>1, <1>2, <1>7 DEF IdleMover
<1>9. ConfDone' = conf
  BY <1>1, <1>4 DEF ConfDone
<1>10. Ordered!Effect(Call, Completed) = Ordered!Streamed(Call, Completed)
  BY <1>1 DEF Ordered!Effect
<1>11. Ordered!Streamed(Call, Completed) =
         [mem |-> mem, conf |-> conf, stream |-> fifo \o sent]
  <2>1. \A a : Ordered!ReadBeat(Completed, a) = ReadBeat(a)
    BY <1>3 DEF Ordered!ReadBeat, Ordered!Raw, ReadBeat, Raw
  <2>2. \A b : [b EXCEPT !.by = Append(@, Completed.conf)] = Processed(b)
    BY <1>3 DEF Processed
  <2>3. Ordered!Streamed(Call, Completed) = [Completed EXCEPT !.stream = @ \o sent]
    BY <2>1, <2>2 DEF Ordered!Streamed, sent
  <2> QED BY ONLY <1>3, <2>3
<1>12. TargetInv'
  <2>1. PLeft'["S2MM"] = 0 /\ PipeLen' \in Nat
    BY <1>1, <1>2, <1>6 DEF IdleMover
  <2> QED BY <1>1, <1>8, <2>1 DEF TargetInv
<1> QED BY <1>8, <1>9, <1>10, <1>11, <1>12 DEF Completed

\* DataFromAccel, when the program may fetch what it asks for.
LEMMA ResultStartEffect ==
  ASSUME TypeOK, BusyStarted, DescriptorInv, TargetInv, At("DataFromAccel"),
         WriteApcr("S2MM"), ~start["S2MM"],
         InBuffer(Call), Call.size <= PipeLen,
         start["MM2S"] =>
           \/ Apart(PAddr["MM2S"], PLeft["MM2S"], Call.addr, Call.size)
           \/ PTid \notin Tids /\ Call.addr + Len(fifo) <= PAddr["MM2S"],
         TypeOK', BusyStarted'
  PROVE  Completed' = Ordered!Effect(Call, Completed) /\ TargetInv'
<1> USE DEF TypeOK, HwTypeOK
<1> "MM2S" \in Channel /\ "S2MM" \in Channel
  BY DEF Channel
<1>1. /\ start'["S2MM"] /\ PAddr'["S2MM"] = Call.addr /\ PLeft'["S2MM"] = Call.size
      /\ PTid' = PTid /\ start'["MM2S"] = start["MM2S"]
      /\ PAddr'["MM2S"] = PAddr["MM2S"] /\ PLeft'["MM2S"] = PLeft["MM2S"]
      /\ UNCHANGED <<reg, run, mem, conf, fifo, app>>
      /\ Call.addr \in Nat /\ Call.size \in Nat /\ Call.op = "DataFromAccel"
  BY StartedFacts DEF StartOp
<1>2. UNCHANGED <<ConfigPending, PayloadPending, Held>>
  BY <1>1 DEF ConfigPending, PayloadPending, Held
<1>3. PipeLen' = PipeLen /\ PipeLen \in Nat
  BY <1>1, <1>2, PendingTypes DEF PipeLen
<1>4. Pipe' = Pipe /\ Pipe \in Seq(Beat) /\ Len(Pipe) = PipeLen
  <2>1. Pipe' = Pipe
    BY <1>1, <1>2, <1>3 DEF Pipe, ReadBeat, Processed
  <2> QED BY <1>3, <2>1, PipeType, FunctionIsSeq
<1>5. ConfDone' = ConfDone
  BY <1>1, <1>2 DEF ConfDone, Packet, ReadBeat
<1>6. Completed = [mem |-> mem, conf |-> ConfDone, stream |-> Pipe]
  BY IdleMovers DEF IdleMover, Completed
<1>7. Target' = Call.addr..(Call.addr + Call.size - 1)
  BY <1>1 DEF Target
<1> DEFINE place == [a \in Addr |->
                       IF a \in Call.addr..(Call.addr + Call.size - 1)
                         THEN Pipe[a - Call.addr + 1] ELSE mem[a]]
<1>8. MemDone' = place
  BY <1>1, <1>4, <1>7 DEF MemDone
<1>9. StreamDone' = SubSeq(Pipe, Call.size + 1, Len(Pipe))
  <2>1. StreamDone' = [i \in 1..(PipeLen - Call.size) |-> Pipe[Call.size + i]]
    BY <1>1, <1>3, <1>4 DEF StreamDone
  <2>2. Call.size \in 0..Len(Pipe)
    BY <1>1, <1>3, <1>4
  <2>3. SubSeq(Pipe, Call.size + 1, Len(Pipe)) =
          [i \in 1..(Len(Pipe) - Call.size) |-> Pipe[Call.size + i]]
    BY ONLY <1>4, <2>2, RestOfSeq
  <2> QED BY <1>4, <2>1, <2>3
<1>10. Ordered!Effect(Call, Completed) = Ordered!Stored(Call, Completed)
  BY <1>1 DEF Ordered!Effect
<1>11. Ordered!Stored(Call, Completed) =
         [mem |-> place, conf |-> ConfDone,
          stream |-> SubSeq(Pipe, Call.size + 1, Len(Pipe))]
  <2>1. Ordered!Stored(Call, Completed) =
          [Completed EXCEPT !.mem = place,
                            !.stream = SubSeq(Pipe, Call.size + 1, Len(Pipe))]
    BY <1>6 DEF Ordered!Stored
  <2> HIDE DEF place
  <2> QED BY ONLY <1>6, <2>1
<1>12. TargetInv'
  <2>1. Target' \subseteq Addr
    BY <1>7 DEF InBuffer
  <2> QED BY <1>1, <1>3, <2>1 DEF TargetInv, Apart
<1> QED BY <1>5, <1>8, <1>9, <1>10, <1>11, <1>12 DEF Completed

\* Load, when neither mover has anything to do with the buffer.
LEMMA LoadEffect ==
  ASSUME TypeOK, BusyStarted, Load, Drained, ~start["S2MM"],
         TypeOK', BusyStarted'
  PROVE  Completed' = Ordered!Effect(Call, Completed) /\ TargetInv'
<1>1. IdleMover /\ IdleMover'
  BY IdleMovers, IdleAfter
<1>2. /\ UNCHANGED <<reg, start, run, conf, fifo>> /\ Call.op = "Load"
      /\ mem' = [a \in Addr |->
                   IF a \in DOMAIN Call.image THEN Raw(Call.image[a])
                   ELSE IF Call.fresh THEN Raw(Junk) ELSE mem[a]]
  BY DEF Load, At
<1>3. Completed = [mem |-> mem, conf |-> conf, stream |-> fifo]
  BY <1>1 DEF Completed, IdleMover
<1>9. Drained'
  <2>1. UNCHANGED <<PLeft, PTid>>
    BY <1>2 DEF PLeft, PTid
  <2> QED BY <1>2, <2>1 DEF Drained, ConfigPending
<1>4. Completed' = [mem |-> mem', conf |-> conf, stream |-> fifo]
  BY <1>1, <1>2, <1>9 DEF Completed, IdleMover
<1>5. Ordered!Effect(Call, Completed) = Ordered!Loaded(Call, Completed)
  BY <1>2 DEF Ordered!Effect
<1>6. Ordered!Loaded(Call, Completed) = [Completed EXCEPT !.mem = mem']
  BY <1>2, <1>3 DEF Ordered!Loaded, Ordered!Raw, Raw
<1>7. Ordered!Loaded(Call, Completed) = [mem |-> mem', conf |-> conf, stream |-> fifo]
  BY <1>3, <1>6
<1>8. TargetInv'
  <2>1. PLeft'["S2MM"] = 0 /\ PipeLen' \in Nat /\ Target' = {}
    BY <1>1, <1>2, <1>9, PendingTypes DEF IdleMover, Channel, TypeOK, HwTypeOK
  <2> QED BY <1>2, <2>1 DEF TargetInv
<1> QED BY <1>4, <1>5, <1>7, <1>8

\* A step that changes nothing.
LEMMA UnchangedKeeps ==
  ASSUME UNCHANGED vars, DescriptorInv, TargetInv
  PROVE  Completed' = Completed /\ TargetInv' /\ DescriptorInv' /\ pc' = pc /\ app' = app
<1>1. UNCHANGED <<reg, start, run, mem, conf, fifo, app, pc, stage>>
  BY DEF vars
<1>2. UNCHANGED <<PAddr, PLeft, PTid>>
  BY <1>1 DEF PAddr, PLeft, PTid
<1>3. UNCHANGED <<ConfigPending, PayloadPending, PipeLen, Held, Target>>
  BY <1>1, <1>2 DEF ConfigPending, PayloadPending, PipeLen, Held, Target
<1>4. Pipe' = Pipe /\ Packet' = Packet
  BY <1>1, <1>2, <1>3 DEF Pipe, Packet, ReadBeat, Processed
<1>5. Completed' = Completed
  BY <1>1, <1>2, <1>3, <1>4 DEF Completed, MemDone, ConfDone, StreamDone
<1>6. TargetInv' /\ DescriptorInv'
  BY <1>1, <1>2, <1>3 DEF TargetInv, DescriptorInv, At, Call
<1> QED BY <1>1, <1>5, <1>6

\* The calls that only wait, start the module or look at something.
LEMMA QuietEffect ==
  ASSUME TargetInv, UNCHANGED <<reg, start, run, mem, conf, fifo>>,
         Call.op \notin {"Load", "DataToAccel", "DataFromAccel"}
  PROVE  Completed' = Completed /\ Ordered!Effect(Call, Completed) = Completed
         /\ TargetInv'
<1>1. UNCHANGED <<PAddr, PLeft, PTid>>
  BY DEF PAddr, PLeft, PTid
<1>2. UNCHANGED <<ConfigPending, PayloadPending, PipeLen, Held, Target>>
  BY <1>1 DEF ConfigPending, PayloadPending, PipeLen, Held, Target
<1>3. Pipe' = Pipe /\ Packet' = Packet
  BY <1>1, <1>2 DEF Pipe, Packet, ReadBeat, Processed
<1>4. Completed' = Completed
  BY <1>1, <1>2, <1>3 DEF Completed, MemDone, ConfDone, StreamDone
<1>5. TargetInv'
  BY <1>1, <1>2 DEF TargetInv
<1> QED BY <1>4, <1>5 DEF Ordered!Effect

------------------------------------------------------------------------------
(***************************************************************************)
(* The descriptors.                                                        *)
(***************************************************************************)

\* What is outstanding after a call was started by it or was so before.
LEMMA StartedByStep ==
  ASSUME NEW c, NEW p \in Nat \ {0}, NEW ch \in Channel, NEW q,
         StartedBy(c, p + 1, ch, q)
  PROVE  \/ q = p /\ c[p].op = StartOp(ch)
         \/ StartedBy(c, p, ch, q) /\ c[p].op # StartOp(ch)
<1>1. q \in 1..p /\ c[q].op = StartOp(ch) /\ \A j \in (q + 1)..p : c[j].op # StartOp(ch)
  BY DEF StartedBy
<1>2. CASE q = p
  BY <1>1, <1>2
<1>3. CASE q # p
  BY <1>1, <1>3 DEF StartedBy
<1> QED BY <1>2, <1>3

\* A call that started a transfer has an address and a length.
LEMMA StartedByType ==
  ASSUME TypeOK, NEW ch \in Channel, NEW q, StartedBy(app.calls, pc, ch, q)
  PROVE  /\ q \in 1..Len(app.calls)
         /\ app.calls[q].addr \in Nat /\ app.calls[q].size \in Nat
<1>1. Len(app.calls) \in Nat /\ \A i \in 1..Len(app.calls) : CallOK(app.calls[i])
  BY WorkloadsAssumption DEF TypeOK
<1>2. q \in 1..Len(app.calls) /\ app.calls[q].op = StartOp(ch)
  BY <1>1 DEF StartedBy, TypeOK
<1> QED BY <1>1, <1>2 DEF CallOK, StartOp

\* The transfer that is outstanding is the last that was started.
LEMMA OutstandingStartedBy ==
  ASSUME NEW c, Handshaked(c), Len(c) \in Nat, NEW p \in 1..(Len(c) + 1),
         NEW ch \in Channel, Outstanding(c, p, ch)
  PROVE  \E q : StartedBy(c, p, ch, q)
<1>1. PICK q \in 1..(p - 1) :
        c[q].op = StartOp(ch) /\ \A j \in (q + 1)..(p - 1) : c[j].op # AwaitOp(ch)
  BY DEF Outstanding
<1>2. ASSUME NEW j \in (q + 1)..(p - 1)
      PROVE  c[j].op # StartOp(ch)
  <2>1. Outstanding(c, j, ch)
    BY <1>1 DEF Outstanding
  <2>2. j \in 1..Len(c)
    OBVIOUS
  <2> QED BY <2>1, <2>2 DEF Handshaked
<1> QED BY <1>1, <1>2 DEF StartedBy

\* A program that follows the discipline starts an idle mover.
LEMMA StartsIdle ==
  ASSUME TypeOK, HandshakeInv, Handshaked(app.calls),
         NEW ch \in Channel, At(StartOp(ch))
  PROVE  /\ ~Outstanding(app.calls, pc, ch) /\ ~start[ch]
         /\ pc \in 1..Len(app.calls) /\ app.calls[pc].op = StartOp(ch)
<1>1. StartOp(ch) \in CallOps
  BY DEF StartOp, CallOps
<1>2. pc \in 1..Len(app.calls) /\ app.calls[pc].op = StartOp(ch)
  BY <1>1, CallFacts DEF Call
<1>3. ~Outstanding(app.calls, pc, ch)
  BY <1>2 DEF Handshaked
<1> QED BY <1>2, <1>3 DEF HandshakeInv, ChannelInv

\* What is pending on a mover shrinks from its start; its end and its stream
\* stay.
LEMMA HardwareKeepsPending ==
  ASSUME TypeOK, BusyStarted, Hardware, NEW ch \in Channel, start'[ch]
  PROVE  /\ start[ch]
         /\ PAddr'[ch] >= PAddr[ch]
         /\ PAddr'[ch] + PLeft'[ch] = PAddr[ch] + PLeft[ch]
         /\ ch = "MM2S" => PTid' = PTid
<1> USE DEF TypeOK, HwTypeOK
<1>0. PAddr[ch] \in Nat /\ PLeft[ch] \in Nat
  BY PendingTypes
<1>1. ASSUME NEW mover \in Channel, Begin(mover)
      PROVE  /\ start[ch]
             /\ PAddr'[ch] >= PAddr[ch]
             /\ PAddr'[ch] + PLeft'[ch] = PAddr[ch] + PLeft[ch]
             /\ ch = "MM2S" => PTid' = PTid
  <2>1. start[ch] /\ PAddr'[ch] = PAddr[ch] /\ PLeft'[ch] = PLeft[ch]
    BY <1>1 DEF Begin, PAddr, PLeft
  <2>2. PTid' = PTid
    BY <1>1 DEF Begin, PTid, Channel
  <2> QED BY <1>0, <2>1, <2>2
<1>2. ASSUME NEW mover \in Channel, Finish(mover)
      PROVE  /\ start[ch]
             /\ PAddr'[ch] >= PAddr[ch]
             /\ PAddr'[ch] + PLeft'[ch] = PAddr[ch] + PLeft[ch]
             /\ ch = "MM2S" => PTid' = PTid
  <2>1. mover # ch /\ start[ch] /\ start' = [start EXCEPT ![mover] = FALSE]
    BY <1>2 DEF Finish
  <2>2. reg' = reg /\ run'[ch] = run[ch]
    BY <1>2, <2>1 DEF Finish
  <2>3. PAddr'[ch] = PAddr[ch] /\ PLeft'[ch] = PLeft[ch]
    BY <2>1, <2>2 DEF PAddr, PLeft
  <2>4. ch = "MM2S" => PTid' = PTid
    BY <2>2 DEF PTid
  <2> QED BY <1>0, <2>1, <2>3, <2>4
<1>3. ASSUME NEW mover \in Channel, run[mover].busy, run[mover].left > 0,
             Advance(mover), UNCHANGED <<reg, start>>
      PROVE  /\ start[ch]
             /\ PAddr'[ch] >= PAddr[ch]
             /\ PAddr'[ch] + PLeft'[ch] = PAddr[ch] + PLeft[ch]
             /\ ch = "MM2S" => PTid' = PTid
  <2>1. CASE mover = ch
    <3>1. /\ start[ch] /\ PTid' = PTid
          /\ PAddr'[ch] = PAddr[ch] + 1 /\ PLeft'[ch] = PLeft[ch] - 1
      BY <1>3, <2>1, AdvanceFacts
    <3> QED BY ONLY <1>0, <3>1
  <2>2. CASE mover # ch
    BY <1>0, <1>3, <2>2, AdvanceFacts
  <2> QED BY <2>1, <2>2
<1>4. CASE ConfigBeat \/ PayloadBeat \/ ResultBeat
  BY <1>3, <1>4 DEF ConfigBeat, PayloadBeat, ResultBeat, Channel
<1>5. CASE \E mover \in Channel : Begin(mover) \/ Finish(mover)
  BY ONLY <1>1, <1>2, <1>5
<1> QED BY ONLY Hardware, <1>4, <1>5 DEF Hardware

\* The hardware keeps to what it was given.
LEMMA HardwareKeepsDescriptor ==
  ASSUME TypeOK, BusyStarted, DescriptorInv, Hardware
  PROVE  DescriptorInv'
<1> USE DEF TypeOK, HwTypeOK
<1>1. UNCHANGED <<reg, app, pc, stage>>
  BY DEF Hardware, Begin, Finish, ConfigBeat, PayloadBeat, ResultBeat, cpuVars
<1>3. ASSUME NEW ch \in Channel, start'[ch], NEW q, StartedBy(app.calls, pc, ch, q)
      PROVE  /\ PAddr'[ch] + PLeft'[ch] = app.calls[q].addr + app.calls[q].size
             /\ PAddr'[ch] >= app.calls[q].addr
             /\ ch = "MM2S" => PTid' = app.calls[q].tid
  <2>1. /\ PAddr[ch] + PLeft[ch] = app.calls[q].addr + app.calls[q].size
        /\ PAddr[ch] >= app.calls[q].addr
        /\ ch = "MM2S" => PTid = app.calls[q].tid
    BY <1>3, HardwareKeepsPending DEF DescriptorInv
  <2>2. app.calls[q].addr \in Nat
    BY <1>3, StartedByType
  <2>3. PAddr[ch] \in Nat /\ PAddr'[ch] >= PAddr[ch] /\ PAddr'[ch] \in Nat
    <3>1. (TypeOK => PAddr \in [Channel -> Nat])'
      BY PendingTypes, PTL
    <3> QED BY <1>3, <3>1, HardwareKeepsPending, PendingTypes, HardwareTypeOK
  <2>4. PAddr'[ch] + PLeft'[ch] = PAddr[ch] + PLeft[ch] /\ (ch = "MM2S" => PTid' = PTid)
    BY <1>3, HardwareKeepsPending
  <2> QED BY <2>1, <2>2, <2>3, <2>4
<1> QED BY <1>1, <1>3 DEF DescriptorInv, At, Call

\* Each register write puts down one field more of the call's descriptor.
LEMMA WriteKeepsDescriptor ==
  ASSUME TypeOK, DescriptorInv,
         NEW ch \in Channel, At(StartOp(ch)), WriteDescriptor(ch),
         start[ch] => run[ch].busy
  PROVE  DescriptorInv'
<1> USE DEF TypeOK, HwTypeOK
<1>1. UNCHANGED <<start, run, app, pc>>
  BY DEF WriteDescriptor
<1>2. \A c \in Channel \ {ch} : reg'[c] = reg[c] /\ ~At(StartOp(c))
  BY OpsDiffer DEF WriteDescriptor, At
<1>3. ASSUME NEW i \in 1..stage, i <= Len(Fields(ch))
      PROVE  reg'[ch][Fields(ch)[i]] = Call[Fields(ch)[i]]
  <2>1. stage <= Len(Fields(ch)) /\ Fields(ch)[stage] \in Register
    BY FieldsFacts DEF WriteDescriptor
  <2>2. reg'[ch] = [reg[ch] EXCEPT ![Fields(ch)[stage]] = Call[Fields(ch)[stage]]]
    BY DEF WriteDescriptor
  <2>3. CASE i = stage
    BY <2>1, <2>2, <2>3
  <2>4. CASE i # stage
    <3>1. Fields(ch)[i] # Fields(ch)[stage] /\ Fields(ch)[i] \in Register
      BY <1>3, <2>1, <2>4, FieldsFacts DEF Fields
    <3>2. reg[ch][Fields(ch)[i]] = Call[Fields(ch)[i]]
      BY <1>3, <2>4 DEF DescriptorInv
    <3> QED BY <2>2, <3>1, <3>2
  <2> QED BY <2>3, <2>4
<1>4. ASSUME NEW c \in Channel, start[c]
      PROVE  PAddr'[c] = PAddr[c] /\ PLeft'[c] = PLeft[c] /\ (c = "MM2S" => PTid' = PTid)
  BY <1>1, <1>2, <1>4 DEF PAddr, PLeft, PTid
<1>5. stage' - 1 = stage
  BY DEF WriteDescriptor
<1> QED BY <1>1, <1>2, <1>3, <1>4, <1>5 DEF DescriptorInv, At, Call

\* A start call that returns leaves a mover with the descriptor of the call.
LEMMA ApcrKeepsDescriptor ==
  ASSUME TypeOK, BusyStarted, DescriptorInv,
         NEW ch \in Channel, At(StartOp(ch)), WriteApcr(ch), ~start[ch]
  PROVE  DescriptorInv'
<1>1. pc \in Nat \ {0} /\ app.calls[pc].op = StartOp(ch)
  <2>1. StartOp(ch) \in CallOps
    BY DEF StartOp, CallOps
  <2> QED BY <2>1, CallFacts DEF Call
<1>2. /\ PAddr'[ch] = Call.addr /\ PLeft'[ch] = Call.size
      /\ ch = "MM2S" => PTid' = Call.tid
      /\ \A c \in Channel \ {ch} :
           start'[c] = start[c] /\ PAddr'[c] = PAddr[c] /\ PLeft'[c] = PLeft[c]
      /\ ch # "MM2S" => PTid' = PTid
      /\ Call.addr \in Nat /\ Call.size \in Nat
  BY <1>1, StartedFacts
<1>3. stage' = 1 /\ pc' = pc + 1 /\ app' = app
  BY DEF WriteApcr, Return
<1>4. ASSUME NEW c \in Channel, start'[c], NEW q, StartedBy(app.calls, pc + 1, c, q)
      PROVE  /\ PAddr'[c] + PLeft'[c] = app.calls[q].addr + app.calls[q].size
             /\ PAddr'[c] >= app.calls[q].addr
             /\ c = "MM2S" => PTid' = app.calls[q].tid
  <2>1. CASE c = ch
    <3>2. q = pc
      BY <1>1, <1>4, <2>1, StartedByStep
    <3> QED BY <1>2, <2>1, <3>2 DEF Call
  <2>2. CASE c # ch
    <3>1. app.calls[pc].op # StartOp(c)
      BY <1>1, <2>2, OpsDiffer
    <3>2. StartedBy(app.calls, pc, c, q) /\ start[c]
      BY <1>1, <1>2, <1>4, <2>2, <3>1, StartedByStep
    <3>3. /\ PAddr[c] + PLeft[c] = app.calls[q].addr + app.calls[q].size
          /\ PAddr[c] >= app.calls[q].addr
          /\ c = "MM2S" => PTid = app.calls[q].tid
      BY <3>2 DEF DescriptorInv
    <3> QED BY <1>2, <2>2, <3>3 DEF Channel
  <2> QED BY <2>1, <2>2
<1>5. \A c \in Channel : \A i \in 1..(stage' - 1) : FALSE
  BY <1>3
<1> QED BY <1>3, <1>4, <1>5 DEF DescriptorInv

\* So does every other call that returns.
LEMMA ReturnKeepsDescriptor ==
  ASSUME TypeOK, DescriptorInv, Return, UNCHANGED <<reg, start, run>>,
         NEW op \in CallOps, At(op), \A ch \in Channel : op # StartOp(ch)
  PROVE  DescriptorInv'
<1>1. pc \in Nat \ {0} /\ app.calls[pc].op = op
  BY CallFacts DEF Call
<1>2. UNCHANGED <<PAddr, PLeft, PTid>>
  BY DEF PAddr, PLeft, PTid
<1>3. stage' = 1 /\ pc' = pc + 1 /\ app' = app
  BY DEF Return
<1>4. ASSUME NEW c \in Channel, NEW q, StartedBy(app.calls, pc + 1, c, q)
      PROVE  StartedBy(app.calls, pc, c, q)
  BY <1>1, <1>4, StartedByStep
<1>5. \A c \in Channel : \A i \in 1..(stage' - 1) : FALSE
  BY <1>3
<1> QED BY <1>2, <1>3, <1>4, <1>5 DEF DescriptorInv

------------------------------------------------------------------------------
(***************************************************************************)
(* The invariant is inductive.                                             *)
(***************************************************************************)

SessionInv == SlotInv /\ view = Completed /\ ViewsInv

\* A program that asks for results that will be there, and for a place that
\* the payload MM2S was given last does not come from, lets S2MM write where
\* nothing has still to be read.
LEMMA BehindFacts ==
  ASSUME TypeOK, BusyStarted, DescriptorInv, NEW v, Completed = v[pc],
         At("DataFromAccel"), ~start["S2MM"], InBuffer(Call),
         Call.size <= Len(v[pc].stream),
         start["MM2S"] => \E q : /\ StartedBy(app.calls, pc, "MM2S", q)
                                /\ Behind(app.calls[q], Call, v[pc])
  PROVE  /\ Call.size <= PipeLen
         /\ start["MM2S"] =>
              \/ Apart(PAddr["MM2S"], PLeft["MM2S"], Call.addr, Call.size)
              \/ PTid \notin Tids /\ Call.addr + Len(fifo) <= PAddr["MM2S"]
<1> "MM2S" \in Channel /\ "S2MM" \in Channel
  BY DEF Channel
<1>1. Call.addr \in Nat /\ Call.size \in Nat
  BY CallFacts DEF CallOps, CallOK
<1>3. v[pc].stream = Pipe
  BY IdleMovers DEF IdleMover, Completed
<1>4. PipeLen \in Nat /\ Len(Pipe) = PipeLen
  BY PendingTypes, PipeType, FunctionIsSeq
<1>6. ASSUME start["MM2S"]
      PROVE  \/ Apart(PAddr["MM2S"], PLeft["MM2S"], Call.addr, Call.size)
             \/ PTid \notin Tids /\ Call.addr + Len(fifo) <= PAddr["MM2S"]
  <2>2. PICK q : StartedBy(app.calls, pc, "MM2S", q) /\ Behind(app.calls[q], Call, v[pc])
    BY <1>6
  <2>3. /\ PAddr["MM2S"] + PLeft["MM2S"] = app.calls[q].addr + app.calls[q].size
        /\ PAddr["MM2S"] >= app.calls[q].addr /\ PTid = app.calls[q].tid
    BY <1>6, <2>2 DEF DescriptorInv
  <2>4. /\ app.calls[q].addr \in Nat /\ app.calls[q].size \in Nat
        /\ PAddr["MM2S"] \in Nat /\ PLeft["MM2S"] \in Nat /\ Len(fifo) \in Nat
    BY <2>2, StartedByType, PendingTypes
  <2>6. CASE Apart(app.calls[q].addr, app.calls[q].size, Call.addr, Call.size)
    BY ONLY <1>1, <2>3, <2>4, <2>6 DEF Apart
  <2>7. CASE /\ app.calls[q].tid \notin Tids
             /\ Call.addr + Len(Pipe) <= app.calls[q].addr + app.calls[q].size
    <3>1. PipeLen = Len(fifo) + PLeft["MM2S"]
      BY <1>6, <2>3, <2>7 DEF PipeLen, PayloadPending
    <3>2. Call.addr + PipeLen <= PAddr["MM2S"] + PLeft["MM2S"]
      BY ONLY <1>4, <2>3, <2>7
    <3>3. \A to, from, len, left \in Nat :
            to + (len + left) <= from + left => to + len <= from
      BY ONLY TRUE
    <3>4. Call.addr + Len(fifo) <= PAddr["MM2S"]
      BY ONLY <1>1, <2>4, <3>1, <3>2, <3>3
    <3> QED BY ONLY <2>3, <2>7, <3>4
  <2> QED BY <1>3, <2>2, <2>6, <2>7 DEF Behind
<1> QED BY <1>3, <1>4, <1>6

\* A disciplined program does so.
LEMMA FetchFacts ==
  ASSUME SlotInv, NEW v, Completed = v[pc], Disciplined(app.calls, v),
         At("DataFromAccel")
  PROVE  /\ InBuffer(Call) /\ Call.size <= PipeLen
         /\ start["MM2S"] =>
              \/ Apart(PAddr["MM2S"], PLeft["MM2S"], Call.addr, Call.size)
              \/ PTid \notin Tids /\ Call.addr + Len(fifo) <= PAddr["MM2S"]
<1> USE DEF SlotInv
<1>1. pc \in 1..Len(app.calls) /\ app.calls[pc] = Call /\ Call.op = "DataFromAccel"
      /\ Len(app.calls) \in Nat
  BY CallFacts, WorkloadsAssumption DEF CallOps, Call, TypeOK
<1>2. ~start["S2MM"]
  BY StartsIdle DEF StartOp, Disciplined, Channel
<1>3. /\ InBuffer(Call) /\ Call.size <= Len(v[pc].stream)
      /\ Outstanding(app.calls, pc, "MM2S") =>
           \A q : StartedBy(app.calls, pc, "MM2S", q) => Behind(app.calls[q], Call, v[pc])
  BY <1>1 DEF Disciplined
<1>4. ASSUME start["MM2S"]
      PROVE  \E q : /\ StartedBy(app.calls, pc, "MM2S", q)
                    /\ Behind(app.calls[q], Call, v[pc])
  <2>1. Outstanding(app.calls, pc, "MM2S") /\ "MM2S" \in Channel
    BY <1>4 DEF HandshakeInv, ChannelInv, Channel
  <2>2. PICK q : StartedBy(app.calls, pc, "MM2S", q)
    BY <1>1, <2>1, OutstandingStartedBy DEF Disciplined
  <2> QED BY <1>3, <2>1, <2>2
<1> QED BY <1>2, <1>3, <1>4, BehindFacts, HandshakeBusy

\* What a step of the session does to what will be: a call that returns has
\* the effect OrderedCalls gives it, nothing else has any.
LEMMA SessionStep ==
  ASSUME SlotInv, NEW v, Completed = v[pc], Disciplined(app.calls, v),
         Next, TypeOK', HandshakeInv'
  PROVE  /\ app' = app /\ DescriptorInv' /\ TargetInv'
         /\ \/ pc' = pc /\ Completed' = Completed
            \/ /\ pc' = pc + 1 /\ pc \in 1..Len(app.calls)
               /\ Completed' = Ordered!Effect(Call, Completed)
<1> USE DEF SlotInv
<1> "MM2S" \in Channel /\ "S2MM" \in Channel
  BY DEF Channel
<1> DEFINE Goal == /\ app' = app /\ DescriptorInv' /\ TargetInv'
                   /\ \/ pc' = pc /\ Completed' = Completed
                      \/ /\ pc' = pc + 1 /\ pc \in 1..Len(app.calls)
                         /\ Completed' = Ordered!Effect(Call, Completed)
<1>1. Handshaked(app.calls)
  BY DEF Disciplined
<1>2. CASE Hardware
  BY <1>2, HandshakeBusy, HardwareKeepsDescriptor, HardwareKeepsCompleted
     DEF Hardware, cpuVars
<1>0. BusyStarted /\ BusyStarted'
  <2>1. (HandshakeInv => BusyStarted)'
    BY HandshakeBusy, PTL
  <2> QED BY <2>1, HandshakeBusy
<1>3. ASSUME NEW ch \in Channel, At(StartOp(ch)), WriteDescriptor(ch)
      PROVE  Goal
  BY <1>0, <1>1, <1>3, StartsIdle, WriteKeepsDescriptor, DescriptorKeeps DEF WriteDescriptor
<1>4. ASSUME At("DataToAccel"), WriteApcr("MM2S")
      PROVE  Goal
  <2>1. DescriptorInv'
    BY <1>0, <1>1, <1>4, StartsIdle, ApcrKeepsDescriptor DEF StartOp
  <2>2. pc \in 1..Len(app.calls) /\ app.calls[pc].op = "DataToAccel"
    BY <1>4, CallFacts DEF CallOps, Call
  <2>3. ~start["MM2S"] /\ ~start["S2MM"]
    BY <2>2 DEF Disciplined, HandshakeInv, ChannelInv
  <2>4. Completed' = Ordered!Effect(Call, Completed) /\ TargetInv'
    BY <1>0, <1>4, <2>3, ConfigStartEffect, PayloadStartEffect
  <2> QED BY <1>4, <2>1, <2>2, <2>4 DEF WriteApcr, Return
<1>5. ASSUME At("DataFromAccel"), WriteApcr("S2MM")
      PROVE  Goal
  <2>1. DescriptorInv'
    BY <1>0, <1>1, <1>5, StartsIdle, ApcrKeepsDescriptor DEF StartOp
  <2>2. pc \in 1..Len(app.calls) /\ ~start["S2MM"]
    BY <1>1, <1>5, StartsIdle DEF StartOp
  <2>3. Completed' = Ordered!Effect(Call, Completed) /\ TargetInv'
    BY <1>0, <1>5, <2>2, FetchFacts, ResultStartEffect
  <2> QED BY <1>5, <2>1, <2>2, <2>3 DEF WriteApcr, Return
<1>6. ASSUME NEW op \in CallOps \ {"Load", "DataToAccel", "DataFromAccel"}, At(op),
             Return, UNCHANGED <<reg, start, run, mem, conf, fifo>>
      PROVE  Goal
  <2>1. DescriptorInv'
    BY <1>6, ReturnKeepsDescriptor DEF StartOp, Channel
  <2>2. pc \in 1..Len(app.calls) /\ Call.op = op
    BY <1>6, CallFacts
  <2>3. Completed' = Completed /\ Ordered!Effect(Call, Completed) = Completed /\ TargetInv'
    BY <1>6, <2>2, QuietEffect
  <2> QED BY <1>6, <2>1, <2>2, <2>3 DEF Return
<1>7. ASSUME NEW ch \in Channel, At(AwaitOp(ch)), ReadDone(ch) \/ ReadNotDone(ch)
      PROVE  Goal
  <2>1. AwaitOp(ch) \in CallOps \ {"Load", "DataToAccel", "DataFromAccel"}
    BY DEF AwaitOp, CallOps
  <2>2. CASE ReadDone(ch)
    BY <1>6, <1>7, <2>1, <2>2 DEF ReadDone
  <2>3. CASE ReadNotDone(ch)
    BY <2>3, UnchangedKeeps DEF ReadNotDone
  <2> QED BY <1>7, <2>2, <2>3
<1>8. CASE StartAccel \/ Observe
  BY <1>6, <1>8 DEF StartAccel, Observe, hwVars, CallOps
<1>9. CASE Load
  <2>1. DescriptorInv'
    BY <1>9, ReturnKeepsDescriptor DEF Load, StartOp, Channel, CallOps
  <2>2. pc \in 1..Len(app.calls) /\ app.calls[pc].op = "Load"
    BY <1>9, CallFacts DEF Load, CallOps, Call
  <2>3. ~start["MM2S"] /\ ~start["S2MM"]
    BY <2>2 DEF Disciplined, HandshakeInv, ChannelInv
  <2>4. Drained
    BY <1>0, <2>3, IdleMovers, HandshakeBusy DEF IdleMover
  <2> QED BY <1>0, <1>9, <2>1, <2>2, <2>3, <2>4, LoadEffect DEF Load, Return
<1>10. CASE Exited
  BY <1>10, UnchangedKeeps DEF Exited
<1>11. CASE DataToAccel \/ DataFromAccel
  BY <1>3, <1>4, <1>5, <1>11 DEF DataToAccel, DataFromAccel, StartOp
<1>12. CASE DataToAccelDone \/ DataFromAccelDone
  BY <1>7, <1>12 DEF DataToAccelDone, DataFromAccelDone, AwaitOp
<1> QED BY <1>2, <1>8, <1>9, <1>10, <1>11, <1>12 DEF Next, Cpu

\* Every step of the session keeps the slot in step with the program.
LEMMA InStepKept ==
  ASSUME SlotInv, NEW v, Follows(app.calls, v), Completed = v[pc],
         Disciplined(app.calls, v), [Next]_vars
  PROVE  SlotInv' /\ Completed' = v[pc'] /\ app' = app
<1>1. TypeOK'
  <2>1. CASE Cpu
    BY <2>1, CpuTypeOK DEF SlotInv
  <2>2. CASE Hardware
    BY <2>2, HardwareTypeOK DEF SlotInv
  <2>3. CASE UNCHANGED vars
    BY <2>3 DEF vars, SlotInv, TypeOK, HwTypeOK
  <2> QED BY <2>1, <2>2, <2>3 DEF Next, Exited
<1>2. HandshakeInv'
  <2>1. CASE Cpu
    BY <2>1, CpuKeepsHandshake DEF SlotInv, Disciplined
  <2>2. CASE Hardware
    BY <2>2, HardwareKeepsHandshake DEF SlotInv
  <2>3. CASE UNCHANGED vars
    BY <2>3 DEF vars, SlotInv, HandshakeInv, ChannelInv
  <2> QED BY <2>1, <2>2, <2>3 DEF Next, Exited
<1>3. /\ app' = app /\ DescriptorInv' /\ TargetInv'
      /\ \/ pc' = pc /\ Completed' = Completed
         \/ /\ pc' = pc + 1 /\ pc \in 1..Len(app.calls)
            /\ Completed' = Ordered!Effect(Call, Completed)
  BY <1>1, <1>2, SessionStep, UnchangedKeeps DEF SlotInv
<1>4. ASSUME pc \in 1..Len(app.calls)
      PROVE  v[pc + 1] = Ordered!Effect(Call, Completed)
  BY <1>4 DEF Follows, Call
<1>5. Completed' = v[pc']
  BY ONLY <1>3, <1>4, Completed = v[pc]
<1> QED BY <1>1, <1>2, <1>3, <1>5 DEF SlotInv

\* Nothing is requested, running or reported, and nothing waits to be fetched.
SlotQuiet ==
  /\ \A ch \in Channel : ~start[ch] /\ ~done[ch] /\ ~run[ch].busy
  /\ fifo = <<>>

\* A program that is launched on such a slot is in step with it.
LaunchState ==
  /\ TypeOK
  /\ pc = 1 /\ stage = 1
  /\ SlotQuiet
  /\ mem = [a \in Addr |-> Raw(Junk)]

LEMMA LaunchInStep ==
  LaunchState => SlotInv /\ Completed = [Ordered!Fresh EXCEPT !.conf = conf]
<1> SUFFICES ASSUME LaunchState
             PROVE  SlotInv /\ Completed = [Ordered!Fresh EXCEPT !.conf = conf]
  OBVIOUS
<1> USE DEF LaunchState, SlotQuiet
<1>0. pc = 1 /\ stage = 1
      /\ \A ch \in Channel : ~start[ch] /\ ~done[ch] /\ ~run[ch].busy
  OBVIOUS
<1>1. HandshakeInv
  <2>1. \A ch \in Channel : ~Outstanding(app.calls, pc, ch)
    <3>1. \A i \in 1..(pc - 1) : FALSE
      BY ONLY <1>0
    <3> QED BY ONLY <3>1 DEF Outstanding
  <2> QED BY ONLY <1>0, <2>1 DEF HandshakeInv, ChannelInv
<1>2. ~start["MM2S"] /\ ~start["S2MM"]
  BY DEF Channel
<1>3. IdleMover
  BY <1>1, IdleMovers, HandshakeBusy
<1>4. Completed = [mem |-> mem, conf |-> conf, stream |-> fifo]
  BY <1>2, <1>3 DEF Completed, IdleMover
<1>5. DescriptorInv
  <2>1. \A i \in 1..(stage - 1) : FALSE
    BY ONLY <1>0
  <2> QED BY ONLY <1>0, <2>1 DEF DescriptorInv
<1>6. TargetInv
  BY <1>2, <1>3, PendingTypes DEF TargetInv, IdleMover, Channel
<1>7. Completed = [Ordered!Fresh EXCEPT !.conf = conf]
  BY <1>4 DEF Ordered!Fresh, Ordered!Raw, Raw
<1> QED BY <1>1, <1>5, <1>6, <1>7 DEF SlotInv

\* Initially nothing is pending and nothing was called.
LEMMA SessionInitially ==
  ASSUME ObservedInit, TypeOK
  PROVE  SessionInv
<1>1. LaunchState /\ view = Ordered!Fresh /\ conf = [t \in Tids |-> <<>>] /\ pc = 1
  BY DEF ObservedInit, Init, HwInit, NoTransfer, LaunchState, SlotQuiet
<1>2. SlotInv /\ Completed = [Ordered!Fresh EXCEPT !.conf = conf]
  BY <1>1, LaunchInStep
<1>3. view = Completed
  BY <1>1, <1>2 DEF Ordered!Fresh
<1>4. ViewsInv
  BY <1>1 DEF ViewsInv, Views
<1> QED BY <1>2, <1>3, <1>4 DEF SessionInv

\* The observer's variables change nothing of the session.
LEMMA ObservedIsSession == ObservedSpec => Spec
<1>1. ObservedInit => Init
  BY DEF ObservedInit
<1>2. [ObservedNext]_observedVars => [Next]_vars
  BY DEF ObservedNext, observedVars, vars
<1> QED BY <1>1, <1>2, PTL DEF ObservedSpec, Spec

\* The invariant holds of every session of disciplined programs.
LEMMA SessionInductive ==
  ASSUME \A w \in Workloads : \E v : Views(w.calls, v) /\ Disciplined(w.calls, v)
  PROVE  ObservedSpec => []SessionInv
<1>1. ObservedInit /\ TypeOK => SessionInv
  BY SessionInitially
<1>2. SessionInv /\ TypeOK' /\ HandshakeInv' /\ [ObservedNext]_observedVars
        => SessionInv'
  <2> SUFFICES ASSUME SessionInv, TypeOK', HandshakeInv', [ObservedNext]_observedVars
               PROVE  SessionInv'
    OBVIOUS
  <2>1. PICK v : Views(app.calls, v) /\ Disciplined(app.calls, v)
    BY DEF SessionInv, SlotInv, TypeOK
  <2>0. SlotInv /\ Completed = v[pc]
    BY <2>1 DEF SessionInv, ViewsInv
  <2>2. CASE ObservedNext
    <3>1. /\ app' = app /\ DescriptorInv' /\ TargetInv'
          /\ \/ pc' = pc /\ Completed' = Completed
             \/ /\ pc' = pc + 1 /\ pc \in 1..Len(app.calls)
                /\ Completed' = Ordered!Effect(Call, Completed)
      BY <2>0, <2>1, <2>2, SessionStep DEF ObservedNext
    <3>2. pc \in Nat
      BY DEF SessionInv, SlotInv, TypeOK
    <3>3. view' = Completed'
      BY <2>2, <3>1, <3>2 DEF ObservedNext, Returned, SessionInv
    <3>4. ViewsInv'
      <4> SUFFICES ASSUME NEW u, Views(app.calls, u) PROVE view' = u[pc']
        BY <3>1 DEF ViewsInv
      <4>1. view = u[pc] /\ view = Completed
        BY DEF SessionInv, ViewsInv
      <4>2. CASE pc' = pc /\ Completed' = Completed
        BY <3>3, <4>1, <4>2
      <4>3. CASE /\ pc' = pc + 1 /\ pc \in 1..Len(app.calls)
                 /\ Completed' = Ordered!Effect(Call, Completed)
        BY <3>3, <4>1, <4>3 DEF Views, Follows, Call
      <4> QED BY <3>1, <4>2, <4>3
    <3> QED BY <3>1, <3>3, <3>4 DEF SessionInv, SlotInv
  <2>3. CASE UNCHANGED observedVars
    <3>1. UNCHANGED vars /\ view' = view
      BY <2>3 DEF observedVars, vars
    <3> QED BY <3>1, UnchangedKeeps DEF SessionInv, SlotInv, ViewsInv
  <2> QED BY <2>2, <2>3
<1>3. \A w \in Workloads : Handshaked(w.calls)
  BY DEF Disciplined
<1> QED
  BY <1>1, <1>2, <1>3, ObservedIsSession, TypeCorrect, HandshakeInductive, PTL
     DEF ObservedSpec

------------------------------------------------------------------------------
(***************************************************************************)
(* What follows.                                                           *)
(***************************************************************************)

\* The calls of a disciplined program take effect one after the other, each
\* at once, as far as the results it reads can tell: the session implements
\* OrderedCalls, whatever the program, the depth of the FIFO and the relative
\* speed of the CPU, the movers and the module.
THEOREM CallsActInOrder ==
  ASSUME \A w \in Workloads : \E v : Views(w.calls, v) /\ Disciplined(w.calls, v)
  PROVE  ObservedSpec => Ordered!OrderedInit
                           /\ [][Ordered!Perform]_(Ordered!orderedVars)
<1>1. ObservedInit => Ordered!OrderedInit
  BY DEF ObservedInit, Init, Ordered!OrderedInit
<1>2. SessionInv /\ TypeOK' /\ HandshakeInv' /\ [ObservedNext]_observedVars
        => [Ordered!Perform]_(Ordered!orderedVars)
  <2> SUFFICES ASSUME SessionInv, TypeOK', HandshakeInv', ObservedNext
               PROVE  Ordered!Perform \/ UNCHANGED Ordered!orderedVars
    BY DEF observedVars, Ordered!orderedVars
  <2>1. PICK v : Views(app.calls, v) /\ Disciplined(app.calls, v)
    BY DEF SessionInv, SlotInv, TypeOK
  <2>0. SlotInv /\ Completed = v[pc]
    BY <2>1 DEF SessionInv, ViewsInv
  <2>2. /\ app' = app
        /\ pc' = pc \/ (pc' = pc + 1 /\ pc \in 1..Len(app.calls))
    BY <2>0, <2>1, SessionStep DEF ObservedNext
  <2>3. CASE pc' = pc
    BY <2>2, <2>3 DEF ObservedNext, Returned, Ordered!orderedVars
  <2>4. CASE pc' # pc
    <3>1. /\ pc' = pc + 1 /\ pc \in 1..Len(app.calls) /\ v[pc] = view
          /\ pc <= Len(app.calls)
      BY <2>1, <2>2, <2>4 DEF SessionInv, ViewsInv
    <3>2. view' = Ordered!Effect(Call, view)
      BY <2>4 DEF ObservedNext, Returned
    <3>3. Call.op = "DataFromAccel" => Call.size <= Len(view.stream)
      BY <2>1, <3>1 DEF Disciplined, Call
    <3>4. Call.op = "Collect" => view.mem = mem
      <4> SUFFICES ASSUME Call.op = "Collect" PROVE view.mem = mem
        OBVIOUS
      <4>1. ~Outstanding(app.calls, pc, "S2MM")
        BY <2>1, <3>1 DEF Disciplined, Call
      <4>2. ~start["S2MM"]
        BY <4>1 DEF SessionInv, SlotInv, HandshakeInv, ChannelInv, Channel
      <4> QED BY <4>2, IdleMovers, HandshakeBusy DEF SessionInv, SlotInv, IdleMover, Completed
    <3>5. results' = IF Call.op = "Collect" THEN Ordered!Window(Call, view.mem) ELSE results
      BY <2>4, <3>4 DEF ObservedNext, Returned
    <3>6. Call = Ordered!Call
      BY DEF Call, Ordered!Call
    <3> QED BY <2>2, <3>1, <3>2, <3>3, <3>5, <3>6 DEF Ordered!Perform
  <2> QED BY <2>3, <2>4
<1>3. \A w \in Workloads : Handshaked(w.calls)
  BY DEF Disciplined
<1> QED
  BY <1>1, <1>2, <1>3, SessionInductive, ObservedIsSession, TypeCorrect,
     HandshakeInductive, PTL
     DEF ObservedSpec

\* What S2MM has still to write is behind what MM2S has still to read.
LEMMA TargetBehind ==
  ASSUME TypeOK, BusyStarted, TargetInv
  PROVE  WriteBehindRead
<1> SUFFICES ASSUME run["S2MM"].busy, run["S2MM"].left > 0, fifo # <<>>,
                    run["MM2S"].busy, run["MM2S"].tid \notin Tids
             PROVE  ~ /\ run["S2MM"].addr >= run["MM2S"].addr
                      /\ run["S2MM"].addr < run["MM2S"].addr + run["MM2S"].left
  BY DEF WriteBehindRead, Unread
<1>1. start["MM2S"] /\ start["S2MM"] /\ "MM2S" \in Channel /\ "S2MM" \in Channel
  BY DEF BusyStarted, Channel
<1>2. /\ PAddr["MM2S"] = run["MM2S"].addr /\ PLeft["MM2S"] = run["MM2S"].left
      /\ PAddr["S2MM"] = run["S2MM"].addr /\ PLeft["S2MM"] = run["S2MM"].left
  BY <1>1 DEF PAddr, PLeft
<1>3. /\ PAddr \in [Channel -> Nat] /\ PLeft \in [Channel -> Nat]
      /\ Len(fifo) \in Nat /\ Len(fifo) > 0
  BY PendingTypes DEF TypeOK, HwTypeOK
<1>4. \/ Apart(PAddr["MM2S"], PLeft["MM2S"], PAddr["S2MM"], PLeft["S2MM"])
      \/ PAddr["S2MM"] + Len(fifo) <= PAddr["MM2S"]
  BY <1>1 DEF TargetInv
<1> QED BY <1>1, <1>2, <1>3, <1>4 DEF Apart

\* S2MM never overwrites a beat of payload that MM2S has still to read, in
\* particular when a program lets the results replace their own input.
THEOREM WritesBehindReads ==
  ASSUME \A w \in Workloads : \E v : Views(w.calls, v) /\ Disciplined(w.calls, v)
  PROVE  ObservedSpec => []WriteBehindRead
<1>1. SessionInv => WriteBehindRead
  BY TargetBehind, HandshakeBusy DEF SessionInv, SlotInv
<1> QED BY <1>1, SessionInductive, PTL

------------------------------------------------------------------------------
(***************************************************************************)
(* Correct programs.                                                       *)
(***************************************************************************)

\* Done one after the other, the calls give the results the program expects.
Exact(c, v) ==
  \A p \in 1..Len(c) :
    c[p].op = "Collect" =>
      \A k \in 0..(c[p].size - 1) :
        ProcessedOnce(v[p].mem[c[p].addr + k], c[p].want[k + 1], c[p].conf)

\* And it reports a packet only when nothing is left of it.
Correct(c, v) ==
  /\ Exact(c, v)
  /\ \A p \in 1..Len(c) :
       c[p].op = "Report" =>
         /\ ~Outstanding(c, p, "MM2S")
         /\ v[p].conf[c[p].tid] = c[p].want

\* A program that is right if its calls are done one after the other, on a
\* slot that holds the packets f.
SoundAfter(c, f) ==
  \E v : /\ v[1] = [Ordered!Fresh EXCEPT !.conf = f]
         /\ Follows(c, v) /\ Disciplined(c, v) /\ Correct(c, v)

\* And on one that was loaded for it.
Sound(c) == SoundAfter(c, [t \in Tids |-> <<>>])

LEMMA SoundViews ==
  ASSUME NEW c, Sound(c)
  PROVE  \E v : Views(c, v) /\ Disciplined(c, v) /\ Correct(c, v)
BY DEF Sound, SoundAfter, Views, Ordered!Fresh

\* What the program reads from the buffer, and what it says of the module,
\* is right while the slot is in step with it.
LEMMA InStepExact ==
  ASSUME SlotInv, NEW v, Completed = v[pc],
         Disciplined(app.calls, v), Correct(app.calls, v)
  PROVE  ResultsExact /\ ReportsTrue
<1> USE DEF SlotInv
<1>1. ASSUME At("Collect"), NEW k \in 0..(Call.size - 1)
      PROVE  ProcessedOnce(mem[Call.addr + k], Call.want[k + 1], Call.conf)
  <2>1. pc \in 1..Len(app.calls) /\ app.calls[pc].op = "Collect"
    BY <1>1, CallFacts DEF CallOps, Call
  <2>2. ~start["S2MM"]
    BY <2>1 DEF Disciplined, HandshakeInv, ChannelInv, Channel
  <2>3. v[pc].mem = mem
    BY <2>2, IdleMovers, HandshakeBusy DEF IdleMover, Completed
  <2> QED BY <1>1, <2>1, <2>3 DEF Correct, Exact, Call
<1>2. ASSUME At("Report") PROVE conf[Call.tid] = Call.want
  <2>1. pc \in 1..Len(app.calls) /\ app.calls[pc].op = "Report"
    BY <1>2, CallFacts DEF CallOps, Call
  <2>2. ~start["MM2S"]
    BY <2>1 DEF Correct, HandshakeInv, ChannelInv, Channel
  <2>3. v[pc].conf = conf
    BY <2>2, IdleMovers, HandshakeBusy DEF IdleMover, Completed
  <2> QED BY <2>1, <2>3 DEF Correct, Call
<1> QED BY <1>1, <1>2 DEF ResultsExact, ReportsTrue

LEMMA SoundSession ==
  ASSUME SessionInv, \A w \in Workloads : Sound(w.calls)
  PROVE  ResultsExact /\ ReportsTrue
<1>1. PICK v : Views(app.calls, v) /\ Disciplined(app.calls, v) /\ Correct(app.calls, v)
  BY SoundViews DEF SessionInv, SlotInv, TypeOK
<1>2. SlotInv /\ Completed = v[pc]
  BY <1>1 DEF SessionInv, ViewsInv
<1> QED BY <1>1, <1>2, InStepExact

\* A program that is right if its calls are done one after the other is right
\* on the real slot: when it reads its results, each beat is the matching
\* input beat, processed once, under the configuration of this run.
THEOREM SoundResultsExact ==
  ASSUME \A w \in Workloads : Sound(w.calls)
  PROVE  ObservedSpec => []ResultsExact
<1>1. SessionInv => ResultsExact
  BY SoundSession
<1>2. \A w \in Workloads : \E v : Views(w.calls, v) /\ Disciplined(w.calls, v)
  BY SoundViews
<1> QED BY <1>1, <1>2, SessionInductive, PTL

\* When such a program prints that a packet is configured, the module holds
\* the whole packet.
THEOREM SoundReportsTrue ==
  ASSUME \A w \in Workloads : Sound(w.calls)
  PROVE  ObservedSpec => []ReportsTrue
<1>1. SessionInv => ReportsTrue
  BY SoundSession
<1>2. \A w \in Workloads : \E v : Views(w.calls, v) /\ Disciplined(w.calls, v)
  BY SoundViews
<1> QED BY <1>1, <1>2, SessionInductive, PTL

------------------------------------------------------------------------------
(***************************************************************************)
(* Programs that rely on the movers being in time.                         *)
(*                                                                         *)
(* The aes and fir programs and the notebook cells do not wait for every   *)
(* transfer they start, so they do not follow the discipline and nothing   *)
(* holds of them for every timing.  If the movers are ready in time        *)
(* (CpuMayOvertake is FALSE), less is asked of a program: the handshake on *)
(* S2MM alone, nothing being fetched while it starts MM2S, and, when it    *)
(* loads the buffer, a payload as the latest transfer, all of it fetched.  *)
(***************************************************************************)

\* The latest transfer to the module before call p, if any, is a payload.
PayloadLast(c, p) ==
  \/ \A j \in 1..(p - 1) : c[j].op # "DataToAccel"
  \/ \E q : StartedBy(c, p, "MM2S", q) /\ c[q].tid \notin Tids

InTime(c, v) ==
  /\ HandshakedOn(c, "S2MM")
  /\ \A p \in 1..Len(c) :
       /\ c[p].op \in {"Load", "DataToAccel", "Collect"} =>
            ~Outstanding(c, p, "S2MM")
       /\ c[p].op = "Load" => v[p].stream = <<>> /\ PayloadLast(c, p)
       /\ c[p].op = "DataFromAccel" =>
            /\ InBuffer(c[p])
            /\ c[p].size <= Len(v[p].stream)
            /\ \E q : StartedBy(c, p, "MM2S", q) /\ Behind(c[q], c[p], v[p])
       /\ c[p].op = "Collect" => InBuffer(c[p])

\* A slot with nothing to fetch.
Ready(m, f) == [mem |-> m, conf |-> f, stream |-> <<>>]

\* At its end a program leaves nothing to fetch and no packet half sent.
EndsWell(c, v) ==
  /\ ~Outstanding(c, Len(c) + 1, "S2MM")
  /\ \E m : \E f \in Conf : v[Len(c) + 1] = Ready(m, f)
  /\ PayloadLast(c, Len(c) + 1)

\* Done one after the other, the calls give the results the program expects.
RightInTime(c, v) ==
  Follows(c, v) /\ InTime(c, v) /\ Exact(c, v) /\ EndsWell(c, v)

\* A program that does, whatever the buffer and the module hold before it.
SoundInTime(c) ==
  \A m : \A f \in Conf : \E v : v[1] = Ready(m, f) /\ RightInTime(c, v)

\* What was left over from the programs before is of a payload.
CarriedInv ==
  start["MM2S"] /\ (\A j \in 1..(pc - 1) : app.calls[j].op # "DataToAccel")
    => PTid \notin Tids

InTimeInv ==
  /\ TypeOK
  /\ BusyStarted
  /\ ChannelInv("S2MM")
  /\ DescriptorInv
  /\ TargetInv
  /\ CarriedInv

\* The slot between two such programs: MM2S may still be about to end.
Settled ==
  /\ BusyStarted
  /\ Drained
  /\ ~start["S2MM"] /\ ~done["S2MM"]
  /\ fifo = <<>>

\* A mover that starts or runs keeps being marked as started.
LEMMA BusyStartedStep ==
  ASSUME TypeOK, BusyStarted, [Next]_vars
  PROVE  BusyStarted'
<1> USE DEF TypeOK, HwTypeOK, BusyStarted
<1>1. ASSUME NEW ch \in Channel, Begin(ch) \/ Finish(ch)
      PROVE  BusyStarted'
  <2>1. CASE Begin(ch)
    BY <2>1 DEF Begin
  <2>2. CASE Finish(ch)
    <3>1. ~run'[ch].busy /\ \A c \in Channel \ {ch} : run'[c] = run[c] /\ start'[c] = start[c]
      BY <2>2 DEF Finish, Transfer
    <3> QED BY <3>1
  <2> QED BY <1>1, <2>1, <2>2
<1>2. ASSUME NEW ch \in Channel, run[ch].busy, Advance(ch), UNCHANGED start
      PROVE  BusyStarted'
  <2>1. start'[ch] /\ \A c \in Channel \ {ch} : run'[c] = run[c]
    BY <1>2 DEF Advance
  <2> QED BY <1>2, <2>1
<1>3. CASE Hardware
  <2>1. CASE \E ch \in Channel : Begin(ch) \/ Finish(ch)
    BY ONLY <1>1, <2>1
  <2>2. CASE ConfigBeat \/ PayloadBeat \/ ResultBeat
    <3>1. PICK ch \in Channel : run[ch].busy /\ Advance(ch) /\ UNCHANGED start
      BY <2>2 DEF ConfigBeat, PayloadBeat, ResultBeat, Channel
    <3> QED BY <1>2, <3>1
  <2> QED BY ONLY <1>3, <2>1, <2>2 DEF Hardware
<1>4. ASSUME NEW ch \in Channel, WriteDescriptor(ch) \/ WriteApcr(ch)
      PROVE  BusyStarted'
  BY <1>4 DEF WriteDescriptor, WriteApcr
<1>5. CASE UNCHANGED <<start, run>>
  BY <1>5
<1>6. CASE Cpu
  BY <1>4, <1>5, <1>6
     DEF Cpu, DataToAccel, DataFromAccel, DataToAccelDone, DataFromAccelDone,
         ReadDone, ReadNotDone, vars, hwVars, StartAccel, Load, Observe, Channel
<1> QED BY <1>3, <1>5, <1>6 DEF Next, Exited, vars

\* A step that leaves what is pending alone changes nothing of what will be.
LEMMA PendingUnchanged ==
  ASSUME TargetInv, UNCHANGED <<start, run, mem, conf, fifo, PAddr, PLeft, PTid>>
  PROVE  Completed' = Completed /\ TargetInv'
<1>2. UNCHANGED <<ConfigPending, PayloadPending, PipeLen, Held, Target>>
  BY DEF ConfigPending, PayloadPending, PipeLen, Held, Target
<1>3. Pipe' = Pipe /\ Packet' = Packet
  BY <1>2 DEF Pipe, Packet, ReadBeat, Processed
<1>4. Completed' = Completed
  BY <1>2, <1>3 DEF Completed, MemDone, ConfDone, StreamDone
<1> QED BY <1>2, <1>4 DEF TargetInv

\* A mover that runs has its descriptor already.
LEMMA BusyDescriptorKeeps ==
  ASSUME TypeOK, TargetInv, NEW ch \in Channel, WriteDescriptor(ch), run[ch].busy
  PROVE  Completed' = Completed /\ TargetInv'
<1> USE DEF TypeOK, HwTypeOK
<1>1. UNCHANGED <<start, run, mem, conf, fifo>> /\ \A c \in Channel \ {ch} : reg'[c] = reg[c]
  BY DEF WriteDescriptor
<1>2. PAddr' = PAddr
  <2>1. \A c \in Channel : PAddr'[c] = PAddr[c]
    BY <1>1 DEF PAddr
  <2> QED BY <2>1 DEF PAddr
<1>3. PLeft' = PLeft
  <2>1. \A c \in Channel : PLeft'[c] = PLeft[c]
    BY <1>1 DEF PLeft
  <2> QED BY <2>1 DEF PLeft
<1>4. PTid' = PTid
  BY <1>1 DEF PTid, Channel
<1> QED BY <1>1, <1>2, <1>3, <1>4, PendingUnchanged

\* When everything will have been fetched and the latest transfer is a
\* payload, MM2S has nothing left to do.
LEMMA NothingLeft ==
  ASSUME InTimeInv, NEW v, Completed = v[pc], v[pc].stream = <<>>,
         PayloadLast(app.calls, pc), ~start["S2MM"]
  PROVE  Drained /\ fifo = <<>>
<1> USE DEF InTimeInv
<1> "MM2S" \in Channel /\ "S2MM" \in Channel
  BY DEF Channel
<1>1. Pipe = <<>>
  BY IdleMovers DEF IdleMover, Completed
<1>2. PipeLen = 0
  <2>1. Len(Pipe) = PipeLen
    BY PendingTypes, PipeType, FunctionIsSeq
  <2> QED BY <1>1, <2>1
<1>3. start["MM2S"] => PTid \notin Tids
  BY DEF PayloadLast, CarriedInv, DescriptorInv
<1>4. ConfigPending = FALSE
  BY <1>3 DEF ConfigPending
<1>5. PLeft["MM2S"] = 0 /\ Len(fifo) = 0
  <2>1. Len(fifo) \in Nat /\ PLeft["MM2S"] \in Nat
    BY PendingTypes
  <2>2. CASE ~start["MM2S"]
    BY <1>2, <2>1, <2>2, IdleMovers DEF IdleMover
  <2>3. CASE start["MM2S"]
    <3>1. PipeLen = Len(fifo) + PLeft["MM2S"]
      BY <1>3, <2>3 DEF PipeLen, PayloadPending
    <3> QED BY ONLY <1>2, <2>1, <3>1
  <2> QED BY <2>2, <2>3
<1>6. fifo = <<>>
  BY <1>5 DEF TypeOK, HwTypeOK
<1> QED BY <1>4, <1>5, <1>6 DEF Drained

\* What is asked of a transfer left over stays true while nothing is started
\* on MM2S.
LEMMA CarriedKept ==
  ASSUME TypeOK, CarriedInv, start'["MM2S"] => start["MM2S"] /\ PTid' = PTid,
         app' = app, pc' = pc \/ pc' = pc + 1
  PROVE  CarriedInv'
<1>1. pc \in Nat
  BY DEF TypeOK
<1>2. 1..(pc - 1) \subseteq 1..(pc' - 1)
  BY <1>1
<1> QED BY <1>2 DEF CarriedInv

\* A step of such a program: a call that returns has the effect OrderedCalls
\* gives it, nothing else has any.
LEMMA InTimeEffect ==
  ASSUME CpuMayOvertake = FALSE, InTimeInv, NEW v, Completed = v[pc],
         InTime(app.calls, v), Next, TypeOK', BusyStarted'
  PROVE  /\ app' = app /\ DescriptorInv' /\ TargetInv' /\ CarriedInv'
         /\ \/ pc' = pc /\ Completed' = Completed
            \/ /\ pc' = pc + 1 /\ pc \in 1..Len(app.calls)
               /\ Completed' = Ordered!Effect(Call, Completed)
<1> USE DEF InTimeInv
<1> "MM2S" \in Channel /\ "S2MM" \in Channel
  BY DEF Channel
<1> DEFINE Moved == /\ app' = app /\ DescriptorInv' /\ TargetInv'
                    /\ \/ pc' = pc /\ Completed' = Completed
                       \/ /\ pc' = pc + 1 /\ pc \in 1..Len(app.calls)
                          /\ Completed' = Ordered!Effect(Call, Completed)
           Goal == Moved /\ CarriedInv'
<1>0. \A ch \in Channel : StartOp(ch) \in CallOps
  BY DEF StartOp, CallOps
<1>1. ASSUME NEW op \in {"Load", "DataToAccel", "DataFromAccel", "Collect"}, At(op)
      PROVE  /\ pc \in 1..Len(app.calls) /\ app.calls[pc].op = op /\ Call.op = op
             /\ ~start["S2MM"]
  <2>1. op \in CallOps
    BY DEF CallOps
  <2>2. pc \in 1..Len(app.calls) /\ app.calls[pc].op = op
    BY <1>1, <2>1, CallFacts DEF Call
  <2>3. ~Outstanding(app.calls, pc, "S2MM")
    BY <2>2 DEF InTime, HandshakedOn, StartOp
  <2> QED BY <2>2, <2>3 DEF ChannelInv, Call
<1>2. CASE Hardware
  <2>1. UNCHANGED <<app, pc>>
    BY <1>2 DEF Hardware, cpuVars
  <2>2. CarriedInv'
    BY <1>2, <2>1, CarriedKept, HardwareKeepsPending
  <2> QED BY <1>2, <2>1, <2>2, HardwareKeepsDescriptor, HardwareKeepsCompleted
<1>3. ASSUME NEW ch \in Channel, At(StartOp(ch)), WriteDescriptor(ch)
      PROVE  Goal
  <2>1. start[ch] => run[ch].busy
    BY <1>3 DEF WriteDescriptor, MayWriteDescriptor
  <2>2. DescriptorInv'
    BY <1>3, <2>1, WriteKeepsDescriptor
  <2>3. Completed' = Completed /\ TargetInv'
    BY <1>3, <2>1, DescriptorKeeps, BusyDescriptorKeeps
  <2>4. UNCHANGED <<app, pc, start, run>>
    BY <1>3 DEF WriteDescriptor
  <2>5. start["MM2S"] => PTid' = PTid
    BY <1>3, <2>1, <2>4 DEF WriteDescriptor, PTid, TypeOK, HwTypeOK
  <2>6. CarriedInv'
    BY <2>4, <2>5, CarriedKept
  <2> QED BY <2>2, <2>3, <2>4, <2>6
<1>4. ASSUME At("DataToAccel"), WriteApcr("MM2S")
      PROVE  Goal
  <2>1. ~start["MM2S"]
    BY <1>4 DEF WriteApcr, MayWriteApcr
  <2>2. DescriptorInv'
    BY <1>4, <2>1, ApcrKeepsDescriptor DEF StartOp
  <2>3. /\ pc \in 1..Len(app.calls) /\ app.calls[pc].op = "DataToAccel"
        /\ ~start["S2MM"]
    BY <1>1, <1>4
  <2>4. Completed' = Ordered!Effect(Call, Completed) /\ TargetInv'
    BY <1>4, <2>1, <2>3, ConfigStartEffect, PayloadStartEffect
  <2>5. pc' = pc + 1 /\ app' = app
    BY <1>4 DEF WriteApcr, Return
  <2>6. CarriedInv'
    <3>1. pc \in 1..(pc' - 1)
      BY <2>3, <2>5
    <3> QED BY <2>3, <2>5, <3>1 DEF CarriedInv
  <2> QED BY <2>2, <2>3, <2>4, <2>5, <2>6
<1>5. ASSUME At("DataFromAccel"), WriteApcr("S2MM")
      PROVE  Goal
  <2>1. /\ pc \in 1..Len(app.calls) /\ app.calls[pc].op = "DataFromAccel"
        /\ ~start["S2MM"] /\ Call = app.calls[pc]
    BY <1>1, <1>5 DEF Call
  <2>2. DescriptorInv'
    BY <1>5, <2>1, ApcrKeepsDescriptor DEF StartOp
  <2>3. /\ InBuffer(Call) /\ Call.size <= Len(v[pc].stream)
        /\ \E q : StartedBy(app.calls, pc, "MM2S", q) /\ Behind(app.calls[q], Call, v[pc])
    BY <2>1 DEF InTime
  <2>4. /\ Call.size <= PipeLen
        /\ start["MM2S"] =>
             \/ Apart(PAddr["MM2S"], PLeft["MM2S"], Call.addr, Call.size)
             \/ PTid \notin Tids /\ Call.addr + Len(fifo) <= PAddr["MM2S"]
    BY <1>5, <2>1, <2>3, BehindFacts
  <2>5. Completed' = Ordered!Effect(Call, Completed) /\ TargetInv'
    BY <1>5, <2>1, <2>3, <2>4, ResultStartEffect
  <2>6. pc' = pc + 1 /\ app' = app
    BY <1>5 DEF WriteApcr, Return
  <2>7. start'["MM2S"] = start["MM2S"] /\ PTid' = PTid
    BY <1>5, <2>1, StartedFacts DEF StartOp
  <2>8. CarriedInv'
    BY <2>6, <2>7, CarriedKept
  <2> QED BY <2>1, <2>2, <2>5, <2>6, <2>8
<1>6. ASSUME NEW op \in CallOps \ {"Load", "DataToAccel", "DataFromAccel"}, At(op),
             Return, UNCHANGED <<reg, start, run, mem, conf, fifo>>
      PROVE  Goal
  <2>1. DescriptorInv'
    BY <1>6, ReturnKeepsDescriptor DEF StartOp, Channel
  <2>2. pc \in 1..Len(app.calls) /\ Call.op = op
    BY <1>6, CallFacts
  <2>3. Completed' = Completed /\ Ordered!Effect(Call, Completed) = Completed /\ TargetInv'
    BY <1>6, <2>2, QuietEffect
  <2>4. pc' = pc + 1 /\ app' = app
    BY <1>6 DEF Return
  <2>5. CarriedInv'
    BY <1>6, <2>4, CarriedKept DEF PTid
  <2> QED BY <2>1, <2>2, <2>3, <2>4, <2>5
<1>7. CASE UNCHANGED vars
  <2>1. CarriedInv'
    BY <1>7 DEF vars, CarriedInv, PTid
  <2> QED BY <1>7, <2>1, UnchangedKeeps
<1>8. ASSUME NEW ch \in Channel, At(AwaitOp(ch)), ReadDone(ch) \/ ReadNotDone(ch)
      PROVE  Goal
  <2>1. AwaitOp(ch) \in CallOps \ {"Load", "DataToAccel", "DataFromAccel"}
    BY DEF AwaitOp, CallOps
  <2>2. CASE ReadDone(ch)
    BY <1>6, <1>8, <2>1, <2>2 DEF ReadDone
  <2> QED BY <1>7, <1>8, <2>2 DEF ReadNotDone
<1>9. CASE StartAccel \/ Observe
  BY <1>6, <1>9 DEF StartAccel, Observe, hwVars, CallOps
<1>10. CASE Load
  <2>1. /\ pc \in 1..Len(app.calls) /\ app.calls[pc].op = "Load" /\ ~start["S2MM"]
        /\ At("Load")
    BY <1>1, <1>10 DEF Load
  <2>2. DescriptorInv'
    BY <1>10, ReturnKeepsDescriptor DEF Load, StartOp, Channel, CallOps
  <2>3. Drained
    BY <2>1, NothingLeft DEF InTime
  <2>4. UNCHANGED <<reg, start, run, app>> /\ pc' = pc + 1
    BY <1>10 DEF Load, Return
  <2>5. CarriedInv'
    BY <2>4, CarriedKept DEF PTid
  <2> QED BY <1>10, <2>1, <2>2, <2>3, <2>4, <2>5, LoadEffect
<1>11. CASE DataToAccel \/ DataFromAccel
  BY <1>3, <1>4, <1>5, <1>11 DEF DataToAccel, DataFromAccel, StartOp
<1>12. CASE DataToAccelDone \/ DataFromAccelDone
  BY <1>8, <1>12 DEF DataToAccelDone, DataFromAccelDone, AwaitOp
<1> QED BY <1>2, <1>7, <1>9, <1>10, <1>11, <1>12 DEF Next, Cpu, Exited

LEMMA InTimeStep ==
  ASSUME CpuMayOvertake = FALSE, InTimeInv, NEW v, Follows(app.calls, v),
         Completed = v[pc], InTime(app.calls, v), [Next]_vars
  PROVE  InTimeInv' /\ Completed' = v[pc'] /\ app' = app
<1>1. TypeOK'
  <2>1. CASE Cpu
    BY <2>1, CpuTypeOK DEF InTimeInv
  <2>2. CASE Hardware
    BY <2>2, HardwareTypeOK DEF InTimeInv
  <2>3. CASE UNCHANGED vars
    BY <2>3 DEF vars, InTimeInv, TypeOK, HwTypeOK
  <2> QED BY <2>1, <2>2, <2>3 DEF Next, Exited
<1>2. BusyStarted'
  BY BusyStartedStep DEF InTimeInv
<1>3. ChannelInv("S2MM")'
  <2>1. "S2MM" \in Channel
    BY DEF Channel
  <2>2. CASE Cpu
    BY <2>1, <2>2, CpuKeepsChannel DEF InTimeInv, InTime
  <2>3. CASE Hardware
    BY <2>1, <2>3, HardwareKeepsChannel DEF InTimeInv
  <2>4. CASE UNCHANGED vars
    BY <2>4 DEF vars, InTimeInv, ChannelInv
  <2> QED BY <2>2, <2>3, <2>4 DEF Next, Exited
<1>4. /\ app' = app /\ DescriptorInv' /\ TargetInv' /\ CarriedInv'
      /\ \/ pc' = pc /\ Completed' = Completed
         \/ /\ pc' = pc + 1 /\ pc \in 1..Len(app.calls)
            /\ Completed' = Ordered!Effect(Call, Completed)
  <2>1. CASE Next
    BY <1>1, <1>2, <2>1, InTimeEffect
  <2>2. CASE UNCHANGED vars
    <3>1. CarriedInv'
      BY <2>2 DEF InTimeInv, CarriedInv, vars, PTid
    <3> QED BY <2>2, <3>1, UnchangedKeeps DEF InTimeInv
  <2> QED BY <2>1, <2>2
<1>5. ASSUME pc \in 1..Len(app.calls)
      PROVE  v[pc + 1] = Ordered!Effect(Call, Completed)
  BY <1>5 DEF Follows, Call
<1>6. Completed' = v[pc']
  BY ONLY <1>4, <1>5, Completed = v[pc]
<1> QED BY <1>1, <1>2, <1>3, <1>4, <1>6 DEF InTimeInv

\* What the program reads from the buffer is what it is to read.
LEMMA InTimeExact ==
  ASSUME InTimeInv, NEW v, Completed = v[pc],
         InTime(app.calls, v), Exact(app.calls, v)
  PROVE  ResultsExact
<1> USE DEF InTimeInv
<1>1. ASSUME At("Collect"), NEW k \in 0..(Call.size - 1)
      PROVE  ProcessedOnce(mem[Call.addr + k], Call.want[k + 1], Call.conf)
  <2>1. pc \in 1..Len(app.calls) /\ app.calls[pc].op = "Collect"
    BY <1>1, CallFacts DEF CallOps, Call
  <2>2. ~start["S2MM"]
    BY <2>1 DEF InTime, ChannelInv
  <2>3. v[pc].mem = mem
    BY <2>2, IdleMovers DEF IdleMover, Completed
  <2> QED BY <1>1, <2>1, <2>3 DEF Exact, Call
<1> QED BY <1>1 DEF ResultsExact

\* A program that is launched on a settled slot is in step with it.
LEMMA InTimeLaunch ==
  ASSUME Settled, TypeOK, pc = 1, stage = 1
  PROVE  InTimeInv /\ Completed = Ready(mem, conf)
<1>1. ~Outstanding(app.calls, pc, "S2MM")
  <2>1. \A i \in 1..(pc - 1) : FALSE
    OBVIOUS
  <2> QED BY <2>1 DEF Outstanding
<1>2. ChannelInv("S2MM")
  BY <1>1 DEF ChannelInv, Settled, BusyStarted, Channel
<1>3. IdleMover
  BY IdleMovers DEF Settled
<1>4. Completed = Ready(mem, conf)
  BY <1>3 DEF Completed, IdleMover, Settled, Ready
<1>5. DescriptorInv
  <2>1. \A i \in 1..(stage - 1) : FALSE
    OBVIOUS
  <2>2. \A ch, q : ~StartedBy(app.calls, pc, ch, q)
    BY DEF StartedBy
  <2> QED BY <2>1, <2>2 DEF DescriptorInv
<1>6. TargetInv
  BY <1>3, PendingTypes DEF TargetInv, IdleMover, Channel, Settled
<1>7. CarriedInv
  BY DEF CarriedInv, Settled, Drained, ConfigPending
<1> QED BY <1>2, <1>4, <1>5, <1>6, <1>7 DEF InTimeInv, Settled

\* A program that has ended leaves its slot settled.
LEMMA InTimeEnd ==
  ASSUME InTimeInv, Terminated, NEW v, Completed = v[pc], EndsWell(app.calls, v)
  PROVE  Settled
<1>1. pc = Len(app.calls) + 1
  BY WorkloadsAssumption DEF InTimeInv, TypeOK, Terminated
<1>2. ~start["S2MM"] /\ ~done["S2MM"]
  BY <1>1 DEF EndsWell, InTimeInv, ChannelInv
<1>3. Drained /\ fifo = <<>>
  BY <1>1, <1>2, NothingLeft DEF EndsWell, Ready
<1> QED BY <1>2, <1>3 DEF Settled, InTimeInv

\* It stays so whatever the hardware does, and the buffer stays as it is.
LEMMA SettledHardware ==
  ASSUME Settled, TypeOK, Hardware
  PROVE  Settled' /\ mem' = mem
<1> USE DEF TypeOK, HwTypeOK, Settled
<1> "MM2S" \in Channel /\ "S2MM" \in Channel
  BY DEF Channel
<1>1. BusyStarted'
  BY BusyStartedStep DEF Next
<1>2. ~(ConfigBeat \/ PayloadBeat \/ ResultBeat)
  BY DEF ConfigBeat, PayloadBeat, ResultBeat, BusyStarted, Drained, PLeft
<1>3. PICK ch \in Channel : Begin(ch) \/ Finish(ch)
  BY <1>2 DEF Hardware
<1>4. start[ch] /\ ch # "S2MM"
  BY <1>3 DEF Begin, Finish, BusyStarted
<1>5. ch = "MM2S"
  BY <1>4 DEF Channel
<1>6. ~start'["S2MM"] /\ ~done'["S2MM"] /\ fifo' = <<>> /\ mem' = mem
  BY <1>3, <1>5 DEF Begin, Finish
<1>7. Drained'
  <2>1. CASE Begin(ch)
    BY <1>5, <2>1 DEF Begin, Drained, ConfigPending, PLeft, PTid
  <2>2. CASE Finish(ch)
    BY <1>5, <2>2 DEF Finish, Drained, ConfigPending, PLeft
  <2> QED BY <1>3, <2>1, <2>2
<1> QED BY <1>1, <1>6, <1>7

\* A program that runs in time is in step with the slot, at every moment.
InTimeSession ==
  InTimeInv /\ \E v : RightInTime(app.calls, v) /\ Completed = v[pc]

\* What the slot itself keeps: all but the buffer.
slotVars == <<reg, start, done, run, conf, accelOn, fifo>>

\* A slot that has just been loaded is settled.
LEMMA LoadedSettled ==
  ASSUME reg = [ch \in Channel |-> [r \in Register |-> 0]],
         start = [ch \in Channel |-> FALSE], done = [ch \in Channel |-> FALSE],
         run = [ch \in Channel |-> NoTransfer],
         conf = [t \in Tids |-> <<>>], fifo = <<>>
  PROVE  /\ Settled
         /\ reg \in [Channel -> [Register -> Nat]] /\ start \in [Channel -> BOOLEAN]
         /\ done \in [Channel -> BOOLEAN] /\ run \in [Channel -> Transfer]
         /\ conf \in Conf /\ fifo \in Seq(Beat)
<1>1. ~start["MM2S"] /\ ~start["S2MM"] /\ ~done["S2MM"]
  BY DEF Channel
<1>2. BusyStarted
  BY DEF NoTransfer, BusyStarted
<1>3. Settled
  BY <1>1, <1>2 DEF Settled, Drained, ConfigPending, PLeft, Channel
<1> QED BY <1>3 DEF NoTransfer, Transfer, Conf

\* The buffer may change under a settled slot.
LEMMA SettledKept ==
  ASSUME Settled, UNCHANGED slotVars
  PROVE  Settled'
BY DEF Settled, slotVars, BusyStarted, Drained, ConfigPending, PLeft, PTid

LEMMA SessionLaunch ==
  ASSUME Settled, TypeOK, pc = 1, stage = 1, SoundInTime(app.calls)
  PROVE  InTimeSession
<1>1. InTimeInv /\ Completed = Ready(mem, conf)
  BY InTimeLaunch
<1>2. PICK v : v[1] = Ready(mem, conf) /\ RightInTime(app.calls, v)
  BY DEF SoundInTime, TypeOK, HwTypeOK
<1> QED BY <1>1, <1>2 DEF InTimeSession

LEMMA SessionInTimeStep ==
  ASSUME CpuMayOvertake = FALSE, InTimeSession, [Next]_vars
  PROVE  InTimeSession' /\ app' = app
<1>1. PICK v : RightInTime(app.calls, v) /\ Completed = v[pc]
  BY DEF InTimeSession
<1>2. InTimeInv' /\ Completed' = v[pc'] /\ app' = app
  BY <1>1, InTimeStep DEF InTimeSession, RightInTime
<1> QED BY <1>1, <1>2 DEF InTimeSession

LEMMA SessionEnd ==
  ASSUME InTimeSession, Terminated
  PROVE  Settled
BY InTimeEnd DEF InTimeSession, RightInTime

LEMMA SessionExact ==
  ASSUME InTimeSession
  PROVE  ResultsExact
BY InTimeExact DEF InTimeSession, RightInTime

LEMMA InTimeInductive ==
  ASSUME CpuMayOvertake = FALSE, \A w \in Workloads : SoundInTime(w.calls)
  PROVE  Spec => []InTimeSession
<1>1. Init /\ TypeOK => InTimeSession
  BY LoadedSettled, SessionLaunch DEF Init, HwInit, TypeOK
<1>2. InTimeSession /\ [Next]_vars => InTimeSession'
  BY SessionInTimeStep
<1> QED BY <1>1, <1>2, TypeCorrect, PTL DEF Spec

\* With movers that are ready in time, a program that waits for its results
\* and loads the buffer only when nothing more is to be read from it reads
\* the results of its own input, under its own configuration, although it
\* starts MM2S again and again without waiting for it.
THEOREM InTimeResultsExact ==
  ASSUME CpuMayOvertake = FALSE, \A w \in Workloads : SoundInTime(w.calls)
  PROVE  Spec => []ResultsExact
<1>1. InTimeSession => ResultsExact
  BY SessionExact
<1> QED BY <1>1, InTimeInductive, PTL

\* And S2MM never overwrites a beat such a program has still to send.
THEOREM InTimeWritesBehindReads ==
  ASSUME CpuMayOvertake = FALSE, \A w \in Workloads : SoundInTime(w.calls)
  PROVE  Spec => []WriteBehindRead
<1>1. InTimeSession => WriteBehindRead
  BY TargetBehind DEF InTimeSession, InTimeInv
<1> QED BY <1>1, InTimeInductive, PTL

\* The view and what the calls so far will have done are the same.
ViewedInTime == InTimeSession /\ view = Completed

LEMMA ViewedInductive ==
  ASSUME CpuMayOvertake = FALSE, \A w \in Workloads : SoundInTime(w.calls)
  PROVE  ObservedSpec => []ViewedInTime
<1>1. ObservedInit /\ InTimeSession => ViewedInTime
  <2> SUFFICES ASSUME ObservedInit, InTimeSession PROVE view = Completed
    BY DEF ViewedInTime
  <2>1. ~start["MM2S"] /\ ~start["S2MM"] /\ fifo = <<>>
    BY DEF ObservedInit, Init, HwInit, Channel
  <2>2. Completed = [mem |-> mem, conf |-> conf, stream |-> fifo]
    BY <2>1, IdleMovers DEF InTimeSession, InTimeInv, IdleMover, Completed
  <2> QED BY <2>1, <2>2 DEF ObservedInit, Init, HwInit, Ordered!Fresh, Ordered!Raw, Raw
<1>2. ViewedInTime /\ InTimeSession' /\ [ObservedNext]_observedVars => ViewedInTime'
  <2> SUFFICES ASSUME ViewedInTime, InTimeSession', [ObservedNext]_observedVars
               PROVE  view' = Completed'
    BY DEF ViewedInTime
  <2>1. PICK v : RightInTime(app.calls, v) /\ Completed = v[pc]
    BY DEF ViewedInTime, InTimeSession
  <2>2. CASE ObservedNext
    <3>1. /\ \/ pc' = pc /\ Completed' = Completed
             \/ /\ pc' = pc + 1 /\ pc \in 1..Len(app.calls)
                /\ Completed' = Ordered!Effect(Call, Completed)
      BY <2>1, <2>2, InTimeEffect
         DEF ObservedNext, ViewedInTime, InTimeSession, InTimeInv, RightInTime
    <3>2. pc \in Nat
      BY DEF ViewedInTime, InTimeSession, InTimeInv, TypeOK
    <3> QED BY <2>2, <3>1, <3>2 DEF ObservedNext, Returned, ViewedInTime
  <2>3. CASE UNCHANGED observedVars
    <3>1. UNCHANGED vars /\ view' = view
      BY <2>3 DEF observedVars, vars
    <3> QED BY <3>1, UnchangedKeeps DEF ViewedInTime, InTimeSession, InTimeInv
  <2> QED BY <2>2, <2>3
<1> QED BY <1>1, <1>2, ObservedIsSession, InTimeInductive, PTL DEF ObservedSpec

\* The calls of such a program, too, take effect one after the other as far
\* as the results it reads can tell.
THEOREM InTimeActsInOrder ==
  ASSUME CpuMayOvertake = FALSE, \A w \in Workloads : SoundInTime(w.calls)
  PROVE  ObservedSpec => Ordered!OrderedInit
                           /\ [][Ordered!Perform]_(Ordered!orderedVars)
<1>1. ObservedInit => Ordered!OrderedInit
  BY DEF ObservedInit, Init, Ordered!OrderedInit
<1>2. ViewedInTime /\ ViewedInTime' /\ [ObservedNext]_observedVars
        => [Ordered!Perform]_(Ordered!orderedVars)
  <2> SUFFICES ASSUME ViewedInTime, ViewedInTime', ObservedNext
               PROVE  Ordered!Perform \/ UNCHANGED Ordered!orderedVars
    BY DEF observedVars, Ordered!orderedVars
  <2>1. PICK v : RightInTime(app.calls, v) /\ Completed = v[pc]
    BY DEF ViewedInTime, InTimeSession
  <2>2. /\ app' = app
        /\ pc' = pc \/ (pc' = pc + 1 /\ pc \in 1..Len(app.calls))
    BY <2>1, InTimeEffect
       DEF ObservedNext, ViewedInTime, InTimeSession, InTimeInv, RightInTime
  <2>3. CASE pc' = pc
    BY <2>2, <2>3 DEF ObservedNext, Returned, Ordered!orderedVars
  <2>4. CASE pc' # pc
    <3>1. /\ pc' = pc + 1 /\ pc \in 1..Len(app.calls) /\ v[pc] = view
          /\ pc <= Len(app.calls)
      BY <2>1, <2>2, <2>4 DEF ViewedInTime
    <3>2. view' = Ordered!Effect(Call, view)
      BY <2>4 DEF ObservedNext, Returned
    <3>3. Call.op = "DataFromAccel" => Call.size <= Len(view.stream)
      BY <2>1, <3>1 DEF RightInTime, InTime, Call
    <3>4. Call.op = "Collect" => view.mem = mem
      <4> SUFFICES ASSUME Call.op = "Collect" PROVE view.mem = mem
        OBVIOUS
      <4>1. ~Outstanding(app.calls, pc, "S2MM")
        BY <2>1, <3>1 DEF RightInTime, InTime, Call
      <4>2. ~start["S2MM"]
        BY <4>1 DEF ViewedInTime, InTimeSession, InTimeInv, ChannelInv
      <4> QED BY <4>2, IdleMovers
              DEF ViewedInTime, InTimeSession, InTimeInv, IdleMover, Completed
    <3>5. results' = IF Call.op = "Collect" THEN Ordered!Window(Call, view.mem) ELSE results
      BY <2>4, <3>4 DEF ObservedNext, Returned
    <3>6. Call = Ordered!Call
      BY DEF Call, Ordered!Call
    <3> QED BY <2>2, <3>1, <3>2, <3>3, <3>5, <3>6 DEF Ordered!Perform
  <2> QED BY <2>3, <2>4
<1> QED BY <1>1, <1>2, ViewedInductive, PTL DEF ObservedSpec

------------------------------------------------------------------------------
(***************************************************************************)
(* The calling discipline of the fir and fft applications.                 *)
(***************************************************************************)

FIROps == <<"Load", "DataToAccel", "DataToAccelDone", "Report",
            "DataToAccel", "DataToAccelDone", "Report",
            "DataToAccel", "DataFromAccel", "DataFromAccelDone", "Collect">>

\* The calls of the fir application, in order.
LEMMA FIRCalls ==
  ASSUME NEW reload, NEW config, NEW input
  PROVE  LET c == FIR!main(reload, config, input)
         IN  Len(c) = 11 /\ \A p \in 1..11 : c[p].op = FIROps[p]
BY DEF FIROps, FIR!main, FIR!Configure, FIR!Filter, FIR!LoadFresh, FIR!DataToAccel,
       FIR!DataToAccelDone, FIR!Report, FIR!DataFromAccel,
       FIR!DataFromAccelDone, FIR!Collect

\* The fir application awaits both configuration packets before it starts
\* the next transfer, and starts S2MM once.
LEMMA FIRHandshaked ==
  ASSUME NEW reload, NEW config, NEW input
  PROVE  Handshaked(FIR!main(reload, config, input))
<1> DEFINE c == FIR!main(reload, config, input)
<1>1. Len(c) = 11 /\ \A p \in 1..11 : c[p].op = FIROps[p]
  BY FIRCalls
<1> HIDE DEF c
<1>2. \A p \in 1..11 : Outstanding(c, p, "MM2S") <=> p \in {3, 6, 9, 10, 11}
  BY <1>1 DEF Outstanding, StartOp, AwaitOp, FIROps
<1>3. \A p \in 1..11 : Outstanding(c, p, "S2MM") <=> p = 10
  BY <1>1 DEF Outstanding, StartOp, AwaitOp, FIROps
<1>4. Handshaked(c)
  BY <1>1, <1>2, <1>3 DEF Handshaked, StartOp, AwaitOp, FIROps, Channel
<1> QED
  BY <1>4 DEF c

FFTOps == <<"Load",
            "DataToAccel", "DataToAccelDone", "Report",
            "DataToAccel", "DataToAccelDone", "Report",
            "DataToAccel", "DataToAccelDone", "Report",
            "DataToAccel", "DataToAccelDone", "Report",
            "DataToAccel", "DataFromAccel", "DataFromAccelDone", "Collect">>

\* The calls of the fft application, in order.
LEMMA FFTCalls ==
  ASSUME NEW config, NEW input
  PROVE  LET c == FFT!main(config, input)
         IN  Len(c) = 17 /\ \A p \in 1..17 : c[p].op = FFTOps[p]
BY DEF FFTOps, FFT!main, FFT!Configure, FFT!ConfigureChannel, FFT!Transform,
       FFT!LoadFresh, FFT!DataToAccel, FFT!DataToAccelDone, FFT!Report,
       FFT!DataFromAccel, FFT!DataFromAccelDone, FFT!Collect

\* The fft application awaits each of its four configuration packets before
\* it starts the next transfer.
LEMMA FFTHandshaked ==
  ASSUME NEW config, NEW input
  PROVE  Handshaked(FFT!main(config, input))
<1> DEFINE c == FFT!main(config, input)
<1>1. Len(c) = 17 /\ \A p \in 1..17 : c[p].op = FFTOps[p]
  BY FFTCalls
<1> HIDE DEF c
<1>2. \A p \in 1..17 :
        Outstanding(c, p, "MM2S") <=> p \in {3, 6, 9, 12, 15, 16, 17}
  BY <1>1 DEF Outstanding, StartOp, AwaitOp, FFTOps
<1>3. \A p \in 1..17 : Outstanding(c, p, "S2MM") <=> p = 16
  BY <1>1 DEF Outstanding, StartOp, AwaitOp, FFTOps
<1>4. Handshaked(c)
  BY <1>1, <1>2, <1>3 DEF Handshaked, StartOp, AwaitOp, FFTOps, Channel
<1> QED
  BY <1>4 DEF c

\* The fir and fft applications, on a freshly loaded slot, never lose a
\* request, never take an old done bit for a new one, and never rewrite a
\* descriptor in use, at any relative speed of CPU and hardware.
THEOREM FirstSessionSafe ==
  ASSUME \A w \in Workloads :
           \/ \E reload, config, input : w.calls = FIR!main(reload, config, input)
           \/ \E config, input : w.calls = FFT!main(config, input)
  PROVE  Spec => []NoLostStart /\ []DoneIsFresh /\ DescriptorStable
<1>1. \A w \in Workloads : Handshaked(w.calls)
  BY FIRHandshaked, FFTHandshaked
<1> QED
  BY <1>1, HandshakedNoLostStart, HandshakedDoneIsFresh,
     HandshakedDescriptorStable

------------------------------------------------------------------------------
(***************************************************************************)
(* What the calls do if they are done one after the other.                 *)
(***************************************************************************)

State(m, f, s) == [mem |-> m, conf |-> f, stream |-> s]

\* The packets f with the one on tid replaced.
Reset(f, tid, packet) == [f EXCEPT ![tid] = packet]

\* The buffer m holds data from offset on.
Holds(m, offset, data) ==
  \A a \in offset..(offset + Len(data) - 1) :
    a \in Addr /\ m[a] = Ordered!Raw(data[a - offset + 1])

\* Each beat of the input processed once, under the configuration f.
Once(input, f) == [k \in 1..Len(input) |-> [data |-> input[k], by |-> <<f>>]]

\* m with the beats of s from offset on.
Placed(m, offset, s) ==
  [a \in Addr |-> IF a \in offset..(offset + Len(s) - 1)
                    THEN s[a - offset + 1] ELSE m[a]]

\* A configuration packet replaces the one on its tid.
LEMMA ConfigureEffect ==
  ASSUME NEW m, NEW f, NEW s, NEW offset \in Nat, NEW packet \in Seq(Data),
         NEW tid \in Tids, Holds(m, offset, packet)
  PROVE  Ordered!Effect([op |-> "DataToAccel", addr |-> offset,
                         size |-> Len(packet), tid |-> tid], State(m, f, s))
           = State(m, Reset(f, tid, packet), s)
<1> DEFINE v == State(m, f, s)
           c == [op |-> "DataToAccel", addr |-> offset, size |-> Len(packet), tid |-> tid]
<1>1. ASSUME NEW k \in 1..Len(packet)
      PROVE  Ordered!ReadBeat(v, offset + k - 1).data = packet[k]
  <2>1. /\ offset + k - 1 \in offset..(offset + Len(packet) - 1)
        /\ (offset + k - 1) - offset + 1 = k
    OBVIOUS
  <2>2. offset + k - 1 \in Addr /\ m[offset + k - 1] = Ordered!Raw(packet[k])
    BY <2>1 DEF Holds
  <2> QED BY <2>2 DEF Ordered!ReadBeat, Ordered!Raw, State
<1>2. [k \in 1..Len(packet) |-> Ordered!ReadBeat(v, offset + k - 1).data] = packet
  BY <1>1
<1>3. Ordered!Effect(c, v) = Ordered!Configured(c, v)
  BY DEF Ordered!Effect
<1>4. Ordered!Configured(c, v) = [v EXCEPT !.conf[tid] = packet]
  BY <1>2 DEF Ordered!Configured
<1> QED BY <1>3, <1>4 DEF State, Reset

\* A payload is processed under the packets configured so far.
LEMMA StreamEffect ==
  ASSUME NEW m, NEW f, NEW offset \in Nat, NEW input \in Seq(Data),
         Holds(m, offset, input)
  PROVE  Ordered!Effect([op |-> "DataToAccel", addr |-> offset,
                         size |-> Len(input), tid |-> 0], State(m, f, <<>>))
           = State(m, f, Once(input, f))
<1> DEFINE v == State(m, f, <<>>)
           c == [op |-> "DataToAccel", addr |-> offset, size |-> Len(input), tid |-> 0]
           sent == [k \in 1..Len(input) |->
                      [Ordered!ReadBeat(v, offset + k - 1)
                         EXCEPT !.by = Append(@, f)]]
<1>1. ASSUME NEW k \in 1..Len(input)
      PROVE  [Ordered!ReadBeat(v, offset + k - 1) EXCEPT !.by = Append(@, f)]
               = [data |-> input[k], by |-> <<f>>]
  <2>1. /\ offset + k - 1 \in offset..(offset + Len(input) - 1)
        /\ (offset + k - 1) - offset + 1 = k
    OBVIOUS
  <2>2. offset + k - 1 \in Addr /\ m[offset + k - 1] = Ordered!Raw(input[k])
    BY <2>1 DEF Holds
  <2>3. Ordered!ReadBeat(v, offset + k - 1) = [data |-> input[k], by |-> <<>>]
    BY <2>2 DEF Ordered!ReadBeat, Ordered!Raw, State
  <2> QED BY <2>3
<1>2. sent = Once(input, f)
  BY <1>1 DEF Once
<1>3. Ordered!Effect(c, v) = Ordered!Streamed(c, v)
  BY HardwareAssumption DEF Ordered!Effect
<1>4. Ordered!Streamed(c, v) = [v EXCEPT !.stream = @ \o sent]
  BY DEF Ordered!Streamed, State
<1>5. <<>> \o Once(input, f) = Once(input, f)
  BY DEF Once
<1> QED BY <1>2, <1>3, <1>4, <1>5 DEF State

\* All the results are fetched.
LEMMA StoreEffect ==
  ASSUME NEW m, NEW f, NEW offset \in Nat, NEW input \in Seq(Data)
  PROVE  Ordered!Effect([op |-> "DataFromAccel", addr |-> offset,
                         size |-> Len(input)], State(m, f, Once(input, f)))
           = State(Placed(m, offset, Once(input, f)), f, <<>>)
<1> DEFINE s == Once(input, f)
           v == State(m, f, s)
           c == [op |-> "DataFromAccel", addr |-> offset, size |-> Len(input)]
<1>1. s \in Seq({s[k] : k \in 1..Len(input)}) /\ Len(s) = Len(input)
  <2>1. s \in [1..Len(input) -> {s[k] : k \in 1..Len(input)}] /\ Len(input) \in Nat
    BY DEF Once
  <2> HIDE DEF s
  <2> QED BY ONLY <2>1, FunctionIsSeq
<1>2. SubSeq(s, Len(input) + 1, Len(s)) = <<>>
  <2>1. Len(input) + 1 \in Int /\ Len(s) \in Int /\ Len(s) < Len(input) + 1
    BY <1>1
  <2> HIDE DEF s
  <2> QED BY ONLY <2>1, SubSeqEmpty
<1>3. Ordered!Effect(c, v) = Ordered!Stored(c, v)
  BY DEF Ordered!Effect
<1>4. Ordered!Stored(c, v) = State(Placed(m, offset, s), f, <<>>)
  <2> HIDE DEF s
  <2>1. Ordered!Stored(c, v) =
          [v EXCEPT !.mem = Placed(m, offset, s), !.stream = <<>>]
    BY <1>1, <1>2 DEF Ordered!Stored, State, Placed
  <2> QED BY <2>1 DEF State
<1> QED BY <1>3, <1>4

\* Other calls do nothing.
LEMMA OtherEffect ==
  ASSUME NEW c, NEW v, c.op \notin {"Load", "DataToAccel", "DataFromAccel"}
  PROVE  Ordered!Effect(c, v) = v
BY DEF Ordered!Effect

\* A fresh buffer with an image in it.
LEMMA LoadEffects ==
  ASSUME NEW image, NEW f, NEW m
  PROVE  Ordered!Effect([op |-> "Load", image |-> image, fresh |-> TRUE],
                        State(m, f, <<>>))
           = State([a \in Addr |-> IF a \in DOMAIN image THEN Ordered!Raw(image[a])
                                   ELSE Ordered!Raw(Junk)], f, <<>>)
BY DEF Ordered!Effect, Ordered!Loaded, State

\* Results that were placed in the buffer are what the program expects of a
\* run configured by f, whatever else it configured.
LEMMA PlacedOnce ==
  ASSUME NEW m, NEW f, NEW setup, NEW offset \in Nat, NEW input \in Seq(Data),
         offset..(offset + Len(input) - 1) \subseteq Addr,
         \A t \in DOMAIN setup : f[t] = setup[t],
         NEW k \in 0..(Len(input) - 1)
  PROVE  ProcessedOnce(Placed(m, offset, Once(input, f))[offset + k],
                       input[k + 1], setup)
<1> DEFINE s == Once(input, f)
<1>1. s \in Seq({s[j] : j \in 1..Len(input)}) /\ Len(s) = Len(input)
  <2>1. s \in [1..Len(input) -> {s[j] : j \in 1..Len(input)}] /\ Len(input) \in Nat
    BY DEF Once
  <2> HIDE DEF s
  <2> QED BY ONLY <2>1, FunctionIsSeq
<1>2. /\ offset + k \in offset..(offset + Len(input) - 1)
      /\ (offset + k) - offset + 1 = k + 1 /\ k + 1 \in 1..Len(input)
  OBVIOUS
<1>3. Placed(m, offset, s)[offset + k] = s[k + 1]
  BY <1>1, <1>2 DEF Placed
<1>4. s[k + 1] = [data |-> input[k + 1], by |-> <<f>>]
  BY <1>2 DEF Once
<1> HIDE DEF s
<1> QED BY <1>3, <1>4 DEF ProcessedOnce, s

------------------------------------------------------------------------------
(***************************************************************************)
(* The fir application.                                                    *)
(***************************************************************************)

\* The files fit in their regions and the regions in the buffer; the results
\* replace the input.
FIRLayout(reload, config, input) ==
  /\ FIR_RELOAD \in Nat /\ FIR_CONFIG \in Nat /\ FIR_INPUT \in Nat
  /\ FIR_RESULT = FIR_INPUT
  /\ reload \in Seq(Data) /\ config \in Seq(Data) /\ input \in Seq(Data)
  /\ FIR_RELOAD + Len(reload) <= FIR_CONFIG
  /\ FIR_CONFIG + Len(config) <= FIR_INPUT
  /\ FIR_RELOAD..(FIR_INPUT + Len(input) - 1) \subseteq Addr
  /\ {1, 2} \subseteq Tids

\* The buffer after the copies.
FIRBuffer(reload, config, input) ==
  [a \in Addr |-> IF a \in DOMAIN FIR!Image(reload, config, input)
                    THEN Ordered!Raw(FIR!Image(reload, config, input)[a])
                    ELSE Ordered!Raw(Junk)]

\* The three files are in the buffer.
LEMMA FIRHolds ==
  ASSUME NEW reload, NEW config, NEW input, FIRLayout(reload, config, input)
  PROVE  LET m == FIRBuffer(reload, config, input)
         IN  /\ Holds(m, FIR_RELOAD, reload)
             /\ Holds(m, FIR_CONFIG, config)
             /\ Holds(m, FIR_INPUT, input)
<1> USE DEF FIRLayout
<1> DEFINE A == FIR!Copied(FIR_INPUT, input)
           B == FIR!Copied(FIR_CONFIG, config)
           C == FIR!Copied(FIR_RELOAD, reload)
           m == FIRBuffer(reload, config, input)
<1>1. /\ DOMAIN A = FIR_INPUT..(FIR_INPUT + Len(input) - 1)
      /\ DOMAIN B = FIR_CONFIG..(FIR_CONFIG + Len(config) - 1)
      /\ DOMAIN C = FIR_RELOAD..(FIR_RELOAD + Len(reload) - 1)
      /\ \A a \in DOMAIN A : A[a] = input[a - FIR_INPUT + 1]
      /\ \A a \in DOMAIN B : B[a] = config[a - FIR_CONFIG + 1]
      /\ \A a \in DOMAIN C : C[a] = reload[a - FIR_RELOAD + 1]
  BY DEF FIR!Copied
<1>2. FIR!Image(reload, config, input) = FIR!Onto(A, FIR!Onto(B, C))
  BY DEF FIR!Image
<1>3. \A a \in DOMAIN A \cup DOMAIN B \cup DOMAIN C : a \in Addr
  BY <1>1
<1>4. \A a \in DOMAIN B : a \notin DOMAIN A
  BY <1>1
<1>5. \A a \in DOMAIN C : a \notin DOMAIN A /\ a \notin DOMAIN B
  BY <1>1
<1> HIDE DEF A, B, C
<1>6. /\ \A a \in DOMAIN A : m[a] = Ordered!Raw(A[a])
      /\ \A a \in DOMAIN B : m[a] = Ordered!Raw(B[a])
      /\ \A a \in DOMAIN C : m[a] = Ordered!Raw(C[a])
  <2> DEFINE I == FIR!Onto(A, FIR!Onto(B, C))
  <2>1. /\ \A a \in DOMAIN A : a \in DOMAIN I /\ I[a] = A[a]
        /\ \A a \in DOMAIN B : a \in DOMAIN I /\ I[a] = B[a]
        /\ \A a \in DOMAIN C : a \in DOMAIN I /\ I[a] = C[a]
    BY ONLY <1>4, <1>5 DEF FIR!Onto
  <2>2. m = [a \in Addr |-> IF a \in DOMAIN I THEN Ordered!Raw(I[a])
                            ELSE Ordered!Raw(Junk)]
    BY ONLY <1>2 DEF FIRBuffer
  <2> HIDE DEF I, m
  <2> QED BY ONLY <1>3, <2>1, <2>2
<1> HIDE DEF m
<1>7. Holds(m, FIR_RELOAD, reload)
  BY ONLY <1>1, <1>3, <1>6 DEF Holds
<1>8. Holds(m, FIR_CONFIG, config)
  BY ONLY <1>1, <1>3, <1>6 DEF Holds
<1>9. Holds(m, FIR_INPUT, input)
  BY ONLY <1>1, <1>3, <1>6 DEF Holds
<1> QED BY ONLY <1>7, <1>8, <1>9 DEF m

\* Calls put together.
LEMMA ElevenCalls ==
  ASSUME NEW e1, NEW e2, NEW e3, NEW e4, NEW e5, NEW e6, NEW e7, NEW e8,
         NEW e9, NEW e10, NEW e11
  PROVE  LET c == ((<<e1>> \o <<e2, e3, e4, e5, e6, e7>>) \o <<e8, e9, e10>>) \o <<e11>>
         IN  /\ Len(c) = 11
             /\ c[1] = e1 /\ c[2] = e2 /\ c[3] = e3 /\ c[4] = e4 /\ c[5] = e5
             /\ c[6] = e6 /\ c[7] = e7 /\ c[8] = e8 /\ c[9] = e9 /\ c[10] = e10
             /\ c[11] = e11
OBVIOUS

\* The calls of the application in full.
LEMMA FIRProgram ==
  ASSUME NEW reload, NEW config, NEW input
  PROVE  LET c == FIR!main(reload, config, input)
         IN  /\ Len(c) = 11
             /\ c[1] = [op |-> "Load", image |-> FIR!Image(reload, config, input),
                        fresh |-> TRUE]
             /\ c[2] = [op |-> "DataToAccel", addr |-> FIR_RELOAD,
                        size |-> Len(reload), tid |-> 1]
             /\ c[3] = [op |-> "DataToAccelDone"]
             /\ c[4] = [op |-> "Report", tid |-> 1, want |-> reload]
             /\ c[5] = [op |-> "DataToAccel", addr |-> FIR_CONFIG,
                        size |-> Len(config), tid |-> 2]
             /\ c[6] = [op |-> "DataToAccelDone"]
             /\ c[7] = [op |-> "Report", tid |-> 2, want |-> config]
             /\ c[8] = [op |-> "DataToAccel", addr |-> FIR_INPUT,
                        size |-> Len(input), tid |-> 0]
             /\ c[9] = [op |-> "DataFromAccel", addr |-> FIR_RESULT,
                        size |-> Len(input)]
             /\ c[10] = [op |-> "DataFromAccelDone"]
             /\ c[11] = [op |-> "Collect", addr |-> FIR_RESULT, size |-> Len(input),
                         want |-> input, conf |-> <<reload, config>>]
<1> DEFINE e1 == [op |-> "Load", image |-> FIR!Image(reload, config, input), fresh |-> TRUE]
           e2 == [op |-> "DataToAccel", addr |-> FIR_RELOAD, size |-> Len(reload), tid |-> 1]
           e3 == [op |-> "DataToAccelDone"]
           e4 == [op |-> "Report", tid |-> 1, want |-> reload]
           e5 == [op |-> "DataToAccel", addr |-> FIR_CONFIG, size |-> Len(config), tid |-> 2]
           e7 == [op |-> "Report", tid |-> 2, want |-> config]
           e8 == [op |-> "DataToAccel", addr |-> FIR_INPUT, size |-> Len(input), tid |-> 0]
           e9 == [op |-> "DataFromAccel", addr |-> FIR_RESULT, size |-> Len(input)]
           e10 == [op |-> "DataFromAccelDone"]
           e11 == [op |-> "Collect", addr |-> FIR_RESULT, size |-> Len(input),
                   want |-> input, conf |-> <<reload, config>>]
<1>1. FIR!main(reload, config, input) =
        ((<<e1>> \o <<e2, e3, e4, e5, e3, e7>>) \o <<e8, e9, e10>>) \o <<e11>>
  BY DEF FIR!main, FIR!Configure, FIR!Filter, FIR!LoadFresh, FIR!DataToAccel,
         FIR!DataToAccelDone, FIR!Report, FIR!DataFromAccel,
         FIR!DataFromAccelDone, FIR!Collect
<1> HIDE DEF e1, e2, e3, e4, e5, e7, e8, e9, e10, e11
<1>2. LET c == FIR!main(reload, config, input)
      IN  /\ Len(c) = 11
          /\ c[1] = e1 /\ c[2] = e2 /\ c[3] = e3 /\ c[4] = e4 /\ c[5] = e5
          /\ c[6] = e3 /\ c[7] = e7 /\ c[8] = e8 /\ c[9] = e9 /\ c[10] = e10
          /\ c[11] = e11
  BY <1>1, ElevenCalls
<1> QED BY <1>2 DEF e1, e2, e3, e4, e5, e7, e8, e9, e10, e11

\* The fir application is right if its calls are done one after the other, and
\* it leaves the movers alone where it must.
LEMMA FIRSound ==
  ASSUME NEW reload, NEW config, NEW input, FIRLayout(reload, config, input),
         NEW f0 \in Conf
  PROVE  SoundAfter(FIR!main(reload, config, input), f0)
<1> DEFINE c == FIR!main(reload, config, input)
           m == FIRBuffer(reload, config, input)
           f1 == Reset(f0, 1, reload)
           f2 == Reset(f1, 2, config)
           p == Placed(m, FIR_RESULT, Once(input, f2))
           s1 == State([a \in Addr |-> Ordered!Raw(Junk)], f0, <<>>)
           s2 == State(m, f0, <<>>)
           s3 == State(m, f1, <<>>)
           s4 == State(m, f2, <<>>)
           s5 == State(m, f2, Once(input, f2))
           s6 == State(p, f2, <<>>)
           v == <<s1, s2, s3, s3, s3, s4, s4, s4, s5, s6, s6, s6>>
<1>0. /\ FIR_RELOAD \in Nat /\ FIR_CONFIG \in Nat /\ FIR_INPUT \in Nat
      /\ FIR_RESULT = FIR_INPUT /\ FIR_RESULT \in Nat
      /\ reload \in Seq(Data) /\ config \in Seq(Data) /\ input \in Seq(Data)
      /\ FIR_RESULT..(FIR_RESULT + Len(input) - 1) \subseteq Addr
      /\ 1 \in Tids /\ 2 \in Tids /\ 0 \notin Tids /\ Len(input) \in Nat
  BY HardwareAssumption DEF FIRLayout
<1>1. /\ Holds(m, FIR_RELOAD, reload) /\ Holds(m, FIR_CONFIG, config)
      /\ Holds(m, FIR_INPUT, input)
  BY FIRHolds
<1>2. f1[1] = reload /\ f2[1] = reload /\ f2[2] = config
  BY <1>0 DEF Reset, Conf
<1>3. /\ Len(c) = 11
      /\ c[1] = [op |-> "Load", image |-> FIR!Image(reload, config, input), fresh |-> TRUE]
      /\ c[2] = [op |-> "DataToAccel", addr |-> FIR_RELOAD, size |-> Len(reload), tid |-> 1]
      /\ c[4] = [op |-> "Report", tid |-> 1, want |-> reload]
      /\ c[5] = [op |-> "DataToAccel", addr |-> FIR_CONFIG, size |-> Len(config), tid |-> 2]
      /\ c[7] = [op |-> "Report", tid |-> 2, want |-> config]
      /\ c[8] = [op |-> "DataToAccel", addr |-> FIR_INPUT, size |-> Len(input), tid |-> 0]
      /\ c[9] = [op |-> "DataFromAccel", addr |-> FIR_RESULT, size |-> Len(input)]
      /\ c[11] = [op |-> "Collect", addr |-> FIR_RESULT, size |-> Len(input),
                  want |-> input, conf |-> <<reload, config>>]
      /\ \A q \in 1..11 : c[q].op = FIROps[q]
  BY FIRProgram, FIRCalls
<1>4. s1 = [Ordered!Fresh EXCEPT !.conf = f0]
  BY DEF State, Ordered!Fresh
<1>5. Len(Once(input, f2)) = Len(input)
  BY DEF Once
<1>6. s4.conf = f2 /\ s3.conf = f1 /\ s6.mem = p /\ s5.stream = Once(input, f2)
  BY DEF State
<1>7. Ordered!Effect([op |-> "Load", image |-> FIR!Image(reload, config, input),
                      fresh |-> TRUE], s1) = s2
  BY LoadEffects DEF FIRBuffer
<1> HIDE DEF c, m
<1>8. Ordered!Effect(c[2], s2) = s3
  <2>1. Ordered!Effect([op |-> "DataToAccel", addr |-> FIR_RELOAD,
                        size |-> Len(reload), tid |-> 1], State(m, f0, <<>>))
          = State(m, Reset(f0, 1, reload), <<>>)
    BY ONLY <1>0, <1>1, ConfigureEffect
  <2> QED BY ONLY <1>3, <2>1 DEF s2, s3, f1
<1>9. Ordered!Effect(c[5], s3) = s4
  <2>1. Ordered!Effect([op |-> "DataToAccel", addr |-> FIR_CONFIG,
                        size |-> Len(config), tid |-> 2], State(m, f1, <<>>))
          = State(m, Reset(f1, 2, config), <<>>)
    BY ONLY <1>0, <1>1, ConfigureEffect
  <2> QED BY ONLY <1>3, <2>1 DEF s3, s4, f2
<1>10. Ordered!Effect(c[8], s4) = s5
  BY <1>0, <1>1, <1>3, StreamEffect
<1>11. Ordered!Effect(c[9], s5) = s6
  BY <1>0, <1>3, StoreEffect
<1> HIDE DEF f1, f2
<1>12. \A i \in {3, 4, 6, 7, 10, 11} : \A u : Ordered!Effect(c[i], u) = u
  <2>1. \A i \in {3, 4, 6, 7, 10, 11} :
          c[i].op \notin {"Load", "DataToAccel", "DataFromAccel"}
    BY ONLY <1>3 DEF FIROps
  <2> QED BY ONLY <2>1, OtherEffect
<1>13. \A k \in 0..(Len(input) - 1) :
         ProcessedOnce(p[FIR_RESULT + k], input[k + 1], <<reload, config>>)
  <2>1. \A t \in DOMAIN <<reload, config>> : f2[t] = <<reload, config>>[t]
    BY <1>2
  <2> QED BY <1>0, <2>1, PlacedOnce
<1> HIDE DEF s1, s2, s3, s4, s5, s6, p
<1>19. /\ v[1] = s1 /\ v[2] = s2 /\ v[3] = s3 /\ v[4] = s3 /\ v[5] = s3 /\ v[6] = s4
       /\ v[7] = s4 /\ v[8] = s4 /\ v[9] = s5 /\ v[10] = s6 /\ v[11] = s6 /\ v[12] = s6
  OBVIOUS
<1>20. \A q \in 1..11 :
         /\ c[q].op = "DataFromAccel" => q = 9
         /\ c[q].op = "Collect" => q = 11
         /\ c[q].op = "Report" => q \in {4, 7}
  <2>1. \A q \in 1..11 : /\ FIROps[q] = "DataFromAccel" => q = 9
                         /\ FIROps[q] = "Collect" => q = 11
                         /\ FIROps[q] = "Report" => q \in {4, 7}
    BY ONLY TRUE DEF FIROps
  <2>2. \A q \in 1..11 : c[q].op = FIROps[q]
    BY ONLY <1>3
  <2> QED BY ONLY <2>1, <2>2
<1> HIDE DEF v
<1>14. v[1] = [Ordered!Fresh EXCEPT !.conf = f0] /\ Follows(c, v)
  <2>1. v[1] = [Ordered!Fresh EXCEPT !.conf = f0]
    BY <1>4, <1>19
  <2>2. ASSUME NEW q \in 1..11 PROVE v[q + 1] = Ordered!Effect(c[q], v[q])
    <3>1. q \in {3, 4, 6, 7, 10, 11} => v[q + 1] = v[q]
      BY ONLY <1>19
    <3>2. CASE q \in {3, 4, 6, 7, 10, 11}
      BY ONLY <1>12, <3>1, <3>2
    <3>3. CASE q = 1
      <4>1. Ordered!Effect(c[1], s1) = s2
        BY ONLY <1>3, <1>7
      <4>2. v[1 + 1] = s2 /\ v[1] = s1
        BY ONLY <1>19
      <4> QED BY ONLY <3>3, <4>1, <4>2
    <3>4. CASE q = 2
      BY <1>8, <1>19, <3>4
    <3>5. CASE q = 5
      BY <1>9, <1>19, <3>5
    <3>6. CASE q = 8
      BY <1>10, <1>19, <3>6
    <3>7. CASE q = 9
      BY <1>11, <1>19, <3>7
    <3>8. q \in {3, 4, 6, 7, 10, 11} \/ q \in {1, 2, 5, 8, 9}
      BY ONLY <2>2
    <3> QED BY <3>2, <3>3, <3>4, <3>5, <3>6, <3>7, <3>8
  <2> QED BY <1>3, <2>1, <2>2 DEF Follows
<1>15. /\ \A q \in 1..11 : Outstanding(c, q, "MM2S") <=> q \in {3, 6, 9, 10, 11}
       /\ \A q \in 1..11 : Outstanding(c, q, "S2MM") <=> q = 10
  BY ONLY <1>3 DEF Outstanding, StartOp, AwaitOp, FIROps
<1>16. \A q : StartedBy(c, 9, "MM2S", q) => q = 8
  BY ONLY <1>3 DEF StartedBy, StartOp, AwaitOp, FIROps
<1>17. Disciplined(c, v)
  <2>1. Handshaked(c)
    BY FIRHandshaked DEF c
  <2>2. ASSUME NEW q \in 1..11, c[q].op \in {"Load", "DataToAccel"}, NEW ch \in Channel
        PROVE  ~Outstanding(c, q, ch)
    BY ONLY <1>3, <1>15, <2>2 DEF FIROps, Channel
  <2>3. ASSUME NEW q \in 1..11, c[q].op = "DataFromAccel"
        PROVE  /\ InBuffer(c[q]) /\ c[q].size <= Len(v[q].stream)
               /\ Outstanding(c, q, "MM2S") =>
                    \A i : StartedBy(c, q, "MM2S", i) => Behind(c[i], c[q], v[q])
    <3>1. q = 9
      BY <1>20, <2>3
    <3>2. Len(v[9].stream) = Len(input)
      BY <1>5, <1>6, <1>19
    <3>3. InBuffer(c[9]) /\ c[9].size <= Len(v[9].stream)
      BY ONLY <1>0, <1>3, <3>2 DEF InBuffer
    <3>4. Behind(c[8], c[9], v[9])
      BY ONLY <1>0, <1>3, <3>2 DEF Behind
    <3> QED BY <1>16, <3>1, <3>3, <3>4
  <2>4. ASSUME NEW q \in 1..11, c[q].op = "Collect"
        PROVE  InBuffer(c[q]) /\ ~Outstanding(c, q, "S2MM")
    <3>1. q = 11
      BY <1>20, <2>4
    <3>2. InBuffer(c[11])
      BY ONLY <1>0, <1>3 DEF InBuffer
    <3>3. ~Outstanding(c, 11, "S2MM")
      BY ONLY <1>15
    <3> QED BY ONLY <3>1, <3>2, <3>3
  <2> QED BY <1>3, <2>1, <2>2, <2>3, <2>4 DEF Disciplined
<1>18. Correct(c, v)
  <2>1. ASSUME NEW q \in 1..11, c[q].op = "Collect", NEW k \in 0..(c[q].size - 1)
        PROVE  ProcessedOnce(v[q].mem[c[q].addr + k], c[q].want[k + 1], c[q].conf)
    <3>1. q = 11
      BY <1>20, <2>1
    <3>2. v[11].mem = p
      BY <1>6, <1>19
    <3>3. /\ c[11].size = Len(input) /\ c[11].addr = FIR_RESULT
          /\ c[11].want = input /\ c[11].conf = <<reload, config>>
      BY ONLY <1>3
    <3>4. k \in 0..(Len(input) - 1)
      BY ONLY <2>1, <3>1, <3>3
    <3>5. ProcessedOnce(p[FIR_RESULT + k], input[k + 1], <<reload, config>>)
      BY ONLY <1>13, <3>4
    <3> QED BY ONLY <3>1, <3>2, <3>3, <3>5
  <2>2. ASSUME NEW q \in 1..11, c[q].op = "Report"
        PROVE  ~Outstanding(c, q, "MM2S") /\ v[q].conf[c[q].tid] = c[q].want
    <3>1. q \in {4, 7}
      BY <1>20, <2>2
    <3>2. CASE q = 4
      <4>1. v[4].conf[1] = reload /\ c[4].tid = 1 /\ c[4].want = reload
        <5>1. v[4] = s3 /\ s3.conf = f1 /\ f1[1] = reload
          BY ONLY <1>2, <1>6, <1>19
        <5>2. c[4].tid = 1 /\ c[4].want = reload
          BY ONLY <1>3
        <5> QED BY ONLY <5>1, <5>2
      <4>2. ~Outstanding(c, 4, "MM2S")
        BY ONLY <1>15
      <4> QED BY ONLY <3>2, <4>1, <4>2
    <3>3. CASE q = 7
      <4>1. v[7].conf[2] = config /\ c[7].tid = 2 /\ c[7].want = config
        <5>1. v[7] = s4 /\ s4.conf = f2 /\ f2[2] = config
          BY ONLY <1>2, <1>6, <1>19
        <5>2. c[7].tid = 2 /\ c[7].want = config
          BY ONLY <1>3
        <5> QED BY ONLY <5>1, <5>2
      <4>2. ~Outstanding(c, 7, "MM2S")
        BY ONLY <1>15
      <4> QED BY ONLY <3>3, <4>1, <4>2
    <3> QED BY ONLY <3>1, <3>2, <3>3
  <2> QED BY <1>3, <2>1, <2>2 DEF Correct, Exact
<1> QED BY <1>14, <1>17, <1>18 DEF SoundAfter, c

------------------------------------------------------------------------------
(***************************************************************************)
(* The fft application.                                                    *)
(***************************************************************************)

\* The packet fits in its region, the input in the one before the results,
\* and the regions in the buffer.
FFTLayout(config, input) ==
  /\ FFT_CONFIG \in Nat /\ FFT_DATA_IN \in Nat /\ FFT_RESULT \in Nat
  /\ config \in Seq(Data) /\ input \in Seq(Data)
  /\ FFT_CONFIG + Len(config) <= FFT_DATA_IN
  /\ FFT_DATA_IN + Len(input) <= FFT_RESULT
  /\ FFT_CONFIG..(FFT_RESULT + Len(input) - 1) \subseteq Addr
  /\ 1..4 \subseteq Tids

\* What the results are processed under.
FFTSetup(config) == [tid \in 1..4 |-> config]

FFTImage(config, input) ==
  FFT!Onto(FFT!Copied(FFT_DATA_IN, input), FFT!Copied(FFT_CONFIG, config))

FFTBuffer(config, input) ==
  [a \in Addr |-> IF a \in DOMAIN FFTImage(config, input)
                    THEN Ordered!Raw(FFTImage(config, input)[a])
                    ELSE Ordered!Raw(Junk)]

\* The two files are in the buffer.
LEMMA FFTHolds ==
  ASSUME NEW config, NEW input, FFTLayout(config, input)
  PROVE  LET m == FFTBuffer(config, input)
         IN  Holds(m, FFT_CONFIG, config) /\ Holds(m, FFT_DATA_IN, input)
<1> USE DEF FFTLayout
<1> DEFINE A == FFT!Copied(FFT_DATA_IN, input)
           B == FFT!Copied(FFT_CONFIG, config)
           m == FFTBuffer(config, input)
<1>1. /\ DOMAIN A = FFT_DATA_IN..(FFT_DATA_IN + Len(input) - 1)
      /\ DOMAIN B = FFT_CONFIG..(FFT_CONFIG + Len(config) - 1)
      /\ \A a \in DOMAIN A : A[a] = input[a - FFT_DATA_IN + 1]
      /\ \A a \in DOMAIN B : B[a] = config[a - FFT_CONFIG + 1]
  BY DEF FFT!Copied
<1>2. FFTImage(config, input) = FFT!Onto(A, B)
  BY DEF FFTImage
<1>3. \A a \in DOMAIN A \cup DOMAIN B : a \in Addr
  BY <1>1
<1>4. \A a \in DOMAIN B : a \notin DOMAIN A
  BY <1>1
<1> HIDE DEF A, B
<1>5. /\ \A a \in DOMAIN A : m[a] = Ordered!Raw(A[a])
      /\ \A a \in DOMAIN B : m[a] = Ordered!Raw(B[a])
  <2> DEFINE I == FFT!Onto(A, B)
  <2>1. /\ \A a \in DOMAIN A : a \in DOMAIN I /\ I[a] = A[a]
        /\ \A a \in DOMAIN B : a \in DOMAIN I /\ I[a] = B[a]
    BY ONLY <1>4 DEF FFT!Onto
  <2>2. m = [a \in Addr |-> IF a \in DOMAIN I THEN Ordered!Raw(I[a])
                            ELSE Ordered!Raw(Junk)]
    BY ONLY <1>2 DEF FFTBuffer
  <2> HIDE DEF I, m
  <2> QED BY ONLY <1>3, <2>1, <2>2
<1> HIDE DEF m
<1>6. Holds(m, FFT_CONFIG, config)
  BY ONLY <1>1, <1>3, <1>5 DEF Holds
<1>7. Holds(m, FFT_DATA_IN, input)
  BY ONLY <1>1, <1>3, <1>5 DEF Holds
<1> QED BY ONLY <1>6, <1>7 DEF m

\* Calls put together.
LEMMA SeventeenCalls ==
  ASSUME NEW e1, NEW e2, NEW e3, NEW e4, NEW e5, NEW e6, NEW e7, NEW e8, NEW e9,
         NEW e10, NEW e11, NEW e12, NEW e13, NEW e14, NEW e15, NEW e16, NEW e17
  PROVE  LET c == ((<<e1>>
                      \o (((<<e2, e3, e4>> \o <<e5, e6, e7>>) \o <<e8, e9, e10>>)
                           \o <<e11, e12, e13>>))
                    \o <<e14, e15, e16>>) \o <<e17>>
         IN  /\ Len(c) = 17
             /\ c[1] = e1 /\ c[2] = e2 /\ c[3] = e3 /\ c[4] = e4 /\ c[5] = e5 /\ c[6] = e6
             /\ c[7] = e7 /\ c[8] = e8 /\ c[9] = e9 /\ c[10] = e10 /\ c[11] = e11 /\ c[12] = e12
             /\ c[13] = e13 /\ c[14] = e14 /\ c[15] = e15 /\ c[16] = e16 /\ c[17] = e17
OBVIOUS

\* The calls that matter, in full.
FFTProgramIs(c, config, input) ==
  /\ Len(c) = 17
  /\ c[1] = [op |-> "Load", image |-> FFTImage(config, input), fresh |-> TRUE]
  /\ c[2] = [op |-> "DataToAccel", addr |-> FFT_CONFIG, size |-> Len(config),
             tid |-> 1]
  /\ c[4] = [op |-> "Report", tid |-> 1, want |-> config]
  /\ c[5] = [op |-> "DataToAccel", addr |-> FFT_CONFIG, size |-> Len(config),
             tid |-> 2]
  /\ c[7] = [op |-> "Report", tid |-> 2, want |-> config]
  /\ c[8] = [op |-> "DataToAccel", addr |-> FFT_CONFIG, size |-> Len(config),
             tid |-> 3]
  /\ c[10] = [op |-> "Report", tid |-> 3, want |-> config]
  /\ c[11] = [op |-> "DataToAccel", addr |-> FFT_CONFIG, size |-> Len(config),
             tid |-> 4]
  /\ c[13] = [op |-> "Report", tid |-> 4, want |-> config]
  /\ c[14] = [op |-> "DataToAccel", addr |-> FFT_DATA_IN, size |-> Len(input),
             tid |-> 0]
  /\ c[15] = [op |-> "DataFromAccel", addr |-> FFT_RESULT, size |-> Len(input)]
  /\ c[17] = [op |-> "Collect", addr |-> FFT_RESULT, size |-> Len(input),
             want |-> input, conf |-> FFTSetup(config)]

LEMMA FFTProgram ==
  ASSUME NEW config, NEW input
  PROVE  FFTProgramIs(FFT!main(config, input), config, input)
<1> DEFINE e1 == [op |-> "Load", image |-> FFTImage(config, input), fresh |-> TRUE]
           e2 == [op |-> "DataToAccel", addr |-> FFT_CONFIG, size |-> Len(config),
                   tid |-> 1]
           e3 == [op |-> "DataToAccelDone"]
           e4 == [op |-> "Report", tid |-> 1, want |-> config]
           e5 == [op |-> "DataToAccel", addr |-> FFT_CONFIG, size |-> Len(config),
                   tid |-> 2]
           e7 == [op |-> "Report", tid |-> 2, want |-> config]
           e8 == [op |-> "DataToAccel", addr |-> FFT_CONFIG, size |-> Len(config),
                   tid |-> 3]
           e10 == [op |-> "Report", tid |-> 3, want |-> config]
           e11 == [op |-> "DataToAccel", addr |-> FFT_CONFIG, size |-> Len(config),
                   tid |-> 4]
           e13 == [op |-> "Report", tid |-> 4, want |-> config]
           e14 == [op |-> "DataToAccel", addr |-> FFT_DATA_IN, size |-> Len(input),
                   tid |-> 0]
           e15 == [op |-> "DataFromAccel", addr |-> FFT_RESULT, size |-> Len(input)]
           e16 == [op |-> "DataFromAccelDone"]
           e17 == [op |-> "Collect", addr |-> FFT_RESULT, size |-> Len(input),
                   want |-> input, conf |-> FFTSetup(config)]
<1>1. FFT!main(config, input) =
        ((<<e1>> \o FFT!Configure(config)) \o <<e14, e15, e16>>) \o <<e17>>
  BY DEF FFT!main, FFT!Transform, FFT!LoadFresh, FFT!DataToAccel, FFT!DataFromAccel,
         FFT!DataFromAccelDone, FFT!Collect, FFTImage, FFTSetup
<1>2. FFT!Configure(config) =
        ((<<e2, e3, e4>> \o <<e5, e3, e7>>) \o <<e8, e3, e10>>) \o <<e11, e3, e13>>
  BY DEF FFT!Configure, FFT!ConfigureChannel, FFT!DataToAccel, FFT!DataToAccelDone,
         FFT!Report
<1> HIDE DEF e1, e2, e3, e4, e5, e7, e8, e10, e11, e13, e14, e15, e16, e17
<1>3. LET c == FFT!main(config, input)
      IN  /\ Len(c) = 17
          /\ c[1] = e1 /\ c[2] = e2 /\ c[4] = e4 /\ c[5] = e5 /\ c[7] = e7
          /\ c[8] = e8 /\ c[10] = e10 /\ c[11] = e11 /\ c[13] = e13
          /\ c[14] = e14 /\ c[15] = e15 /\ c[17] = e17
  BY ONLY <1>1, <1>2, SeventeenCalls
<1> QED BY <1>3 DEF e1, e2, e4, e5, e7, e8, e10, e11, e13, e14, e15, e17, FFTProgramIs

\* The fft application is right if its calls are done one after the other,
\* and it leaves the movers alone where it must.
LEMMA FFTSound ==
  ASSUME NEW config, NEW input, FFTLayout(config, input), NEW f0 \in Conf
  PROVE  SoundAfter(FFT!main(config, input), f0)
<1> DEFINE c == FFT!main(config, input)
           m == FFTBuffer(config, input)
           f1 == Reset(f0, 1, config)
           f2 == Reset(f1, 2, config)
           f3 == Reset(f2, 3, config)
           f4 == Reset(f3, 4, config)
           p == Placed(m, FFT_RESULT, Once(input, f4))
           s0 == State([a \in Addr |-> Ordered!Raw(Junk)], f0, <<>>)
           s1 == State(m, f0, <<>>)
           s2 == State(m, f1, <<>>)
           s3 == State(m, f2, <<>>)
           s4 == State(m, f3, <<>>)
           s5 == State(m, f4, <<>>)
           s6 == State(m, f4, Once(input, f4))
           s7 == State(p, f4, <<>>)
           v == <<s0, s1, s2, s2, s2, s3, s3, s3, s4, s4, s4, s5, s5, s5,
                  s6, s7, s7, s7>>
           setup == FFTSetup(config)
<1>0. /\ FFT_CONFIG \in Nat /\ FFT_DATA_IN \in Nat /\ FFT_RESULT \in Nat
      /\ config \in Seq(Data) /\ input \in Seq(Data)
      /\ FFT_DATA_IN + Len(input) <= FFT_RESULT
      /\ FFT_RESULT..(FFT_RESULT + Len(input) - 1) \subseteq Addr
      /\ 1 \in Tids /\ 2 \in Tids /\ 3 \in Tids /\ 4 \in Tids
      /\ Len(input) \in Nat
  BY HardwareAssumption DEF FFTLayout
<1>1. Holds(m, FFT_CONFIG, config) /\ Holds(m, FFT_DATA_IN, input)
  BY FFTHolds
<1>2. /\ f1[1] = config /\ f2[2] = config /\ f3[3] = config /\ f4[4] = config
      /\ \A t \in 1..4 : f4[t] = config
  <2>1. f1[1] = config /\ f1 \in [Tids -> Seq(Data)]
    BY <1>0 DEF Reset, Conf
  <2> HIDE DEF f1
  <2>2. f2[2] = config /\ f2[1] = config /\ f2 \in [Tids -> Seq(Data)]
    BY <1>0, <2>1 DEF Reset
  <2> HIDE DEF f2
  <2>3. /\ f3[3] = config /\ f3[1] = config /\ f3[2] = config
        /\ f3 \in [Tids -> Seq(Data)]
    BY <1>0, <2>2 DEF Reset
  <2> HIDE DEF f3
  <2>4. f4[4] = config /\ f4[1] = config /\ f4[2] = config /\ f4[3] = config
    BY <1>0, <2>3 DEF Reset
  <2> HIDE DEF f4
  <2>5. 1..4 = {1, 2, 3, 4}
    OBVIOUS
  <2> QED BY <2>1, <2>2, <2>3, <2>4, <2>5
<1>3. FFTProgramIs(c, config, input)
  BY FFTProgram
<1>4. \A q \in 1..17 : c[q].op = FFTOps[q]
  BY FFTCalls
<1>5. s0 = [Ordered!Fresh EXCEPT !.conf = f0]
  BY DEF State, Ordered!Fresh
<1>6. Len(Once(input, f4)) = Len(input)
  BY DEF Once
<1>7. /\ s2.conf = f1 /\ s3.conf = f2 /\ s4.conf = f3 /\ s5.conf = f4
      /\ s7.mem = p /\ s6.stream = Once(input, f4)
  BY DEF State
<1>8. Ordered!Effect([op |-> "Load", image |-> FFTImage(config, input),
                      fresh |-> TRUE], s0) = s1
  BY LoadEffects DEF FFTBuffer
<1> HIDE DEF c, m
<1>9. Ordered!Effect(c[2], s1) = s2
  <2>1. Ordered!Effect([op |-> "DataToAccel", addr |-> FFT_CONFIG,
                        size |-> Len(config), tid |-> 1], State(m, f0, <<>>))
          = State(m, Reset(f0, 1, config), <<>>)
    BY ONLY <1>0, <1>1, ConfigureEffect
  <2> QED BY ONLY <1>3, <2>1 DEF s1, s2, f1, FFTProgramIs
<1>10. Ordered!Effect(c[5], s2) = s3
  <2>1. Ordered!Effect([op |-> "DataToAccel", addr |-> FFT_CONFIG,
                        size |-> Len(config), tid |-> 2], State(m, f1, <<>>))
          = State(m, Reset(f1, 2, config), <<>>)
    BY ONLY <1>0, <1>1, ConfigureEffect
  <2> QED BY ONLY <1>3, <2>1 DEF s2, s3, f2, FFTProgramIs
<1>11. Ordered!Effect(c[8], s3) = s4
  <2>1. Ordered!Effect([op |-> "DataToAccel", addr |-> FFT_CONFIG,
                        size |-> Len(config), tid |-> 3], State(m, f2, <<>>))
          = State(m, Reset(f2, 3, config), <<>>)
    BY ONLY <1>0, <1>1, ConfigureEffect
  <2> QED BY ONLY <1>3, <2>1 DEF s3, s4, f3, FFTProgramIs
<1>12. Ordered!Effect(c[11], s4) = s5
  <2>1. Ordered!Effect([op |-> "DataToAccel", addr |-> FFT_CONFIG,
                        size |-> Len(config), tid |-> 4], State(m, f3, <<>>))
          = State(m, Reset(f3, 4, config), <<>>)
    BY ONLY <1>0, <1>1, ConfigureEffect
  <2> QED BY ONLY <1>3, <2>1 DEF s4, s5, f4, FFTProgramIs
<1> HIDE DEF f1, f2, f3, f4
<1>13. Ordered!Effect(c[14], s5) = s6
  BY <1>0, <1>1, <1>3, StreamEffect DEF FFTProgramIs
<1>14. Ordered!Effect(c[15], s6) = s7
  BY <1>0, <1>3, StoreEffect DEF FFTProgramIs
<1>15. \A i \in {3, 4, 6, 7, 9, 10, 12, 13, 16, 17} :
         \A u : Ordered!Effect(c[i], u) = u
  <2>1. \A i \in {3, 4, 6, 7, 9, 10, 12, 13, 16, 17} :
          c[i].op \notin {"Load", "DataToAccel", "DataFromAccel"}
    BY ONLY <1>4 DEF FFTOps
  <2> QED BY ONLY <2>1, OtherEffect
<1>16. \A k \in 0..(Len(input) - 1) :
         ProcessedOnce(p[FFT_RESULT + k], input[k + 1], setup)
  <2>1. \A t \in DOMAIN setup : f4[t] = setup[t]
    BY <1>2 DEF FFTSetup
  <2> HIDE DEF setup
  <2> QED BY <1>0, <2>1, PlacedOnce
<1> HIDE DEF s0, s1, s2, s3, s4, s5, s6, s7, p, setup
<1>17. /\ v[1] = s0 /\ v[2] = s1 /\ v[3] = s2 /\ v[4] = s2 /\ v[5] = s2 /\ v[6] = s3
       /\ v[7] = s3 /\ v[8] = s3 /\ v[9] = s4 /\ v[10] = s4 /\ v[11] = s4 /\ v[12] = s5
       /\ v[13] = s5 /\ v[14] = s5 /\ v[15] = s6 /\ v[16] = s7 /\ v[17] = s7 /\ v[18] = s7
  OBVIOUS
<1> HIDE DEF v
<1>18. \A q \in 1..17 :
         /\ c[q].op = "DataFromAccel" => q = 15
         /\ c[q].op = "Collect" => q = 17
         /\ c[q].op = "Report" => q \in {4, 7, 10, 13}
  BY ONLY <1>4 DEF FFTOps
<1>19. v[1] = [Ordered!Fresh EXCEPT !.conf = f0] /\ Follows(c, v)
  <2>1. v[1] = [Ordered!Fresh EXCEPT !.conf = f0]
    BY <1>5, <1>17
  <2>2. ASSUME NEW q \in 1..17 PROVE v[q + 1] = Ordered!Effect(c[q], v[q])
    <3>1. q \in {3, 4, 6, 7, 9, 10, 12, 13, 16, 17} => v[q + 1] = v[q]
      BY ONLY <1>17
    <3>2. CASE q \in {3, 4, 6, 7, 9, 10, 12, 13, 16, 17}
      BY ONLY <1>15, <3>1, <3>2
    <3>3. CASE q = 1
      <4>1. Ordered!Effect(c[1], s0) = s1
        BY ONLY <1>3, <1>8 DEF FFTProgramIs
      <4>2. v[1 + 1] = s1 /\ v[1] = s0
        BY ONLY <1>17
      <4> QED BY ONLY <3>3, <4>1, <4>2
    <3>4. CASE q \in {2, 5, 8, 11, 14, 15}
      BY ONLY <1>9, <1>10, <1>11, <1>12, <1>13, <1>14, <1>17, <3>4
    <3>5. \/ q \in {3, 4, 6, 7, 9, 10, 12, 13, 16, 17}
          \/ q \in {1, 2, 5, 8, 11, 14, 15}
      BY ONLY <2>2
    <3> QED BY <3>2, <3>3, <3>4, <3>5
  <2> QED BY <1>3, <2>1, <2>2 DEF Follows, FFTProgramIs
<1>20. /\ \A q \in 1..17 :
            Outstanding(c, q, "MM2S") <=> q \in {3, 6, 9, 12, 15, 16, 17}
       /\ \A q \in 1..17 : Outstanding(c, q, "S2MM") <=> q = 16
  <2>1. \A q \in 1..17 :
          Outstanding(c, q, "MM2S") <=> q \in {3, 6, 9, 12, 15, 16, 17}
    BY ONLY <1>4 DEF Outstanding, StartOp, AwaitOp, FFTOps
  <2>2. \A q \in 1..17 : Outstanding(c, q, "S2MM") <=> q = 16
    BY ONLY <1>4 DEF Outstanding, StartOp, AwaitOp, FFTOps
  <2> QED BY ONLY <2>1, <2>2
<1>21. \A q : StartedBy(c, 15, "MM2S", q) => q = 14
  BY ONLY <1>4 DEF StartedBy, StartOp, AwaitOp, FFTOps
<1>22. Disciplined(c, v)
  <2>1. Handshaked(c)
    BY FFTHandshaked DEF c
  <2>2. ASSUME NEW q \in 1..17, c[q].op \in {"Load", "DataToAccel"}, NEW ch \in Channel
        PROVE  ~Outstanding(c, q, ch)
    BY ONLY <1>4, <1>20, <2>2 DEF FFTOps, Channel
  <2>3. ASSUME NEW q \in 1..17, c[q].op = "DataFromAccel"
        PROVE  /\ InBuffer(c[q]) /\ c[q].size <= Len(v[q].stream)
               /\ Outstanding(c, q, "MM2S") =>
                    \A i : StartedBy(c, q, "MM2S", i) => Behind(c[i], c[q], v[q])
    <3>1. q = 15
      BY <1>18, <2>3
    <3>2. Len(v[15].stream) = Len(input)
      BY <1>6, <1>7, <1>17
    <3>3. InBuffer(c[15]) /\ c[15].size <= Len(v[15].stream)
      BY ONLY <1>0, <1>3, <3>2 DEF InBuffer, FFTProgramIs
    <3>4. Behind(c[14], c[15], v[15])
      BY ONLY <1>0, <1>3, <3>2 DEF Behind, Apart, FFTProgramIs
    <3> QED BY <1>21, <3>1, <3>3, <3>4
  <2>4. ASSUME NEW q \in 1..17, c[q].op = "Collect"
        PROVE  InBuffer(c[q]) /\ ~Outstanding(c, q, "S2MM")
    <3>1. q = 17
      BY <1>18, <2>4
    <3>2. InBuffer(c[17])
      BY ONLY <1>0, <1>3 DEF InBuffer, FFTProgramIs
    <3>3. ~Outstanding(c, 17, "S2MM")
      BY ONLY <1>20
    <3> QED BY ONLY <3>1, <3>2, <3>3
  <2> QED BY <1>3, <2>1, <2>2, <2>3, <2>4 DEF Disciplined, FFTProgramIs
<1>23. Correct(c, v)
  <2>1. ASSUME NEW q \in 1..17, c[q].op = "Collect", NEW k \in 0..(c[q].size - 1)
        PROVE  ProcessedOnce(v[q].mem[c[q].addr + k], c[q].want[k + 1], c[q].conf)
    <3>1. q = 17
      BY <1>18, <2>1
    <3>2. v[17].mem = p
      BY <1>7, <1>17
    <3>3. /\ c[17].size = Len(input) /\ c[17].addr = FFT_RESULT
          /\ c[17].want = input /\ c[17].conf = setup
      BY ONLY <1>3 DEF setup, FFTProgramIs
    <3>4. k \in 0..(Len(input) - 1)
      BY ONLY <2>1, <3>1, <3>3
    <3>5. ProcessedOnce(p[FFT_RESULT + k], input[k + 1], setup)
      BY ONLY <1>16, <3>4
    <3> QED BY ONLY <3>1, <3>2, <3>3, <3>5
  <2>2. ASSUME NEW q \in 1..17, c[q].op = "Report"
        PROVE  ~Outstanding(c, q, "MM2S") /\ v[q].conf[c[q].tid] = c[q].want
    <3>1. q \in {4, 7, 10, 13}
      BY <1>18, <2>2
    <3>2. ~Outstanding(c, q, "MM2S")
      BY ONLY <1>20, <3>1
    <3>3. /\ c[4].tid = 1 /\ c[7].tid = 2 /\ c[10].tid = 3 /\ c[13].tid = 4
          /\ c[4].want = config /\ c[7].want = config
          /\ c[10].want = config /\ c[13].want = config
      BY ONLY <1>3 DEF FFTProgramIs
    <3>4. /\ v[4].conf = f1 /\ v[7].conf = f2 /\ v[10].conf = f3 /\ v[13].conf = f4
      BY ONLY <1>7, <1>17
    <3>5. v[q].conf[c[q].tid] = c[q].want
      BY ONLY <1>2, <3>1, <3>3, <3>4
    <3> QED BY ONLY <3>2, <3>5
  <2> QED BY <1>3, <2>1, <2>2 DEF Correct, Exact, FFTProgramIs
<1> QED BY <1>19, <1>22, <1>23 DEF SoundAfter, c

------------------------------------------------------------------------------
(***************************************************************************)
(* Both applications.                                                      *)
(***************************************************************************)

\* A session of one of the two applications with files that fit.
FitsItsSlot(calls) ==
  \/ \E reload, config, input :
       /\ FIRLayout(reload, config, input)
       /\ calls = FIR!main(reload, config, input)
  \/ \E config, input :
       FFTLayout(config, input) /\ calls = FFT!main(config, input)

LEMMA FitsIsSoundAfter ==
  ASSUME NEW calls, FitsItsSlot(calls), NEW f \in Conf
  PROVE  SoundAfter(calls, f)
BY FIRSound, FFTSound DEF FitsItsSlot

LEMMA FitsIsSound ==
  ASSUME NEW calls, FitsItsSlot(calls)
  PROVE  Sound(calls)
<1>1. [t \in Tids |-> <<>>] \in Conf
  BY DEF Conf
<1> QED BY <1>1, FitsIsSoundAfter DEF Sound

\* In the first session on a freshly loaded slot, at any relative speed of
\* CPU, movers and accelerator and for any input size, the fir and fft
\* applications write the file their input asks for: each beat is the
\* matching input beat, processed once, under this run's configuration.
THEOREM FirstSessionResultsExact ==
  ASSUME \A w \in Workloads : FitsItsSlot(w.calls)
  PROVE  ObservedSpec => []ResultsExact
BY FitsIsSound, SoundResultsExact

\* Whenever they tell the user that a packet was configured, it was.
THEOREM FirstSessionReportsTrue ==
  ASSUME \A w \in Workloads : FitsItsSlot(w.calls)
  PROVE  ObservedSpec => []ReportsTrue
BY FitsIsSound, SoundReportsTrue

\* The results of the fir application never overtake the input they replace.
THEOREM FirstSessionWritesBehindReads ==
  ASSUME \A w \in Workloads : FitsItsSlot(w.calls)
  PROVE  ObservedSpec => []WriteBehindRead
<1>1. \A w \in Workloads : \E v : Views(w.calls, v) /\ Disciplined(w.calls, v)
  BY FitsIsSound, SoundViews
<1> QED BY <1>1, WritesBehindReads

\* Their calls take effect one after the other, in program order.
THEOREM FirstSessionActsInOrder ==
  ASSUME \A w \in Workloads : FitsItsSlot(w.calls)
  PROVE  ObservedSpec =>
           Ordered!OrderedInit /\ [][Ordered!Perform]_(Ordered!orderedVars)
<1>1. \A w \in Workloads : \E v : Views(w.calls, v) /\ Disciplined(w.calls, v)
  BY FitsIsSound, SoundViews
<1> QED BY <1>1, CallsActInOrder

------------------------------------------------------------------------------
(***************************************************************************)
(* Programs put together.                                                  *)
(***************************************************************************)

\* A sequence of calls that fetches nothing at its end.
Block(c) ==
  /\ \E S : c \in Seq(S)
  /\ ~Outstanding(c, Len(c) + 1, "S2MM")

\* Its calls, done one after the other from s, lead to t.
Leads(c, s, t) ==
  \E v : /\ v[1] = s /\ v[Len(c) + 1] = t
         /\ Follows(c, v) /\ InTime(c, v) /\ Exact(c, v)

\* What may follow calls that leave a packet half sent.
LoadsNothing(c) == \A p \in 1..Len(c) : c[p].op # "Load"

\* The last transfer it starts to the module is a payload.
EndsPayload(c) ==
  \E q : StartedBy(c, Len(c) + 1, "MM2S", q) /\ c[q].tid \notin Tids

\* Where the calls of two blocks are in both together.
Joined(c, c1, c2) ==
  /\ Len(c1) \in Nat /\ Len(c2) \in Nat /\ Len(c) = Len(c1) + Len(c2)
  /\ \A p \in 1..Len(c1) : c[p] = c1[p]
  /\ \A k \in 1..Len(c2) : c[Len(c1) + k] = c2[k]

LEMMA JoinedConcat ==
  ASSUME NEW c1, NEW c2, Block(c1), Block(c2)
  PROVE  Joined(c1 \o c2, c1, c2) /\ \E S : c1 \o c2 \in Seq(S)
<1>1. PICK S1 : c1 \in Seq(S1)
  BY DEF Block
<1>2. PICK S2 : c2 \in Seq(S2)
  BY DEF Block
<1>3. c1 \in Seq(S1 \cup S2) /\ c2 \in Seq(S1 \cup S2)
  BY <1>1, <1>2
<1>4. /\ c1 \o c2 \in Seq(S1 \cup S2)
      /\ Len(c1 \o c2) = Len(c1) + Len(c2)
      /\ Len(c1) \in Nat /\ Len(c2) \in Nat
      /\ \A i \in 1..Len(c1) + Len(c2) : (c1 \o c2)[i] =
           IF i <= Len(c1) THEN c1[i] ELSE c2[i - Len(c1)]
  BY <1>3, ConcatProperties
<1> DEFINE c == c1 \o c2
<1> HIDE DEF c
<1>5. \A i \in 1..Len(c1) + Len(c2) : c[i] = IF i <= Len(c1) THEN c1[i] ELSE c2[i - Len(c1)]
  BY ONLY <1>4 DEF c
<1>6. \A p \in 1..Len(c1) : c[p] = c1[p]
  BY ONLY <1>4, <1>5
<1>7. ASSUME NEW k \in 1..Len(c2) PROVE c[Len(c1) + k] = c2[k]
  <2>1. /\ Len(c1) + k \in 1..Len(c1) + Len(c2) /\ ~(Len(c1) + k <= Len(c1))
        /\ (Len(c1) + k) - Len(c1) = k
    BY ONLY <1>4
  <2> QED BY ONLY <1>5, <2>1
<1> QED BY <1>4, <1>6, <1>7 DEF Joined, c

\* What is outstanding in two blocks is so in one of them.
LEMMA JoinedOutstanding ==
  ASSUME NEW c, NEW c1, NEW c2, Joined(c, c1, c2),
         ~Outstanding(c1, Len(c1) + 1, "S2MM")
  PROVE  /\ \A p \in 1..(Len(c1) + 1) :
              Outstanding(c, p, "S2MM") <=> Outstanding(c1, p, "S2MM")
         /\ \A k \in 1..(Len(c2) + 1) :
              Outstanding(c, Len(c1) + k, "S2MM") <=> Outstanding(c2, k, "S2MM")
<1> DEFINE n == Len(c1)
<1>0. n \in Nat /\ Len(c2) \in Nat
  BY DEF Joined
<1>1. ASSUME NEW p \in 1..(n + 1)
      PROVE  Outstanding(c, p, "S2MM") <=> Outstanding(c1, p, "S2MM")
  <2>1. \A i \in 1..(p - 1) : c[i] = c1[i]
    BY <1>0 DEF Joined
  <2> QED BY <1>0, <2>1 DEF Outstanding
<1>2. ASSUME NEW k \in 1..(Len(c2) + 1)
      PROVE  Outstanding(c, n + k, "S2MM") <=> Outstanding(c2, k, "S2MM")
  <2>1. \A i \in 1..(k - 1) : c[n + i] = c2[i]
    BY <1>0 DEF Joined
  <2>2. ASSUME Outstanding(c2, k, "S2MM")
        PROVE  Outstanding(c, n + k, "S2MM")
    <3>1. PICK i \in 1..(k - 1) : /\ c2[i].op = StartOp("S2MM")
                                  /\ \A j \in (i + 1)..(k - 1) : c2[j].op # AwaitOp("S2MM")
      BY <2>2 DEF Outstanding
    <3>2. n + i \in 1..((n + k) - 1) /\ c[n + i].op = StartOp("S2MM")
      BY <1>0, <2>1, <3>1
    <3>3. ASSUME NEW j \in ((n + i) + 1)..((n + k) - 1) PROVE c[j].op # AwaitOp("S2MM")
      <4>1. j - n \in (i + 1)..(k - 1) /\ j - n \in 1..(k - 1) /\ n + (j - n) = j
        BY <1>0
      <4> QED BY <2>1, <3>1, <4>1
    <3> QED BY <3>2, <3>3 DEF Outstanding
  <2>3. ASSUME Outstanding(c, n + k, "S2MM")
        PROVE  Outstanding(c2, k, "S2MM")
    <3>1. PICK i \in 1..((n + k) - 1) :
            /\ c[i].op = StartOp("S2MM")
            /\ \A j \in (i + 1)..((n + k) - 1) : c[j].op # AwaitOp("S2MM")
      BY <2>3 DEF Outstanding
    <3>2. CASE i <= n
      <4>1. i \in 1..n /\ i \in 1..((n + 1) - 1) /\ c1[i].op = StartOp("S2MM")
        BY <1>0, <3>1, <3>2 DEF Joined
      <4>2. PICK j \in (i + 1)..((n + 1) - 1) : c1[j].op = AwaitOp("S2MM")
        BY <4>1 DEF Outstanding
      <4>3. j \in 1..n /\ j \in (i + 1)..((n + k) - 1)
        BY <1>0, <3>2
      <4> QED BY <3>1, <4>2, <4>3 DEF Joined
    <3>3. CASE i > n
      <4>1. i - n \in 1..(k - 1) /\ n + (i - n) = i
        BY <1>0, <3>3
      <4>2. c2[i - n].op = StartOp("S2MM")
        BY <2>1, <3>1, <4>1
      <4>3. ASSUME NEW j \in ((i - n) + 1)..(k - 1) PROVE c2[j].op # AwaitOp("S2MM")
        <5>1. n + j \in (i + 1)..((n + k) - 1) /\ j \in 1..(k - 1)
          BY <1>0, <3>3
        <5> QED BY <2>1, <3>1, <5>1
      <4> QED BY <4>1, <4>2, <4>3 DEF Outstanding
    <3> QED BY <1>0, <3>2, <3>3
  <2> QED BY <2>2, <2>3
<1> QED BY <1>1, <1>2

\* So is the call that started what MM2S does.
LEMMA JoinedStartedBy ==
  ASSUME NEW c, NEW c1, NEW c2, Joined(c, c1, c2)
  PROVE  /\ \A p \in 1..(Len(c1) + 1) : \A q :
              StartedBy(c1, p, "MM2S", q) => StartedBy(c, p, "MM2S", q) /\ c[q] = c1[q]
         /\ \A k \in 1..(Len(c2) + 1) : \A q :
              StartedBy(c2, k, "MM2S", q) =>
                /\ StartedBy(c, Len(c1) + k, "MM2S", Len(c1) + q)
                /\ c[Len(c1) + q] = c2[q]
         /\ \A k \in 1..(Len(c2) + 1) : \A q :
              /\ StartedBy(c1, Len(c1) + 1, "MM2S", q)
              /\ \A j \in 1..(k - 1) : c2[j].op # "DataToAccel"
              => StartedBy(c, Len(c1) + k, "MM2S", q) /\ c[q] = c1[q]
<1> DEFINE n == Len(c1)
<1>0. n \in Nat /\ Len(c2) \in Nat
  BY DEF Joined
<1>1. ASSUME NEW p \in 1..(n + 1), NEW q, StartedBy(c1, p, "MM2S", q)
      PROVE  StartedBy(c, p, "MM2S", q) /\ c[q] = c1[q]
  <2>1. \A i \in 1..(p - 1) : c[i] = c1[i]
    BY <1>0 DEF Joined
  <2> QED BY <1>0, <1>1, <2>1 DEF StartedBy
<1>2. ASSUME NEW k \in 1..(Len(c2) + 1), NEW q, StartedBy(c2, k, "MM2S", q)
      PROVE  StartedBy(c, n + k, "MM2S", n + q) /\ c[n + q] = c2[q]
  <2>1. \A i \in 1..(k - 1) : c[n + i] = c2[i]
    BY <1>0 DEF Joined
  <2>2. /\ q \in 1..(k - 1) /\ c2[q].op = StartOp("MM2S")
        /\ \A j \in (q + 1)..(k - 1) : c2[j].op # StartOp("MM2S")
    BY <1>2 DEF StartedBy
  <2>3. n + q \in 1..((n + k) - 1) /\ c[n + q] = c2[q]
    BY <1>0, <2>1, <2>2
  <2>4. ASSUME NEW j \in ((n + q) + 1)..((n + k) - 1) PROVE c[j].op # StartOp("MM2S")
    <3>1. j - n \in (q + 1)..(k - 1) /\ j - n \in 1..(k - 1) /\ n + (j - n) = j
      BY <1>0, <2>2
    <3> QED BY <2>1, <2>2, <3>1
  <2> QED BY <2>2, <2>3, <2>4 DEF StartedBy
<1>3. ASSUME NEW k \in 1..(Len(c2) + 1), NEW q, StartedBy(c1, n + 1, "MM2S", q),
             \A j \in 1..(k - 1) : c2[j].op # "DataToAccel"
      PROVE  StartedBy(c, n + k, "MM2S", q) /\ c[q] = c1[q]
  <2>1. /\ q \in 1..n /\ c1[q].op = StartOp("MM2S")
        /\ \A j \in (q + 1)..n : c1[j].op # StartOp("MM2S")
    BY <1>0, <1>3 DEF StartedBy
  <2>2. ASSUME NEW j \in (q + 1)..((n + k) - 1) PROVE c[j].op # StartOp("MM2S")
    <3>1. CASE j <= n
      BY <1>0, <2>1, <3>1 DEF Joined
    <3>2. CASE j > n
      <4>1. j - n \in 1..(k - 1) /\ j - n \in 1..Len(c2) /\ n + (j - n) = j
        BY <1>0, <2>1, <3>2
      <4> QED BY <1>3, <4>1 DEF Joined, StartOp
    <3> QED BY <1>0, <2>1, <3>1, <3>2
  <2>3. q \in 1..((n + k) - 1) /\ c[q] = c1[q]
    BY <1>0, <2>1 DEF Joined
  <2> QED BY <2>1, <2>2, <2>3 DEF StartedBy
<1> QED BY <1>1, <1>2, <1>3

\* The latest transfer before a call is a payload in both together if it is in
\* each.
LEMMA JoinedPayload ==
  ASSUME NEW c, NEW c1, NEW c2, Joined(c, c1, c2)
  PROVE  /\ \A p \in 1..(Len(c1) + 1) : PayloadLast(c1, p) => PayloadLast(c, p)
         /\ PayloadLast(c1, Len(c1) + 1) =>
              \A k \in 1..(Len(c2) + 1) :
                PayloadLast(c2, k) => PayloadLast(c, Len(c1) + k)
<1> DEFINE n == Len(c1)
<1>0. n \in Nat /\ Len(c2) \in Nat
  BY DEF Joined
<1>1. ASSUME NEW p \in 1..(n + 1), PayloadLast(c1, p)
      PROVE  PayloadLast(c, p)
  <2>1. \A j \in 1..(p - 1) : c[j] = c1[j]
    BY <1>0 DEF Joined
  <2>2. CASE \A j \in 1..(p - 1) : c1[j].op # "DataToAccel"
    BY <2>1, <2>2 DEF PayloadLast
  <2>3. CASE \E q : StartedBy(c1, p, "MM2S", q) /\ c1[q].tid \notin Tids
    <3>1. PICK q : StartedBy(c, p, "MM2S", q) /\ c[q].tid \notin Tids
      BY <2>3, JoinedStartedBy
    <3> QED BY <3>1 DEF PayloadLast
  <2> QED BY <1>1, <2>2, <2>3 DEF PayloadLast
<1>2. ASSUME PayloadLast(c1, n + 1), NEW k \in 1..(Len(c2) + 1), PayloadLast(c2, k)
      PROVE  PayloadLast(c, n + k)
  <2>1. CASE \E q : StartedBy(c2, k, "MM2S", q) /\ c2[q].tid \notin Tids
    <3>1. PICK q : StartedBy(c2, k, "MM2S", q) /\ c2[q].tid \notin Tids
      BY <2>1
    <3>2. StartedBy(c, n + k, "MM2S", n + q) /\ c[n + q] = c2[q]
      BY <3>1, JoinedStartedBy
    <3> QED BY <3>1, <3>2 DEF PayloadLast
  <2>2. CASE /\ \A j \in 1..(k - 1) : c2[j].op # "DataToAccel"
             /\ \E q : StartedBy(c1, n + 1, "MM2S", q) /\ c1[q].tid \notin Tids
    <3>1. PICK q : StartedBy(c1, n + 1, "MM2S", q) /\ c1[q].tid \notin Tids
      BY <2>2
    <3>2. StartedBy(c, n + k, "MM2S", q) /\ c[q] = c1[q]
      BY <2>2, <3>1, JoinedStartedBy
    <3> QED BY <3>1, <3>2 DEF PayloadLast
  <2>3. CASE /\ \A j \in 1..(k - 1) : c2[j].op # "DataToAccel"
             /\ \A j \in 1..((n + 1) - 1) : c1[j].op # "DataToAccel"
    <3>1. ASSUME NEW j \in 1..((n + k) - 1) PROVE c[j].op # "DataToAccel"
      <4>1. CASE j <= n
        BY <1>0, <2>3, <4>1 DEF Joined
      <4>2. CASE j > n
        <5>1. j - n \in 1..(k - 1) /\ j - n \in 1..Len(c2) /\ n + (j - n) = j
          BY <1>0, <4>2
        <5> QED BY <2>3, <5>1 DEF Joined
      <4> QED BY <1>0, <4>1, <4>2
    <3> QED BY <3>1 DEF PayloadLast
  <2> QED BY <1>2, <2>1, <2>2, <2>3 DEF PayloadLast
<1> QED BY <1>1, <1>2

\* Two blocks that follow each other are one.  Only a payload may be left to
\* send if the second one loads the buffer.
LEMMA LeadsConcat ==
  ASSUME NEW c1, NEW c2, NEW s, NEW t, NEW u, Block(c1), Block(c2),
         Leads(c1, s, t), Leads(c2, t, u),
         PayloadLast(c1, Len(c1) + 1) \/ LoadsNothing(c2)
  PROVE  Block(c1 \o c2) /\ Leads(c1 \o c2, s, u)
<1> DEFINE c == c1 \o c2
           n == Len(c1)
           m == Len(c2)
<1>1. Joined(c, c1, c2) /\ \E S : c \in Seq(S)
  BY JoinedConcat
<1> HIDE DEF c
<1>2. /\ n \in Nat /\ m \in Nat /\ Len(c) = n + m
      /\ \A p \in 1..n : c[p] = c1[p]
      /\ \A k \in 1..m : c[n + k] = c2[k]
  BY <1>1 DEF Joined
<1>3. /\ \A p \in 1..(n + 1) :
           Outstanding(c, p, "S2MM") <=> Outstanding(c1, p, "S2MM")
      /\ \A k \in 1..(m + 1) :
           Outstanding(c, n + k, "S2MM") <=> Outstanding(c2, k, "S2MM")
  BY <1>1, JoinedOutstanding DEF Block
<1>4. PICK v1 : /\ v1[1] = s /\ v1[n + 1] = t
                /\ Follows(c1, v1) /\ InTime(c1, v1) /\ Exact(c1, v1)
  BY DEF Leads
<1>5. PICK v2 : /\ v2[1] = t /\ v2[m + 1] = u
                /\ Follows(c2, v2) /\ InTime(c2, v2) /\ Exact(c2, v2)
  BY DEF Leads
<1> DEFINE v == [p \in 1..(n + m + 1) |-> IF p <= n + 1 THEN v1[p] ELSE v2[p - n]]
<1>6. /\ \A p \in 1..(n + 1) : v[p] = v1[p]
      /\ \A k \in 1..(m + 1) : v[n + k] = v2[k]
  <2>1. ASSUME NEW p \in 1..(n + 1) PROVE v[p] = v1[p]
    BY ONLY <1>2, <2>1
  <2>2. ASSUME NEW k \in 1..(m + 1) PROVE v[n + k] = v2[k]
    <3>1. CASE k = 1
      BY ONLY <1>2, <1>4, <1>5, <3>1
    <3>2. CASE k # 1
      <4>1. n + k \in 1..(n + m + 1) /\ ~(n + k <= n + 1) /\ (n + k) - n = k
        BY ONLY <1>2, <3>2
      <4> QED BY ONLY <4>1
    <3> QED BY ONLY <3>1, <3>2
  <2> QED BY <2>1, <2>2
<1> HIDE DEF v
<1>7. ASSUME NEW p \in 1..Len(c)
      PROVE  p \in 1..n \/ (p - n \in 1..m /\ p = n + (p - n))
  BY ONLY <1>2
<1>8. Block(c)
  <2>1. 1 <= m + 1 /\ n + (m + 1) = Len(c) + 1 /\ m + 1 \in 1..(m + 1)
    BY ONLY <1>2
  <2>2. ~Outstanding(c2, m + 1, "S2MM")
    BY DEF Block
  <2> QED BY <1>1, <1>3, <2>1, <2>2 DEF Block
<1>9. v[1] = s /\ v[Len(c) + 1] = u
  <2>1. 1 \in 1..(n + 1) /\ m + 1 \in 1..(m + 1) /\ Len(c) + 1 = n + (m + 1)
    BY ONLY <1>2
  <2> QED BY ONLY <1>4, <1>5, <1>6, <2>1
<1>10. Follows(c, v)
  <2> SUFFICES ASSUME NEW p \in 1..Len(c) PROVE v[p + 1] = Ordered!Effect(c[p], v[p])
    BY DEF Follows
  <2>1. CASE p \in 1..n
    <3>1. p \in 1..(n + 1) /\ p + 1 \in 1..(n + 1)
      BY ONLY <1>2, <2>1
    <3>2. v1[p + 1] = Ordered!Effect(c1[p], v1[p])
      BY <1>4, <2>1 DEF Follows
    <3> QED BY ONLY <1>2, <1>6, <2>1, <3>1, <3>2
  <2>2. ASSUME NEW k \in 1..m, p = n + k PROVE v[p + 1] = Ordered!Effect(c[p], v[p])
    <3>1. k \in 1..(m + 1) /\ k + 1 \in 1..(m + 1) /\ p + 1 = n + (k + 1)
      BY ONLY <1>2, <2>2
    <3>2. v2[k + 1] = Ordered!Effect(c2[k], v2[k])
      BY <1>5 DEF Follows
    <3> QED BY ONLY <1>2, <1>6, <2>2, <3>1, <3>2
  <2> QED BY <1>7, <2>1, <2>2
<1>11. Exact(c, v)
  <2> SUFFICES ASSUME NEW p \in 1..Len(c), c[p].op = "Collect",
                      NEW k \in 0..(c[p].size - 1)
               PROVE  ProcessedOnce(v[p].mem[c[p].addr + k], c[p].want[k + 1], c[p].conf)
    BY DEF Exact
  <2>1. CASE p \in 1..n
    <3>1. c[p] = c1[p] /\ v[p] = v1[p]
      BY <1>2, <1>6, <2>1
    <3> QED BY <1>4, <2>1, <3>1 DEF Exact
  <2>2. ASSUME NEW j \in 1..m, p = n + j
        PROVE  ProcessedOnce(v[p].mem[c[p].addr + k], c[p].want[k + 1], c[p].conf)
    <3>1. c[p] = c2[j] /\ v[p] = v2[j]
      BY <1>2, <1>6, <2>2
    <3> QED BY <1>5, <3>1 DEF Exact
  <2> QED BY <1>7, <2>1, <2>2
<1>12. HandshakedOn(c, "S2MM")
  <2> SUFFICES ASSUME NEW p \in 1..Len(c)
               PROVE  /\ c[p].op = StartOp("S2MM") => ~Outstanding(c, p, "S2MM")
                      /\ c[p].op = AwaitOp("S2MM") => Outstanding(c, p, "S2MM")
    BY DEF HandshakedOn
  <2>1. CASE p \in 1..n
    <3>1. c[p] = c1[p] /\ p \in 1..(n + 1)
      BY <1>2, <2>1
    <3> QED BY <1>3, <1>4, <2>1, <3>1 DEF InTime, HandshakedOn
  <2>2. ASSUME NEW k \in 1..m, p = n + k
        PROVE  /\ c[p].op = StartOp("S2MM") => ~Outstanding(c, p, "S2MM")
               /\ c[p].op = AwaitOp("S2MM") => Outstanding(c, p, "S2MM")
    <3>1. c[p] = c2[k] /\ k \in 1..(m + 1)
      BY <1>2, <2>2
    <3> QED BY <1>3, <1>5, <2>2, <3>1 DEF InTime, HandshakedOn
  <2> QED BY <1>7, <2>1, <2>2
<1> DEFINE CallInTime(d, w, p) ==
             /\ d[p].op \in {"Load", "DataToAccel", "Collect"} =>
                  ~Outstanding(d, p, "S2MM")
             /\ d[p].op = "Load" => w[p].stream = <<>> /\ PayloadLast(d, p)
             /\ d[p].op = "DataFromAccel" =>
                  /\ InBuffer(d[p])
                  /\ d[p].size <= Len(w[p].stream)
                  /\ \E q : StartedBy(d, p, "MM2S", q) /\ Behind(d[q], d[p], w[p])
             /\ d[p].op = "Collect" => InBuffer(d[p])
<1>13. ASSUME NEW p \in 1..n PROVE CallInTime(c, v, p)
  <2>1. CallInTime(c1, v1, p)
    BY <1>4 DEF InTime
  <2>2. c[p] = c1[p] /\ v[p] = v1[p] /\ p \in 1..(n + 1)
    BY <1>2, <1>6
  <2>3. Outstanding(c, p, "S2MM") <=> Outstanding(c1, p, "S2MM")
    BY <1>3, <2>2
  <2>4. PayloadLast(c1, p) => PayloadLast(c, p)
    BY <1>1, <2>2, JoinedPayload
  <2>5. \A q : StartedBy(c1, p, "MM2S", q) => StartedBy(c, p, "MM2S", q) /\ c[q] = c1[q]
    BY <1>1, <2>2, JoinedStartedBy
  <2> QED BY ONLY <2>1, <2>2, <2>3, <2>4, <2>5
<1>14. ASSUME NEW k \in 1..m PROVE CallInTime(c, v, n + k)
  <2>1. CallInTime(c2, v2, k)
    BY <1>5 DEF InTime
  <2>2. c[n + k] = c2[k] /\ v[n + k] = v2[k] /\ k \in 1..(m + 1)
    BY <1>2, <1>6
  <2>3. Outstanding(c, n + k, "S2MM") <=> Outstanding(c2, k, "S2MM")
    BY <1>3, <2>2
  <2>4. c2[k].op = "Load" => PayloadLast(c1, n + 1)
    BY DEF LoadsNothing
  <2>5. c2[k].op = "Load" => (PayloadLast(c2, k) => PayloadLast(c, n + k))
    BY <1>1, <2>2, <2>4, JoinedPayload
  <2>6. \A q : StartedBy(c2, k, "MM2S", q) =>
                 StartedBy(c, n + k, "MM2S", n + q) /\ c[n + q] = c2[q]
    BY <1>1, <2>2, JoinedStartedBy
  <2>7. ASSUME c[n + k].op = "DataFromAccel"
        PROVE  \E q : StartedBy(c, n + k, "MM2S", q) /\ Behind(c[q], c[n + k], v[n + k])
    <3>1. PICK q : StartedBy(c2, k, "MM2S", q) /\ Behind(c2[q], c2[k], v2[k])
      BY ONLY <2>1, <2>2, <2>7
    <3>2. StartedBy(c, n + k, "MM2S", n + q) /\ Behind(c[n + q], c[n + k], v[n + k])
      BY ONLY <2>2, <2>6, <3>1
    <3> QED BY ONLY <3>2
  <2> QED BY ONLY <2>1, <2>2, <2>3, <2>5, <2>7
<1>15. InTime(c, v)
  <2>1. ASSUME NEW p \in 1..Len(c) PROVE CallInTime(c, v, p)
    BY <1>7, <1>13, <1>14
  <2> QED BY <1>12, <2>1 DEF InTime
<1>16. Leads(c, s, u)
  BY <1>9, <1>10, <1>11, <1>15 DEF Leads
<1> QED BY <1>8, <1>16 DEF c

\* Where the last transfer of two blocks comes from.
LEMMA EndsConcat ==
  ASSUME NEW c1, NEW c2, Block(c1), Block(c2)
  PROVE  /\ EndsPayload(c2) => EndsPayload(c1 \o c2)
         /\ EndsPayload(c1) /\ (\A k \in 1..Len(c2) : c2[k].op # "DataToAccel")
              => EndsPayload(c1 \o c2)
<1> DEFINE c == c1 \o c2
           n == Len(c1)
           m == Len(c2)
<1>1. Joined(c, c1, c2)
  BY JoinedConcat
<1> HIDE DEF c
<1>2. /\ n \in Nat /\ m \in Nat /\ Len(c) + 1 = n + (m + 1)
      /\ m + 1 \in 1..(m + 1) /\ (m + 1) - 1 = m
  BY <1>1 DEF Joined
<1>3. ASSUME EndsPayload(c2) PROVE EndsPayload(c)
  <2>1. PICK q : StartedBy(c2, m + 1, "MM2S", q) /\ c2[q].tid \notin Tids
    BY <1>3 DEF EndsPayload
  <2>2. StartedBy(c, n + (m + 1), "MM2S", n + q) /\ c[n + q] = c2[q]
    BY <1>1, <1>2, <2>1, JoinedStartedBy
  <2> QED BY <1>2, <2>1, <2>2 DEF EndsPayload
<1>4. ASSUME EndsPayload(c1), \A k \in 1..m : c2[k].op # "DataToAccel"
      PROVE  EndsPayload(c)
  <2>1. PICK q : StartedBy(c1, n + 1, "MM2S", q) /\ c1[q].tid \notin Tids
    BY <1>4 DEF EndsPayload
  <2>2. StartedBy(c, n + (m + 1), "MM2S", q) /\ c[q] = c1[q]
    BY <1>1, <1>2, <1>4, <2>1, JoinedStartedBy
  <2> QED BY <1>2, <2>1, <2>2 DEF EndsPayload
<1> QED BY <1>3, <1>4 DEF c

\* One call that does not use S2MM.
LEMMA LeadsOne ==
  ASSUME NEW e, NEW s, e.op \notin {"DataFromAccel", "DataFromAccelDone"},
         e.op = "Load" => s.stream = <<>>,
         e.op = "Collect" =>
           /\ InBuffer(e)
           /\ \A k \in 0..(e.size - 1) :
                ProcessedOnce(s.mem[e.addr + k], e.want[k + 1], e.conf)
  PROVE  Block(<<e>>) /\ Leads(<<e>>, s, Ordered!Effect(e, s))
<1> DEFINE c == <<e>>
           v == <<s, Ordered!Effect(e, s)>>
<1>1. c \in Seq({e}) /\ Len(c) = 1 /\ c[1] = e
  OBVIOUS
<1>2. v[1] = s /\ v[2] = Ordered!Effect(e, s)
  OBVIOUS
<1> HIDE DEF c, v
<1>3. \A p \in 1..2 : ~Outstanding(c, p, "S2MM")
  BY <1>1 DEF Outstanding, StartOp
<1>4. Block(c)
  BY <1>1, <1>3 DEF Block
<1>5. \A p \in 1..Len(c) : p = 1
  BY <1>1
<1>6. Follows(c, v)
  BY <1>1, <1>2, <1>5 DEF Follows
<1>7. Exact(c, v)
  BY <1>1, <1>2, <1>5 DEF Exact
<1>8. HandshakedOn(c, "S2MM")
  BY <1>1, <1>5 DEF HandshakedOn, StartOp, AwaitOp
<1>9. PayloadLast(c, 1)
  BY DEF PayloadLast
<1>10. InTime(c, v)
  BY <1>1, <1>2, <1>3, <1>5, <1>8, <1>9 DEF InTime
<1>11. Leads(c, s, Ordered!Effect(e, s))
  BY <1>1, <1>2, <1>6, <1>7, <1>10 DEF Leads
<1> QED BY <1>4, <1>11 DEF c

\* A call that starts a payload leaves it to be sent.
LEMMA EndsOne ==
  ASSUME NEW e, e.op = "DataToAccel", e.tid \notin Tids
  PROVE  EndsPayload(<<e>>)
<1>1. Len(<<e>>) = 1 /\ <<e>>[1] = e
  OBVIOUS
<1> DEFINE c == <<e>>
<1> HIDE DEF c
<1>2. StartedBy(c, 2, "MM2S", 1)
  BY <1>1 DEF StartedBy, StartOp, c
<1> QED BY <1>1, <1>2 DEF EndsPayload, c

LEMMA EndsIsLast ==
  ASSUME NEW c, EndsPayload(c)
  PROVE  PayloadLast(c, Len(c) + 1)
BY DEF EndsPayload, PayloadLast

\* A run: the payload is started, awaited or not, its results are fetched and
\* awaited.  They may replace the payload.
RunCalls(c, from, to, input) ==
  /\ \E S : c \in Seq(S)
  /\ Len(c) \in {3, 4}
  /\ c[1] = [op |-> "DataToAccel", addr |-> from, size |-> Len(input), tid |-> 0]
  /\ Len(c) = 4 => c[2].op = "DataToAccelDone"
  /\ c[Len(c) - 1] = [op |-> "DataFromAccel", addr |-> to, size |-> Len(input)]
  /\ c[Len(c)].op = "DataFromAccelDone"

LEMMA LeadsRun ==
  ASSUME NEW c, NEW from \in Nat, NEW to \in Nat, NEW input \in Seq(Data),
         RunCalls(c, from, to, input), NEW m, NEW f, Holds(m, from, input),
         to..(to + Len(input) - 1) \subseteq Addr,
         Apart(from, Len(input), to, Len(input)) \/ to <= from
  PROVE  /\ Block(c) /\ EndsPayload(c) /\ LoadsNothing(c)
         /\ Leads(c, State(m, f, <<>>),
                  State(Placed(m, to, Once(input, f)), f, <<>>))
<1> DEFINE n == Len(c)
           z == Len(input)
           s0 == State(m, f, <<>>)
           s1 == State(m, f, Once(input, f))
           s2 == State(Placed(m, to, Once(input, f)), f, <<>>)
           v == [p \in 1..(n + 1) |-> IF p = 1 THEN s0 ELSE IF p <= n - 1 THEN s1 ELSE s2]
<1>1. /\ Ordered!Effect(c[1], s0) = s1
      /\ Ordered!Effect(c[n - 1], s1) = s2
  BY StreamEffect, StoreEffect DEF RunCalls
<1>2. \A p \in 1..n : p \notin {1, n - 1} => \A s : Ordered!Effect(c[p], s) = s
  <2>1. \A p \in 1..n : p \notin {1, n - 1} =>
          c[p].op \in {"DataToAccelDone", "DataFromAccelDone"}
    <3>1. /\ n \in {3, 4} /\ c[n].op = "DataFromAccelDone"
          /\ n = 4 => c[2].op = "DataToAccelDone"
      BY DEF RunCalls
    <3> HIDE DEF n
    <3>2. ASSUME NEW p \in 1..n, p \notin {1, n - 1}
          PROVE  p = n \/ (n = 4 /\ p = 2)
      BY ONLY <3>1, <3>2
    <3> QED BY ONLY <3>1, <3>2
  <2> QED BY <2>1, OtherEffect
<1>3. Len(s1.stream) = z /\ z \in Nat
  BY DEF State, Once
<1>4. 0 \notin Tids
  BY HardwareAssumption
<1> HIDE DEF s0, s1, s2
<1>5. /\ n \in {3, 4} /\ c[1].op = "DataToAccel" /\ c[1].tid = 0 /\ c[1].addr = from
      /\ c[1].size = z /\ c[n - 1].op = "DataFromAccel" /\ c[n - 1].size = z
      /\ c[n - 1].addr = to /\ c[n].op = "DataFromAccelDone"
      /\ n = 4 => c[2].op = "DataToAccelDone"
  BY DEF RunCalls
<1>6. /\ \A p \in 1..(n + 1) : p = 1 \/ p \in 2..(n - 1) \/ p \in {n, n + 1}
      /\ v[1] = s0 /\ \A p \in 2..(n - 1) : v[p] = s1
      /\ v[n] = s2 /\ v[n + 1] = s2
  BY <1>5
<1> HIDE DEF v, n, z
<1>7. \A p \in 1..n : \/ p = 1 /\ c[p].op = "DataToAccel"
                      \/ p = 2 /\ n = 4 /\ c[p].op = "DataToAccelDone"
                      \/ p = n - 1 /\ c[p].op = "DataFromAccel"
                      \/ p = n /\ c[p].op = "DataFromAccelDone"
  BY ONLY <1>5
<1>8. \A p \in 1..(n + 1) : Outstanding(c, p, "S2MM") <=> p = n
  <2>1. Outstanding(c, n, "S2MM")
    <3>1. n - 1 \in 1..(n - 1) /\ \A j \in ((n - 1) + 1)..(n - 1) : FALSE
      BY ONLY <1>5
    <3> QED BY <1>5, <3>1 DEF Outstanding, StartOp
  <2>2. ASSUME NEW p \in 1..(n - 1), Outstanding(c, p, "S2MM") PROVE FALSE
    <3>1. PICK i \in 1..(p - 1) : c[i].op = "DataFromAccel"
      BY <2>2 DEF Outstanding, StartOp
    <3>2. i \in 1..n /\ i # n - 1
      BY ONLY <1>5, <2>2, <3>1
    <3> QED BY ONLY <1>7, <3>1, <3>2
  <2>3. ASSUME Outstanding(c, n + 1, "S2MM") PROVE FALSE
    <3>1. PICK i \in 1..n : /\ c[i].op = "DataFromAccel"
                            /\ \A j \in (i + 1)..n : c[j].op # "DataFromAccelDone"
      BY <1>5, <2>3 DEF Outstanding, StartOp, AwaitOp
    <3>2. i = n - 1 /\ n \in (i + 1)..n
      BY ONLY <1>5, <1>7, <3>1
    <3> QED BY ONLY <1>5, <3>1, <3>2
  <2>4. \A p \in 1..(n + 1) : p = n \/ p = n + 1 \/ p \in 1..(n - 1)
    BY ONLY <1>5
  <2>5. n + 1 # n /\ \A p \in 1..(n - 1) : p # n
    BY ONLY <1>5
  <2> QED BY ONLY <2>1, <2>2, <2>3, <2>4, <2>5
<1>9. \A p \in {n - 1, n + 1} : StartedBy(c, p, "MM2S", 1)
  <2> SUFFICES ASSUME NEW p \in {n - 1, n + 1} PROVE StartedBy(c, p, "MM2S", 1)
    OBVIOUS
  <2>1. /\ 1 \in 1..(p - 1)
        /\ \A j \in (1 + 1)..(p - 1) : j \in 1..n /\ j # 1
    BY ONLY <1>5
  <2>2. \A j \in (1 + 1)..(p - 1) : c[j].op # "DataToAccel"
    BY ONLY <1>7, <2>1
  <2> QED BY ONLY <1>5, <2>1, <2>2 DEF StartedBy, StartOp
<1>10. Block(c)
  <2>1. n + 1 \in 1..(n + 1) /\ n + 1 # n
    BY ONLY <1>5
  <2>2. ~Outstanding(c, n + 1, "S2MM")
    BY ONLY <1>8, <2>1
  <2> QED BY <2>2 DEF Block, RunCalls, n
<1>11. EndsPayload(c)
  BY <1>4, <1>5, <1>9 DEF EndsPayload, n
<1>12. LoadsNothing(c)
  BY <1>7 DEF LoadsNothing, n
<1>13. Follows(c, v)
  <2> SUFFICES ASSUME NEW p \in 1..n PROVE v[p + 1] = Ordered!Effect(c[p], v[p])
    BY DEF Follows, n
  <2>1. CASE p = 1
    <3>1. p + 1 \in 2..(n - 1)
      BY ONLY <1>5, <2>1
    <3> QED BY ONLY <1>1, <1>6, <2>1, <3>1
  <2>2. CASE p = n - 1
    <3>1. p \in 2..(n - 1) /\ p + 1 = n
      BY ONLY <1>5, <2>2
    <3> QED BY ONLY <1>1, <1>6, <2>2, <3>1
  <2>3. CASE p \notin {1, n - 1}
    <3>1. \/ p = n
          \/ p \in 2..(n - 1) /\ p + 1 \in 2..(n - 1)
      BY ONLY <1>5, <2>3
    <3>2. v[p + 1] = v[p]
      BY ONLY <1>6, <3>1
    <3> QED BY ONLY <1>2, <2>3, <3>2
  <2> QED BY <2>1, <2>2, <2>3
<1>14. Exact(c, v)
  BY <1>7 DEF Exact, n
<1>15. HandshakedOn(c, "S2MM")
  <2>1. n - 1 # n /\ \A p \in 1..n : p \in 1..(n + 1)
    BY ONLY <1>5
  <2> QED BY <1>7, <1>8, <2>1 DEF HandshakedOn, StartOp, AwaitOp, n
<1>16. InTime(c, v)
  <2> SUFFICES ASSUME NEW p \in 1..n
               PROVE  /\ c[p].op \in {"Load", "DataToAccel", "Collect"} =>
                           ~Outstanding(c, p, "S2MM")
                      /\ c[p].op = "Load" => v[p].stream = <<>> /\ PayloadLast(c, p)
                      /\ c[p].op = "DataFromAccel" =>
                           /\ InBuffer(c[p])
                           /\ c[p].size <= Len(v[p].stream)
                           /\ \E q : StartedBy(c, p, "MM2S", q) /\ Behind(c[q], c[p], v[p])
                      /\ c[p].op = "Collect" => InBuffer(c[p])
    BY <1>15 DEF InTime, n
  <2>1. CASE p = 1
    <3>1. 1 # n /\ 1 \in 1..(n + 1)
      BY ONLY <1>5
    <3> QED BY ONLY <1>5, <1>8, <2>1, <3>1
  <2>2. CASE p = n - 1
    <3>1. v[p] = s1
      BY ONLY <1>5, <1>6, <2>2
    <3>2. InBuffer(c[p]) /\ c[p].size <= Len(v[p].stream)
      <4>1. c[p].addr = to /\ c[p].size = z /\ to..(to + z - 1) \subseteq Addr
        BY <1>5, <2>2 DEF z
      <4>2. z <= Len(s1.stream)
        BY ONLY <1>3
      <4> QED BY ONLY <3>1, <4>1, <4>2 DEF InBuffer
    <3>3. Behind(c[1], c[p], v[p])
      <4>1. to <= from => to + Len(v[p].stream) <= from + z
        BY ONLY <1>3, <3>1, from \in Nat, to \in Nat
      <4> QED BY <1>4, <1>5, <2>2, <4>1 DEF Behind, z
    <3> QED BY ONLY <1>5, <1>9, <2>2, <3>2, <3>3
  <2>3. CASE p \notin {1, n - 1}
    <3>1. c[p].op \in {"DataToAccelDone", "DataFromAccelDone"}
      BY ONLY <1>7, <2>3
    <3> QED BY ONLY <3>1
  <2> QED BY <2>1, <2>2, <2>3
<1>17. v[1] = s0 /\ v[Len(c) + 1] = s2
  BY <1>6 DEF n
<1>18. Leads(c, s0, s2)
  BY <1>13, <1>14, <1>16, <1>17 DEF Leads
<1> QED BY <1>10, <1>11, <1>12, <1>18 DEF s0, s2

------------------------------------------------------------------------------
\* m with data copied from offset on.
Written(m, offset, data) ==
  Placed(m, offset, [k \in 1..Len(data) |-> Ordered!Raw(data[k])])

\* loadData changes the buffer where the data go.
LEMMA CopyEffect ==
  ASSUME NEW m, NEW f, NEW offset \in Nat, NEW data \in Seq(Data)
  PROVE  Ordered!Effect([op |-> "Load",
                         image |-> [a \in offset..(offset + Len(data) - 1)
                                      |-> data[a - offset + 1]],
                         fresh |-> FALSE], State(m, f, <<>>))
           = State(Written(m, offset, data), f, <<>>)
<1> DEFINE r == [k \in 1..Len(data) |-> Ordered!Raw(data[k])]
           image == [a \in offset..(offset + Len(data) - 1) |-> data[a - offset + 1]]
           c == [op |-> "Load", image |-> image, fresh |-> FALSE]
<1>1. Len(r) = Len(data)
  BY DEF Ordered!Raw
<1>2. \A a \in offset..(offset + Len(data) - 1) :
        a - offset + 1 \in 1..Len(data) /\ r[a - offset + 1] = Ordered!Raw(image[a])
  OBVIOUS
<1>3. Ordered!Loaded(c, State(m, f, <<>>))
        = State([a \in Addr |-> IF a \in DOMAIN image THEN Ordered!Raw(image[a])
                                ELSE m[a]], f, <<>>)
  BY DEF Ordered!Loaded, State
<1>4. Ordered!Effect(c, State(m, f, <<>>)) = Ordered!Loaded(c, State(m, f, <<>>))
  BY DEF Ordered!Effect
<1>5. [a \in Addr |-> IF a \in DOMAIN image THEN Ordered!Raw(image[a]) ELSE m[a]]
        = Placed(m, offset, r)
  <2>1. DOMAIN image = offset..(offset + Len(r) - 1)
    BY <1>1
  <2> HIDE DEF r, image
  <2> QED BY <1>1, <1>2, <2>1 DEF Placed
<1> QED BY <1>3, <1>4, <1>5 DEF Written

\* The data are in the buffer then, and what is elsewhere still is.
LEMMA WrittenHolds ==
  ASSUME NEW m, NEW offset \in Nat, NEW data \in Seq(Data),
         offset..(offset + Len(data) - 1) \subseteq Addr
  PROVE  /\ Holds(Written(m, offset, data), offset, data)
         /\ \A o \in Nat : \A d \in Seq(Data) :
              /\ Holds(m, o, d)
              /\ Apart(o, Len(d), offset, Len(data))
              => Holds(Written(m, offset, data), o, d)
<1> DEFINE r == [k \in 1..Len(data) |-> Ordered!Raw(data[k])]
<1>1. Len(r) = Len(data) /\ \A k \in 1..Len(data) : r[k] = Ordered!Raw(data[k])
  BY DEF Ordered!Raw
<1> HIDE DEF r
<1>2. Holds(Placed(m, offset, r), offset, data)
  <2> SUFFICES ASSUME NEW a \in offset..(offset + Len(data) - 1)
               PROVE  a \in Addr /\ Placed(m, offset, r)[a] = Ordered!Raw(data[a - offset + 1])
    BY DEF Holds
  <2>1. a - offset + 1 \in 1..Len(data)
    OBVIOUS
  <2> QED BY <1>1, <2>1 DEF Placed
<1>3. ASSUME NEW o \in Nat, NEW d \in Seq(Data), Holds(m, o, d),
             Apart(o, Len(d), offset, Len(data))
      PROVE  Holds(Placed(m, offset, r), o, d)
  <2> SUFFICES ASSUME NEW a \in o..(o + Len(d) - 1)
               PROVE  a \in Addr /\ Placed(m, offset, r)[a] = Ordered!Raw(d[a - o + 1])
    BY DEF Holds
  <2>1. a \notin offset..(offset + Len(data) - 1)
    BY <1>3 DEF Apart
  <2>2. a \in Addr /\ m[a] = Ordered!Raw(d[a - o + 1])
    BY <1>3 DEF Holds
  <2> QED BY <1>1, <2>1, <2>2 DEF Placed
<1> QED BY <1>2, <1>3 DEF Written, r

StartsNothing(c) == \A p \in 1..Len(c) : c[p].op # "DataToAccel"

\* A part of a program that takes the slot from s to t.
Part(c, s, t) == Block(c) /\ Leads(c, s, t)

LEMMA NothingConcat ==
  ASSUME NEW c1, NEW c2, Block(c1), Block(c2)
  PROVE  /\ StartsNothing(c1) /\ StartsNothing(c2) => StartsNothing(c1 \o c2)
         /\ LoadsNothing(c1) /\ LoadsNothing(c2) => LoadsNothing(c1 \o c2)
<1> DEFINE c == c1 \o c2
           n == Len(c1)
<1>1. Joined(c, c1, c2)
  BY JoinedConcat
<1> HIDE DEF c
<1>2. ASSUME NEW p \in 1..Len(c)
      PROVE  \/ p \in 1..n /\ c[p] = c1[p]
             \/ p - n \in 1..Len(c2) /\ c[p] = c2[p - n]
  <2>1. /\ n \in Nat /\ Len(c2) \in Nat /\ Len(c) = n + Len(c2)
        /\ \A q \in 1..n : c[q] = c1[q]
        /\ \A k \in 1..Len(c2) : c[n + k] = c2[k]
    BY <1>1 DEF Joined
  <2>2. CASE p <= n
    BY ONLY <2>1, <2>2
  <2>3. CASE p > n
    <3>1. p - n \in 1..Len(c2) /\ n + (p - n) = p
      BY ONLY <2>1, <2>3
    <3> QED BY ONLY <2>1, <3>1
  <2> QED BY <2>1, <2>2, <2>3
<1> QED BY <1>2 DEF StartsNothing, LoadsNothing, c

\* Parts in a row.
LEMMA PartThen ==
  ASSUME NEW c1, NEW c2, NEW s, NEW t, NEW u, Part(c1, s, t), Part(c2, t, u),
         StartsNothing(c1) \/ EndsPayload(c1) \/ LoadsNothing(c2)
  PROVE  /\ Part(c1 \o c2, s, u)
         /\ StartsNothing(c1) /\ StartsNothing(c2) => StartsNothing(c1 \o c2)
         /\ LoadsNothing(c1) /\ LoadsNothing(c2) => LoadsNothing(c1 \o c2)
         /\ EndsPayload(c2) => EndsPayload(c1 \o c2)
         /\ EndsPayload(c1) /\ StartsNothing(c2) => EndsPayload(c1 \o c2)
<1>1. Block(c1) /\ Block(c2)
  BY DEF Part
<1>2. PayloadLast(c1, Len(c1) + 1) \/ LoadsNothing(c2)
  <2>1. CASE StartsNothing(c1)
    <3>1. Len(c1) \in Nat
      BY <1>1 DEF Block
    <3>2. (Len(c1) + 1) - 1 = Len(c1)
      BY <3>1
    <3> QED BY <2>1, <3>2 DEF StartsNothing, PayloadLast
  <2> QED BY <2>1, EndsIsLast
<1>3. Part(c1 \o c2, s, u)
  BY <1>1, <1>2, LeadsConcat DEF Part
<1>4. /\ StartsNothing(c1) /\ StartsNothing(c2) => StartsNothing(c1 \o c2)
      /\ LoadsNothing(c1) /\ LoadsNothing(c2) => LoadsNothing(c1 \o c2)
  BY <1>1, NothingConcat
<1>5. /\ EndsPayload(c2) => EndsPayload(c1 \o c2)
      /\ EndsPayload(c1) /\ StartsNothing(c2) => EndsPayload(c1 \o c2)
  BY <1>1, EndsConcat DEF StartsNothing
<1> QED BY <1>3, <1>4, <1>5

LEMMA OneCall ==
  ASSUME NEW e
  PROVE  /\ e.op # "DataToAccel" => StartsNothing(<<e>>)
         /\ e.op # "Load" => LoadsNothing(<<e>>)
BY DEF StartsNothing, LoadsNothing

\* A wait for MM2S, a start of the module, a message.
LEMMA QuietPart ==
  ASSUME NEW e, NEW s, e.op \in {"StartAccel", "DataToAccelDone", "Report"}
  PROVE  Part(<<e>>, s, s) /\ StartsNothing(<<e>>) /\ LoadsNothing(<<e>>)
<1>1. Ordered!Effect(e, s) = s
  BY OtherEffect
<1> QED BY <1>1, OneCall, LeadsOne DEF Part

\* A copy of data to the buffer that the kernel keeps.
LEMMA CopyPart ==
  ASSUME NEW m, NEW f, NEW offset \in Nat, NEW data \in Seq(Data)
  PROVE  LET c == <<[op |-> "Load",
                     image |-> [a \in offset..(offset + Len(data) - 1)
                                  |-> data[a - offset + 1]],
                     fresh |-> FALSE]>>
         IN  /\ Part(c, State(m, f, <<>>), State(Written(m, offset, data), f, <<>>))
             /\ StartsNothing(c)
<1> DEFINE e == [op |-> "Load",
                 image |-> [a \in offset..(offset + Len(data) - 1)
                              |-> data[a - offset + 1]],
                 fresh |-> FALSE]
           s == State(m, f, <<>>)
<1>1. Ordered!Effect(e, s) = State(Written(m, offset, data), f, <<>>)
  BY CopyEffect
<1>2. e.op = "Load" /\ s.stream = <<>>
  BY DEF State
<1> HIDE DEF e, s
<1>3. Part(<<e>>, s, Ordered!Effect(e, s)) /\ StartsNothing(<<e>>)
  BY <1>2, LeadsOne, OneCall DEF Part
<1> QED BY <1>1, <1>3 DEF e, s

\* The allocation of a buffer, with an image copied to it.
LEMMA FreshPart ==
  ASSUME NEW m, NEW f, NEW image
  PROVE  LET c == <<[op |-> "Load", image |-> image, fresh |-> TRUE]>>
         IN  /\ Part(c, State(m, f, <<>>),
                     State([a \in Addr |-> IF a \in DOMAIN image
                                             THEN Ordered!Raw(image[a])
                                             ELSE Ordered!Raw(Junk)], f, <<>>))
             /\ StartsNothing(c)
<1> DEFINE e == [op |-> "Load", image |-> image, fresh |-> TRUE]
           s == State(m, f, <<>>)
           t == State([a \in Addr |-> IF a \in DOMAIN image THEN Ordered!Raw(image[a])
                                      ELSE Ordered!Raw(Junk)], f, <<>>)
<1>1. Ordered!Effect(e, s) = t
  BY LoadEffects
<1>2. e.op = "Load" /\ s.stream = <<>>
  BY DEF State
<1> HIDE DEF e, s, t
<1>3. Part(<<e>>, s, Ordered!Effect(e, s)) /\ StartsNothing(<<e>>)
  BY <1>2, LeadsOne, OneCall DEF Part
<1> QED BY <1>1, <1>3 DEF e, s, t

\* A configuration packet, awaited or not.
LEMMA ConfigPart ==
  ASSUME NEW m, NEW f \in Conf, NEW offset \in Nat, NEW packet \in Seq(Data),
         NEW tid \in Tids, Holds(m, offset, packet)
  PROVE  LET c == <<[op |-> "DataToAccel", addr |-> offset, size |-> Len(packet),
                     tid |-> tid]>>
         IN  /\ Part(c, State(m, f, <<>>), State(m, Reset(f, tid, packet), <<>>))
             /\ LoadsNothing(c)
             /\ Reset(f, tid, packet) \in Conf
             /\ Reset(f, tid, packet)[tid] = packet
             /\ \A t \in Tids \ {tid} : Reset(f, tid, packet)[t] = f[t]
<1> DEFINE e == [op |-> "DataToAccel", addr |-> offset, size |-> Len(packet),
                 tid |-> tid]
           s == State(m, f, <<>>)
<1>1. Ordered!Effect(e, s) = State(m, Reset(f, tid, packet), <<>>)
  BY ConfigureEffect
<1>2. e.op = "DataToAccel"
  OBVIOUS
<1> HIDE DEF e, s
<1>3. Part(<<e>>, s, Ordered!Effect(e, s)) /\ LoadsNothing(<<e>>)
  BY <1>2, LeadsOne, OneCall DEF Part
<1>4. /\ Reset(f, tid, packet) \in Conf
      /\ Reset(f, tid, packet)[tid] = packet
      /\ \A t \in Tids \ {tid} : Reset(f, tid, packet)[t] = f[t]
  BY DEF Reset, Conf
<1> QED BY <1>1, <1>3, <1>4 DEF e, s

\* The results of a run configured by f, read from the buffer.
LEMMA CollectPart ==
  ASSUME NEW m, NEW f, NEW setup, NEW offset \in Nat, NEW input \in Seq(Data),
         offset..(offset + Len(input) - 1) \subseteq Addr,
         \A t \in DOMAIN setup : f[t] = setup[t]
  PROVE  LET c == <<[op |-> "Collect", addr |-> offset, size |-> Len(input),
                     want |-> input, conf |-> setup]>>
             s == State(Placed(m, offset, Once(input, f)), f, <<>>)
         IN  Part(c, s, s) /\ StartsNothing(c) /\ LoadsNothing(c)
<1> DEFINE e == [op |-> "Collect", addr |-> offset, size |-> Len(input),
                 want |-> input, conf |-> setup]
           q == Placed(m, offset, Once(input, f))
           s == State(q, f, <<>>)
<1>1. \A k \in 0..(Len(input) - 1) : ProcessedOnce(q[offset + k], input[k + 1], setup)
  BY PlacedOnce
<1> HIDE DEF q
<1>2. /\ e.op = "Collect" /\ e.addr = offset /\ e.size = Len(input)
      /\ e.want = input /\ e.conf = setup /\ s.mem = q
  BY DEF State
<1> HIDE DEF e, s
<1>3. Ordered!Effect(e, s) = s
  BY <1>2, OtherEffect
<1>4. InBuffer(e)
  BY <1>2 DEF InBuffer
<1>5. Part(<<e>>, s, Ordered!Effect(e, s)) /\ StartsNothing(<<e>>) /\ LoadsNothing(<<e>>)
  <2>1. \A k \in 0..(e.size - 1) :
          ProcessedOnce(s.mem[e.addr + k], e.want[k + 1], e.conf)
    BY <1>1, <1>2
  <2> QED BY <1>2, <1>4, <2>1, LeadsOne, OneCall DEF Part
<1> QED BY <1>3, <1>5 DEF e, s, q

\* The results overwrite only their own region.
LEMMA PlacedHolds ==
  ASSUME NEW m, NEW f, NEW offset \in Nat, NEW input \in Seq(Data),
         NEW o \in Nat, NEW d \in Seq(Data), Holds(m, o, d),
         Apart(o, Len(d), offset, Len(input))
  PROVE  Holds(Placed(m, offset, Once(input, f)), o, d)
<1>1. Len(Once(input, f)) = Len(input)
  BY DEF Once
<1> SUFFICES ASSUME NEW a \in o..(o + Len(d) - 1)
             PROVE  /\ a \in Addr
                    /\ Placed(m, offset, Once(input, f))[a] = Ordered!Raw(d[a - o + 1])
  BY DEF Holds
<1>2. a \notin offset..(offset + Len(input) - 1)
  BY DEF Apart
<1>3. a \in Addr /\ m[a] = Ordered!Raw(d[a - o + 1])
  BY DEF Holds
<1> QED BY <1>1, <1>2, <1>3 DEF Placed

\* A run, its results read afterwards.
LEMMA RunPart ==
  ASSUME NEW c, NEW from \in Nat, NEW to \in Nat, NEW input \in Seq(Data),
         RunCalls(c, from, to, input), NEW m, NEW f, Holds(m, from, input),
         to..(to + Len(input) - 1) \subseteq Addr,
         Apart(from, Len(input), to, Len(input)) \/ to <= from,
         NEW setup, \A t \in DOMAIN setup : f[t] = setup[t]
  PROVE  LET d == <<[op |-> "Collect", addr |-> to, size |-> Len(input),
                     want |-> input, conf |-> setup]>>
             s == State(m, f, <<>>)
             t == State(Placed(m, to, Once(input, f)), f, <<>>)
         IN  /\ Part(c, s, t) /\ LoadsNothing(c) /\ EndsPayload(c)
             /\ Part(d, t, t) /\ LoadsNothing(d) /\ StartsNothing(d)
<1>1. /\ Part(c, State(m, f, <<>>), State(Placed(m, to, Once(input, f)), f, <<>>))
      /\ LoadsNothing(c) /\ EndsPayload(c)
  BY LeadsRun DEF Part
<1> QED BY <1>1, CollectPart

\* What it takes for a program to be right in time.
LEMMA PartsSound ==
  ASSUME NEW c, EndsPayload(c),
         \A m : \A f \in Conf : \E n : \E g \in Conf :
           Part(c, State(m, f, <<>>), State(n, g, <<>>))
  PROVE  SoundInTime(c)
<1> SUFFICES ASSUME NEW m, NEW f \in Conf
             PROVE  \E v : v[1] = Ready(m, f) /\ RightInTime(c, v)
  BY DEF SoundInTime
<1>0. PICK n : \E g \in Conf : Part(c, State(m, f, <<>>), State(n, g, <<>>))
  OBVIOUS
<1>1. PICK g \in Conf : Part(c, State(m, f, <<>>), State(n, g, <<>>))
  BY <1>0
<1>2. PICK v : /\ v[1] = State(m, f, <<>>) /\ v[Len(c) + 1] = State(n, g, <<>>)
               /\ Follows(c, v) /\ InTime(c, v) /\ Exact(c, v)
  BY <1>1 DEF Part, Leads
<1>3. State(m, f, <<>>) = Ready(m, f) /\ State(n, g, <<>>) = Ready(n, g)
  BY DEF State, Ready
<1>4. EndsWell(c, v)
  BY <1>1, <1>2, <1>3, EndsIsLast DEF EndsWell, Part, Block
<1> QED BY <1>2, <1>3, <1>4 DEF RightInTime

\* Two programs one after the other.
LEMMA SoundConcat ==
  ASSUME NEW c1, NEW c2, \E S : c1 \in Seq(S), \E S : c2 \in Seq(S),
         SoundInTime(c1), SoundInTime(c2)
  PROVE  SoundInTime(c1 \o c2)
<1> SUFFICES ASSUME NEW m, NEW f \in Conf
             PROVE  \E v : v[1] = Ready(m, f) /\ RightInTime(c1 \o c2, v)
  BY DEF SoundInTime
<1>1. PICK v1 : v1[1] = Ready(m, f) /\ RightInTime(c1, v1)
  BY DEF SoundInTime
<1>2. PICK m1 : \E g \in Conf : v1[Len(c1) + 1] = Ready(m1, g)
  BY <1>1 DEF RightInTime, EndsWell
<1>2a. PICK f1 \in Conf : v1[Len(c1) + 1] = Ready(m1, f1)
  BY <1>2
<1>3. PICK v2 : v2[1] = Ready(m1, f1) /\ RightInTime(c2, v2)
  BY DEF SoundInTime
<1>4. PICK m2 : \E g \in Conf : v2[Len(c2) + 1] = Ready(m2, g)
  BY <1>3 DEF RightInTime, EndsWell
<1>4a. PICK f2 \in Conf : v2[Len(c2) + 1] = Ready(m2, f2)
  BY <1>4
<1>5. Block(c1) /\ Block(c2)
  BY <1>1, <1>3 DEF RightInTime, EndsWell, Block
<1>6. PayloadLast(c1, Len(c1) + 1) /\ PayloadLast(c2, Len(c2) + 1)
  BY <1>1, <1>3 DEF RightInTime, EndsWell
<1>7. /\ Leads(c1, Ready(m, f), Ready(m1, f1))
      /\ Leads(c2, Ready(m1, f1), Ready(m2, f2))
  BY <1>1, <1>2a, <1>3, <1>4a DEF Leads, RightInTime
<1> DEFINE c == c1 \o c2
<1>8. Block(c) /\ Leads(c, Ready(m, f), Ready(m2, f2))
  BY <1>5, <1>6, <1>7, LeadsConcat
<1>9. Joined(c, c1, c2)
  BY <1>5, JoinedConcat
<1> HIDE DEF c
<1>10. PayloadLast(c, Len(c) + 1)
  <2>1. /\ Len(c2) + 1 \in 1..(Len(c2) + 1)
        /\ Len(c1) + (Len(c2) + 1) = Len(c) + 1
    BY <1>9 DEF Joined
  <2> QED BY <1>6, <1>9, <2>1, JoinedPayload
<1>11. PICK v : /\ v[1] = Ready(m, f) /\ v[Len(c) + 1] = Ready(m2, f2)
                /\ Follows(c, v) /\ InTime(c, v) /\ Exact(c, v)
  BY <1>8 DEF Leads
<1>12. EndsWell(c, v)
  BY <1>8, <1>10, <1>11 DEF EndsWell, Block
<1>13. RightInTime(c, v)
  BY <1>11, <1>12 DEF RightInTime
<1> QED BY <1>11, <1>13 DEF c

\* data have their place in the buffer.
Fits(offset, data) ==
  /\ offset \in Nat /\ data \in Seq(Data)
  /\ offset..(offset + Len(data) - 1) \subseteq Addr

\* Their places do not overlap.
Disjoint(offset1, data1, offset2, data2) ==
  Apart(offset1, Len(data1), offset2, Len(data2))

\* The calls of the Python methods on offsets that name a beat.
LEMMA NotebookCalls ==
  ASSUME NEW b \in Nat, NEW data \in Seq(Data), NEW tid, NEW setup
  PROVE  /\ Notebook!load(data, 4 * b) =
              <<[op |-> "Load",
                 image |-> [a \in b..(b + Len(data) - 1) |-> data[a - b + 1]],
                 fresh |-> FALSE]>>
         /\ Notebook!config(4 * b, Notebook!Words(data), tid) =
              <<[op |-> "DataToAccel", addr |-> b, size |-> Len(data), tid |-> tid]>>
         /\ Notebook!run(4 * b, Notebook!Words(data), 0, 4 * b) =
              <<[op |-> "DataToAccel", addr |-> b, size |-> Len(data), tid |-> 0],
                [op |-> "DataFromAccel", addr |-> b, size |-> Len(data)],
                [op |-> "DataFromAccelDone"]>>
         /\ Notebook!retrieve(4 * b, data, setup) =
              <<[op |-> "Collect", addr |-> b, size |-> Len(data), want |-> data,
                 conf |-> setup]>>
<1>1. (4 * b) \div 4 = b /\ (4 * (4 * b)) \div 16 = b
  OBVIOUS
<1>2. (4 * Len(data)) \div 4 = Len(data)
  OBVIOUS
<1>3. Notebook!load(data, 4 * b) =
        <<[op |-> "Load",
           image |-> [a \in b..(b + Len(data) - 1) |-> data[a - b + 1]],
           fresh |-> FALSE]>>
  BY <1>1 DEF Notebook!load, Notebook!loadData, Notebook!Copied, Notebook!WordsPerBeat
<1>4. /\ Notebook!BytesToBeat(4 * (4 * b)) = b
      /\ Notebook!Words(data) \div Notebook!WordsPerBeat = Len(data)
  BY <1>1, <1>2 DEF Notebook!BytesToBeat, Notebook!BytesPerBeat, Notebook!Words,
                    Notebook!WordsPerBeat
<1>5. Notebook!config(4 * b, Notebook!Words(data), tid) =
        <<[op |-> "DataToAccel", addr |-> b, size |-> Len(data), tid |-> tid]>>
  BY <1>4 DEF Notebook!config, Notebook!DataToAccel
<1>6. Notebook!run(4 * b, Notebook!Words(data), 0, 4 * b) =
        <<[op |-> "DataToAccel", addr |-> b, size |-> Len(data), tid |-> 0],
          [op |-> "DataFromAccel", addr |-> b, size |-> Len(data)],
          [op |-> "DataFromAccelDone"]>>
  BY <1>4 DEF Notebook!run, Notebook!DataToAccel, Notebook!DataFromAccel,
              Notebook!DataFromAccelDone
<1>7. Notebook!retrieve(4 * b, data, setup) =
        <<[op |-> "Collect", addr |-> b, size |-> Len(data), want |-> data,
           conf |-> setup]>>
  BY <1>1 DEF Notebook!retrieve, Notebook!Collect, Notebook!WordsPerBeat
<1> QED BY <1>3, <1>5, <1>6, <1>7

\* A copy of data that keeps what is elsewhere.
LEMMA LoadCell ==
  ASSUME NEW m, NEW f, NEW b, NEW data, Fits(b, data)
  PROVE  \E n : /\ Part(Notebook!load(data, 4 * b), State(m, f, <<>>), State(n, f, <<>>))
                /\ StartsNothing(Notebook!load(data, 4 * b))
                /\ Holds(n, b, data)
                /\ \A o, d : /\ o \in Nat /\ d \in Seq(Data) /\ Holds(m, o, d)
                             /\ Disjoint(o, d, b, data)
                             => Holds(n, o, d)
<1>0. /\ b \in Nat /\ data \in Seq(Data)
      /\ b..(b + Len(data) - 1) \subseteq Addr
  BY DEF Fits
<1>1. /\ Part(Notebook!load(data, 4 * b), State(m, f, <<>>),
              State(Written(m, b, data), f, <<>>))
      /\ StartsNothing(Notebook!load(data, 4 * b))
  BY <1>0, NotebookCalls, CopyPart
<1>2. /\ Holds(Written(m, b, data), b, data)
      /\ \A o \in Nat : \A d \in Seq(Data) :
           /\ Holds(m, o, d)
           /\ Apart(o, Len(d), b, Len(data))
           => Holds(Written(m, b, data), o, d)
  BY <1>0, WrittenHolds
<1> QED BY <1>1, <1>2 DEF Disjoint

\* g is f with the packet on tid replaced.
Replaced(g, f, tid, packet) ==
  g[tid] = packet /\ \A t \in Tids \ {tid} : g[t] = f[t]

\* A packet, and what the module holds then.
LEMMA ConfigCell ==
  ASSUME NEW m, NEW f \in Conf, NEW b, NEW packet, NEW tid \in Tids,
         Fits(b, packet), Holds(m, b, packet)
  PROVE  LET c == <<[op |-> "DataToAccel", addr |-> b, size |-> Len(packet),
                     tid |-> tid]>>
         IN  \E g \in Conf :
               /\ Part(c, State(m, f, <<>>), State(m, g, <<>>)) /\ LoadsNothing(c)
               /\ Replaced(g, f, tid, packet)
<1> DEFINE c == <<[op |-> "DataToAccel", addr |-> b, size |-> Len(packet),
                   tid |-> tid]>>
           g == Reset(f, tid, packet)
<1>1. b \in Nat /\ packet \in Seq(Data)
  BY DEF Fits
<1>2. Part(c, State(m, f, <<>>), State(m, g, <<>>)) /\ LoadsNothing(c)
  BY <1>1, ConfigPart
<1>3. g \in Conf /\ Replaced(g, f, tid, packet)
  BY <1>1 DEF Reset, Conf, Replaced
<1> HIDE DEF c, g
<1> QED BY <1>2, <1>3 DEF c

\* AcapdAccel.run and retrieve, the results in the place of the input.
LEMMA RunCell ==
  ASSUME NEW m, NEW f \in Conf, NEW b, NEW input, Fits(b, input),
         Holds(m, b, input),
         NEW setup, \A t \in DOMAIN setup : f[t] = setup[t]
  PROVE  LET c == Notebook!run(4 * b, Notebook!Words(input), 0, 4 * b)
             d == Notebook!retrieve(4 * b, input, setup)
         IN  \E n : /\ Part(c, State(m, f, <<>>), State(n, f, <<>>))
                    /\ LoadsNothing(c) /\ EndsPayload(c)
                    /\ Part(d, State(n, f, <<>>), State(n, f, <<>>))
                    /\ LoadsNothing(d) /\ StartsNothing(d)
<1> DEFINE c == Notebook!run(4 * b, Notebook!Words(input), 0, 4 * b)
           d == Notebook!retrieve(4 * b, input, setup)
<1>0. /\ b \in Nat /\ input \in Seq(Data)
      /\ b..(b + Len(input) - 1) \subseteq Addr
  BY DEF Fits
<1>1. RunCalls(c, b, b, input)
  <2>1. c = <<[op |-> "DataToAccel", addr |-> b, size |-> Len(input), tid |-> 0],
              [op |-> "DataFromAccel", addr |-> b, size |-> Len(input)],
              [op |-> "DataFromAccelDone"]>>
    BY <1>0, NotebookCalls
  <2> HIDE DEF c
  <2>2. Len(c) = 3 /\ \E S : c \in Seq(S)
    <3>1. c \in Seq({c[1], c[2], c[3]})
      BY <2>1
    <3> QED BY <2>1, <3>1
  <2> QED BY <2>1, <2>2 DEF RunCalls
<1>2. d = <<[op |-> "Collect", addr |-> b, size |-> Len(input),
             want |-> input, conf |-> setup]>>
  BY <1>0, NotebookCalls
<1> HIDE DEF c, d
<1>3. b <= b
  BY <1>0
<1> DEFINE n == Placed(m, b, Once(input, f))
<1>4. /\ Part(c, State(m, f, <<>>), State(n, f, <<>>))
      /\ LoadsNothing(c) /\ EndsPayload(c)
      /\ Part(d, State(n, f, <<>>), State(n, f, <<>>))
      /\ LoadsNothing(d) /\ StartsNothing(d)
  BY <1>0, <1>1, <1>2, <1>3, RunPart
<1> HIDE DEF n
<1> QED BY <1>4 DEF c, d

\* A program whose parts fit together.
LEMMA PartsProgram ==
  ASSUME NEW c,
         \A m : \A f \in Conf :
           /\ \E n : \E g \in Conf : Part(c, State(m, f, <<>>), State(n, g, <<>>))
           /\ EndsPayload(c)
  PROVE  SoundInTime(c) /\ \E S : c \in Seq(S)
<1>1. PICK f0 : f0 \in Conf
  <2>1. [t \in Tids |-> <<>>] \in Conf
    BY DEF Conf
  <2> QED BY <2>1
<1>2. EndsPayload(c) /\ \E S : c \in Seq(S)
  BY <1>1 DEF Part, Block
<1> QED BY <1>2, PartsSound

------------------------------------------------------------------------------
\* The cells on data that have their places; word offsets name a beat.
AESCellFits(k, i, key, input) ==
  /\ Fits(k, key) /\ Fits(i, input) /\ Disjoint(k, key, i, input)
  /\ 1 \in Tids

LEMMA AESCellSound ==
  ASSUME NEW k, NEW i, NEW key, NEW input, AESCellFits(k, i, key, input)
  PROVE  LET c == Notebook!AESCell(4 * k, 4 * i, key, input)
         IN  SoundInTime(c) /\ \E S : c \in Seq(S)
<1> USE DEF AESCellFits
<1> DEFINE c1 == Notebook!load(key, 4 * k)
           c2 == Notebook!load(input, 4 * i)
           c3 == <<Notebook!StartAccel>>
           c4 == Notebook!config(4 * k, Notebook!Words(key), 1)
           c5 == Notebook!run(4 * i, Notebook!Words(input), 0, 4 * i)
           c6 == Notebook!retrieve(4 * i, input, <<key>>)
           c == ((((c1 \o c2) \o c3) \o c4) \o c5) \o c6
<1>0. k \in Nat /\ key \in Seq(Data) /\ i \in Nat /\ input \in Seq(Data)
  BY DEF Fits
<1>1. Notebook!StartAccel.op = "StartAccel"
  BY DEF Notebook!StartAccel
<1>2. c4 = <<[op |-> "DataToAccel", addr |-> k, size |-> Len(key), tid |-> 1]>>
  BY <1>0, NotebookCalls
<1>3. ASSUME NEW m, NEW f \in Conf
      PROVE  /\ \E n : \E g \in Conf : Part(c, State(m, f, <<>>), State(n, g, <<>>))
             /\ EndsPayload(c)
  <2>1. PICK m1 : /\ Part(c1, State(m, f, <<>>), State(m1, f, <<>>)) /\ StartsNothing(c1)
                  /\ Holds(m1, k, key)
    BY LoadCell
  <2>2. PICK m2 : /\ Part(c2, State(m1, f, <<>>), State(m2, f, <<>>)) /\ StartsNothing(c2)
                  /\ Holds(m2, i, input) /\ Holds(m2, k, key)
    BY <1>0, <2>1, LoadCell
  <2>3. Part(c3, State(m2, f, <<>>), State(m2, f, <<>>)) /\ LoadsNothing(c3)
    BY <1>1, QuietPart
  <2>4. PICK g \in Conf : /\ Part(c4, State(m2, f, <<>>), State(m2, g, <<>>))
                          /\ LoadsNothing(c4) /\ Replaced(g, f, 1, key)
    BY <1>2, <2>2, ConfigCell
  <2>5. \A t \in DOMAIN <<key>> : g[t] = <<key>>[t]
    BY <2>4 DEF Replaced
  <2>6. PICK n : /\ Part(c5, State(m2, g, <<>>), State(n, g, <<>>))
                 /\ LoadsNothing(c5) /\ EndsPayload(c5)
                 /\ Part(c6, State(n, g, <<>>), State(n, g, <<>>))
                 /\ LoadsNothing(c6) /\ StartsNothing(c6)
    BY <2>2, <2>5, RunCell
  <2> HIDE DEF c1, c2, c3, c4, c5, c6
  <2>7. Part(c1 \o c2, State(m, f, <<>>), State(m2, f, <<>>))
    BY <2>1, <2>2, PartThen
  <2>8. Part((c1 \o c2) \o c3, State(m, f, <<>>), State(m2, f, <<>>))
    BY <2>3, <2>7, PartThen
  <2>9. Part(((c1 \o c2) \o c3) \o c4, State(m, f, <<>>), State(m2, g, <<>>))
    BY <2>4, <2>8, PartThen
  <2>10. /\ Part((((c1 \o c2) \o c3) \o c4) \o c5, State(m, f, <<>>), State(n, g, <<>>))
         /\ EndsPayload((((c1 \o c2) \o c3) \o c4) \o c5)
    BY <2>6, <2>9, PartThen
  <2>11. Part(c, State(m, f, <<>>), State(n, g, <<>>)) /\ EndsPayload(c)
    BY <2>6, <2>10, PartThen
  <2> QED BY <2>11
<1>4. c = Notebook!AESCell(4 * k, 4 * i, key, input)
  BY DEF Notebook!AESCell
<1> HIDE DEF c
<1> QED BY <1>3, <1>4, PartsProgram

\* Two calls in a row.
LEMMA PairConcat ==
  ASSUME NEW e1, NEW e2
  PROVE  <<e1>> \o <<e2>> = <<e1, e2>>
<1> DEFINE S == {e1, e2}
<1>1. <<e1>> \in Seq(S) /\ <<e2>> \in Seq(S) /\ <<e1, e2>> \in Seq(S)
  OBVIOUS
<1>2. <<e1>> \o <<e2>> \in Seq(S)
  BY <1>1
<1>3. /\ Len(<<e1>> \o <<e2>>) = 2
      /\ (<<e1>> \o <<e2>>)[1] = e1 /\ (<<e1>> \o <<e2>>)[2] = e2
  BY <1>1
<1>4. /\ Len(<<e1, e2>>) = 2
      /\ <<e1, e2>>[1] = e1 /\ <<e1, e2>>[2] = e2
  OBVIOUS
<1> DEFINE c == <<e1>> \o <<e2>>
           d == <<e1, e2>>
<1>5. /\ c \in Seq(S) /\ d \in Seq(S) /\ Len(c) = 2 /\ Len(d) = 2
      /\ c[1] = d[1] /\ c[2] = d[2]
  BY <1>1, <1>2, <1>3, <1>4
<1> HIDE DEF c, d
<1>6. Len(c) = Len(d) /\ \A i \in 1..Len(c) : c[i] = d[i]
  BY <1>5
<1>7. c = d
  BY <1>5, <1>6, SeqEqual
<1> QED BY <1>7 DEF c, d

\* The eight calls of config_fft, two by two.
Eight(e1, e2, e3, e4, w) == <<e1, w, e2, w, e3, w, e4, w>>
Pairs(e1, e2, e3, e4, w) ==
  ((<<e1, w>> \o <<e2, w>>) \o <<e3, w>>) \o <<e4, w>>

LEMMA EightCalls ==
  ASSUME NEW e1, NEW e2, NEW e3, NEW e4, NEW w
  PROVE  Eight(e1, e2, e3, e4, w) = Pairs(e1, e2, e3, e4, w)
<1> DEFINE S == {e1, e2, e3, e4, w}
           c == ((<<e1, w>> \o <<e2, w>>) \o <<e3, w>>) \o <<e4, w>>
           d == <<e1, w, e2, w, e3, w, e4, w>>
<1>1. /\ Len(c) = 8 /\ c[1] = e1 /\ c[2] = w /\ c[3] = e2 /\ c[4] = w
      /\ c[5] = e3 /\ c[6] = w /\ c[7] = e4 /\ c[8] = w
  OBVIOUS
<1>2. /\ Len(d) = 8 /\ d[1] = e1 /\ d[2] = w /\ d[3] = e2 /\ d[4] = w
      /\ d[5] = e3 /\ d[6] = w /\ d[7] = e4 /\ d[8] = w
  OBVIOUS
<1>3. d \in Seq(S)
  OBVIOUS
<1>4. c \in Seq(S)
  <2>1. /\ <<e1, w>> \in Seq(S) /\ <<e2, w>> \in Seq(S)
        /\ <<e3, w>> \in Seq(S) /\ <<e4, w>> \in Seq(S)
    OBVIOUS
  <2> HIDE DEF S
  <2> QED BY ONLY <2>1, ConcatProperties
<1> HIDE DEF c, d
<1>5. Len(c) = Len(d) /\ \A i \in 1..Len(d) : d[i] = c[i]
  BY ONLY <1>1, <1>2
<1>6. d = c
  BY ONLY <1>3, <1>4, <1>5, SeqEqual
<1> QED BY <1>6 DEF c, d, Eight, Pairs

\* One packet of config_fft: started and awaited.
LEMMA FFTChannel ==
  ASSUME NEW m, NEW f \in Conf, NEW packet, Fits(0, packet), Len(packet) = 1,
         Holds(m, 0, packet), NEW tid \in Tids
  PROVE  LET c == <<Notebook!DataToAccel(0, 1, tid), Notebook!DataToAccelDone>>
         IN  \E g \in Conf :
               /\ Part(c, State(m, f, <<>>), State(m, g, <<>>)) /\ LoadsNothing(c)
               /\ Replaced(g, f, tid, packet)
<1> DEFINE d == <<Notebook!DataToAccel(0, 1, tid)>>
           e == <<Notebook!DataToAccelDone>>
           c == <<Notebook!DataToAccel(0, 1, tid), Notebook!DataToAccelDone>>
<1>1. d = <<[op |-> "DataToAccel", addr |-> 0, size |-> Len(packet), tid |-> tid]>>
  BY DEF Notebook!DataToAccel
<1>2. c = d \o e
  BY PairConcat
<1>3. \A s : Part(e, s, s) /\ LoadsNothing(e)
  BY QuietPart DEF Notebook!DataToAccelDone
<1> HIDE DEF c, d, e
<1>4. PICK g \in Conf :
        /\ Part(d, State(m, f, <<>>), State(m, g, <<>>)) /\ LoadsNothing(d)
        /\ Replaced(g, f, tid, packet)
  BY <1>1, ConfigCell
<1>5. Part(c, State(m, f, <<>>), State(m, g, <<>>)) /\ LoadsNothing(c)
  BY <1>2, <1>3, <1>4, PartThen
<1> QED BY <1>4, <1>5 DEF c

\* config_fft passes its offset on in bytes; the packet, of one beat, is at 0.
FFTCellFits(i, fft_config, input) ==
  /\ Fits(0, fft_config) /\ Fits(i, input) /\ Disjoint(0, fft_config, i, input)
  /\ Len(fft_config) = 1
  /\ 1..4 \subseteq Tids


LEMMA FFTCellSound ==
  ASSUME NEW i, NEW fft_config, NEW input, FFTCellFits(i, fft_config, input)
  PROVE  LET c == Notebook!FFTCell(0, 4 * i, fft_config, input)
         IN  SoundInTime(c) /\ \E S : c \in Seq(S)
<1> USE DEF FFTCellFits
<1> DEFINE W == Notebook!DataToAccelDone
           P(tid) == <<Notebook!DataToAccel(0, 1, tid), W>>
           c1 == Notebook!load(fft_config, 4 * 0)
           c2 == Notebook!load(input, 4 * i)
           c3 == ((P(1) \o P(2)) \o P(3)) \o P(4)
           c4 == Notebook!run(4 * i, Notebook!Words(input), 0, 4 * i)
           setup == [tid \in 1..4 |-> fft_config]
           c5 == Notebook!retrieve(4 * i, input, setup)
           c == (((c1 \o c2) \o c3) \o c4) \o c5
<1>0. /\ i \in Nat /\ fft_config \in Seq(Data) /\ input \in Seq(Data) /\ 0 \in Nat
      /\ 1 \in Tids /\ 2 \in Tids /\ 3 \in Tids /\ 4 \in Tids
  BY DEF Fits
<1>1. c3 = Notebook!config_fft(0, 1)
  <2>1. Notebook!BytesToBeat(0) = 0
    BY DEF Notebook!BytesToBeat, Notebook!BytesPerBeat
  <2>2. Notebook!config_fft(0, 1) =
          << Notebook!DataToAccel(0, 1, 1), W, Notebook!DataToAccel(0, 1, 2), W,
             Notebook!DataToAccel(0, 1, 3), W, Notebook!DataToAccel(0, 1, 4), W >>
    BY ONLY <2>1 DEF Notebook!config_fft
  <2> HIDE DEF W
  <2> DEFINE e1 == Notebook!DataToAccel(0, 1, 1)
             e2 == Notebook!DataToAccel(0, 1, 2)
             e3 == Notebook!DataToAccel(0, 1, 3)
             e4 == Notebook!DataToAccel(0, 1, 4)
  <2>3. /\ Notebook!config_fft(0, 1) = Eight(e1, e2, e3, e4, W)
        /\ c3 = Pairs(e1, e2, e3, e4, W)
    BY <2>2 DEF Eight, Pairs
  <2> HIDE DEF e1, e2, e3, e4, c3
  <2> QED BY ONLY <2>3, EightCalls
<1>2. c = Notebook!FFTCell(0, 4 * i, fft_config, input)
  <2>1. 4 * 0 = 0
    OBVIOUS
  <2> HIDE DEF c3
  <2> QED BY <1>1, <2>1 DEF Notebook!FFTCell
<1>3. ASSUME NEW m, NEW f \in Conf
      PROVE  /\ \E n : \E g \in Conf : Part(c, State(m, f, <<>>), State(n, g, <<>>))
             /\ EndsPayload(c)
  <2>1. PICK m1 : /\ Part(c1, State(m, f, <<>>), State(m1, f, <<>>)) /\ StartsNothing(c1)
                  /\ Holds(m1, 0, fft_config)
    BY LoadCell
  <2>2. PICK m2 : /\ Part(c2, State(m1, f, <<>>), State(m2, f, <<>>)) /\ StartsNothing(c2)
                  /\ Holds(m2, i, input) /\ Holds(m2, 0, fft_config)
    BY <1>0, <2>1, LoadCell
  <2>3. ASSUME NEW g \in Conf, NEW tid \in Tids
        PROVE  \E h \in Conf :
                 /\ Part(P(tid), State(m2, g, <<>>), State(m2, h, <<>>))
                 /\ LoadsNothing(P(tid))
                 /\ Replaced(h, g, tid, fft_config)
    BY <2>2, FFTChannel
  <2> HIDE DEF P, c1, c2, c4, c5
  <2>4. PICK g1 \in Conf : /\ Part(P(1), State(m2, f, <<>>), State(m2, g1, <<>>))
                           /\ LoadsNothing(P(1)) /\ Replaced(g1, f, 1, fft_config)
    BY <1>0, <2>3
  <2>5. PICK g2 \in Conf : /\ Part(P(2), State(m2, g1, <<>>), State(m2, g2, <<>>))
                           /\ LoadsNothing(P(2)) /\ Replaced(g2, g1, 2, fft_config)
    BY <1>0, <2>3
  <2>6. PICK g3 \in Conf : /\ Part(P(3), State(m2, g2, <<>>), State(m2, g3, <<>>))
                           /\ LoadsNothing(P(3)) /\ Replaced(g3, g2, 3, fft_config)
    BY <1>0, <2>3
  <2>7. PICK g \in Conf : /\ Part(P(4), State(m2, g3, <<>>), State(m2, g, <<>>))
                          /\ LoadsNothing(P(4)) /\ Replaced(g, g3, 4, fft_config)
    BY <1>0, <2>3
  <2>8. \A t \in DOMAIN setup : g[t] = setup[t]
    <3>1. /\ g[1] = fft_config /\ g[2] = fft_config
          /\ g[3] = fft_config /\ g[4] = fft_config
      BY <1>0, <2>4, <2>5, <2>6, <2>7 DEF Replaced
    <3>2. DOMAIN setup = 1..4 /\ \A t \in 1..4 : setup[t] = fft_config
      OBVIOUS
    <3>3. \A t \in 1..4 : t = 1 \/ t = 2 \/ t = 3 \/ t = 4
      OBVIOUS
    <3> QED BY ONLY <3>1, <3>2, <3>3
  <2> HIDE DEF setup
  <2>9. PICK n : /\ Part(c4, State(m2, g, <<>>), State(n, g, <<>>))
                 /\ LoadsNothing(c4) /\ EndsPayload(c4)
                 /\ Part(c5, State(n, g, <<>>), State(n, g, <<>>))
                 /\ LoadsNothing(c5) /\ StartsNothing(c5)
    BY <2>2, <2>8, RunCell DEF c4, c5
  <2>10. Part(c3, State(m2, f, <<>>), State(m2, g, <<>>)) /\ LoadsNothing(c3)
    <3>1. /\ Part(P(1) \o P(2), State(m2, f, <<>>), State(m2, g2, <<>>))
          /\ LoadsNothing(P(1) \o P(2))
      BY <2>4, <2>5, PartThen
    <3>2. /\ Part((P(1) \o P(2)) \o P(3), State(m2, f, <<>>), State(m2, g3, <<>>))
          /\ LoadsNothing((P(1) \o P(2)) \o P(3))
      BY <2>6, <3>1, PartThen
    <3> QED BY <2>7, <3>2, PartThen
  <2> HIDE DEF c3
  <2>11. Part(c1 \o c2, State(m, f, <<>>), State(m2, f, <<>>))
    BY <2>1, <2>2, PartThen
  <2>12. Part((c1 \o c2) \o c3, State(m, f, <<>>), State(m2, g, <<>>))
    BY <2>10, <2>11, PartThen
  <2>13. /\ Part(((c1 \o c2) \o c3) \o c4, State(m, f, <<>>), State(n, g, <<>>))
         /\ EndsPayload(((c1 \o c2) \o c3) \o c4)
    BY <2>9, <2>12, PartThen
  <2>14. Part(c, State(m, f, <<>>), State(n, g, <<>>)) /\ EndsPayload(c)
    BY <2>9, <2>13, PartThen
  <2> QED BY <2>14
<1> HIDE DEF c
<1> QED BY <1>2, <1>3, PartsProgram

FIRCellFits(r, k, i, reload, fir_config, input) ==
  /\ Fits(r, reload) /\ Fits(k, fir_config) /\ Fits(i, input)
  /\ Disjoint(r, reload, k, fir_config)
  /\ Disjoint(r, reload, i, input)
  /\ Disjoint(k, fir_config, i, input)
  /\ 1 \in Tids /\ 2 \in Tids

LEMMA FIRCellSound ==
  ASSUME NEW r, NEW k, NEW i, NEW reload, NEW fir_config, NEW input,
         FIRCellFits(r, k, i, reload, fir_config, input)
  PROVE  LET c == Notebook!FIRCell(4 * r, 4 * k, 4 * i, reload, fir_config, input)
         IN  SoundInTime(c) /\ \E S : c \in Seq(S)
<1> USE DEF FIRCellFits
<1> DEFINE c1 == Notebook!load(reload, 4 * r)
           c2 == Notebook!load(fir_config, 4 * k)
           c3 == Notebook!load(input, 4 * i)
           c4 == Notebook!config(4 * r, Notebook!Words(reload), 1)
           c5 == Notebook!config(4 * k, Notebook!Words(fir_config), 2)
           c6 == Notebook!run(4 * i, Notebook!Words(input), 0, 4 * i)
           setup == <<reload, fir_config>>
           c7 == Notebook!retrieve(4 * i, input, setup)
           c == (((((c1 \o c2) \o c3) \o c4) \o c5) \o c6) \o c7
<1>0. /\ r \in Nat /\ k \in Nat /\ i \in Nat
      /\ reload \in Seq(Data) /\ fir_config \in Seq(Data) /\ input \in Seq(Data)
  BY DEF Fits
<1>1. c = Notebook!FIRCell(4 * r, 4 * k, 4 * i, reload, fir_config, input)
  BY DEF Notebook!FIRCell
<1>2. /\ c4 = <<[op |-> "DataToAccel", addr |-> r, size |-> Len(reload), tid |-> 1]>>
      /\ c5 = <<[op |-> "DataToAccel", addr |-> k, size |-> Len(fir_config), tid |-> 2]>>
  BY <1>0, NotebookCalls
<1>3. ASSUME NEW m, NEW f \in Conf
      PROVE  /\ \E n : \E g \in Conf : Part(c, State(m, f, <<>>), State(n, g, <<>>))
             /\ EndsPayload(c)
  <2>1. PICK m1 : /\ Part(c1, State(m, f, <<>>), State(m1, f, <<>>)) /\ StartsNothing(c1)
                  /\ Holds(m1, r, reload)
    BY LoadCell
  <2>2. PICK m2 : /\ Part(c2, State(m1, f, <<>>), State(m2, f, <<>>)) /\ StartsNothing(c2)
                  /\ Holds(m2, k, fir_config) /\ Holds(m2, r, reload)
    BY <1>0, <2>1, LoadCell
  <2>3. PICK m3 : /\ Part(c3, State(m2, f, <<>>), State(m3, f, <<>>)) /\ StartsNothing(c3)
                  /\ Holds(m3, i, input) /\ Holds(m3, k, fir_config)
                  /\ Holds(m3, r, reload)
    BY <1>0, <2>2, LoadCell
  <2>4. PICK h \in Conf : /\ Part(c4, State(m3, f, <<>>), State(m3, h, <<>>))
                          /\ LoadsNothing(c4) /\ Replaced(h, f, 1, reload)
    BY <1>2, <2>3, ConfigCell
  <2>5. PICK g \in Conf : /\ Part(c5, State(m3, h, <<>>), State(m3, g, <<>>))
                          /\ LoadsNothing(c5) /\ Replaced(g, h, 2, fir_config)
    BY <1>2, <2>3, ConfigCell
  <2>6. \A t \in DOMAIN setup : g[t] = setup[t]
    <3>1. g[1] = reload /\ g[2] = fir_config
      BY <2>4, <2>5 DEF Replaced
    <3> QED BY <3>1
  <2> HIDE DEF setup
  <2>7. PICK n : /\ Part(c6, State(m3, g, <<>>), State(n, g, <<>>))
                 /\ LoadsNothing(c6) /\ EndsPayload(c6)
                 /\ Part(c7, State(n, g, <<>>), State(n, g, <<>>))
                 /\ LoadsNothing(c7) /\ StartsNothing(c7)
    BY <2>3, <2>6, RunCell
  <2> HIDE DEF c1, c2, c3, c4, c5, c6, c7
  <2>8. Part(c1 \o c2, State(m, f, <<>>), State(m2, f, <<>>)) /\ StartsNothing(c1 \o c2)
    BY <2>1, <2>2, PartThen
  <2>9. Part((c1 \o c2) \o c3, State(m, f, <<>>), State(m3, f, <<>>))
    BY <2>3, <2>8, PartThen
  <2>10. Part(((c1 \o c2) \o c3) \o c4, State(m, f, <<>>), State(m3, h, <<>>))
    BY <2>4, <2>9, PartThen
  <2>11. Part((((c1 \o c2) \o c3) \o c4) \o c5, State(m, f, <<>>), State(m3, g, <<>>))
    BY <2>5, <2>10, PartThen
  <2>12. /\ Part(((((c1 \o c2) \o c3) \o c4) \o c5) \o c6,
                 State(m, f, <<>>), State(n, g, <<>>))
         /\ EndsPayload(((((c1 \o c2) \o c3) \o c4) \o c5) \o c6)
    BY <2>7, <2>11, PartThen
  <2>13. Part(c, State(m, f, <<>>), State(n, g, <<>>)) /\ EndsPayload(c)
    BY <2>7, <2>12, PartThen
  <2> QED BY <2>13
<1> HIDE DEF c
<1> QED BY <1>1, <1>3, PartsProgram

\* Three calls in a row.
LEMMA TripleConcat ==
  ASSUME NEW e1, NEW e2, NEW e3
  PROVE  (<<e1>> \o <<e2>>) \o <<e3>> = <<e1, e2, e3>>
<1> DEFINE S == {e1, e2, e3}
           c == (<<e1>> \o <<e2>>) \o <<e3>>
           d == <<e1, e2, e3>>
<1>1. /\ Len(c) = 3 /\ c[1] = e1 /\ c[2] = e2 /\ c[3] = e3
      /\ Len(d) = 3 /\ d[1] = e1 /\ d[2] = e2 /\ d[3] = e3
  OBVIOUS
<1>2. d \in Seq(S)
  OBVIOUS
<1>3. c \in Seq(S)
  <2>1. <<e1>> \in Seq(S) /\ <<e2>> \in Seq(S) /\ <<e3>> \in Seq(S)
    OBVIOUS
  <2> HIDE DEF S
  <2> QED BY ONLY <2>1, ConcatProperties
<1> HIDE DEF c, d
<1>4. Len(c) = Len(d) /\ \A i \in 1..Len(d) : d[i] = c[i]
  BY ONLY <1>1
<1>5. d = c
  BY ONLY <1>2, <1>3, <1>4, SeqEqual
<1> QED BY <1>5 DEF c, d

\* A packet that is awaited and then reported.
LEMMA ReportedPart ==
  ASSUME NEW m, NEW f \in Conf, NEW b, NEW packet, NEW tid \in Tids,
         Fits(b, packet), Holds(m, b, packet), NEW w, NEW r,
         w.op = "DataToAccelDone", r.op = "Report"
  PROVE  LET c == <<[op |-> "DataToAccel", addr |-> b, size |-> Len(packet),
                     tid |-> tid], w, r>>
         IN  \E g \in Conf :
               /\ Part(c, State(m, f, <<>>), State(m, g, <<>>)) /\ LoadsNothing(c)
               /\ Replaced(g, f, tid, packet)
<1> DEFINE e == [op |-> "DataToAccel", addr |-> b, size |-> Len(packet), tid |-> tid]
           c == <<e, w, r>>
           d == <<e>>
<1>1. c = (d \o <<w>>) \o <<r>>
  BY TripleConcat
<1>2. PICK g \in Conf :
        /\ Part(d, State(m, f, <<>>), State(m, g, <<>>)) /\ LoadsNothing(d)
        /\ Replaced(g, f, tid, packet)
  BY ConfigCell
<1>3. /\ Part(<<w>>, State(m, g, <<>>), State(m, g, <<>>)) /\ LoadsNothing(<<w>>)
      /\ Part(<<r>>, State(m, g, <<>>), State(m, g, <<>>)) /\ LoadsNothing(<<r>>)
  BY QuietPart
<1> HIDE DEF e, c, d
<1>4. /\ Part(d \o <<w>>, State(m, f, <<>>), State(m, g, <<>>))
      /\ LoadsNothing(d \o <<w>>)
  BY <1>2, <1>3, PartThen
<1>5. Part(c, State(m, f, <<>>), State(m, g, <<>>)) /\ LoadsNothing(c)
  BY <1>1, <1>3, <1>4, PartThen
<1> QED BY <1>2, <1>5 DEF c, e

\* A run, its results and the results read, in a region of their own or in
\* the place of the input.
LEMMA ThreeCallRun ==
  ASSUME NEW from \in Nat, NEW to \in Nat, NEW input \in Seq(Data)
  PROVE  RunCalls(<<[op |-> "DataToAccel", addr |-> from, size |-> Len(input), tid |-> 0],
                    [op |-> "DataFromAccel", addr |-> to, size |-> Len(input)],
                    [op |-> "DataFromAccelDone"]>>, from, to, input)
<1> DEFINE e1 == [op |-> "DataToAccel", addr |-> from, size |-> Len(input), tid |-> 0]
           e2 == [op |-> "DataFromAccel", addr |-> to, size |-> Len(input)]
           e3 == [op |-> "DataFromAccelDone"]
           c == <<e1, e2, e3>>
<1>1. e3.op = "DataFromAccelDone"
  OBVIOUS
<1> HIDE DEF e1, e2, e3
<1>2. c \in Seq({e1, e2, e3}) /\ Len(c) = 3 /\ c[1] = e1 /\ c[2] = e2 /\ c[3] = e3
  OBVIOUS
<1> HIDE DEF c
<1>3. RunCalls(c, from, to, input)
  BY <1>1, <1>2 DEF RunCalls, e1, e2
<1> QED BY <1>3 DEF c, e1, e2, e3

\* The fir application is right on a slot that is used again, too.
LEMMA FIRInTime ==
  ASSUME NEW reload, NEW config, NEW input, FIRLayout(reload, config, input)
  PROVE  LET c == FIR!main(reload, config, input)
         IN  SoundInTime(c) /\ \E S : c \in Seq(S)
<1> DEFINE I == FIR!Image(reload, config, input)
           m == FIRBuffer(reload, config, input)
           e1 == [op |-> "Load", image |-> I, fresh |-> TRUE]
           w == [op |-> "DataToAccelDone"]
           d1 == [op |-> "DataToAccel", addr |-> FIR_RELOAD, size |-> Len(reload), tid |-> 1]
           d2 == [op |-> "DataToAccel", addr |-> FIR_CONFIG, size |-> Len(config), tid |-> 2]
           r1 == [op |-> "Report", tid |-> 1, want |-> reload]
           r2 == [op |-> "Report", tid |-> 2, want |-> config]
           setup == <<reload, config>>
           c1 == <<e1>>
           c2 == <<d1, w, r1>>
           c3 == <<d2, w, r2>>
           c4 == <<[op |-> "DataToAccel", addr |-> FIR_INPUT, size |-> Len(input), tid |-> 0],
                   [op |-> "DataFromAccel", addr |-> FIR_RESULT, size |-> Len(input)],
                   [op |-> "DataFromAccelDone"]>>
           c5 == <<[op |-> "Collect", addr |-> FIR_RESULT, size |-> Len(input),
                    want |-> input, conf |-> setup]>>
           c == ((c1 \o (c2 \o c3)) \o c4) \o c5
<1>0. /\ Fits(FIR_RELOAD, reload) /\ Fits(FIR_CONFIG, config)
      /\ FIR_INPUT \in Nat /\ FIR_RESULT \in Nat /\ FIR_RESULT <= FIR_INPUT
      /\ input \in Seq(Data) /\ FIR_RESULT..(FIR_RESULT + Len(input) - 1) \subseteq Addr
      /\ 1 \in Tids /\ 2 \in Tids
  BY DEF FIRLayout, Fits
<1>1. c = FIR!main(reload, config, input)
  <2>1. FIR!Configure(reload, config) = <<d1, w, r1, d2, w, r2>>
    BY DEF FIR!Configure, FIR!DataToAccel, FIR!DataToAccelDone, FIR!Report
  <2>2. FIR!main(reload, config, input) = ((c1 \o FIR!Configure(reload, config)) \o c4) \o c5
    BY DEF FIR!main, FIR!Filter, FIR!LoadFresh, FIR!DataToAccel, FIR!DataFromAccel,
           FIR!DataFromAccelDone, FIR!Collect
  <2> HIDE DEF c1, c4, c5, d1, d2, w, r1, r2
  <2>3. c2 \o c3 = <<d1, w, r1, d2, w, r2>>
    <3> DEFINE S == {d1, d2, w, r1, r2}
               a == c2 \o c3
               b == <<d1, w, r1, d2, w, r2>>
    <3>1. /\ Len(a) = 6 /\ a[1] = d1 /\ a[2] = w /\ a[3] = r1
          /\ a[4] = d2 /\ a[5] = w /\ a[6] = r2
          /\ Len(b) = 6 /\ b[1] = d1 /\ b[2] = w /\ b[3] = r1
          /\ b[4] = d2 /\ b[5] = w /\ b[6] = r2
      OBVIOUS
    <3>2. a \in Seq(S) /\ b \in Seq(S)
      OBVIOUS
    <3> HIDE DEF a, b, S
    <3>3. Len(a) = Len(b) /\ \A i \in 1..Len(b) : b[i] = a[i]
      BY ONLY <3>1
    <3>4. b = a
      BY ONLY <3>2, <3>3, SeqEqual
    <3> QED BY <3>4 DEF a, b
  <2> QED BY <2>1, <2>2, <2>3
<1>2. /\ Holds(m, FIR_RELOAD, reload) /\ Holds(m, FIR_CONFIG, config)
      /\ Holds(m, FIR_INPUT, input)
  BY FIRHolds
<1>3. ASSUME NEW k, NEW f \in Conf
      PROVE  /\ \E n : \E g \in Conf : Part(c, State(k, f, <<>>), State(n, g, <<>>))
             /\ EndsPayload(c)
  <2>1. Part(c1, State(k, f, <<>>), State(m, f, <<>>)) /\ StartsNothing(c1)
    BY FreshPart DEF FIRBuffer
  <2> w.op = "DataToAccelDone" /\ r1.op = "Report" /\ r2.op = "Report"
    OBVIOUS
  <2> HIDE DEF m, w, r1, r2
  <2>2. PICK h \in Conf : /\ Part(c2, State(m, f, <<>>), State(m, h, <<>>))
                          /\ LoadsNothing(c2) /\ Replaced(h, f, 1, reload)
    BY <1>0, <1>2, ReportedPart
  <2>3. PICK g \in Conf : /\ Part(c3, State(m, h, <<>>), State(m, g, <<>>))
                          /\ LoadsNothing(c3) /\ Replaced(g, h, 2, config)
    BY <1>0, <1>2, ReportedPart
  <2>4. \A t \in DOMAIN setup : g[t] = setup[t]
    <3>1. g[1] = reload /\ g[2] = config
      BY <1>0, <2>2, <2>3 DEF Replaced
    <3> QED BY <3>1
  <2>5. RunCalls(c4, FIR_INPUT, FIR_RESULT, input)
    BY <1>0, ThreeCallRun
  <2> HIDE DEF c1, c2, c3, c4, setup
  <2> DEFINE n == Placed(m, FIR_RESULT, Once(input, g))
  <2>6. /\ Part(c4, State(m, g, <<>>), State(n, g, <<>>))
        /\ LoadsNothing(c4) /\ EndsPayload(c4)
        /\ Part(c5, State(n, g, <<>>), State(n, g, <<>>))
        /\ LoadsNothing(c5) /\ StartsNothing(c5)
    BY <1>0, <1>2, <2>4, <2>5, RunPart
  <2> HIDE DEF c5, n
  <2>7. /\ Part(c2 \o c3, State(m, f, <<>>), State(m, g, <<>>))
        /\ LoadsNothing(c2 \o c3)
    BY <2>2, <2>3, PartThen
  <2>8. Part(c1 \o (c2 \o c3), State(k, f, <<>>), State(m, g, <<>>))
    BY <2>1, <2>7, PartThen
  <2>9. /\ Part((c1 \o (c2 \o c3)) \o c4, State(k, f, <<>>), State(n, g, <<>>))
        /\ EndsPayload((c1 \o (c2 \o c3)) \o c4)
    BY <2>6, <2>8, PartThen
  <2>10. Part(c, State(k, f, <<>>), State(n, g, <<>>)) /\ EndsPayload(c)
    BY <2>6, <2>9, PartThen
  <2> QED BY <2>10
<1> HIDE DEF c
<1> QED BY <1>1, <1>3, PartsProgram

\* And so is the fft application.
LEMMA FFTInTime ==
  ASSUME NEW config, NEW input, FFTLayout(config, input)
  PROVE  LET c == FFT!main(config, input)
         IN  SoundInTime(c) /\ \E S : c \in Seq(S)
<1> DEFINE I == FFTImage(config, input)
           m == FFTBuffer(config, input)
           w == [op |-> "DataToAccelDone"]
           r(tid) == [op |-> "Report", tid |-> tid, want |-> config]
           P(tid) == <<[op |-> "DataToAccel", addr |-> FFT_CONFIG, size |-> Len(config),
                        tid |-> tid], w, r(tid)>>
           setup == FFTSetup(config)
           c1 == <<[op |-> "Load", image |-> I, fresh |-> TRUE]>>
           c2 == ((P(1) \o P(2)) \o P(3)) \o P(4)
           c3 == <<[op |-> "DataToAccel", addr |-> FFT_DATA_IN, size |-> Len(input), tid |-> 0],
                   [op |-> "DataFromAccel", addr |-> FFT_RESULT, size |-> Len(input)],
                   [op |-> "DataFromAccelDone"]>>
           c4 == <<[op |-> "Collect", addr |-> FFT_RESULT, size |-> Len(input),
                    want |-> input, conf |-> setup]>>
           c == ((c1 \o c2) \o c3) \o c4
<1>0. /\ Fits(FFT_CONFIG, config)
      /\ FFT_DATA_IN \in Nat /\ FFT_RESULT \in Nat
      /\ Apart(FFT_DATA_IN, Len(input), FFT_RESULT, Len(input))
      /\ input \in Seq(Data) /\ FFT_RESULT..(FFT_RESULT + Len(input) - 1) \subseteq Addr
      /\ 1 \in Tids /\ 2 \in Tids /\ 3 \in Tids /\ 4 \in Tids
  BY DEF FFTLayout, Fits, Apart
<1>1. c = FFT!main(config, input)
  BY DEF FFT!main, FFT!Configure, FFT!ConfigureChannel, FFT!Transform, FFT!LoadFresh,
         FFT!DataToAccel, FFT!DataToAccelDone, FFT!Report, FFT!DataFromAccel,
         FFT!DataFromAccelDone, FFT!Collect, FFTImage, FFTSetup
<1>2. Holds(m, FFT_CONFIG, config) /\ Holds(m, FFT_DATA_IN, input)
  BY FFTHolds
<1>3. ASSUME NEW k, NEW f \in Conf
      PROVE  /\ \E n : \E g \in Conf : Part(c, State(k, f, <<>>), State(n, g, <<>>))
             /\ EndsPayload(c)
  <2>1. Part(c1, State(k, f, <<>>), State(m, f, <<>>)) /\ StartsNothing(c1)
    BY FreshPart DEF FFTBuffer
  <2>2. w.op = "DataToAccelDone" /\ \A tid \in Tids : r(tid).op = "Report"
    OBVIOUS
  <2> HIDE DEF m, w, r
  <2>3. ASSUME NEW g \in Conf, NEW tid \in Tids
        PROVE  \E h \in Conf :
                 /\ Part(P(tid), State(m, g, <<>>), State(m, h, <<>>))
                 /\ LoadsNothing(P(tid))
                 /\ Replaced(h, g, tid, config)
    BY <1>0, <1>2, <2>2, ReportedPart
  <2> HIDE DEF P, c1, c3, c4
  <2>4. PICK g1 \in Conf : /\ Part(P(1), State(m, f, <<>>), State(m, g1, <<>>))
                           /\ LoadsNothing(P(1)) /\ Replaced(g1, f, 1, config)
    BY <1>0, <2>3
  <2>5. PICK g2 \in Conf : /\ Part(P(2), State(m, g1, <<>>), State(m, g2, <<>>))
                           /\ LoadsNothing(P(2)) /\ Replaced(g2, g1, 2, config)
    BY <1>0, <2>3
  <2>6. PICK g3 \in Conf : /\ Part(P(3), State(m, g2, <<>>), State(m, g3, <<>>))
                           /\ LoadsNothing(P(3)) /\ Replaced(g3, g2, 3, config)
    BY <1>0, <2>3
  <2>7. PICK g \in Conf : /\ Part(P(4), State(m, g3, <<>>), State(m, g, <<>>))
                          /\ LoadsNothing(P(4)) /\ Replaced(g, g3, 4, config)
    BY <1>0, <2>3
  <2>8. \A t \in DOMAIN setup : g[t] = setup[t]
    <3>1. g[1] = config /\ g[2] = config /\ g[3] = config /\ g[4] = config
      BY <1>0, <2>4, <2>5, <2>6, <2>7 DEF Replaced
    <3>2. DOMAIN setup = 1..4 /\ \A t \in 1..4 : setup[t] = config
      BY DEF FFTSetup
    <3>3. \A t \in 1..4 : t = 1 \/ t = 2 \/ t = 3 \/ t = 4
      OBVIOUS
    <3> QED BY ONLY <3>1, <3>2, <3>3
  <2> HIDE DEF setup
  <2>9. RunCalls(c3, FFT_DATA_IN, FFT_RESULT, input)
    BY <1>0, ThreeCallRun DEF c3
  <2> DEFINE n == Placed(m, FFT_RESULT, Once(input, g))
  <2>10. /\ Part(c3, State(m, g, <<>>), State(n, g, <<>>))
         /\ LoadsNothing(c3) /\ EndsPayload(c3)
         /\ Part(c4, State(n, g, <<>>), State(n, g, <<>>))
         /\ LoadsNothing(c4) /\ StartsNothing(c4)
    BY <1>0, <1>2, <2>8, <2>9, RunPart DEF c4
  <2> HIDE DEF n
  <2>11. Part(c2, State(m, f, <<>>), State(m, g, <<>>)) /\ LoadsNothing(c2)
    <3>1. /\ Part(P(1) \o P(2), State(m, f, <<>>), State(m, g2, <<>>))
          /\ LoadsNothing(P(1) \o P(2))
      BY <2>4, <2>5, PartThen
    <3>2. /\ Part((P(1) \o P(2)) \o P(3), State(m, f, <<>>), State(m, g3, <<>>))
          /\ LoadsNothing((P(1) \o P(2)) \o P(3))
      BY <2>6, <3>1, PartThen
    <3> QED BY <2>7, <3>2, PartThen
  <2> HIDE DEF c2
  <2>12. Part(c1 \o c2, State(k, f, <<>>), State(m, g, <<>>))
    BY <2>1, <2>11, PartThen
  <2>13. /\ Part((c1 \o c2) \o c3, State(k, f, <<>>), State(n, g, <<>>))
         /\ EndsPayload((c1 \o c2) \o c3)
    BY <2>10, <2>12, PartThen
  <2>14. Part(c, State(k, f, <<>>), State(n, g, <<>>)) /\ EndsPayload(c)
    BY <2>10, <2>13, PartThen
  <2> QED BY <2>14
<1> HIDE DEF c
<1> QED BY <1>1, <1>3, PartsProgram

------------------------------------------------------------------------------
(***************************************************************************)
(* The aes applications.                                                   *)
(***************************************************************************)

\* An image has data from offset on.
ImageHas(image, offset, data) ==
  \A a \in offset..(offset + Len(data) - 1) :
    a \in DOMAIN image /\ image[a] = data[a - offset + 1]

\* What was copied is in the image; a later copy elsewhere keeps it.
LEMMA ImageFacts ==
  ASSUME NEW offset \in Nat, NEW data \in Seq(Data)
  PROVE  /\ ImageHas(AES!Copied(offset, data), offset, data)
         /\ \A image :
              /\ ImageHas(AES!Onto(AES!Copied(offset, data), image), offset, data)
              /\ \A o \in Nat : \A d \in Seq(Data) :
                   ImageHas(image, o, d) /\ Disjoint(o, d, offset, data)
                     => ImageHas(AES!Onto(AES!Copied(offset, data), image), o, d)
<1> DEFINE C == AES!Copied(offset, data)
<1>1. /\ DOMAIN C = offset..(offset + Len(data) - 1)
      /\ \A a \in DOMAIN C : C[a] = data[a - offset + 1]
  BY DEF AES!Copied
<1> HIDE DEF C
<1>2. ImageHas(C, offset, data)
  BY <1>1 DEF ImageHas
<1>3. ASSUME NEW image PROVE ImageHas(AES!Onto(C, image), offset, data)
  BY <1>1 DEF ImageHas, AES!Onto
<1>4. ASSUME NEW image, NEW o \in Nat, NEW d \in Seq(Data), ImageHas(image, o, d),
             Disjoint(o, d, offset, data)
      PROVE  ImageHas(AES!Onto(C, image), o, d)
  <2>1. \A a \in o..(o + Len(d) - 1) : a \notin DOMAIN C
    BY <1>1, <1>4 DEF Disjoint, Apart
  <2> QED BY <1>4, <2>1 DEF ImageHas, AES!Onto
<1> QED BY <1>2, <1>3, <1>4 DEF C

\* The buffer with an image in it.
Imaged(image) ==
  [a \in Addr |-> IF a \in DOMAIN image THEN Ordered!Raw(image[a])
                  ELSE Ordered!Raw(Junk)]

LEMMA ImagedHolds ==
  ASSUME NEW image, NEW offset, NEW data, Fits(offset, data),
         ImageHas(image, offset, data)
  PROVE  Holds(Imaged(image), offset, data)
BY DEF Fits, ImageHas, Holds, Imaged

\* Eight calls, as they are put together in main and in a phase of
\* internal_test, and as parts.
MainCalls(e1, e2, e3, e4, e5, e6, e7, e8) ==
  (<<e1, e2>> \o <<e3, e4, e5>>) \o <<e6, e7, e8>>
PhaseCalls(e1, e2, e3, e4, e5, e6, e7, e8) ==
  <<e1, e2, e3, e4, e5>> \o <<e6, e7, e8>>
PartCalls(e1, e2, e3, e4, e5, e6, e7, e8) ==
  (((<<e1>> \o <<e2>>) \o <<e3>>) \o <<e4, e5, e6, e7>>) \o <<e8>>

LEMMA SameCalls ==
  ASSUME NEW e1, NEW e2, NEW e3, NEW e4, NEW e5, NEW e6, NEW e7, NEW e8
  PROVE  /\ MainCalls(e1, e2, e3, e4, e5, e6, e7, e8)
              = PartCalls(e1, e2, e3, e4, e5, e6, e7, e8)
         /\ PhaseCalls(e1, e2, e3, e4, e5, e6, e7, e8)
              = PartCalls(e1, e2, e3, e4, e5, e6, e7, e8)
<1> DEFINE S == {e1, e2, e3, e4, e5, e6, e7, e8}
           a == MainCalls(e1, e2, e3, e4, e5, e6, e7, e8)
           b == PhaseCalls(e1, e2, e3, e4, e5, e6, e7, e8)
           c == PartCalls(e1, e2, e3, e4, e5, e6, e7, e8)
           Are(s) == /\ Len(s) = 8 /\ s[1] = e1 /\ s[2] = e2 /\ s[3] = e3
                     /\ s[4] = e4 /\ s[5] = e5 /\ s[6] = e6 /\ s[7] = e7 /\ s[8] = e8
<1>1. Are(a)
  BY DEF MainCalls
<1>2. Are(b)
  BY DEF PhaseCalls
<1>3. Are(c)
  BY DEF PartCalls
<1>4. a \in Seq(S) /\ b \in Seq(S) /\ c \in Seq(S)
  <2>1. /\ <<e1, e2>> \in Seq(S) /\ <<e3, e4, e5>> \in Seq(S)
        /\ <<e6, e7, e8>> \in Seq(S) /\ <<e1, e2, e3, e4, e5>> \in Seq(S)
        /\ <<e1>> \in Seq(S) /\ <<e2>> \in Seq(S) /\ <<e3>> \in Seq(S)
        /\ <<e4, e5, e6, e7>> \in Seq(S) /\ <<e8>> \in Seq(S)
    OBVIOUS
  <2> HIDE DEF S
  <2> QED BY ONLY <2>1, ConcatProperties
          DEF a, b, c, MainCalls, PhaseCalls, PartCalls
<1> HIDE DEF a, b, c, S
<1>5. /\ Len(a) = Len(c) /\ \A i \in 1..Len(a) : a[i] = c[i]
      /\ Len(b) = Len(c) /\ \A i \in 1..Len(b) : b[i] = c[i]
  BY ONLY <1>1, <1>2, <1>3
<1>6. a = c /\ b = c
  BY ONLY <1>4, <1>5, SeqEqual
<1> QED BY <1>6 DEF a, b, c

\* A run with a wait for MM2S between its two starts.
LEMMA FourCallRun ==
  ASSUME NEW from \in Nat, NEW to \in Nat, NEW input \in Seq(Data)
  PROVE  RunCalls(<<[op |-> "DataToAccel", addr |-> from, size |-> Len(input), tid |-> 0],
                    [op |-> "DataToAccelDone"],
                    [op |-> "DataFromAccel", addr |-> to, size |-> Len(input)],
                    [op |-> "DataFromAccelDone"]>>, from, to, input)
<1> DEFINE e1 == [op |-> "DataToAccel", addr |-> from, size |-> Len(input), tid |-> 0]
           e2 == [op |-> "DataToAccelDone"]
           e3 == [op |-> "DataFromAccel", addr |-> to, size |-> Len(input)]
           e4 == [op |-> "DataFromAccelDone"]
           c == <<e1, e2, e3, e4>>
<1>1. e2.op = "DataToAccelDone" /\ e4.op = "DataFromAccelDone"
  OBVIOUS
<1> HIDE DEF e1, e2, e3, e4
<1>2. /\ c \in Seq({e1, e2, e3, e4}) /\ Len(c) = 4
      /\ c[1] = e1 /\ c[2] = e2 /\ c[3] = e3 /\ c[4] = e4
  OBVIOUS
<1> HIDE DEF c
<1>3. RunCalls(c, from, to, input)
  BY <1>1, <1>2 DEF RunCalls, e1, e3
<1> QED BY <1>3 DEF c, e1, e2, e3, e4

\* Five parts of which only the fourth is a run, and what follows it reads.
LEMMA FiveParts ==
  ASSUME NEW d1, NEW d2, NEW d3, NEW d4, NEW d5, NEW s1, NEW s2, NEW s3, NEW s4, NEW s5,
         Part(d1, s1, s2), StartsNothing(d1),
         Part(d2, s2, s3), LoadsNothing(d2), Part(d3, s3, s4), LoadsNothing(d3),
         Part(d4, s4, s5), LoadsNothing(d4), EndsPayload(d4),
         Part(d5, s5, s5), LoadsNothing(d5), StartsNothing(d5)
  PROVE  LET c == (((d1 \o d2) \o d3) \o d4) \o d5
         IN  /\ Part(c, s1, s5) /\ EndsPayload(c)
             /\ LoadsNothing(d1) => LoadsNothing(c)
<1>1. Part(d1 \o d2, s1, s3) /\ (LoadsNothing(d1) => LoadsNothing(d1 \o d2))
  BY PartThen
<1>2. /\ Part((d1 \o d2) \o d3, s1, s4)
      /\ LoadsNothing(d1) => LoadsNothing((d1 \o d2) \o d3)
  BY <1>1, PartThen
<1>3. /\ Part(((d1 \o d2) \o d3) \o d4, s1, s5)
      /\ EndsPayload(((d1 \o d2) \o d3) \o d4)
      /\ LoadsNothing(d1) => LoadsNothing(((d1 \o d2) \o d3) \o d4)
  BY <1>2, PartThen
<1> QED BY <1>3, PartThen

\* main: kbuf and input in places of their own.
AESMainFits(kbuf, input) ==
  /\ Fits(AES_DKB, kbuf) /\ Fits(AES_DB, input)
  /\ Disjoint(AES_DKB, kbuf, AES_DB, input)
  /\ 1 \in Tids

\* The aes applications are right on a slot that is used again.
LEMMA AESMainInTime ==
  ASSUME NEW kbuf, NEW input, AESMainFits(kbuf, input)
  PROVE  LET c == AES!main(kbuf, input)
         IN  SoundInTime(c) /\ \E S : c \in Seq(S)
<1> DEFINE I == AES!Onto(AES!Copied(AES_DB, input), AES!Copied(AES_DKB, kbuf))
           m == Imaged(I)
           setup == <<kbuf>>
           e1 == [op |-> "Load", image |-> I, fresh |-> TRUE]
           e2 == [op |-> "StartAccel"]
           e3 == [op |-> "DataToAccel", addr |-> AES_DKB, size |-> Len(kbuf), tid |-> 1]
           e4 == [op |-> "DataToAccel", addr |-> AES_DB, size |-> Len(input), tid |-> 0]
           e5 == [op |-> "DataToAccelDone"]
           e6 == [op |-> "DataFromAccel", addr |-> AES_DB, size |-> Len(input)]
           e7 == [op |-> "DataFromAccelDone"]
           e8 == [op |-> "Collect", addr |-> AES_DB, size |-> Len(input),
                  want |-> input, conf |-> setup]
           d1 == <<e1>>
           d2 == <<e2>>
           d3 == <<e3>>
           d4 == <<e4, e5, e6, e7>>
           d5 == <<e8>>
           c == (((d1 \o d2) \o d3) \o d4) \o d5
<1>0. /\ Fits(AES_DKB, kbuf) /\ Fits(AES_DB, input) /\ 1 \in Tids
      /\ Disjoint(AES_DKB, kbuf, AES_DB, input)
      /\ AES_DB \in Nat /\ input \in Seq(Data) /\ AES_DB <= AES_DB
      /\ AES_DB..(AES_DB + Len(input) - 1) \subseteq Addr
      /\ AES_DKB \in Nat /\ kbuf \in Seq(Data)
  BY DEF AESMainFits, Fits
<1>1. c = AES!main(kbuf, input)
  <2>1. AES!main(kbuf, input) = (<<e1, e2>> \o <<e3, e4, e5>>) \o <<e6, e7, e8>>
    BY DEF AES!main, AES!Send, AES!Receive, AES!LoadFresh, AES!StartAccel,
           AES!DataToAccel, AES!DataToAccelDone, AES!DataFromAccel,
           AES!DataFromAccelDone, AES!Collect
  <2> HIDE DEF e1, e2, e3, e4, e5, e6, e7, e8
  <2>2. /\ AES!main(kbuf, input) = MainCalls(e1, e2, e3, e4, e5, e6, e7, e8)
        /\ c = PartCalls(e1, e2, e3, e4, e5, e6, e7, e8)
    BY <2>1 DEF MainCalls, PartCalls
  <2> HIDE DEF c
  <2> QED BY ONLY <2>2, SameCalls
<1>2. Holds(m, AES_DKB, kbuf) /\ Holds(m, AES_DB, input)
  <2>1. ImageHas(I, AES_DKB, kbuf) /\ ImageHas(I, AES_DB, input)
    BY <1>0, ImageFacts
  <2> HIDE DEF I
  <2> QED BY <1>0, <2>1, ImagedHolds
<1>3. ASSUME NEW k, NEW f \in Conf
      PROVE  /\ \E n : \E g \in Conf : Part(c, State(k, f, <<>>), State(n, g, <<>>))
             /\ EndsPayload(c)
  <2>1. Part(d1, State(k, f, <<>>), State(m, f, <<>>)) /\ StartsNothing(d1)
    BY FreshPart DEF Imaged
  <2> HIDE DEF m
  <2>2. Part(d2, State(m, f, <<>>), State(m, f, <<>>)) /\ LoadsNothing(d2)
    BY QuietPart
  <2>3. PICK g \in Conf : /\ Part(d3, State(m, f, <<>>), State(m, g, <<>>))
                          /\ LoadsNothing(d3) /\ Replaced(g, f, 1, kbuf)
    BY <1>0, <1>2, ConfigCell
  <2>4. \A t \in DOMAIN setup : g[t] = setup[t]
    BY <2>3 DEF Replaced
  <2>5. RunCalls(d4, AES_DB, AES_DB, input)
    BY <1>0, FourCallRun
  <2> HIDE DEF d1, d2, d3, d4, setup
  <2> DEFINE n == Placed(m, AES_DB, Once(input, g))
  <2>6. /\ Part(d4, State(m, g, <<>>), State(n, g, <<>>))
        /\ LoadsNothing(d4) /\ EndsPayload(d4)
        /\ Part(d5, State(n, g, <<>>), State(n, g, <<>>))
        /\ LoadsNothing(d5) /\ StartsNothing(d5)
    BY <1>0, <1>2, <2>4, <2>5, RunPart
  <2> HIDE DEF d5, n
  <2> QED BY <2>1, <2>2, <2>3, <2>6, FiveParts
<1> HIDE DEF c
<1> QED BY <1>1, <1>3, PartsProgram

\* One half of internal_test keeps what is not in the result region.
LEMMA AESPhase ==
  ASSUME NEW m, NEW f \in Conf, NEW ko, NEW key, NEW io, NEW input,
         Fits(ko, key), Fits(io, input), Holds(m, ko, key), Holds(m, io, input),
         Fits(AES_RESULT, input), Disjoint(io, input, AES_RESULT, input), 1 \in Tids
  PROVE  LET c == AES!Phase(ko, key, io, input)
         IN  \E n : \E g \in Conf :
               /\ Part(c, State(m, f, <<>>), State(n, g, <<>>))
               /\ LoadsNothing(c) /\ EndsPayload(c)
               /\ \A o, d : Fits(o, d) /\ Holds(m, o, d)
                            /\ Disjoint(o, d, AES_RESULT, input) => Holds(n, o, d)
<1> DEFINE setup == <<key>>
           e1 == [op |-> "StartAccel"]
           e2 == [op |-> "DataToAccel", addr |-> ko, size |-> Len(key), tid |-> 1]
           e3 == [op |-> "Report", tid |-> 1, want |-> key]
           e4 == [op |-> "DataToAccel", addr |-> io, size |-> Len(input), tid |-> 0]
           e5 == [op |-> "DataToAccelDone"]
           e6 == [op |-> "DataFromAccel", addr |-> AES_RESULT, size |-> Len(input)]
           e7 == [op |-> "DataFromAccelDone"]
           e8 == [op |-> "Collect", addr |-> AES_RESULT, size |-> Len(input),
                  want |-> input, conf |-> setup]
           d1 == <<e1>>
           d2 == <<e2>>
           d3 == <<e3>>
           d4 == <<e4, e5, e6, e7>>
           d5 == <<e8>>
           c == (((d1 \o d2) \o d3) \o d4) \o d5
<1>0. /\ io \in Nat /\ AES_RESULT \in Nat /\ input \in Seq(Data)
      /\ AES_RESULT..(AES_RESULT + Len(input) - 1) \subseteq Addr
      /\ Apart(io, Len(input), AES_RESULT, Len(input))
  BY DEF Fits, Disjoint
<1>1. c = AES!Phase(ko, key, io, input)
  <2>1. AES!Phase(ko, key, io, input) = <<e1, e2, e3, e4, e5>> \o <<e6, e7, e8>>
    BY DEF AES!Phase, AES!Receive, AES!StartAccel, AES!Report,
           AES!DataToAccel, AES!DataToAccelDone, AES!DataFromAccel,
           AES!DataFromAccelDone, AES!Collect
  <2> HIDE DEF e1, e2, e3, e4, e5, e6, e7, e8
  <2>2. /\ AES!Phase(ko, key, io, input) = PhaseCalls(e1, e2, e3, e4, e5, e6, e7, e8)
        /\ c = PartCalls(e1, e2, e3, e4, e5, e6, e7, e8)
    BY <2>1 DEF PhaseCalls, PartCalls
  <2> HIDE DEF c
  <2> QED BY ONLY <2>2, SameCalls
<1>2. /\ Part(d1, State(m, f, <<>>), State(m, f, <<>>))
      /\ StartsNothing(d1) /\ LoadsNothing(d1)
  BY QuietPart
<1>3. PICK g \in Conf : /\ Part(d2, State(m, f, <<>>), State(m, g, <<>>))
                        /\ LoadsNothing(d2) /\ Replaced(g, f, 1, key)
  BY ConfigCell
<1>4. Part(d3, State(m, g, <<>>), State(m, g, <<>>)) /\ LoadsNothing(d3)
  BY QuietPart
<1>5. \A t \in DOMAIN setup : g[t] = setup[t]
  BY <1>3 DEF Replaced
<1>6. RunCalls(d4, io, AES_RESULT, input)
  BY <1>0, FourCallRun
<1> HIDE DEF d1, d2, d3, d4, setup
<1> DEFINE n == Placed(m, AES_RESULT, Once(input, g))
<1>7. /\ Part(d4, State(m, g, <<>>), State(n, g, <<>>))
      /\ LoadsNothing(d4) /\ EndsPayload(d4)
      /\ Part(d5, State(n, g, <<>>), State(n, g, <<>>))
      /\ LoadsNothing(d5) /\ StartsNothing(d5)
  BY <1>0, <1>5, <1>6, RunPart
<1>8. ASSUME NEW o, NEW d, Fits(o, d), Holds(m, o, d),
             Disjoint(o, d, AES_RESULT, input)
      PROVE  Holds(n, o, d)
  <2>1. o \in Nat /\ d \in Seq(Data) /\ Apart(o, Len(d), AES_RESULT, Len(input))
    BY <1>8 DEF Fits, Disjoint
  <2> QED BY <1>0, <1>8, <2>1, PlacedHolds
<1> HIDE DEF d5, n
<1>9. Part(c, State(m, f, <<>>), State(n, g, <<>>)) /\ EndsPayload(c) /\ LoadsNothing(c)
  BY <1>2, <1>3, <1>4, <1>7, FiveParts
<1> HIDE DEF c
<1> QED BY <1>1, <1>8, <1>9

\* internal_test: keys, data and results in places of their own.
AESTestFits(dkey, ekey, encrypted, decrypted) ==
  /\ Fits(AES_DKB, dkey) /\ Fits(AES_EKB, ekey)
  /\ Fits(AES_EB, encrypted) /\ Fits(AES_DB, decrypted)
  /\ Fits(AES_RESULT, encrypted) /\ Fits(AES_RESULT, decrypted)
  /\ Disjoint(AES_DKB, dkey, AES_EKB, ekey)
  /\ Disjoint(AES_DKB, dkey, AES_EB, encrypted)
  /\ Disjoint(AES_DKB, dkey, AES_DB, decrypted)
  /\ Disjoint(AES_EKB, ekey, AES_EB, encrypted)
  /\ Disjoint(AES_EKB, ekey, AES_DB, decrypted)
  /\ Disjoint(AES_EB, encrypted, AES_DB, decrypted)
  /\ Disjoint(AES_EB, encrypted, AES_RESULT, encrypted)
  /\ Disjoint(AES_EKB, ekey, AES_RESULT, encrypted)
  /\ Disjoint(AES_DB, decrypted, AES_RESULT, encrypted)
  /\ Disjoint(AES_DB, decrypted, AES_RESULT, decrypted)
  /\ 1 \in Tids

LEMMA AESTestInTime ==
  ASSUME NEW dkey, NEW ekey, NEW encrypted, NEW decrypted,
         AESTestFits(dkey, ekey, encrypted, decrypted)
  PROVE  LET c == AES!internal_test(dkey, ekey, encrypted, decrypted)
         IN  SoundInTime(c) /\ \E S : c \in Seq(S)
<1> USE DEF AESTestFits
<1> DEFINE I1 == AES!Copied(AES_DKB, dkey)
           I2 == AES!Onto(AES!Copied(AES_EKB, ekey), I1)
           I3 == AES!Onto(AES!Copied(AES_EB, encrypted), I2)
           I4 == AES!Onto(AES!Copied(AES_DB, decrypted), I3)
           m == Imaged(I4)
           c1 == <<[op |-> "Load", image |-> I4, fresh |-> TRUE]>>
           c2 == AES!Phase(AES_DKB, dkey, AES_EB, encrypted)
           c3 == AES!Phase(AES_EKB, ekey, AES_DB, decrypted)
           c == (c1 \o c2) \o c3
<1>0. /\ AES_DKB \in Nat /\ dkey \in Seq(Data) /\ AES_EKB \in Nat /\ ekey \in Seq(Data)
      /\ AES_EB \in Nat /\ encrypted \in Seq(Data)
      /\ AES_DB \in Nat /\ decrypted \in Seq(Data)
  BY DEF Fits
<1>1. c = AES!internal_test(dkey, ekey, encrypted, decrypted)
  BY DEF AES!internal_test, AES!LoadFresh
<1>2. /\ Holds(m, AES_DKB, dkey) /\ Holds(m, AES_EKB, ekey)
      /\ Holds(m, AES_EB, encrypted) /\ Holds(m, AES_DB, decrypted)
  <2>1. ImageHas(I1, AES_DKB, dkey)
    BY <1>0, ImageFacts
  <2> HIDE DEF I1
  <2>2. ImageHas(I2, AES_DKB, dkey) /\ ImageHas(I2, AES_EKB, ekey)
    BY <1>0, <2>1, ImageFacts
  <2> HIDE DEF I2
  <2>3. /\ ImageHas(I3, AES_DKB, dkey) /\ ImageHas(I3, AES_EKB, ekey)
        /\ ImageHas(I3, AES_EB, encrypted)
    BY <1>0, <2>2, ImageFacts
  <2> HIDE DEF I3
  <2>4. /\ ImageHas(I4, AES_DKB, dkey) /\ ImageHas(I4, AES_EKB, ekey)
        /\ ImageHas(I4, AES_EB, encrypted) /\ ImageHas(I4, AES_DB, decrypted)
    BY <1>0, <2>3, ImageFacts
  <2> HIDE DEF I4
  <2> QED BY <2>4, ImagedHolds
<1>3. ASSUME NEW k, NEW f \in Conf
      PROVE  /\ \E n : \E g \in Conf : Part(c, State(k, f, <<>>), State(n, g, <<>>))
             /\ EndsPayload(c)
  <2>1. Part(c1, State(k, f, <<>>), State(m, f, <<>>)) /\ StartsNothing(c1)
    BY FreshPart DEF Imaged
  <2> HIDE DEF m, I4, c1
  <2>2. PICK n1 : \E g \in Conf :
               /\ Part(c2, State(m, f, <<>>), State(n1, g, <<>>))
               /\ LoadsNothing(c2) /\ EndsPayload(c2)
               /\ \A o, d : Fits(o, d) /\ Holds(m, o, d)
                            /\ Disjoint(o, d, AES_RESULT, encrypted) => Holds(n1, o, d)
    BY <1>2, AESPhase
  <2>3. PICK g1 \in Conf :
               /\ Part(c2, State(m, f, <<>>), State(n1, g1, <<>>))
               /\ LoadsNothing(c2) /\ EndsPayload(c2)
               /\ \A o, d : Fits(o, d) /\ Holds(m, o, d)
                            /\ Disjoint(o, d, AES_RESULT, encrypted) => Holds(n1, o, d)
    BY <2>2
  <2>4. Holds(n1, AES_EKB, ekey) /\ Holds(n1, AES_DB, decrypted)
    BY <1>2, <2>3
  <2>5. PICK n2 : \E g \in Conf :
               /\ Part(c3, State(n1, g1, <<>>), State(n2, g, <<>>))
               /\ LoadsNothing(c3) /\ EndsPayload(c3)
    BY <2>4, AESPhase
  <2>6. PICK g2 \in Conf :
               /\ Part(c3, State(n1, g1, <<>>), State(n2, g2, <<>>))
               /\ LoadsNothing(c3) /\ EndsPayload(c3)
    BY <2>5
  <2> HIDE DEF c2, c3
  <2>7. Part(c1 \o c2, State(k, f, <<>>), State(n1, g1, <<>>)) /\ EndsPayload(c1 \o c2)
    BY <2>1, <2>3, PartThen
  <2>8. Part(c, State(k, f, <<>>), State(n2, g2, <<>>)) /\ EndsPayload(c)
    BY <2>6, <2>7, PartThen
  <2> QED BY <2>8
<1> HIDE DEF c
<1> QED BY <1>1, <1>3, PartsProgram

------------------------------------------------------------------------------
(***************************************************************************)
(* One session after the other on a slot that is not reloaded.             *)
(***************************************************************************)

\* A session: an application or a cell of the notebooks, on data that fit.
Session(c) ==
  \/ \E kbuf, input : AESMainFits(kbuf, input) /\ c = AES!main(kbuf, input)
  \/ \E dkey, ekey, encrypted, decrypted :
       /\ AESTestFits(dkey, ekey, encrypted, decrypted)
       /\ c = AES!internal_test(dkey, ekey, encrypted, decrypted)
  \/ \E reload, config, input :
       /\ FIRLayout(reload, config, input)
       /\ c = FIR!main(reload, config, input)
  \/ \E config, input : FFTLayout(config, input) /\ c = FFT!main(config, input)
  \/ \E k, i, key, input :
       /\ AESCellFits(k, i, key, input)
       /\ c = Notebook!AESCell(4 * k, 4 * i, key, input)
  \/ \E r, k, i, reload, config, input :
       /\ FIRCellFits(r, k, i, reload, config, input)
       /\ c = Notebook!FIRCell(4 * r, 4 * k, 4 * i, reload, config, input)
  \/ \E i, config, input :
       /\ FFTCellFits(i, config, input)
       /\ c = Notebook!FFTCell(0, 4 * i, config, input)

LEMMA SessionInTime ==
  ASSUME NEW c, Session(c)
  PROVE  SoundInTime(c) /\ \E S : c \in Seq(S)
<1>1. CASE \E kbuf, input : AESMainFits(kbuf, input) /\ c = AES!main(kbuf, input)
  BY <1>1, AESMainInTime
<1>2. CASE \E dkey, ekey, encrypted, decrypted :
             /\ AESTestFits(dkey, ekey, encrypted, decrypted)
             /\ c = AES!internal_test(dkey, ekey, encrypted, decrypted)
  BY <1>2, AESTestInTime
<1>3. CASE \E reload, config, input :
             /\ FIRLayout(reload, config, input)
             /\ c = FIR!main(reload, config, input)
  BY <1>3, FIRInTime
<1>4. CASE \E config, input : FFTLayout(config, input) /\ c = FFT!main(config, input)
  BY <1>4, FFTInTime
<1>5. CASE \E k, i, key, input :
             /\ AESCellFits(k, i, key, input)
             /\ c = Notebook!AESCell(4 * k, 4 * i, key, input)
  BY <1>5, AESCellSound
<1>6. CASE \E r, k, i, reload, config, input :
             /\ FIRCellFits(r, k, i, reload, config, input)
             /\ c = Notebook!FIRCell(4 * r, 4 * k, 4 * i, reload, config, input)
  BY <1>6, FIRCellSound
<1>7. CASE \E i, config, input :
             /\ FFTCellFits(i, config, input)
             /\ c = Notebook!FFTCell(0, 4 * i, config, input)
  BY <1>7, FFTCellSound
<1> QED BY <1>1, <1>2, <1>3, <1>4, <1>5, <1>6, <1>7 DEF Session

\* Any number of sessions in a row: what is in every set that has the
\* sessions and, with two of its elements, one after the other.
Sessions(c) ==
  \E U : /\ c \in Seq(U)
         /\ \A P \in SUBSET Seq(U) :
              /\ \A d \in Seq(U) : Session(d) => d \in P
              /\ \A d, e \in P : d \o e \in P
              => c \in P

\* So a session is one, and so are two.
LEMMA TwoSessions ==
  ASSUME NEW c1, NEW c2, Session(c1), Session(c2)
  PROVE  Sessions(c1) /\ Sessions(c1 \o c2)
<1>1. PICK S1 : c1 \in Seq(S1)
  BY SessionInTime
<1>2. PICK S2 : c2 \in Seq(S2)
  BY SessionInTime
<1> DEFINE U == S1 \cup S2
<1>3. c1 \in Seq(U) /\ c2 \in Seq(U) /\ c1 \o c2 \in Seq(U)
  BY <1>1, <1>2, ConcatProperties
<1> HIDE DEF U
<1> QED BY <1>3 DEF Sessions

LEMMA SessionsInTime ==
  ASSUME NEW c, Sessions(c)
  PROVE  SoundInTime(c)
<1>1. PICK U : /\ c \in Seq(U)
               /\ \A P \in SUBSET Seq(U) :
                    /\ \A d \in Seq(U) : Session(d) => d \in P
                    /\ \A d, e \in P : d \o e \in P
                    => c \in P
  BY DEF Sessions
<1> DEFINE P == {d \in Seq(U) : SoundInTime(d)}
<1>2. P \in SUBSET Seq(U)
  OBVIOUS
<1>3. \A d \in Seq(U) : Session(d) => d \in P
  BY SessionInTime
<1>4. ASSUME NEW d \in P, NEW e \in P
      PROVE  d \o e \in P
  <2>1. d \o e \in Seq(U)
    BY ConcatProperties
  <2> QED BY <2>1, SoundConcat
<1>5. c \in P
  <2> HIDE DEF P
  <2> QED BY <1>1, <1>2, <1>3, <1>4
<1> QED BY <1>5

\* Whatever the applications and cells run one after the other on a slot,
\* without reloading it, each retrieves its own input, processed once under
\* its own configuration: nothing a session leaves behind, the mover a cell
\* has not awaited, the key of the last one, reaches the results of the next.
THEOREM ReusedSlotResultsExact ==
  ASSUME CpuMayOvertake = FALSE, \A w \in Workloads : Sessions(w.calls)
  PROVE  Spec => []ResultsExact
BY SessionsInTime, InTimeResultsExact

\* In none of them S2MM overwrites a beat that MM2S has still to read, though
\* aes and the cells receive their results in the place of the input.
THEOREM ReusedSlotWritesBehindReads ==
  ASSUME CpuMayOvertake = FALSE, \A w \in Workloads : Sessions(w.calls)
  PROVE  Spec => []WriteBehindRead
BY SessionsInTime, InTimeWritesBehindReads

\* Seen from the program, each call takes place as a whole and in order.
THEOREM ReusedSlotActsInOrder ==
  ASSUME CpuMayOvertake = FALSE, \A w \in Workloads : Sessions(w.calls)
  PROVE  ObservedSpec => Ordered!OrderedInit
                           /\ [][Ordered!Perform]_(Ordered!orderedVars)
BY SessionsInTime, InTimeActsInOrder

===============================================================================
