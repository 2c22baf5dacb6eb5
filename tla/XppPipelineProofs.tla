-------------------------- MODULE XppPipelineProofs --------------------------
(***************************************************************************)
(* What holds of the preprocessing kernel for any pool of output frames    *)
(* and however late the accelerator is.                                    *)
(***************************************************************************)
EXTENDS XppPipeline, TLAPS

\* A command outlives its wait only by a timeout, its frame is the one start
\* was called with last, and nobody else has that frame.
CommandInv ==
  /\ command # None =>
       /\ status \in {"waiting", "failed", "closed"}
       /\ command.out = target
       /\ target \notin downstream
       /\ status # "waiting" => late

\* Nothing goes downstream before the first frame; the frame start is waiting
\* for belongs to the kernel, and is complete once its command is.
WaitInv ==
  /\ status = "created" => downstream = {}
  /\ status = "waiting" => target \in Pool \ downstream /\ input # 0
  /\ status = "waiting" /\ command = None => output[target] = input

KernelInv == TypeOK /\ FramesWhole /\ CommandInv /\ WaitInv

USE DEF Partial

LEMMA InitKernelInv == Init => KernelInv
<1> SUFFICES ASSUME Init PROVE KernelInv
  OBVIOUS
<1>1. 0 \in 0..MaxFrames
  BY FramesAssumption
<1>2. TypeOK
  BY <1>1 DEF Init, TypeOK
<1>3. FramesWhole /\ CommandInv /\ WaitInv
  BY DEF Init, FramesWhole, CommandInv, WaitInv
<1> QED BY <1>2, <1>3 DEF KernelInv

\* The steps of the kernel itself.
LEMMA KernelStep ==
  ASSUME KernelInv,
         \/ xlnx_kernel_init
         \/ \E b \in Pool : xlnx_kernel_start(b)
         \/ Done
         \/ Timeout
         \/ xlnx_kernel_deinit
  PROVE  KernelInv'
<1> USE FramesAssumption, NoneAssumption DEF KernelInv
<1>1. CASE xlnx_kernel_init
  BY <1>1 DEF xlnx_kernel_init, TypeOK, FramesWhole, CommandInv, WaitInv
<1>2. ASSUME NEW b \in Pool, xlnx_kernel_start(b)
      PROVE  KernelInv'
  <2>1. command = None
    BY <1>2 DEF xlnx_kernel_start, CommandInv
  <2>2. /\ input' = input + 1
        /\ input' \in 1..MaxFrames
    BY <1>2 DEF xlnx_kernel_start, TypeOK
  <2>3. command' # None =>
          command' = [out |-> b, begun |-> FALSE] /\ status' = "waiting"
    BY <1>2, <2>1 DEF xlnx_kernel_start
  <2>4. [out |-> b, begun |-> FALSE] \in Command
    BY DEF Command
  <2>5. command' \in Command \cup {None} /\ (command' = None => status' = "failed")
    BY <1>2, <2>4, <2>1 DEF xlnx_kernel_start
  <2>6. \A d \in downstream : output'[d] = output[d]
    BY <1>2 DEF xlnx_kernel_start, TypeOK
  <2>7. TypeOK'
    <3>1. output' = [output EXCEPT ![b] = 0] /\ 0 \in 0..MaxFrames
      BY <1>2 DEF xlnx_kernel_start
    <3>2. output' \in [Pool -> 0..MaxFrames]
      BY <3>1 DEF TypeOK
    <3>3. status' \in {"waiting", "failed"} /\ params' = "set"
      BY <1>2 DEF xlnx_kernel_start, TypeOK
    <3> QED BY <1>2, <2>2, <2>5, <3>2, <3>3 DEF xlnx_kernel_start, TypeOK
  <2>8. FramesWhole'
    BY <1>2, <2>3, <2>5, <2>6 DEF xlnx_kernel_start, FramesWhole
  <2>9. CommandInv' /\ WaitInv'
    BY <1>2, <2>2, <2>3, <2>5 DEF xlnx_kernel_start, CommandInv, WaitInv
  <2> QED BY <2>7, <2>8, <2>9
<1>3. CASE Done
  BY <1>3 DEF Done, TypeOK, FramesWhole, CommandInv, WaitInv
<1>4. CASE Timeout
  BY <1>4 DEF Timeout, TypeOK, FramesWhole, CommandInv, WaitInv
<1>5. CASE xlnx_kernel_deinit
  BY <1>5 DEF xlnx_kernel_deinit, TypeOK, FramesWhole, CommandInv, WaitInv
<1> QED BY <1>1, <1>2, <1>3, <1>4, <1>5

\* The steps of the accelerator and of the rest of the pipeline.
LEMMA OutsideStep ==
  ASSUME KernelInv, Begin \/ Finish \/ \E b \in Pool : Release(b)
  PROVE  KernelInv'
<1> USE FramesAssumption, NoneAssumption DEF KernelInv
<1>1. CASE Begin
  <2>1. command \in Command /\ command' \in Command
    BY <1>1 DEF Begin, TypeOK, Command
  <2>2. command'.out = command.out
    BY <1>1, <2>1 DEF Begin, Command
  <2>3. command # None /\ command' # None
    BY <2>1
  <2> QED
    BY <1>1, <2>1, <2>2, <2>3
       DEF Begin, TypeOK, FramesWhole, CommandInv, WaitInv
<1>2. CASE Finish
  <2>1. /\ command \in Command
        /\ command.out \in Pool
        /\ command.out = target
        /\ target \notin downstream
    BY <1>2 DEF Finish, TypeOK, Command, CommandInv
  <2>2. /\ output'[target] = input
        /\ \A d \in downstream : output'[d] = output[d]
    BY <1>2, <2>1 DEF Finish, TypeOK
  <2>3. TypeOK'
    BY <1>2, <2>1 DEF Finish, TypeOK
  <2>4. FramesWhole'
    BY <1>2, <2>1, <2>2 DEF Finish, FramesWhole
  <2>5. CommandInv' /\ WaitInv'
    BY <1>2, <2>1, <2>2 DEF Finish, CommandInv, WaitInv
  <2> QED BY <2>3, <2>4, <2>5
<1>3. ASSUME NEW b \in Pool, Release(b)
      PROVE  KernelInv'
  BY <1>3 DEF Release, TypeOK, FramesWhole, CommandInv, WaitInv
<1> QED BY <1>1, <1>2, <1>3

\* KernelInv is inductive.
THEOREM KernelInvariant == Spec => []KernelInv
<1>1. KernelInv /\ [Next]_vars => KernelInv'
  <2>1. ASSUME KernelInv, UNCHANGED vars
        PROVE  KernelInv'
    BY <2>1 DEF KernelInv, vars, TypeOK, FramesWhole, CommandInv, WaitInv
  <2> QED BY <2>1, KernelStep, OutsideStep DEF Next
<1> QED BY <1>1, InitKernelInv, PTL DEF Spec

\* Status and parameters agree, and frames and command stay what they are, for
\* any pool (vvas_xpp_pipeline.c:78-190).
THEOREM KernelTypeCorrect == Spec => []TypeOK
BY KernelInvariant, PTL DEF KernelInv

\* An output frame that goes downstream is complete, and the accelerator does
\* not write to it there, although commands outlive a wait that was given up
\* (vvas_xpp_pipeline.c:182).
THEOREM FramesSafe == Spec => []FramesWhole
BY KernelInvariant, PTL DEF KernelInv

\* Parameters are freed under the accelerator only after a timeout
\* (vvas_xpp_pipeline.c:72).
THEOREM ParamsSafe == Spec => []ParamsLive
<1>1. KernelInv => ParamsLive
  BY DEF KernelInv, TypeOK, CommandInv, ParamsLive
<1> QED BY <1>1, KernelInvariant, PTL

==============================================================================
