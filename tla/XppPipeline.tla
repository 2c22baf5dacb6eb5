----------------------------- MODULE XppPipeline -----------------------------
(***************************************************************************)
(* The preprocessing kernel, vvas_xpp_pipeline.c, between the framework    *)
(* that calls it and the accelerator it commands.                          *)
(*                                                                         *)
(* init puts the mean and scale values in a parameter buffer.  start       *)
(* issues one command and waits up to 1000 ms for it; the accelerator      *)
(* reads the input frame and the parameters and writes the output frame,   *)
(* and is not told when a wait is given up.  Framework and accelerator are *)
(* external: an error from start ends the pipeline, which closes the       *)
(* kernel; an output frame returned with success goes downstream and comes *)
(* back to the pool some time later.                                       *)
(***************************************************************************)
EXTENDS Naturals

CONSTANTS
  Pool,        \* the output frames of the pool
  MaxFrames,   \* bounds the frames of a behaviour
  None

ASSUME FramesAssumption == MaxFrames \in Nat

VARIABLES
  status,      \* of the kernel, as the framework sees it
  params,      \* the parameter buffer
  input,       \* number of the frame being handed to start
  output,      \* contents of the output frames, the input they were made of
  command,     \* what the accelerator has been told to do
  target,      \* the output frame start was called with
  downstream,  \* output frames the rest of the pipeline has
  late         \* a wait has timed out

vars == <<status, params, input, output, command, target, downstream, late>>

Partial == 0   \* not, or not wholly, written

\* A command refers to its buffers: it uses what they hold when it runs.
Command == [out : Pool, begun : BOOLEAN]

ASSUME NoneAssumption == None \notin Pool \cup Command

TypeOK ==
  /\ status \in {"created", "ready", "waiting", "failed", "closed", "killed"}
  /\ params \in {"none", "set", "freed"}
  /\ status \in {"ready", "waiting", "failed"} <=> params = "set"
  /\ input \in 0..MaxFrames
  /\ output \in [Pool -> 0..MaxFrames]
  /\ command \in Command \cup {None}
  /\ target \in Pool \cup {None}
  /\ downstream \subseteq Pool
  /\ late \in BOOLEAN

Init ==
  /\ status = "created"
  /\ params = "none"
  /\ input = 0
  /\ output = [b \in Pool |-> Partial]
  /\ command = None
  /\ target = None
  /\ downstream = {}
  /\ late = FALSE

------------------------------------------------------------------------------

\* Every key of the configuration has a default.  A failed allocation is not
\* handled, and what it returned is written through.
xlnx_kernel_init ==
  /\ status = "created"
  /\ \/ status' = "ready" /\ params' = "set"
     \/ status' = "killed" /\ UNCHANGED params
  /\ UNCHANGED <<input, output, command, target, downstream, late>>

\* start up to the wait: the command is issued, or refused.
xlnx_kernel_start(b) ==
  /\ status = "ready"
  /\ input < MaxFrames
  /\ b \notin downstream
  /\ input' = input + 1
  /\ target' = b
  /\ output' = [output EXCEPT ![b] = Partial]
  /\ \/ command' = [out |-> b, begun |-> FALSE] /\ status' = "waiting"
     \/ UNCHANGED command /\ status' = "failed"
  /\ UNCHANGED <<params, downstream, late>>

\* Mutant: the frame is returned without waiting.
DoneAtOnce ==
  /\ status = "waiting"
  /\ status' = "ready"
  /\ downstream' = downstream \cup {target}
  /\ UNCHANGED <<params, input, output, command, target, late>>

\* The wait ends because the command has: start returns 0.
Done ==
  /\ status = "waiting"
  /\ command = None
  /\ status' = "ready"
  /\ downstream' = downstream \cup {target}
  /\ UNCHANGED <<params, input, output, command, target, late>>

\* Mutant: the result of the wait is not looked at.
TimeoutIgnored ==
  /\ status = "waiting"
  /\ command # None
  /\ status' = "ready"
  /\ late' = TRUE
  /\ downstream' = downstream \cup {target}
  /\ UNCHANGED <<params, input, output, command, target>>

\* Mutant: the wait has no limit.
TimeoutNever == FALSE /\ UNCHANGED vars

\* The wait ends after 1000 ms: start returns an error.
Timeout ==
  /\ status = "waiting"
  /\ command # None
  /\ status' = "failed"
  /\ late' = TRUE
  /\ UNCHANGED <<params, input, output, command, target, downstream>>

\* Mutant: the parameters are not freed.
xlnx_kernel_deinitKeep ==
  /\ status \in {"ready", "failed"}
  /\ status' = "closed"
  /\ UNCHANGED <<params, input, output, command, target, downstream, late>>

\* deinit frees the parameter buffer, whatever the accelerator is doing.
xlnx_kernel_deinit ==
  /\ status \in {"ready", "failed"}
  /\ status' = "closed"
  /\ params' = "freed"
  /\ UNCHANGED <<input, output, command, target, downstream, late>>

------------------------------------------------------------------------------
\* The accelerator and the rest of the pipeline.

Begin ==
  /\ command # None
  /\ ~command.begun
  /\ command' = [command EXCEPT !.begun = TRUE]
  /\ UNCHANGED <<status, params, input, output, target, downstream, late>>

Finish ==
  /\ command # None
  /\ command.begun
  /\ output' = [output EXCEPT ![command.out] = input]
  /\ command' = None
  /\ UNCHANGED <<status, params, input, target, downstream, late>>

Release(b) ==
  /\ b \in downstream
  /\ downstream' = downstream \ {b}
  /\ UNCHANGED <<status, params, input, output, command, target, late>>

Next ==
  \/ xlnx_kernel_init
  \/ \E b \in Pool : xlnx_kernel_start(b)
  \/ Done
  \/ Timeout
  \/ xlnx_kernel_deinit
  \/ Begin
  \/ Finish
  \/ \E b \in Pool : Release(b)

\* Time passes, so a wait ends one way or the other.  Nothing is assumed of
\* the accelerator, which may hang.
Spec == Init /\ [][Next]_vars /\ WF_vars(Done) /\ WF_vars(Timeout)

------------------------------------------------------------------------------

\* An output frame that has gone downstream was written to its end, from the
\* input it was asked for, and is not written while it is there.
FramesWhole ==
  /\ \A b \in downstream : output[b] # Partial
  /\ command # None => command.out \notin downstream
  /\ status = "ready" /\ target \in downstream => output[target] = input

\* The accelerator does not work with parameters that were freed, unless a
\* wait for it timed out (vvas_xpp_pipeline.c:72, 182).
ParamsLive == command # None /\ params = "freed" => late

\* start returns, even if the accelerator never answers.
StartReturns == status = "waiting" ~> status # "waiting"

==============================================================================
