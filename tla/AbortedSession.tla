---------------------------- MODULE AbortedSession ----------------------------
(***************************************************************************)
(* A process that may be killed at any register access, and the process    *)
(* that uses the slot after it.                                            *)
(*                                                                         *)
(* The calls of a workload before the one it names as second are those of  *)
(* the first process, the rest those of the second one.  Nothing in the    *)
(* applications puts the slot in order, neither when they start nor when   *)
(* they end; a user may reload the module in between (xmutil unloadapp and *)
(* loadapp).  The movers go on meanwhile.                                  *)
(*                                                                         *)
(* A workload marked reliant is one for movers that are ready in time, as  *)
(* with CpuMayOvertake = FALSE: its CPU stops where they are not, which on *)
(* a slot left with a stalled transfer may be for ever.                    *)
(***************************************************************************)
EXTENDS SlotSession

ASSUME SecondAssumption ==
  \A w \in Workloads : w.second \in 2..Len(w.calls) /\ w.reliant \in BOOLEAN

VARIABLES
  process,   \* which process is running, 0 between the two
  foundQuiet \* whether the second one found the slot quiet

crashVars == <<process, foundQuiet>>

abortedVars == <<reg, start, done, run, mem, conf, accelOn, fifo,
                 app, pc, stage, process, foundQuiet>>

\* Nothing is requested, running, reported or waiting to be fetched.  What
\* the registers and the module were last given does not matter.
Quiet ==
  /\ \A ch \in Channel : ~start[ch] /\ ~done[ch] /\ ~run[ch].busy
  /\ fifo = <<>>

AbortedInit == Init /\ process = 1 /\ foundQuiet = FALSE

\* The first process has made its last call, or it is killed.
End ==
  /\ process = 1
  /\ process' = 0
  /\ pc' = app.second
  /\ stage' = 1
  /\ UNCHANGED <<reg, start, done, run, mem, conf, accelOn, fifo, app,
                 foundQuiet>>

\* The slot is unloaded and loaded with the same module again.
Reload ==
  /\ process = 0
  /\ LoadModule(app.freeRunning)
  /\ UNCHANGED <<mem, app, pc, stage, process, foundQuiet>>

\* The second process gets a buffer, perhaps the pages of the first one.
Launch ==
  /\ process = 0
  /\ process' = 2
  /\ foundQuiet' = Quiet
  /\ mem' = [a \in Addr |-> Raw(Junk)]
  /\ UNCHANGED <<reg, start, done, run, conf, accelOn, fifo, app, pc, stage>>

\* A started mover has sampled its descriptor before the CPU rewrites it, and
\* has finished before its start bit is set again.
InTime ==
  \A ch \in Channel :
    At(StartOp(ch)) => IF stage <= Len(Fields(ch)) THEN start[ch] => run[ch].busy
                                                  ELSE ~start[ch]

Running ==
  /\ app.reliant => InTime
  /\ process = 1 => pc < app.second
  /\ process # 0
  /\ Cpu
  /\ UNCHANGED crashVars

AbortedNext ==
  \/ Running
  \/ Hardware /\ UNCHANGED crashVars
  \/ End
  \/ Reload
  \/ Launch
  \/ Exited /\ UNCHANGED crashVars

\* As in SlotSession.  Killing, reloading and launching are up to the user,
\* so nothing is said of them.
AbortedFairness ==
  /\ WF_abortedVars(Running)
  /\ \A ch \in Channel :
       /\ WF_abortedVars(Begin(ch) /\ UNCHANGED <<cpuVars, crashVars>>)
       /\ WF_abortedVars(Finish(ch) /\ UNCHANGED <<cpuVars, crashVars>>)
  /\ WF_abortedVars(ConfigBeat /\ UNCHANGED <<cpuVars, crashVars>>)
  /\ WF_abortedVars(PayloadBeat /\ UNCHANGED <<cpuVars, crashVars>>)
  /\ WF_abortedVars(ResultBeat /\ UNCHANGED <<cpuVars, crashVars>>)

AbortedSpec ==
  AbortedInit /\ [][AbortedNext]_abortedVars /\ AbortedFairness

------------------------------------------------------------------------------

\* A process that finds the slot quiet gets the results of its own key,
\* configuration and input, and reports no packet too early, wherever the
\* process before it was killed and whatever it left in the registers, in
\* the module and in the buffer.
QuietSlotSuffices ==
  process = 2 /\ foundQuiet => ResultsExact /\ ReportsTrue

\* And fir and fft never mistake a request or a done bit for their own there.
QuietSlotHandshakes ==
  process = 2 /\ foundQuiet /\ ~app.reliant => NoLostStart /\ DoneIsFresh

\* None of its waits is for ever.
QuietSlotTerminates == process = 2 /\ foundQuiet ~> Terminated

==============================================================================
