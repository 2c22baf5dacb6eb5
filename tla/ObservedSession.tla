--------------------------- MODULE ObservedSession ---------------------------
(***************************************************************************)
(* SlotSession with two history variables: the results the program read    *)
(* last, taken from the buffer as it was at that moment, and the view a    *)
(* program has of its calls if they take effect in order.  They restrict   *)
(* nothing.  They are what it takes to compare a session, where calls      *)
(* start transfers that run beside the CPU, with OrderedCalls, where each  *)
(* call is done when it returns.                                           *)
(***************************************************************************)
EXTENDS SlotSession

VARIABLES view, results

observedVars == <<reg, start, done, run, mem, conf, accelOn, fifo,
                  app, pc, stage, view, results>>

Ordered == INSTANCE OrderedCalls

ObservedInit ==
  /\ Init
  /\ view = Ordered!Fresh
  /\ results = <<>>

\* A call returns.
Returned ==
  /\ pc' # pc
  /\ view' = Ordered!Effect(Call, view)
  /\ results' = IF Call.op = "Collect" THEN Ordered!Window(Call, mem)
                                       ELSE results

ObservedNext ==
  /\ Next
  /\ \/ Returned
     \/ pc' = pc /\ UNCHANGED <<view, results>>

ObservedSpec == ObservedInit /\ [][ObservedNext]_observedVars /\ Fairness

\* Whatever the CPU and the movers do beside each other, the results the
\* program reads from the buffer (write in main, retrieveData) are those it
\* would read if each call of siha.c:136-204 were over when it returns, and
\* every call does return.
ActsInOrder == Ordered!OrderedSpec

==============================================================================
