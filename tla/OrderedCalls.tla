----------------------------- MODULE OrderedCalls -----------------------------
(***************************************************************************)
(* What the SIHA library promises a program: its calls take effect one     *)
(* after the other, each at once, as if the slot had no timing.            *)
(*                                                                         *)
(* Nothing of a mover is left here, no register, no start or done bit, no  *)
(* transfer in progress.  The state is what the next call will find: the   *)
(* buffer, the packets the module was configured with, and the results the *)
(* module has produced and that were not collected yet.  A wait does       *)
(* nothing, since there is nothing to wait for.                            *)
(*                                                                         *)
(* The promise is about results: what a program reads from the buffer when *)
(* it collects them.                                                       *)
(***************************************************************************)
EXTENDS Naturals, Sequences

CONSTANTS Addr, Data, Junk, Tids, Workloads

VARIABLES
  app,       \* the workload being executed
  pc,        \* index of the call being executed
  view,      \* what the calls so far have done
  results    \* what the program read last

orderedVars == <<app, pc, view, results>>

Raw(d) == [data |-> d, by |-> <<>>]

ReadBeat(v, a) == IF a \in Addr THEN v.mem[a] ELSE Raw(Junk)

Fresh ==
  [mem |-> [a \in Addr |-> Raw(Junk)],
   conf |-> [t \in Tids |-> <<>>],
   stream |-> <<>>]

------------------------------------------------------------------------------
\* The effect of each call on the view v.

Loaded(c, v) ==
  [v EXCEPT !.mem = [a \in Addr |-> IF a \in DOMAIN c.image THEN Raw(c.image[a])
                                    ELSE IF c.fresh THEN Raw(Junk) ELSE @[a]]]

Configured(c, v) ==
  [v EXCEPT !.conf[c.tid] =
     [k \in 1..c.size |-> ReadBeat(v, c.addr + k - 1).data]]

\* Each beat of the payload is processed under the packets configured so far.
Streamed(c, v) ==
  [v EXCEPT !.stream = @ \o
     [k \in 1..c.size |->
        [ReadBeat(v, c.addr + k - 1) EXCEPT !.by = Append(@, v.conf)]]]

Stored(c, v) ==
  [v EXCEPT !.mem = [a \in Addr |-> IF a \in c.addr..(c.addr + c.size - 1)
                                      THEN v.stream[a - c.addr + 1] ELSE @[a]],
            !.stream = SubSeq(@, c.size + 1, Len(@))]

Effect(c, v) ==
  CASE c.op = "Load" -> Loaded(c, v)
    [] c.op = "DataToAccel" /\ c.tid \in Tids -> Configured(c, v)
    [] c.op = "DataToAccel" /\ c.tid \notin Tids -> Streamed(c, v)
    [] c.op = "DataFromAccel" -> Stored(c, v)
    [] OTHER -> v

Window(c, mem) == [k \in 1..c.size |-> mem[c.addr + k - 1]]

------------------------------------------------------------------------------

OrderedInit ==
  /\ app \in Workloads
  /\ pc = 1
  /\ view = Fresh
  /\ results = <<>>

Call == app.calls[pc]

\* One call.  Results can be fetched only once the module has produced them.
Perform ==
  /\ pc <= Len(app.calls)
  /\ Call.op = "DataFromAccel" => Call.size <= Len(view.stream)
  /\ view' = Effect(Call, view)
  /\ results' = IF Call.op = "Collect" THEN Window(Call, view.mem) ELSE results
  /\ pc' = pc + 1
  /\ app' = app

OrderedSpec ==
  OrderedInit /\ [][Perform]_orderedVars /\ WF_orderedVars(Perform)

===============================================================================
