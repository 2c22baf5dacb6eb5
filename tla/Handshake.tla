------------------------------ MODULE Handshake ------------------------------
(***************************************************************************)
(* The calling discipline the start and done bits of the movers ask for.   *)
(* A transfer is outstanding before call p of a program c if it was        *)
(* started and not awaited since.  A program follows the discipline if it  *)
(* starts a mover only when nothing is outstanding on it, and awaits a     *)
(* mover only when something is.                                           *)
(***************************************************************************)
EXTENDS Naturals, Sequences

\* The two data movers of a slot, named as their registers in lib/siha.h.
Channel == {"MM2S", "S2MM"}

\* The calls that start a transfer on a mover and that wait for one.
StartOp(ch) == IF ch = "MM2S" THEN "DataToAccel" ELSE "DataFromAccel"
AwaitOp(ch) == IF ch = "MM2S" THEN "DataToAccelDone" ELSE "DataFromAccelDone"

Outstanding(c, p, ch) ==
  \E i \in 1..(p - 1) :
    /\ c[i].op = StartOp(ch)
    /\ \A j \in (i + 1)..(p - 1) : c[j].op # AwaitOp(ch)

Handshaked(c) ==
  \A p \in 1..Len(c) : \A ch \in Channel :
    /\ c[p].op = StartOp(ch) => ~Outstanding(c, p, ch)
    /\ c[p].op = AwaitOp(ch) => Outstanding(c, p, ch)

==============================================================================
